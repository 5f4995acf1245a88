SPECIFICATION FrontEndSpec
CONSTANTS
  Environment <- MCEnvironment
  U16Max = 65535
  U32Max = 1000000
  Docs <- MCDocs
  ValidCidrs = {"10/8"}
  Hosts <- MCHosts
  Paths <- MCPaths
  Methods <- MCMethods
  Numerals <- MCNumerals
  Foreign <- MCForeign
  Texts <- MCTexts
  MaxText = 4
  AnyLen = 3
  MaxLen = 6
INVARIANTS   EverythingIsBuilt OrderOnlyBreaksTies   
