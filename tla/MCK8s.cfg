SPECIFICATION K8sFairSpec
CONSTANTS
  Environment = {}
  U16Max = 65535
  U32Max = 1000000
  ValidCidrs = {}
  ControllerName = "pulsate"
  MaxLabel = 3
  MaxHost = 6
  Gateways <- MCGateways
  ListenerLists <- MCListenerLists
  RouteIds <- MCRouteIds
  RouteSpecs <- MCRouteSpecs
  StartRoutes <- MCStart
  Accepts <- MCAccepts
  MaxEdits = 2
CHECK_DEADLOCK FALSE
INVARIANTS StatusIsEarned TranslationCompiles 
PROPERTIES Converges
