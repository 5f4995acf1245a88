CONSTANTS
    Callers = {c1, c2}
    Texts = {textA, broken}
    ValidTexts = {textA}
    InitText = textA
    NoGeneration = NoGeneration
    MaxGeneration = 2
    Scopes <- MCScopes
    Presented <- MCPresented
    Capacity = 2
    MaxAudit = 3
    MaxRollbacks = 1
SPECIFICATION CFairSpec
CHECK_DEADLOCK FALSE
INVARIANTS GenerationNamesOneConfig OnlyValidatedRuns TellsWhatRan AuditFeedIsOrdered
PROPERTIES GrpcServerStops
