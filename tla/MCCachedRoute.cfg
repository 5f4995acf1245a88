SPECIFICATION MCSpec
CONSTANTS
    StoreKeys = {k1, k2, k3, k4}
    Workers = {w1, w2}
    Requests <- MCRequests
    Answers <- MCAnswers
    Responses <- MCResponses
    Keys <- MCKeys
    AllowedOrigins = {"o1"}
    Tags = {"a"}
    Vary = {"accept"}
    DefaultTtl = 1
    SWR = 1
    MaxEntries = 3
    MaxBody = 3
    MaxTotal = 2
    MaxAge = 3
    Flight = 1
SYMMETRY Symmetry
INVARIANTS  BoundedStaleness WithinBudgets
 
