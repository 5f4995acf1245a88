SPECIFICATION FairSpec
CONSTANTS
    Workers <- MCWorkers
    N = 2
    Policies = {"RoundRobin", "LeastConn"}
    Attempts = 2
    RetryOnConnectError = TRUE
    Threshold = 1
    OpenFor = 2
    ClientHash <- MCHash
    RRSpan = 2
    MaxLeaks <- MCLeaks
INVARIANTS InflightAccountsForRequests FailureCountBounded 
PROPERTIES EjectedIsReadmitted
