SPECIFICATION FairSpec
CONSTANTS
    N = 2
    Seeds <- MCSeeds
    Fanout = 2
    Helpers = 1
    Probes = {1}
    RRSpan = 1
    MaxFrames = 1
    MaxIncarnation = 1
    MaxCount <- MCCount
    MaxStops = 1
    MaxReborn = 1
INVARIANTS CounterNeverAhead ViewMatchesPeers
PROPERTIES DeathIsOutbidOnly StopIsDetected
