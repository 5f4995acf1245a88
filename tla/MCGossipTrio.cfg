SPECIFICATION Spec
CONSTANTS
    N = 3
    Seeds <- MCSeeds
    Fanout = 2
    Helpers = 1
    Probes = {1}
    RRSpan = 2
    MaxFrames = 1
    MaxIncarnation = 0
    MaxCount <- MCNoCount
    MaxStops = 1
    MaxReborn = 0
INVARIANT ViewMatchesPeers
