CONSTANTS
    Tasks = {a, b}
    Lead = a
    Host <- MCHost
    MaxAttempts = 2
    Names = {1, 2, 3, 4, 5, 6, 7, 8}
    MaxExpiries = 1
SPECIFICATION AcmeSpec
CHECK_DEADLOCK FALSE
INVARIANTS NonceUsedOnce EffectsHappenOnce
