SPECIFICATION FairSpec
CONSTANTS
    k1 = k1
    k2 = k2
    k3 = k3
    p1 = p1
    p2 = p2
    NoKey = NoKey
    Keys <- MCThreeKeys
    Procs <- MCTwoProcs
    CasAttempts = 1
    MaxTroubles = 1
INVARIANTS
    ChainVerifies
PROPERTIES
    ImplementsHashChain
    UnanchoredFolded
CHECK_DEADLOCK FALSE
