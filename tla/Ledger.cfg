SPECIFICATION FairSpec
CONSTANTS
    s1 = s1
    s2 = s2
    r1 = r1
    r2 = r2
    p1 = p1
    p2 = p2
    clearing = clearing
    vendor = vendor
    commission = commission
    Source = clearing
    NoKey = NoKey
    SaleKeys <- MCSaleKeys
    ReversalKeys <- MCReversalKeys
    SaleLines <- MCSaleLines
    ReversalOf <- MCReversalOf
    ReversalAmount <- MCTwos
    Procs <- MCProcs
    MaxCrashes = 1
    Repairers <- MCRepairers
INVARIANTS PostedOnce TrialBalance NeverOverReversedAlone
PROPERTY ViewConverges
CHECK_DEADLOCK FALSE
