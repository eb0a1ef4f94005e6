CONSTANTS
    l1 = l1  l2 = l2  a1 = a1  u1 = u1  u2 = u2  p1 = p1  p2 = p2
    Lines = {}
    Cycles = {1}
    Adjustments = {a1}
    Approvers = {u1, u2}
    Procs = {p1, p2}
    MinPayout = 1
    DualAt = 1
    MaxOverlaps = 2
    MaxCrashes = 1
    MaxFailures = 2
SPECIFICATION Spec
INVARIANTS DualApproval InstructedOnce StateMatchesProvider
PROPERTY AmbiguousResolved
CHECK_DEADLOCK FALSE
