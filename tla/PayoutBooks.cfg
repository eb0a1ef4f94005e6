CONSTANTS
    l1 = l1  l2 = l2  a1 = a1  u1 = u1  u2 = u2  p1 = p1  p2 = p2
    Lines = {l1, l2}
    Cycles = {1, 2, 3}
    Adjustments = {a1}
    Approvers = {u1}
    Procs = {p1}
    MinPayout = 2
    DualAt = 9
    MaxOverlaps = 0
    MaxCrashes = 0
    MaxFailures = 1
SPECIFICATION Spec
INVARIANTS BooksMatchLines NeverOverpaidAlone
CONSTRAINT Straight
SYMMETRY Symmetry
CHECK_DEADLOCK FALSE
