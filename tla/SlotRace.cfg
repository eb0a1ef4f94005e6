SPECIFICATION Spec
CONSTANTS
    u1 = u1
    u2 = u2
    p1 = p1
    p2 = p2
    r1 = r1
    r2 = r2
    r3 = r3
    NoUser = NoUser
    Users <- MCUsers
    Procs <- MCProcs
    Rows <- MCRows
    Capacities <- MCOneTwo
SYMMETRY MCSymmetry
INVARIANTS ReservedWithinPeak NoOversellAlone UnitsCovered
PROPERTY ConfirmedDurable
CHECK_DEADLOCK FALSE
