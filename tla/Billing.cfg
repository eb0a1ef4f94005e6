CONSTANTS
    p1 = p1  p2 = p2
    Plans = {1, 2}
    Periods = 2
    Procs = {p1, p2}
    MaxChanges = 1
    MaxOrders = 2
    MaxTroubles = 1
SPECIFICATION Spec
SYMMETRY Symmetry
INVARIANTS BilledOnce StandingMatchesDebt CapturedIsCredited
CHECK_DEADLOCK FALSE
