SPECIFICATION Spec
CONSTANTS
    o1 = o1
    o2 = o2
    o3 = o3
    l1 = l1
    l2 = l2
    p1 = p1
    p2 = p2
    captured = captured
    authorized = authorized
    FailEvent = failEvent
    NoOrder = NoOrder
    NoEvent = NoEvent
    Orders <- MCOneOrder
    Listings <- MCOneListing
    Basket <- MCOneBasket
    Method <- MCAsync
    InitialStock = 1
    CaptureEvents <- MCEvents
    Procs <- MCProcs
    MaxFaults = 1
    HoldsExpire = TRUE
    OnePerOrder = FALSE
INVARIANTS
    ConfirmedIsBacked
    ConfirmedOnce
SYMMETRY MCSymmetry
CHECK_DEADLOCK FALSE
