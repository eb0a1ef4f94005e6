SPECIFICATION FairSpec
CONSTANTS
    o1 = o1
    o2 = o2
    o3 = o3
    l1 = l1
    l2 = l2
    p1 = p1
    p2 = p2
    captured = captured
    authorized = authorized
    FailEvent = failEvent
    NoOrder = NoOrder
    NoEvent = NoEvent
    Orders <- MCThreeOrders
    Listings <- MCListings
    Basket <- MCBaskets
    Method <- MCPrepaidAndCash
    InitialStock = 1
    CaptureEvents <- MCCaptured
    Procs <- MCProcs
    MaxFaults = 0
    HoldsExpire = FALSE
    OnePerOrder = TRUE
INVARIANTS
    StockConserved
    CancelledIsRefunded
PROPERTY CheckoutSettles
CHECK_DEADLOCK FALSE
