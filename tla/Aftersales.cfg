CONSTANTS
    p1 = p1  p2 = p2  p3 = p3
    Methods = {"cash", "prepaid"}
    Units = 2
    MaxRetries = 2
    Procs = {p1, p2}
    MaxFails = 2
    MaxRefusals = 1
    MaxOverlaps = 1
    MaxCrashes = 1
SPECIFICATION Spec
INVARIANTS DeliveredIsSettled ReceivableCleared CancelledIsReturned RefundsAgree
SYMMETRY Symmetry
CHECK_DEADLOCK FALSE
