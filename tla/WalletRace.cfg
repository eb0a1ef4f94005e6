SPECIFICATION WalletSpec
CONSTANTS
    y1 = y1
    y2 = y2
    p1 = p1
    p2 = p2
    NoPayment = NoPayment
    NoToken = NoToken
    Payments <- MCPayments
    Requests <- MCProcs
    InitialBalance = 1
    MaxCredits = 1
    MaxCrashes = 1
    MaxAttempts = 3
INVARIANTS
    NoLostUpdate
    SuccessWasDebited
    DebitedOnceAlone
SYMMETRY MCSymmetry
CHECK_DEADLOCK FALSE
