CONSTANTS
    p1 = p1  p2 = p2
    Baskets <- MCBaskets
    Tables <- MCTables
    Discounts = {20}
    Fees = {30}
    Inclusive = {TRUE, FALSE}
    CommissionBps = 1500
    Amounts = {150}
    FeeWhen = {"full_order_return_only"}
    MaxRefunds = 2
    Writers = {p1, p2}
    MaxStops = 1
SPECIFICATION SaleSpec
CONSTRAINT Apart
SYMMETRY Symmetry
CHECK_DEADLOCK FALSE
INVARIANT LinesMatchCredits
