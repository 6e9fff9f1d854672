SPECIFICATION FairSpec
CONSTANTS
    Orders = {o1, o2}
    NoOrder = NoOrder
    Quantity = 2
    MaxRestarts = 0
    DbMayFail = TRUE
    ErrorMayHideOrder = FALSE
INVARIANTS OneSellOrder
PROPERTIES TrackedSellSettles HalfSoldOnce
CHECK_DEADLOCK FALSE
