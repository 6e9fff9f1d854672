SPECIFICATION FairSpec
CONSTANTS
    Orders = {o1}
    NoOrder = NoOrder
    Quantity = 4
    MaxRestarts = 0
    DbMayFail = FALSE
    ErrorMayHideOrder = FALSE
PROPERTIES FailedTakeProfitRetried
CHECK_DEADLOCK FALSE
