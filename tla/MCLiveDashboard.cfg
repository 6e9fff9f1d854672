SPECIFICATION Spec
CONSTANTS
    Processes = {"engine", "dashboard"}
    Orders = {o1, o2}
    NoOrder = NoOrder
    Quantity = 4
    ErrorMayHideOrder = FALSE
    MaxDeaths = 0
INVARIANTS OneSellAtATime
CHECK_DEADLOCK FALSE
