SPECIFICATION Spec
CONSTANTS
    Orders = {o1}
    NoOrder = NoOrder
    Quantity = 4
    MaxRestarts = 0
    DbMayFail = FALSE
    ErrorMayHideOrder = FALSE
SYMMETRY Interchangeable
INVARIANTS NothingLeftBehind
CHECK_DEADLOCK FALSE
