SPECIFICATION Spec
CONSTANTS
    Orders = {o1, o2}
    NoOrder = NoOrder
    Quantity = 4
    MaxRestarts = 1
    DbMayFail = FALSE
    ErrorMayHideOrder = FALSE
SYMMETRY Interchangeable
INVARIANTS TypeOK ClaimCoversOrder RealizedIsReal LadderPaid LadderInOrder
PROPERTIES ClosedForGood
CHECK_DEADLOCK FALSE
