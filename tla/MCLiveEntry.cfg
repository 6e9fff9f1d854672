SPECIFICATION FairSpec
CONSTANTS
    Tokens = {t1, t2}
    Orders = {o1, o2}
    NoToken = NoToken
    NoOrder = NoOrder
    MaxOpen = 1
    MaxRestarts = 1
    ReservationReadMayFail = FALSE
    ErrorMayHideOrder = TRUE
INVARIANTS IInv CapacityRespected NothingUnaccounted OneOrderPerToken
PROPERTIES NoSecondEntry ImplementsLimit TrackedOrderSettles
CHECK_DEADLOCK FALSE
