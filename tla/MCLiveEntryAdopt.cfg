SPECIFICATION FairSpec
CONSTANTS
    Tokens = {t1}
    Orders = {o1}
    NoToken = NoToken
    NoOrder = NoOrder
    MaxOpen = 1
    MaxRestarts = 1
    ReservationReadMayFail = FALSE
    ErrorMayHideOrder = TRUE

PROPERTIES JournaledFillAdopted
CHECK_DEADLOCK FALSE
