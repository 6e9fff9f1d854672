SPECIFICATION Spec
CONSTANTS
    NoTrade = 3
    Window = 3
    Interval = 1
    Fresh = 1
    Confirmations = 1
    MaxLag = 0
    MaxCall = 1
    NodeLag = 0
    QueueMax = 1
    MaxTime = 4
    TradeBlocks = {1, 2}
    MaxBreaks = 1

INVARIANTS FlowIInv
PROPERTIES VerdictCovered ReceivedTradeKeepsPool
CHECK_DEADLOCK FALSE
