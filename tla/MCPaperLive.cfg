SPECIFICATION FairSpec
CONSTANTS
    Signals = {s1}
    SolanaSignals = {s1}
    Mints = {m1}
    Quantity = 4
    Marks = {"down", "tp2"}
    MaxOpenPositions = 1
    MaxLargeLosses = 1
    LiveMaxEntries = 1
    MaxRestarts = 1
PROPERTIES
    DeadlineHolds
    SnapshotSettles
CHECK_DEADLOCK FALSE
