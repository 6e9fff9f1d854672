SPECIFICATION Spec
CONSTANTS
    Signals = {s1, s2}
    SolanaSignals = {s1}
    Mints = {m1, m2}
    Quantity = 4
    Marks = {"crash", "down", "tp2"}
    MaxOpenPositions = 1
    MaxLargeLosses = 1
    LiveMaxEntries = 1
    MaxRestarts = 1
SYMMETRY TokenSymmetry
INVARIANTS
    CapacityRespected
    OneLifecyclePerMint
    LadderBooked
    HandlersComplete
    PendingIsOwned
    OneSwapMined
    WalletBacked
PROPERTIES
    PausedAfterLosses
    ClosedIsFinal
    ImplementsLifecycle
CHECK_DEADLOCK FALSE

