SPECIFICATION Spec
CONSTANTS
    Prices = {7, 9, 10, 15, 20, 30}
    Floor = 9
    Ceiling = 10
    EntryPrice = 10
    Ids = {1, 2}
    Scenarios <- MCScenarios
INVARIANTS
    TypeOK
    StagesBookedOnce
    OpenKeepsCandidate
PROPERTIES
    EntryRules
    CommittedExitSold
    ImplementsTradeBook
CHECK_DEADLOCK FALSE
