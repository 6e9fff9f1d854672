SPECIFICATION FairSpec
CONSTANTS
    PoolTypes = {"v2", "v3"}
    Chunk = 1
    MaxBlock = 3
    FactoryOrder <- MCOrder
    Scenarios <- MCScenarios
INVARIANTS
    NoPoolSkipped
PROPERTIES
    MigratedPoolKept
    GapReached
