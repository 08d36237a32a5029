SPECIFICATION FairSpec
CONSTANTS
    MaxId = 4
    BatchSize = 2
    StartOrders = {"compose", "install"}
    MaxRefreshes = 1
    MaxCrashes = 2
INVARIANTS
    TypeOK
    ReadyMeansSealed
PROPERTIES
    InstallKeepsTokens
    MigrationEnds
