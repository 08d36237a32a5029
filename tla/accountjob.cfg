SPECIFICATION FairSpec
CONSTANTS
    MaxId = 3
    BatchSize = 2
    Kinds = {"health"}
    Scopes = {"all", "selected", "due"}
    MaxCrashes = 1
PROPERTIES JobEnds ContractSpec
INVARIANTS
    TypeOK
    CountersMatch
    SnapshotOnly
    CompletedCoversSnapshot
    ParkedIffInvalid
