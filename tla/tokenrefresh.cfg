SPECIFICATION FairSpec
CONSTANTS
    Accounts = {a1, a2}
    Concurrency = 1
    MaxRetries = 3
    MaxIssued = 2
    MaxCrashes = 1
INVARIANTS
    TypeOK
    ReceivedIsStored
    PermanentIsFinal
    TransientAfterAllAttempts
PROPERTIES
    ReplacedBySuccess
    BatchEnds
