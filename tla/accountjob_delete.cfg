SPECIFICATION Spec
CONSTANTS
    MaxId = 2
    BatchSize = 1
    Kinds = {"refresh"}
    Scopes = {"selected"}
    MaxCrashes = 0
INVARIANTS DeletedAreSkipped
