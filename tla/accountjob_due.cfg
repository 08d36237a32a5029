SPECIFICATION Spec
CONSTANTS
    MaxId = 2
    BatchSize = 1
    Kinds = {"refresh"}
    Scopes = {"due"}
    MaxCrashes = 0
INVARIANTS DueJobCoversDue
