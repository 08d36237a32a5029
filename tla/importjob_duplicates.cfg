SPECIFICATION Spec
CONSTANTS
    Emails = {e1}
    MaxLines = 2
    BatchSize = 2
    Modes = {"update"}
    MaxCrashes = 0
INVARIANTS
    DuplicatesUpdate
