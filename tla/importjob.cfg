SPECIFICATION FairSpec
CONSTANTS
    Emails = {e1, e2}
    MaxLines = 3
    BatchSize = 2
    Modes = {"update", "skip"}
    MaxCrashes = 1
INVARIANTS
    TypeOK
    AsIfLineByLine
    CountsAddUp
PROPERTIES
    ContractSpec
    ImportEnds
