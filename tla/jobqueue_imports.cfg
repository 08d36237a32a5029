SPECIFICATION Spec
CONSTANTS
    i1 = i1
    i2 = i2
    c1 = c1
    Jobs = {i1, i2}
    Kind <- TwoImports
    Requests = {r1}
    NoJob = NoJob
    MaxBatches = 2
    MaxRestarts = 1
SYMMETRY SwapImports
INVARIANTS
    TypeOK
    RunningIsHeld
    AckedImportKeepsSpool
    EqualPriorityInTurn
PROPERTIES
    EndedStaysEnded
    CancelledWorkStops
    ContractSpec
