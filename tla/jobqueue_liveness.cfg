SPECIFICATION FairSpec
CONSTANTS
    i1 = i1
    i2 = i2
    c1 = c1
    Jobs = {i1, c1}
    Kind <- ImportScheduled
    Requests = {r1}
    NoJob = NoJob
    MaxBatches = 2
    MaxRestarts = 1
PROPERTIES
    EveryJobEnds
    OrphansCollected
