SPECIFICATION FairSpec
CONSTANTS
    Slots = 3
    Zones <- WestAndEast
    MaxChanges = 2
    MaxCrashes = 1
INVARIANTS
    TypeOK
    OneScheduled
PROPERTIES
    OncePerDate
    DueGetsJob
