SPECIFICATION QueueSpec
CONSTANTS
    Unranked = 5
    MaxBatch = 4
    Budget = 3
    MaxCallCost = 1
INVARIANTS
    NothingTwice
    UnrankedForAReason
    OneCallOver
PROPERTIES
    RunEnds
