CONSTANTS
    InitialStates <- FirstStart
    Commands <- AllCommands
    MaxBlock = 2
    MaxCommands = 3
    MaxStarts = 2
    MaxStops = 1
    MaxCrashes = 1
    MaxStoreFailures = 1
SPECIFICATION Spec
INVARIANTS TypeOK RangeWellFormed ReplicaIsSilent
CHECK_DEADLOCK FALSE
