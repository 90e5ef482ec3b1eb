CONSTANTS
    InitialStates <- FirstStart
    Commands <- AllCommands
    MaxBlock = 2
    MaxCommands = 1
    MaxStarts = 1
    MaxStops = 0
    MaxCrashes = 0
    MaxStoreFailures = 0
SPECIFICATION FairSpec
PROPERTIES MakeReplicaStopsCore
CHECK_DEADLOCK FALSE
