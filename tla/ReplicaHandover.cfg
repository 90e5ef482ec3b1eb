CONSTANTS
    InitialStates <- WithRange
    Commands = {}
    MaxBlock = 4
    MaxCommands = 0
    MaxStarts = 1
    MaxStops = 0
    MaxCrashes = 0
    MaxStoreFailures = 0
SPECIFICATION FairSpec
PROPERTIES StopsAtStopBlock StartsAtStartBlock
CHECK_DEADLOCK FALSE
