SPECIFICATION Spec
CONSTANTS
    EpochSize = 6
    lookbackWindow = 2
    Bitmaps <- OneOfTwo
    Elections <- OneElection
    Batches <- ThreeAhead
    None = None
    MaxNumber = 12
    RestartHeads = {3, 5, 6, 9}
INVARIANTS
    TypeOK
    TallyRight
    EveryoneScored
    NextBlockAccepted
    SnapshotsRight
CONSTRAINT SealsOfForks
CHECK_DEADLOCK FALSE
