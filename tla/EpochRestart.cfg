SPECIFICATION Spec
CONSTANTS
    EpochSize = 6
    lookbackWindow = 2
    Bitmaps <- OneOfTwo
    Elections <- OneElection
    Batches <- ThreeAhead
    None = None
    MaxNumber = 6
    RestartHeads = {5}
INVARIANT ScorePerSigner
CONSTRAINT SealsOfForks
CHECK_DEADLOCK FALSE
