SPECIFICATION Spec
CONSTANTS
    u = u  w = w
    Voters = {u, w}
    Quorum = 2
    Blocks = {x, y}
    NoBlock = NoBlock
    Absent = Absent
    Down = Down
    sequencesToSave = 1
    MaxSequence = 3
    MaxRound = 1
    MaxFailures = 1
    MaxCrashes = 1
INVARIANTS
    TypeOK
    CanRestart
    EvidenceKept
    OneVotePerView
    VotesMatchProposal
    RestoresCurrent
    CollectedForGood
CONSTRAINTS
    FirstSequence
    VotesInOrder
VIEW ReadableState
CHECK_DEADLOCK FALSE
