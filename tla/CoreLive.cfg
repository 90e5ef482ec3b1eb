SPECIFICATION FairSpec
CONSTANTS
    a = a  b = b  c = c  d = d  x = x  y = y
    NoBlock = NoBlock
    ParentAuthor = zero
    Proposals = {x, y}
    Faulty = {}
    FaultyPreprepares = {}
    FaultyRoundChanges = {}
    Validators = {a, b}
    Author <- MadeByAB
    selectProposer <- TwoProposers
    LastRound = 1
    MaxCrashes = 1
INVARIANTS
    TypeOK
    RoundBehindDesired
    CommitKeepsCertificate
PROPERTIES
    ViewNeverRegresses
    EveryoneDecides
    WaitingEnds

CHECK_DEADLOCK FALSE
