SPECIFICATION Spec
CONSTANTS
    a = a  b = b  c = c  d = d  x = x  y = y
    NoBlock = NoBlock
    ParentAuthor = zero
    Proposals = {x, y}
    Validators = {a, b, c, d}
    Faulty = {d}
    FaultyPreprepares <- TwoPreprepares
    FaultyRoundChanges = {}
    Author <- MadeByD
    selectProposer <- FourProposers
    LastRound = 0
    MaxCrashes = 1
INVARIANTS
    OneVotePerRound
    PreparedCertificatesAgree
PROPERTIES
    ChoosesPerRound
CONSTRAINT NoCommitReachesC
VIEW ReadableState
CHECK_DEADLOCK FALSE
SYMMETRY SwapBlocks
