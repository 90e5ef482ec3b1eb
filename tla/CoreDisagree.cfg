SPECIFICATION Spec
CONSTANTS
    a = a  b = b  c = c  d = d  x = x  y = y
    NoBlock = NoBlock
    ParentAuthor = zero
    Proposals = {x, y}
    Faulty = {}
    FaultyPreprepares = {}
    FaultyRoundChanges = {}
    Validators = {a, b, c}
    Author <- MadeByAB
    selectProposer <- ThreeProposers
    LastRound = 2
    MaxCrashes = 0
INVARIANT Agreement
CONSTRAINT OneAbsentPerRound
VIEW ReadableState
CHECK_DEADLOCK FALSE
