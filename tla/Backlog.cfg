SPECIFICATION Spec
CONSTANTS
    valA = valA  valB = valB  self = self
    Self = self
    Validators = {valA, valB, self}
    Messages <- ManyAhead
    Copies = 1
    LastSequence = 2
    LastRound = 1
    acceptMaxFutureSequence = 2
    acceptMaxFutureMsgsFromOneValidator = 2
    acceptMaxFutureMessages = 3
    acceptMaxFutureMessagesPruneBatch = 2
    maxRoundForPriorityQueue = 2
INVARIANTS TypeOK CountersMatch NothingDueWaits BacklogBounded
PROPERTY FutureOfSequenceKept
CHECK_DEADLOCK FALSE
