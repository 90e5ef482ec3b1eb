----------------------------- MODULE MsgBacklog -----------------------------
(***************************************************************************)
(* The backlog of future messages of one validator (core/backlog.go),      *)
(* driven by the event loop of its core: messages arrive from the network  *)
(* in any order and any number of times, the core moves from view to view, *)
(* and each move posts the backlog messages that are due, each by a        *)
(* goroutine of its own.                                                   *)
(***************************************************************************)
EXTENDS Integers, FiniteSets, CoreTypes

CONSTANTS Validators,     \* addresses of the validator set
          Self,           \* c.address
          Messages,       \* the messages that validators send
          Copies,         \* bound: deliveries of one message by the network
          LastSequence,   \* bound: sequences of a run
          LastRound,      \* bound: rounds of a run
          acceptMaxFutureSequence,
          acceptMaxFutureMsgsFromOneValidator,
          acceptMaxFutureMessages,
          acceptMaxFutureMessagesPruneBatch,
          maxRoundForPriorityQueue

MsgPreprepareV2 == "preprepareV2"
MsgPrepare == "prepare"
MsgCommit == "commit"
MsgRoundChangeV2 == "roundChangeV2"

MessageCode == {MsgPreprepareV2, MsgPrepare, MsgCommit, MsgRoundChangeV2}
Message == [code : MessageCode, sequence : Nat, round : Nat, src : Validators]

ASSUME BacklogAssumption ==
    /\ Messages \subseteq Message
    /\ Copies \in Nat /\ LastSequence \in Nat /\ LastRound \in Nat
    /\ acceptMaxFutureSequence \in Nat
    /\ acceptMaxFutureMsgsFromOneValidator \in Nat
    /\ acceptMaxFutureMessages \in Nat
    /\ acceptMaxFutureMessagesPruneBatch \in Nat
    /\ maxRoundForPriorityQueue \in Nat

VARIABLES view,           \* c.current, and the backlog's currentView, currentState
          backlogBySeq,   \* how many times each message is in the backlog
          msgCountBySrc,
          msgCount,
          posted,         \* backlogEvents on their way to the event loop
          network         \* deliveries of each message that are still to come

vars == <<view, backlogBySeq, msgCountBySrc, msgCount, posted, network>>

\* The round of a view is its desired round: checkMessage reads no other.
View == [sequence : Nat, desiredRound : Nat,
         state : StateAcceptRequest .. StateWaitingForNewRound]

TypeOK ==
    /\ view \in View
    /\ backlogBySeq \in [Messages -> Nat]
    /\ msgCountBySrc \in [Validators -> Nat]
    /\ msgCount \in Nat
    /\ posted \in [Messages -> Nat]
    /\ network \in [Messages -> 0 .. Copies]

-----------------------------------------------------------------------------
(***************************************************************************)
(* When a message is due, and in which order the queue of a sequence gives *)
(* its messages out.                                                       *)
(***************************************************************************)
errOldMessage(v, m) ==
    \/ m.sequence < v.sequence
    \/ m.sequence = v.sequence /\ m.round < v.desiredRound

errFutureMessage(v, m) ==
    \/ m.sequence > v.sequence
    \/ /\ m.sequence = v.sequence
       /\ m.round >= v.desiredRound
       /\ m.code # MsgRoundChangeV2
       /\ \/ /\ v.state \in {StateWaitingForNewRound, StateAcceptRequest}
             /\ m.code # MsgPreprepareV2
          \/ m.round > v.desiredRound

\* checkMessage returns nil.
accepted(v, m) == ~errOldMessage(v, m) /\ ~errFutureMessage(v, m)

\* A bug of this kind: votes of a round come before its proposal.
msgPriority_VotesFirst(code) ==
    CASE code = MsgPreprepareV2 -> 3
      [] code = MsgCommit -> 2
      [] code = MsgPrepare -> 1

msgPriority(code) ==
    CASE code = MsgPreprepareV2 -> 1
      [] code = MsgCommit -> 2
      [] code = MsgPrepare -> 3

toPriority(m) ==
    IF m.code = MsgRoundChangeV2 THEN 0
    ELSE -(10 * m.round + msgPriority(m.code))

-----------------------------------------------------------------------------
(***************************************************************************)
(* Taking messages out.                                                    *)
(***************************************************************************)
stored(b) == {m \in Messages : b[m] > 0}

\* The queues hold b[m] entries of m: those of the messages in S, and how many.
entries(b, S) == UNION {{m} \X (1 .. b[m]) : m \in S}
copiesIn(b, S) == Cardinality(entries(b, S))

sentBy(s) == {m \in Messages : m.src = s}

\* A bug of this kind: the first message to come is not put back.
popped_NoPushBack(b, v) ==
    {m \in stored(b) :
        \/ m.sequence < v.sequence
        \/ /\ m.sequence = v.sequence
           /\ ~ \E w \in stored(b) : /\ w.sequence = v.sequence
                                     /\ errFutureMessage(v, w)
                                     /\ toPriority(w) > toPriority(m)}

\* processBacklogForSeq: messages leave in order of priority, up to the
\* first one that is still to come, which goes back into the queue.
\* Messages of one priority are of one kind and round, and so all to come
\* or all not (round changes of the current sequence never are to come).
popped(b, v) ==
    {m \in stored(b) :
        \/ m.sequence < v.sequence
        \/ /\ m.sequence = v.sequence
           /\ ~ \E w \in stored(b) : /\ w.sequence = v.sequence
                                     /\ errFutureMessage(v, w)
                                     /\ toPriority(w) >= toPriority(m)}

without(b, S) == [m \in Messages |-> IF m \in S THEN 0 ELSE b[m]]

\* A bug of this kind: a removal does not count for the source.
countsAfter_Total(b, bySrc, n, S) ==
    [bySrc |-> bySrc, n |-> n - copiesIn(b, S)]

\* A bug of this kind: a removal is counted by the caller as well.
countsAfter_Twice(b, bySrc, n, S) ==
    [bySrc |-> [s \in Validators |-> bySrc[s] - copiesIn(b, S \cap sentBy(s))],
     n |-> n - 2 * copiesIn(b, S)]

countsAfter(b, bySrc, n, S) ==
    [bySrc |-> [s \in Validators |-> bySrc[s] - copiesIn(b, S \cap sentBy(s))],
     n |-> n - copiesIn(b, S)]

\* processBacklog: what is due is posted, what is old is dropped.
postedBy(b, v) ==
    [m \in Messages |-> IF m \in popped(b, v) /\ accepted(v, m) THEN b[m] ELSE 0]

plus(f, g) == [m \in Messages |-> f[m] + g[m]]

\* updateState for view v and then, in the same handler, for view w, with p
\* posted before; a handler that moves once has v = w, as a second update
\* for the same view finds nothing due.
updateState(p, v, w) ==
    LET due   == popped(backlogBySeq, v)
        b     == without(backlogBySeq, due)
        later == popped(b, w)
        c     == countsAfter(backlogBySeq, msgCountBySrc, msgCount, due \cup later)
    IN  /\ view' = w
        /\ backlogBySeq' = without(b, later)
        /\ msgCountBySrc' = c.bySrc
        /\ msgCount' = c.n
        /\ posted' = plus(plus(p, postedBy(backlogBySeq, v)), postedBy(b, w))

-----------------------------------------------------------------------------
(***************************************************************************)
(* Putting messages in.                                                    *)
(***************************************************************************)
sequences(b) == {m.sequence : m \in stored(b)}

\* A bug of this kind: the loop starts one short of the furthest sequence.
overflow_SkipsFurthest(b, n) ==
    {m \in stored(b) :
        /\ n > acceptMaxFutureMessages
        /\ m.sequence > view.sequence
        /\ \E s \in sequences(b) : s < m.sequence
        /\ \E s \in sequences(b) : s > m.sequence}

\* removeMessagesOverflow: whole sequences go, the furthest first, until the
\* count is a batch below the limit; the nearest one always stays.
overflow(b, n) ==
    {m \in stored(b) :
        /\ n > acceptMaxFutureMessages
        /\ m.sequence > view.sequence
        /\ \E s \in sequences(b) : s < m.sequence
        /\ n - copiesIn(b, {w \in stored(b) : w.sequence > m.sequence})
              >= acceptMaxFutureMessages - acceptMaxFutureMessagesPruneBatch}

refused(m) ==
    \/ m.sequence > view.sequence + acceptMaxFutureSequence
    \/ m.round >= maxRoundForPriorityQueue
    \/ msgCountBySrc[m.src] > acceptMaxFutureMsgsFromOneValidator

store(m) ==
    IF refused(m)
    THEN UNCHANGED <<backlogBySeq, msgCountBySrc, msgCount>>
    ELSE LET b == [backlogBySeq EXCEPT ![m] = @ + 1]
             n == msgCount + 1
             S == overflow(b, n)
             c == countsAfter(b, [msgCountBySrc EXCEPT ![m.src] = @ + 1], n, S)
         IN  /\ backlogBySeq' = without(b, S)
             /\ msgCountBySrc' = c.bySrc
             /\ msgCount' = c.n

-----------------------------------------------------------------------------
(***************************************************************************)
(* The event loop.  What a message does to the round state is the subject  *)
(* of IstanbulCore; here it is any view its handler can move to.           *)
(***************************************************************************)
at(r, s) == [view EXCEPT !.desiredRound = r, !.state = s]
nextRound == view.desiredRound + 1

\* A proposal for the round we wait for starts it, whether or not its block
\* is then accepted.
preprepareMoves ==
    LET r == view.desiredRound
    IN  {mv \in {at(r, StateAcceptRequest)} \X
               {at(r, StateAcceptRequest), at(r, StatePreprepared)} :
            /\ view.state \in {StateAcceptRequest, StateWaitingForNewRound}
            /\ mv[2] # view}

\* A vote completes a quorum of prepares and commits, or of commits; a block
\* that cannot be inserted then makes the core wait for the next round.
voteMoves(code) ==
    LET prepared  == at(view.desiredRound, StatePrepared)
        committed == at(view.desiredRound, StateCommitted)
    IN  {mv \in {<<prepared, prepared>>, <<committed, committed>>,
                <<committed, at(nextRound, StateWaitingForNewRound)>>} :
            /\ view.state < mv[1].state
            /\ mv[1] = committed => code = MsgCommit
            /\ mv[2].desiredRound <= LastRound}

\* A quorum for a round starts it, f+1 messages make the core wait for one.
roundChangeMoves ==
    {<<v, v>> : v \in
        {at(r, StateAcceptRequest) : r \in nextRound .. LastRound}
        \cup {at(r, StateWaitingForNewRound) : r \in nextRound .. LastRound}
        \cup {v \in {at(view.desiredRound, StateAcceptRequest)} :
                view.state = StateWaitingForNewRound}}

movesOf(m) ==
    CASE m.code = MsgPreprepareV2 -> preprepareMoves
      [] m.code = MsgRoundChangeV2 -> roundChangeMoves
      [] OTHER -> voteMoves(m.code)

\* handleCheckedMsg, for a message whose delivery leaves p posted.
handleCheckedMsg(m, p) ==
    \/ /\ errFutureMessage(view, m)
       /\ IF m.src # Self THEN store(m)
                          ELSE UNCHANGED <<backlogBySeq, msgCountBySrc, msgCount>>
       /\ posted' = p
       /\ UNCHANGED view
    \/ /\ ~errFutureMessage(view, m)
       /\ posted' = p
       /\ UNCHANGED <<view, backlogBySeq, msgCountBySrc, msgCount>>
    \/ /\ accepted(view, m)
       /\ \E mv \in movesOf(m) : updateState(p, mv[1], mv[2])

handleMessageEvent(m) ==
    /\ network[m] > 0
    /\ network' = [network EXCEPT ![m] = @ - 1]
    /\ handleCheckedMsg(m, posted)

handleBacklogEvent(m) ==
    /\ posted[m] > 0
    /\ handleCheckedMsg(m, [posted EXCEPT ![m] = @ - 1])
    /\ UNCHANGED network

handleTimeoutAndMoveToNextRound ==
    /\ nextRound <= LastRound
    /\ LET v == at(nextRound, StateWaitingForNewRound)
       IN  updateState(posted, v, v)
    /\ UNCHANGED network

\* handleFinalCommitted, for a head block of sequence s - 1.
startNewSequence ==
    /\ \E s \in view.sequence + 1 .. LastSequence :
          LET v == [sequence |-> s, desiredRound |-> 0, state |-> StateAcceptRequest]
          IN  updateState(posted, v, v)
    /\ UNCHANGED network

Init ==
    /\ view = [sequence |-> 1, desiredRound |-> 0, state |-> StateAcceptRequest]
    /\ backlogBySeq = [m \in Messages |-> 0]
    /\ msgCountBySrc = [s \in Validators |-> 0]
    /\ msgCount = 0
    /\ posted = [m \in Messages |-> 0]
    /\ network = [m \in Messages |-> Copies]

Next ==
    \/ \E m \in Messages : handleMessageEvent(m) \/ handleBacklogEvent(m)
    \/ handleTimeoutAndMoveToNextRound
    \/ startNewSequence

Spec == Init /\ [][Next]_vars

-----------------------------------------------------------------------------
(***************************************************************************)
(* Safety.                                                                 *)
(***************************************************************************)

\* The counters that store compares with its limits count what is in the
\* backlog, after any mixture of deliveries, pruning and clearing.
CountersMatch ==
    /\ msgCount = copiesIn(backlogBySeq, Messages)
    /\ \A s \in Validators :
          msgCountBySrc[s] = copiesIn(backlogBySeq, sentBy(s))

\* processBacklogForSeq stops at the first message that is still to come:
\* the order of toPriority makes that enough, so that no message the core
\* would accept, and none it would drop, ever waits in the backlog.
NothingDueWaits ==
    \A m \in stored(backlogBySeq) : errFutureMessage(view, m)

\* The backlog is bounded: by acceptMaxFutureMessages, except for what is
\* left of the current and of the nearest sequence; by one more than
\* acceptMaxFutureMsgsFromOneValidator for each validator, as store compares
\* before it counts; and by acceptMaxFutureSequence ahead.
BacklogBounded ==
    LET seqs == sequences(backlogBySeq)
    IN  /\ msgCount > acceptMaxFutureMessages =>
             \A s \in seqs : s <= view.sequence \/ \A t \in seqs : s <= t
        /\ \A s \in Validators :
             msgCountBySrc[s] <= acceptMaxFutureMsgsFromOneValidator + 1
        /\ \A s \in seqs : s <= view.sequence + acceptMaxFutureSequence

\* A message of the current sequence that is still to come is never lost,
\* whatever overflows, unless its sender is over its limit, it is our own,
\* or its round is beyond the priority queue.
copies(m) == network[m] + backlogBySeq[m] + posted[m]

FutureOfSequenceKept ==
    [][\A m \in Messages :
          /\ m.sequence = view'.sequence
          /\ errFutureMessage(view', m)
          /\ copies(m)' < copies(m)
          => \/ m.src = Self
             \/ m.round >= maxRoundForPriorityQueue
             \/ msgCountBySrc[m.src] > acceptMaxFutureMsgsFromOneValidator
             \/ accepted(view, m)]_vars

=============================================================================
