-------------------------- MODULE MsgBacklogProofs --------------------------
(***************************************************************************)
(* The backlog, for every validator set, every set of messages, any number *)
(* of copies and all limits: nothing that is due ever waits in it, its     *)
(* counters are exact, it never outgrows its limit, and it drops nothing   *)
(* of the sequence in progress that it has taken in.                       *)
(***************************************************************************)
EXTENDS MsgBacklog, FiniteSetTheorems, WellFoundedInduction, TLAPS

Inv ==
    /\ view \in View
    /\ backlogBySeq \in [Messages -> Nat]
    /\ NothingDueWaits

\* The fields of a message.
LEMMA MessageFields ==
    ASSUME NEW m \in Messages
    PROVE  m.code \in MessageCode /\ m.sequence \in Nat /\ m.round \in Nat
  BY BacklogAssumption DEF Message

\* toPriority orders by round, and within a round proposals come first.
LEMMA PriorityOfVote ==
    ASSUME NEW m \in Messages, m.code # MsgRoundChangeV2
    PROVE  /\ toPriority(m) = -(10 * m.round + msgPriority(m.code))
           /\ msgPriority(m.code) \in 1 .. 3
           /\ msgPriority(m.code) = 1 <=> m.code = MsgPreprepareV2
  BY MessageFields DEF toPriority, msgPriority, MessageCode, MsgPreprepareV2,
     MsgPrepare, MsgCommit, MsgRoundChangeV2

\* What is popped before a message to come is all that is not to come.
LEMMA OrderOfPriority ==
    ASSUME NEW v \in View, NEW m \in Messages, NEW w \in Messages,
           m.sequence = v.sequence, w.sequence = v.sequence,
           errFutureMessage(v, w), toPriority(w) >= toPriority(m)
    PROVE  errFutureMessage(v, m)
  <1>1. /\ m.round \in Int /\ w.round \in Int /\ v.desiredRound \in Int
        /\ v.sequence \in Int
    BY MessageFields DEF View
  <1>2. /\ w.code # MsgRoundChangeV2 /\ w.round >= v.desiredRound
        /\ \/ /\ v.state \in {StateWaitingForNewRound, StateAcceptRequest}
              /\ w.code # MsgPreprepareV2
           \/ w.round > v.desiredRound
    BY <1>1 DEF errFutureMessage
  <1>3. /\ toPriority(w) = -(10 * w.round + msgPriority(w.code))
        /\ msgPriority(w.code) \in 1 .. 3
        /\ msgPriority(w.code) = 1 <=> w.code = MsgPreprepareV2
    BY <1>2, PriorityOfVote
  <1>4. m.code # MsgRoundChangeV2
    <2>. SUFFICES ASSUME m.code = MsgRoundChangeV2 PROVE FALSE
      OBVIOUS
    <2>1. toPriority(m) = 0
      BY DEF toPriority
    <2>2. w.round >= 0
      BY MessageFields
    <2>. HIDE DEF toPriority
    <2>. QED  BY <1>1, <1>3, <2>1, <2>2
  <1>5. /\ toPriority(m) = -(10 * m.round + msgPriority(m.code))
        /\ msgPriority(m.code) \in 1 .. 3
        /\ msgPriority(m.code) = 1 <=> m.code = MsgPreprepareV2
    BY <1>4, PriorityOfVote
  <1>6. 10 * m.round + msgPriority(m.code) >= 10 * w.round + msgPriority(w.code)
    BY <1>1, <1>3, <1>5
  <1>7. m.round >= w.round
    BY <1>1, <1>3, <1>5, <1>6
  <1>8. m.round = w.round => msgPriority(m.code) >= msgPriority(w.code)
    BY <1>1, <1>3, <1>5, <1>6
  <1>9. CASE m.round > v.desiredRound
    BY <1>1, <1>4, <1>9 DEF errFutureMessage
  <1>10. CASE ~(m.round > v.desiredRound)
    <2>1. m.round = v.desiredRound /\ w.round = v.desiredRound
      BY <1>1, <1>2, <1>7, <1>10
    <2>2. /\ v.state \in {StateWaitingForNewRound, StateAcceptRequest}
          /\ w.code # MsgPreprepareV2
      BY <1>1, <1>2, <2>1
    <2>3. msgPriority(m.code) # 1
      BY <1>3, <1>5, <1>8, <2>1, <2>2
    <2>. QED  BY <1>1, <1>4, <1>5, <2>1, <2>2, <2>3 DEF errFutureMessage
  <1>. QED  BY <1>9, <1>10

\* What is left of a bag without some messages.
LEMMA WithoutType ==
    ASSUME NEW b \in [Messages -> Nat], NEW S
    PROVE  /\ without(b, S) \in [Messages -> Nat]
           /\ \A m \in Messages : without(b, S)[m] > 0 => m \notin S /\ b[m] > 0
  BY DEF without

\* After processBacklog has popped what it may, only messages to come are left.
LEMMA AfterPopping ==
    ASSUME NEW b \in [Messages -> Nat], NEW v \in View, NEW m \in Messages,
           without(b, popped(b, v))[m] > 0
    PROVE  errFutureMessage(v, m)
  <1>1. m \notin popped(b, v) /\ m \in stored(b)
    BY WithoutType DEF stored
  <1>2. v.sequence \in Nat /\ m.sequence \in Nat
    BY MessageFields DEF View
  <1>3. CASE m.sequence = v.sequence
    <2>1. PICK w \in stored(b) : /\ w.sequence = v.sequence
                                 /\ errFutureMessage(v, w)
                                 /\ toPriority(w) >= toPriority(m)
      BY <1>1, <1>3 DEF popped
    <2>. QED  BY <1>3, <2>1, OrderOfPriority DEF stored
  <1>4. CASE m.sequence # v.sequence
    <2>1. m.sequence > v.sequence
      BY <1>1, <1>2, <1>4 DEF popped
    <2>. QED  BY <2>1 DEF errFutureMessage
  <1>. QED  BY <1>3, <1>4

\* A change of the view, with the backlog processed, keeps the invariant.
LEMMA UpdateKeepsInv ==
    ASSUME Inv, NEW p, NEW v \in View, NEW w \in View, updateState(p, v, w)
    PROVE  Inv'
  <1>. DEFINE b == without(backlogBySeq, popped(backlogBySeq, v))
  <1>1. b \in [Messages -> Nat]
    BY WithoutType DEF Inv
  <1>2. view' = w /\ backlogBySeq' = without(b, popped(b, w))
    BY DEF updateState
  <1>. HIDE DEF b
  <1>3. backlogBySeq' \in [Messages -> Nat]
    BY <1>1, <1>2, WithoutType
  <1>4. ASSUME NEW m \in stored(backlogBySeq') PROVE errFutureMessage(view', m)
    BY <1>1, <1>2, <1>4, AfterPopping DEF stored
  <1>. QED  BY <1>2, <1>3, <1>4 DEF Inv, NothingDueWaits, stored

\* The storing of a future message keeps the invariant.
LEMMA StoreKeepsInv ==
    ASSUME Inv, NEW m \in Messages, errFutureMessage(view, m), store(m),
           UNCHANGED view
    PROVE  Inv'
  <1>1. CASE refused(m)
    BY <1>1 DEF store, Inv, NothingDueWaits, stored
  <1>2. CASE ~refused(m)
    <2>. DEFINE b == [backlogBySeq EXCEPT ![m] = @ + 1]
    <2>1. b \in [Messages -> Nat]
      BY DEF Inv
    <2>2. PICK S : backlogBySeq' = without(b, S)
      BY <1>2 DEF store
    <2>3. ASSUME NEW w \in Messages, b[w] > 0 PROVE errFutureMessage(view, w)
      <3>1. CASE w = m
        BY <3>1
      <3>2. CASE w # m
        BY <2>3, <3>2 DEF Inv, NothingDueWaits, stored
      <3>. QED  BY <3>1, <3>2
    <2>. HIDE DEF b
    <2>4. backlogBySeq' \in [Messages -> Nat]
      BY <2>1, <2>2, WithoutType
    <2>5. ASSUME NEW w \in Messages, backlogBySeq'[w] > 0
          PROVE  errFutureMessage(view', w)
      BY <2>1, <2>2, <2>3, <2>5, WithoutType
    <2>. QED  BY <2>4, <2>5 DEF Inv, NothingDueWaits, stored
  <1>. QED  BY <1>1, <1>2

\* A view of the current sequence.
LEMMA AtType ==
    ASSUME Inv, NEW r \in Nat,
           NEW s \in StateAcceptRequest .. StateWaitingForNewRound
    PROVE  at(r, s) \in View
  BY Zenon DEF Inv, View, at

\* The views a handler leads to.
LEMMA MovesType ==
    ASSUME Inv, NEW m \in Messages, NEW mv \in movesOf(m)
    PROVE  mv[1] \in View /\ mv[2] \in View
  <1>. DEFINE states == StateAcceptRequest .. StateWaitingForNewRound
  <1>1. view.desiredRound \in Nat /\ nextRound \in Nat
    BY DEF Inv, View, nextRound
  <1>2. /\ StateAcceptRequest \in states /\ StatePreprepared \in states
        /\ StatePrepared \in states /\ StateCommitted \in states
        /\ StateWaitingForNewRound \in states
    BY DEF StateAcceptRequest, StatePreprepared, StatePrepared, StateCommitted,
       StateWaitingForNewRound
  <1>3. \A r \in Nat : /\ at(r, StateAcceptRequest) \in View
                       /\ at(r, StatePreprepared) \in View
                       /\ at(r, StatePrepared) \in View
                       /\ at(r, StateCommitted) \in View
                       /\ at(r, StateWaitingForNewRound) \in View
    BY <1>2, AtType
  <1>4. nextRound .. LastRound \subseteq Nat
    BY <1>1, BacklogAssumption
  <1>5. CASE m.code = MsgPreprepareV2
    <2>1. mv \in preprepareMoves
      BY <1>5 DEF movesOf, MsgPreprepareV2, MsgRoundChangeV2
    <2>2. mv \in {at(view.desiredRound, StateAcceptRequest)} \X
                 {at(view.desiredRound, StateAcceptRequest),
                  at(view.desiredRound, StatePreprepared)}
      BY <2>1 DEF preprepareMoves
    <2>. QED  BY <1>1, <1>3, <2>2
  <1>6. CASE m.code = MsgRoundChangeV2
    <2>1. mv \in roundChangeMoves
      BY <1>6 DEF movesOf, MsgPreprepareV2, MsgRoundChangeV2
    <2>. QED  BY <1>1, <1>3, <1>4, <2>1 DEF roundChangeMoves
  <1>7. CASE m.code # MsgPreprepareV2 /\ m.code # MsgRoundChangeV2
    <2>1. mv \in voteMoves(m.code)
      BY <1>7 DEF movesOf
    <2>. QED  BY <1>1, <1>3, <2>1 DEF voteMoves
  <1>. QED  BY <1>5, <1>6, <1>7

\* The handling of a message keeps the invariant.
LEMMA HandleKeepsInv ==
    ASSUME Inv, NEW m \in Messages, NEW p, handleCheckedMsg(m, p)
    PROVE  Inv'
  <1>1. CASE UNCHANGED <<view, backlogBySeq>>
    BY <1>1 DEF Inv, NothingDueWaits, stored
  <1>2. CASE errFutureMessage(view, m) /\ store(m) /\ UNCHANGED view
    BY <1>2, StoreKeepsInv
  <1>3. CASE \E mv \in movesOf(m) : updateState(p, mv[1], mv[2])
    BY <1>3, MovesType, UpdateKeepsInv
  <1>. QED  BY <1>1, <1>2, <1>3 DEF handleCheckedMsg

\* Nothing waits in the beginning.
LEMMA InitInv == Init => Inv
  BY DEF Init, Inv, View, NothingDueWaits, stored, StateAcceptRequest,
     StateWaitingForNewRound

\* The invariant is inductive.
LEMMA NextInv == Inv /\ [Next]_vars => Inv'
  <1>. SUFFICES ASSUME Inv, [Next]_vars PROVE Inv'
    OBVIOUS
  <1>1. ASSUME NEW m \in Messages, handleMessageEvent(m) \/ handleBacklogEvent(m)
        PROVE  Inv'
    BY <1>1, HandleKeepsInv DEF handleMessageEvent, handleBacklogEvent
  <1>2. CASE handleTimeoutAndMoveToNextRound
    <2>1. at(nextRound, StateWaitingForNewRound) \in View
      <3>1. nextRound \in Nat
        BY DEF Inv, View, nextRound
      <3>2. StateWaitingForNewRound \in StateAcceptRequest .. StateWaitingForNewRound
        BY DEF StateAcceptRequest, StateWaitingForNewRound
      <3>. QED  BY <3>1, <3>2, AtType
    <2>. QED  BY <1>2, <2>1, UpdateKeepsInv DEF handleTimeoutAndMoveToNextRound
  <1>3. CASE startNewSequence
    <2>1. PICK s \in view.sequence + 1 .. LastSequence :
             LET v == [sequence |-> s, desiredRound |-> 0, state |-> StateAcceptRequest]
             IN  updateState(posted, v, v)
      BY <1>3 DEF startNewSequence
    <2>2. s \in Nat
      BY BacklogAssumption DEF Inv, View
    <2>3. [sequence |-> s, desiredRound |-> 0, state |-> StateAcceptRequest] \in View
      BY <2>2 DEF View, StateAcceptRequest, StateWaitingForNewRound
    <2>. QED  BY <2>1, <2>3, UpdateKeepsInv
  <1>4. CASE UNCHANGED vars
    BY <1>4 DEF vars, Inv, NothingDueWaits, stored
  <1>. QED  BY <1>1, <1>2, <1>3, <1>4 DEF Next

\* No message that checkMessage would accept or drop waits in the backlog:
\* the order of toPriority and the break of processBacklogForSeq fit.
THEOREM NothingDueEverWaits == Spec => []NothingDueWaits
  <1>1. Inv => NothingDueWaits
    BY DEF Inv
  <1>. QED  BY <1>1, InitInv, NextInv, PTL DEF Spec

-----------------------------------------------------------------------------
(***************************************************************************)
(* The counters.  Entries are counted by Cardinality, so that a removal is *)
(* a difference of finite sets and an addition one element more.           *)
(***************************************************************************)
LEMMA EntriesAre ==
    ASSUME NEW b \in [Messages -> Nat], NEW T \in SUBSET Messages
    PROVE  entries(b, T) = {e \in Messages \X Nat : e[1] \in T /\ e[2] \in 1 .. b[e[1]]}
  <1>1. ASSUME NEW e \in entries(b, T)
        PROVE  e \in Messages \X Nat /\ e[1] \in T /\ e[2] \in 1 .. b[e[1]]
    <2>1. PICK m \in T : e \in {m} \X (1 .. b[m])
      BY DEF entries
    <2>. QED  BY <2>1
  <1>2. ASSUME NEW e \in Messages \X Nat, e[1] \in T, e[2] \in 1 .. b[e[1]]
        PROVE  e \in entries(b, T)
    <2>1. e \in {e[1]} \X (1 .. b[e[1]])
      BY <1>2
    <2>. QED  BY <1>2, <2>1 DEF entries
  <1>. QED  BY <1>1, <1>2

\* Part of a finite bag is finite.
LEMMA EntriesFinite ==
    ASSUME NEW b \in [Messages -> Nat], IsFiniteSet(entries(b, Messages)),
           NEW T \in SUBSET Messages
    PROVE  IsFiniteSet(entries(b, T)) /\ copiesIn(b, T) \in Nat
  <1>1. entries(b, T) \in SUBSET entries(b, Messages)
    BY DEF entries
  <1>. QED  BY <1>1, FS_Subset, FS_CardinalityType DEF copiesIn

\* Removing the messages of S takes as many as there were in S.
LEMMA Removal ==
    ASSUME NEW b \in [Messages -> Nat], IsFiniteSet(entries(b, Messages)),
           NEW S \in SUBSET Messages, NEW T \in SUBSET Messages
    PROVE  /\ IsFiniteSet(entries(without(b, S), T))
           /\ copiesIn(without(b, S), T) = copiesIn(b, T) - copiesIn(b, S \cap T)
  <1>. DEFINE c == without(b, S)
  <1>1. c \in [Messages -> Nat]
    BY WithoutType
  <1>2. \A m \in Messages : c[m] = IF m \in S THEN 0 ELSE b[m]
    BY DEF without
  <1>. HIDE DEF c
  <1>3. entries(c, T) = entries(b, T) \ entries(b, S \cap T)
    <2>1. entries(c, T) = {e \in Messages \X Nat : e[1] \in T /\ e[2] \in 1 .. c[e[1]]}
      BY <1>1, EntriesAre
    <2>2. entries(b, T) = {e \in Messages \X Nat : e[1] \in T /\ e[2] \in 1 .. b[e[1]]}
      BY EntriesAre
    <2>3. entries(b, S \cap T) =
             {e \in Messages \X Nat : e[1] \in S \cap T /\ e[2] \in 1 .. b[e[1]]}
      BY EntriesAre
    <2>4. ASSUME NEW e \in Messages \X Nat
          PROVE  e[2] \in 1 .. c[e[1]] <=> e[1] \notin S /\ e[2] \in 1 .. b[e[1]]
      BY <1>2
    <2>. QED  BY <2>1, <2>2, <2>3, <2>4
  <1>4. entries(b, T) \cap entries(b, S \cap T) = entries(b, S \cap T)
    BY DEF entries
  <1>5. IsFiniteSet(entries(b, T))
    BY EntriesFinite
  <1>6. /\ IsFiniteSet(entries(c, T))
        /\ Cardinality(entries(c, T)) =
              Cardinality(entries(b, T)) - Cardinality(entries(b, S \cap T))
    <2>. DEFINE A == entries(b, T)
                B == entries(b, S \cap T)
    <2>. HIDE DEF A, B
    <2>1. /\ IsFiniteSet(A \ B)
          /\ Cardinality(A \ B) = Cardinality(A) - Cardinality(A \cap B)
      BY <1>5, FS_Difference, Zenon DEF A
    <2>. QED  BY <1>3, <1>4, <2>1, Zenon DEF A, B
  <1>. QED  BY <1>6 DEF copiesIn, c

\* Adding a message adds one to what it is counted in.
LEMMA Addition ==
    ASSUME NEW b \in [Messages -> Nat], IsFiniteSet(entries(b, Messages)),
           NEW m \in Messages, NEW T \in SUBSET Messages
    PROVE  LET c == [b EXCEPT ![m] = @ + 1]
           IN  /\ IsFiniteSet(entries(c, T))
               /\ copiesIn(c, T) = copiesIn(b, T) + IF m \in T THEN 1 ELSE 0
  <1>. DEFINE c == [b EXCEPT ![m] = @ + 1]
  <1>1. c \in [Messages -> Nat]
    OBVIOUS
  <1>2. \A w \in Messages : c[w] = IF w = m THEN b[m] + 1 ELSE b[w]
    OBVIOUS
  <1>. HIDE DEF c
  <1>3. entries(c, T) = {e \in Messages \X Nat : e[1] \in T /\ e[2] \in 1 .. c[e[1]]}
    BY <1>1, EntriesAre
  <1>4. entries(b, T) = {e \in Messages \X Nat : e[1] \in T /\ e[2] \in 1 .. b[e[1]]}
    BY EntriesAre
  <1>5. IsFiniteSet(entries(b, T))
    BY EntriesFinite
  <1>6. CASE m \in T
    <2>1. <<m, b[m] + 1>> \notin entries(b, T)
      BY <1>4
    <2>2. ASSUME NEW e \in Messages \X Nat, e[1] \in T
          PROVE  e[2] \in 1 .. c[e[1]] <=> e[2] \in 1 .. b[e[1]] \/ e = <<m, b[m] + 1>>
      <3>1. CASE e[1] = m
        BY <1>2, <3>1
      <3>2. CASE e[1] # m
        BY <1>2, <3>2
      <3>. QED  BY <3>1, <3>2
    <2>3. entries(c, T) = entries(b, T) \cup {<<m, b[m] + 1>>}
      BY <1>3, <1>4, <1>6, <2>2
    <2>4. /\ IsFiniteSet(entries(b, T) \cup {<<m, b[m] + 1>>})
          /\ Cardinality(entries(b, T) \cup {<<m, b[m] + 1>>}) = Cardinality(entries(b, T)) + 1
      BY <1>5, <2>1, FS_AddElement, Zenon
    <2>. QED  BY <1>6, <2>3, <2>4, Zenon DEF copiesIn, c
  <1>7. CASE m \notin T
    <2>1. entries(c, T) = entries(b, T)
      BY <1>2, <1>3, <1>4, <1>7
    <2>. QED  BY <1>5, <1>7, <2>1, EntriesFinite DEF copiesIn, c
  <1>. QED  BY <1>6, <1>7

\* A larger set has no fewer messages.
LEMMA CopiesMonotone ==
    ASSUME NEW b \in [Messages -> Nat], IsFiniteSet(entries(b, Messages)),
           NEW S \in SUBSET Messages, NEW T \in SUBSET Messages, S \subseteq T
    PROVE  copiesIn(b, S) <= copiesIn(b, T)
  <1>1. entries(b, S) \in SUBSET entries(b, T)
    BY DEF entries
  <1>2. IsFiniteSet(entries(b, T))
    BY EntriesFinite
  <1>. QED  BY <1>1, <1>2, FS_Subset DEF copiesIn

\* Removing twice is removing both.
LEMMA WithoutTwice ==
    ASSUME NEW b \in [Messages -> Nat], NEW S, NEW T
    PROVE  without(without(b, S), T) = without(b, S \cup T)
  BY DEF without

\* What the counters say of b.
Counts(b, bySrc, n) ==
    /\ b \in [Messages -> Nat] /\ IsFiniteSet(entries(b, Messages))
    /\ n = copiesIn(b, Messages)
    /\ bySrc \in [Validators -> Nat]
    /\ \A s \in Validators : bySrc[s] = copiesIn(b, sentBy(s))

\* The counters of the code after a removal are those of what is left.
LEMMA CountsAfterRemoval ==
    ASSUME NEW b, NEW bySrc, NEW n, Counts(b, bySrc, n), NEW S \in SUBSET Messages
    PROVE  LET c == countsAfter(b, bySrc, n, S)
           IN  /\ Counts(without(b, S), c.bySrc, c.n)
               /\ c.n <= n /\ \A s \in Validators : c.bySrc[s] <= bySrc[s]
  <1>. DEFINE c == countsAfter(b, bySrc, n, S)
  <1>1. /\ c.n = n - copiesIn(b, S)
        /\ c.bySrc = [s \in Validators |-> bySrc[s] - copiesIn(b, S \cap sentBy(s))]
    BY DEF countsAfter
  <1>. HIDE DEF c
  <1>2. b \in [Messages -> Nat] /\ IsFiniteSet(entries(b, Messages))
    BY DEF Counts
  <1>3. without(b, S) \in [Messages -> Nat]
    BY <1>2, WithoutType
  <1>4. /\ IsFiniteSet(entries(without(b, S), Messages))
        /\ copiesIn(without(b, S), Messages) = copiesIn(b, Messages) - copiesIn(b, S)
    <2>1. S \cap Messages = S
      OBVIOUS
    <2>. QED  BY <1>2, <2>1, Removal
  <1>5. ASSUME NEW s \in Validators
        PROVE  /\ copiesIn(without(b, S), sentBy(s)) = c.bySrc[s]
               /\ c.bySrc[s] \in Nat /\ c.bySrc[s] <= bySrc[s]
    <2>1. sentBy(s) \in SUBSET Messages /\ S \cap sentBy(s) \in SUBSET Messages
      BY DEF sentBy
    <2>2. copiesIn(without(b, S), sentBy(s)) =
             copiesIn(b, sentBy(s)) - copiesIn(b, S \cap sentBy(s))
      BY <1>2, <2>1, Removal
    <2>3. bySrc[s] = copiesIn(b, sentBy(s)) /\ bySrc[s] \in Nat
      BY DEF Counts
    <2>4. copiesIn(b, S \cap sentBy(s)) \in Nat
      BY <1>2, <2>1, EntriesFinite
    <2>5. copiesIn(without(b, S), sentBy(s)) \in Nat
      BY <1>3, <1>4, <2>1, EntriesFinite
    <2>. QED  BY <1>1, <2>2, <2>3, <2>4, <2>5
  <1>6. c.bySrc \in [Validators -> Nat]
    BY <1>1, <1>5
  <1>7. c.n = copiesIn(without(b, S), Messages) /\ c.n <= n
    <2>1. n = copiesIn(b, Messages) /\ n \in Nat /\ copiesIn(b, S) \in Nat
      BY <1>2, EntriesFinite DEF Counts
    <2>. QED  BY <1>1, <1>4, <2>1
  <1>8. Counts(without(b, S), c.bySrc, c.n)
    BY <1>3, <1>4, <1>5, <1>6, <1>7 DEF Counts
  <1>. QED  BY <1>5, <1>7, <1>8 DEF c

\* And after a message was stored, those of what is there.
LEMMA CountsAfterAddition ==
    ASSUME NEW b, NEW bySrc, NEW n, Counts(b, bySrc, n), NEW m \in Messages
    PROVE  Counts([b EXCEPT ![m] = @ + 1], [bySrc EXCEPT ![m.src] = @ + 1], n + 1)
  <1>. DEFINE c == [b EXCEPT ![m] = @ + 1]
              bs == [bySrc EXCEPT ![m.src] = @ + 1]
  <1>1. b \in [Messages -> Nat] /\ IsFiniteSet(entries(b, Messages))
    BY DEF Counts
  <1>2. /\ IsFiniteSet(entries(c, Messages))
        /\ copiesIn(c, Messages) = copiesIn(b, Messages) + 1
    BY <1>1, Addition, Zenon
  <1>3. c \in [Messages -> Nat]
    BY <1>1
  <1>4. m.src \in Validators
    BY BacklogAssumption DEF Message
  <1>5. /\ bs \in [Validators -> Nat]
        /\ \A s \in Validators : bs[s] = bySrc[s] + IF s = m.src THEN 1 ELSE 0
    BY <1>4 DEF Counts
  <1>6. ASSUME NEW s \in Validators
        PROVE  copiesIn(c, sentBy(s)) = bySrc[s] + IF s = m.src THEN 1 ELSE 0
    <2>1. sentBy(s) \in SUBSET Messages /\ (m \in sentBy(s) <=> s = m.src)
      BY DEF sentBy
    <2>2. copiesIn(c, sentBy(s)) = copiesIn(b, sentBy(s)) + IF m \in sentBy(s) THEN 1 ELSE 0
      BY <1>1, <2>1, Addition, Zenon
    <2>. QED  BY <2>1, <2>2 DEF Counts
  <1>7. n = copiesIn(b, Messages)
    BY DEF Counts
  <1>. HIDE DEF c, bs
  <1>8. Counts(c, bs, n + 1)
    BY <1>2, <1>3, <1>5, <1>6, <1>7 DEF Counts
  <1>. QED  BY <1>8 DEF c, bs

-----------------------------------------------------------------------------
(***************************************************************************)
(* The limits.                                                             *)
(***************************************************************************)
LEMMA Greatest ==
    ASSUME NEW T \in SUBSET Nat, T # {}, NEW limit \in Nat, \A y \in T : y <= limit
    PROVE  \E x \in T : \A y \in T : y <= x
  <1>. DEFINE R == OpToRel(<, Nat)
              below == {k \in Nat : \E y \in T : k = limit - y}
  <1>1. IsWellFoundedOn(R, Nat)
    BY NatLessThanWellFounded, Zenon
  <1>2. \A j, k \in Nat : j < k => <<j, k>> \in R
    BY DEF OpToRel
  <1>3. below \subseteq Nat /\ below # {}
    <2>1. PICK y \in T : y <= limit
      BY Zenon
    <2>2. limit - y \in Nat
      BY <2>1
    <2>. QED  BY <2>2, Zenon
  <1>. HIDE DEF R
  <1>4. PICK k \in below : \A j \in below : ~ (<<j, k>> \in R)
    BY <1>1, <1>3, WFMin, Zenon
  <1>5. PICK x \in T : k = limit - x
    OBVIOUS
  <1>6. ASSUME NEW y \in T PROVE y <= x
    <2>1. limit - y \in below
      OBVIOUS
    <2>2. ~ (limit - y < k)
      BY <1>2, <1>3, <1>4, <2>1, Zenon
    <2>. QED  BY <1>5, <2>2
  <1>. QED  BY <1>6

\* Sequences are removed from the furthest on: if one that could go stays,
\* all beyond it have gone, and they were enough.
LEMMA OverflowIsEnough ==
    ASSUME NEW b, NEW bySrc, NEW n, Counts(b, bySrc, n), view \in View,
           NEW limit \in Nat, \A w \in stored(b) : w.sequence <= limit,
           copiesIn(without(b, overflow(b, n)), Messages) > acceptMaxFutureMessages,
           NEW m \in stored(without(b, overflow(b, n))),
           NEW t \in stored(without(b, overflow(b, n))), t.sequence < m.sequence
    PROVE  m.sequence <= view.sequence
  <1>. DEFINE S == overflow(b, n)
              left == stored(without(b, S))
              stays == {x \in Nat : /\ x > view.sequence
                                    /\ \E w \in left : w.sequence = x
                                    /\ \E w \in left : w.sequence < x}
  <1>1. b \in [Messages -> Nat] /\ n = copiesIn(b, Messages) /\ IsFiniteSet(entries(b, Messages))
    BY DEF Counts
  <1>2. left \subseteq Messages /\ \A w \in left : w \in stored(b) /\ w \notin S
    BY <1>1, WithoutType DEF stored
  <1>3. \A w \in Messages : w \in stored(b) /\ w \notin S => w \in left
    BY DEF stored, without
  <1>4. S \in SUBSET Messages
    BY DEF overflow, stored
  <1>5. view.sequence \in Nat
    BY DEF View
  <1>. HIDE DEF left
  <1>. SUFFICES ASSUME m.sequence > view.sequence PROVE FALSE
    BY <1>2, <1>5, MessageFields DEF left
  <1>6. stays \in SUBSET Nat /\ m.sequence \in stays /\ \A x \in stays : x <= limit
    BY <1>2, <1>5, MessageFields DEF left
  <1>7. PICK x \in stays : \A y \in stays : y <= x
    BY <1>6, Greatest, Zenon
  <1>8. PICK w \in left : w.sequence = x
    BY <1>7
  <1>. DEFINE beyond == {u \in stored(b) : u.sequence > w.sequence}
  <1>9. x \in Nat /\ x > view.sequence /\ \E u \in left : u.sequence < x
    OBVIOUS
  <1>10. beyond \in SUBSET Messages
    BY DEF stored
  <1>11. beyond \subseteq S
    <2>. SUFFICES ASSUME NEW u \in beyond, u \notin S PROVE FALSE
      OBVIOUS
    <2>1. u \in left /\ u \in Messages /\ u.sequence \in Nat
      BY <1>3, <1>10, MessageFields
    <2>2. u.sequence > x
      BY <1>8
    <2>3. u.sequence \in stays
      BY <1>5, <1>8, <1>9, <2>1, <2>2
    <2>. QED  BY <1>7, <1>9, <2>1, <2>2, <2>3
  <1>. HIDE DEF stays
  <1>12. /\ copiesIn(b, S) \in Nat /\ copiesIn(b, beyond) \in Nat /\ n \in Nat
         /\ copiesIn(b, beyond) <= copiesIn(b, S)
    BY <1>1, <1>4, <1>10, <1>11, CopiesMonotone, EntriesFinite, Zenon
  <1>13. copiesIn(without(b, S), Messages) = n - copiesIn(b, S)
    <2>1. S \cap Messages = S
      BY <1>4
    <2>. QED  BY <1>1, <1>4, <2>1, Removal
  <1>14. n > acceptMaxFutureMessages
    BY <1>12, <1>13, BacklogAssumption
  <1>15. ~ (n - copiesIn(b, beyond)
              >= acceptMaxFutureMessages - acceptMaxFutureMessagesPruneBatch)
    <2>1. w \in stored(b) /\ w \notin S /\ w.sequence > view.sequence
      BY <1>2, <1>8, <1>9
    <2>2. \E s \in sequences(b) : s < w.sequence
      BY <1>2, <1>8, <1>9 DEF sequences
    <2>. QED  BY <1>14, <2>1, <2>2 DEF overflow
  <1>. QED  BY <1>12, <1>13, <1>15, BacklogAssumption

Forward(v, w) ==
    \/ v.sequence < w.sequence
    \/ v.sequence = w.sequence /\ v.desiredRound <= w.desiredRound

\* The fields of a view of the current sequence.
LEMMA AtFields ==
    ASSUME Inv, NEW r, NEW s
    PROVE  at(r, s).sequence = view.sequence /\ at(r, s).desiredRound = r
  BY DEF Inv, View, at

\* A handler moves the view forward only.
LEMMA MovesForward ==
    ASSUME Inv, NEW m \in Messages, NEW mv \in movesOf(m)
    PROVE  Forward(view, mv[1]) /\ Forward(mv[1], mv[2])
  <1>1. view.desiredRound \in Nat /\ nextRound = view.desiredRound + 1
    BY DEF Inv, View, nextRound
  <1>2. CASE m.code = MsgPreprepareV2
    <2>1. mv \in preprepareMoves
      BY <1>2 DEF movesOf, MsgPreprepareV2, MsgRoundChangeV2
    <2>2. mv \in {at(view.desiredRound, StateAcceptRequest)} \X
                 {at(view.desiredRound, StateAcceptRequest),
                  at(view.desiredRound, StatePreprepared)}
      BY <2>1 DEF preprepareMoves
    <2>. QED  BY <1>1, <2>2, AtFields DEF Forward
  <1>3. CASE m.code = MsgRoundChangeV2
    <2>1. mv \in roundChangeMoves
      BY <1>3 DEF movesOf, MsgPreprepareV2, MsgRoundChangeV2
    <2>2. PICK v : /\ mv = <<v, v>>
                   /\ \E r \in (nextRound .. LastRound) \cup {view.desiredRound} :
                         \/ v = at(r, StateAcceptRequest)
                         \/ v = at(r, StateWaitingForNewRound)
      BY <2>1 DEF roundChangeMoves
    <2>3. PICK r \in (nextRound .. LastRound) \cup {view.desiredRound} :
             v = at(r, StateAcceptRequest) \/ v = at(r, StateWaitingForNewRound)
      BY <2>2
    <2>4. r \in Nat /\ view.desiredRound <= r
      BY <1>1, BacklogAssumption
    <2>5. v.sequence = view.sequence /\ v.desiredRound = r
      BY <2>3, AtFields
    <2>. QED  BY <2>2, <2>4, <2>5 DEF Forward
  <1>4. CASE m.code # MsgPreprepareV2 /\ m.code # MsgRoundChangeV2
    <2>1. mv \in voteMoves(m.code)
      BY <1>4 DEF movesOf
    <2>2. \/ mv = <<at(view.desiredRound, StatePrepared), at(view.desiredRound, StatePrepared)>>
          \/ mv = <<at(view.desiredRound, StateCommitted), at(view.desiredRound, StateCommitted)>>
          \/ mv = <<at(view.desiredRound, StateCommitted), at(nextRound, StateWaitingForNewRound)>>
      BY <2>1 DEF voteMoves
    <2>. QED  BY <1>1, <2>2, AtFields DEF Forward
  <1>. QED  BY <1>2, <1>3, <1>4

\* A step leaves the backlog alone, stores one message, or moves on to a view.
Moves(p, v, w) ==
    /\ v \in View /\ w \in View
    /\ Forward(view, v) /\ Forward(v, w)
    /\ updateState(p, v, w)

Leaves(p) == posted' = p /\ UNCHANGED <<view, backlogBySeq, msgCountBySrc, msgCount>>

Stores(p, m) ==
    errFutureMessage(view, m) /\ m.src # Self /\ store(m) /\ posted' = p /\ UNCHANGED view

\* What the handling of a message comes to: it is left out, stored, or moves
\* the view.
LEMMA HandlerShape ==
    ASSUME Inv, NEW m \in Messages, NEW p, handleCheckedMsg(m, p)
    PROVE  \/ Leaves(p) /\ (m.src = Self \/ ~errFutureMessage(view, m))
           \/ Stores(p, m)
           \/ accepted(view, m) /\ \E v, w : Moves(p, v, w)
  <1>1. ASSUME accepted(view, m), NEW mv \in movesOf(m), updateState(p, mv[1], mv[2])
        PROVE  Moves(p, mv[1], mv[2])
    BY <1>1, MovesForward, MovesType DEF Moves
  <1>. QED  BY <1>1 DEF handleCheckedMsg, Leaves, Stores

\* A timeout moves the view.
LEMMA TimeoutShape ==
    ASSUME Inv, handleTimeoutAndMoveToNextRound
    PROVE  (\E v : Moves(posted, v, v)) /\ UNCHANGED network
  <1>. DEFINE v == at(nextRound, StateWaitingForNewRound)
  <1>1. nextRound \in Nat /\ view.desiredRound \in Nat /\ view.desiredRound <= nextRound
    BY DEF Inv, View, nextRound
  <1>2. StateWaitingForNewRound \in StateAcceptRequest .. StateWaitingForNewRound
    BY DEF StateAcceptRequest, StateWaitingForNewRound
  <1>3. v \in View
    BY <1>1, <1>2, AtType
  <1>4. Forward(view, v) /\ Forward(v, v)
    BY <1>1, AtFields DEF Forward
  <1>5. updateState(posted, v, v) /\ UNCHANGED network
    BY DEF handleTimeoutAndMoveToNextRound
  <1>. HIDE DEF v
  <1>. QED  BY <1>3, <1>4, <1>5 DEF Moves

\* So does a new sequence.
LEMMA SequenceShape ==
    ASSUME Inv, startNewSequence
    PROVE  (\E v : Moves(posted, v, v)) /\ UNCHANGED network
  <1>1. PICK s \in view.sequence + 1 .. LastSequence :
           LET v == [sequence |-> s, desiredRound |-> 0, state |-> StateAcceptRequest]
           IN  updateState(posted, v, v)
    BY DEF startNewSequence
  <1>. DEFINE v == [sequence |-> s, desiredRound |-> 0, state |-> StateAcceptRequest]
  <1>2. s \in Nat /\ view.sequence \in Nat /\ view.sequence < s
    BY BacklogAssumption DEF Inv, View
  <1>3. v \in View
    BY <1>2 DEF View, StateAcceptRequest, StateWaitingForNewRound
  <1>4. Forward(view, v) /\ Forward(v, v)
    BY <1>2 DEF Forward
  <1>5. updateState(posted, v, v)
    BY <1>1
  <1>. HIDE DEF v
  <1>6. UNCHANGED network
    BY Zenon DEF startNewSequence
  <1>. QED  BY <1>3, <1>4, <1>5, <1>6 DEF Moves

CInv ==
    /\ TypeOK
    /\ Counts(backlogBySeq, msgCountBySrc, msgCount)
    /\ BacklogBounded

\* Leaving a message out keeps the counters right.
LEMMA LeavesKeepsCounts ==
    ASSUME CInv, NEW p \in [Messages -> Nat], Leaves(p), network' \in [Messages -> 0 .. Copies]
    PROVE  CInv'
  BY DEF CInv, TypeOK, Counts, BacklogBounded, Leaves, entries, copiesIn, sentBy, sequences, stored

\* So does processing the backlog for a new view.
LEMMA MovesKeepsCounts ==
    ASSUME CInv, NEW p \in [Messages -> Nat], NEW v, NEW w, Moves(p, v, w),
           network' \in [Messages -> 0 .. Copies]
    PROVE  CInv'
  <1>. DEFINE due == popped(backlogBySeq, v)
              b == without(backlogBySeq, due)
              later == popped(b, w)
              S == due \cup later
              c == countsAfter(backlogBySeq, msgCountBySrc, msgCount, S)
  <1>1. /\ view \in View /\ v \in View /\ w \in View /\ backlogBySeq \in [Messages -> Nat]
        /\ Counts(backlogBySeq, msgCountBySrc, msgCount)
    BY Zenon DEF Moves, CInv, TypeOK
  <1>2. S \in SUBSET Messages
    BY Zenon DEF popped, stored
  <1>3. /\ view' = w /\ backlogBySeq' = without(b, later)
        /\ msgCountBySrc' = c.bySrc /\ msgCount' = c.n
        /\ posted' = plus(plus(p, postedBy(backlogBySeq, v)), postedBy(b, w))
    BY Zenon DEF Moves, updateState
  <1>4. backlogBySeq' = without(backlogBySeq, S)
    BY <1>1, <1>3, WithoutTwice
  <1>5. b \in [Messages -> Nat]
    BY <1>1, WithoutType, Zenon
  <1>6. posted' \in [Messages -> Nat]
    BY <1>1, <1>3, <1>5 DEF plus, postedBy
  <1>. HIDE DEF S, c
  <1>7. /\ Counts(backlogBySeq', msgCountBySrc', msgCount')
        /\ msgCount' <= msgCount /\ \A s \in Validators : msgCountBySrc'[s] <= msgCountBySrc[s]
    BY <1>1, <1>2, <1>3, <1>4, CountsAfterRemoval, Zenon DEF c
  <1>8. msgCount' \in Nat /\ msgCount \in Nat
    BY <1>1, <1>7, EntriesFinite, Zenon DEF Counts
  <1>9. TypeOK'
    BY <1>1, <1>3, <1>6, <1>7, <1>8, Zenon DEF TypeOK, Counts
  <1>10. sequences(backlogBySeq') \subseteq sequences(backlogBySeq)
    BY <1>1, <1>4, WithoutType DEF sequences, stored
  <1>11. sequences(backlogBySeq) \subseteq Nat /\ view.sequence \in Nat /\ w.sequence \in Nat
    BY <1>1, MessageFields DEF sequences, stored, View
  <1>12. view.sequence <= w.sequence
    BY <1>1, <1>11 DEF Moves, Forward, View
  <1>13. BacklogBounded'
    <2>1. msgCount' > acceptMaxFutureMessages =>
             \A s \in sequences(backlogBySeq') :
                s <= w.sequence \/ \A t \in sequences(backlogBySeq') : s <= t
      BY <1>7, <1>8, <1>10, <1>11, <1>12, BacklogAssumption DEF CInv, BacklogBounded
    <2>2. \A s \in Validators :
             msgCountBySrc'[s] <= acceptMaxFutureMsgsFromOneValidator + 1
      BY <1>1, <1>7, BacklogAssumption DEF CInv, BacklogBounded, Counts
    <2>3. \A s \in sequences(backlogBySeq') : s <= w.sequence + acceptMaxFutureSequence
      BY <1>10, <1>11, <1>12, BacklogAssumption DEF CInv, BacklogBounded
    <2>. QED  BY <1>3, <2>1, <2>2, <2>3 DEF BacklogBounded, sequences, stored
  <1>. QED  BY <1>7, <1>9, <1>13 DEF CInv, Counts, copiesIn, entries, sentBy

\* So does storing, with the removal of what is over the limit.
LEMMA StoresKeepsCounts ==
    ASSUME CInv, NEW m \in Messages, NEW p \in [Messages -> Nat], Stores(p, m),
           network' \in [Messages -> 0 .. Copies]
    PROVE  CInv'
  <1>1. CASE refused(m)
    <2>1. Leaves(p)
      BY <1>1, Zenon DEF Stores, store, Leaves
    <2>. QED  BY <2>1, LeavesKeepsCounts, Zenon
  <1>2. CASE ~refused(m)
    <2>. DEFINE b == [backlogBySeq EXCEPT ![m] = @ + 1]
                bs == [msgCountBySrc EXCEPT ![m.src] = @ + 1]
                n == msgCount + 1
                S == overflow(b, n)
                c == countsAfter(b, bs, n, S)
                limit == view.sequence + acceptMaxFutureSequence
    <2>1. /\ view \in View /\ view' = view /\ view.sequence \in Nat
          /\ backlogBySeq \in [Messages -> Nat]
          /\ Counts(backlogBySeq, msgCountBySrc, msgCount)
      BY Zenon DEF CInv, TypeOK, Stores, View
    <2>2. /\ backlogBySeq' = without(b, S) /\ msgCountBySrc' = c.bySrc /\ msgCount' = c.n
          /\ posted' = p
      BY <1>2 DEF Stores, store
    <2>3. Counts(b, bs, n)
      BY <2>1, CountsAfterAddition, Zenon
    <2>4. m.src \in Validators /\ m.sequence \in Nat
      BY BacklogAssumption, MessageFields DEF Message
    <2>5. /\ m.sequence <= limit /\ limit \in Nat
          /\ msgCountBySrc[m.src] <= acceptMaxFutureMsgsFromOneValidator
      BY <1>2, <2>1, <2>4, BacklogAssumption DEF refused, Counts
    <2>6. \A w \in stored(b) : w = m \/ w \in stored(backlogBySeq)
      BY <2>1 DEF stored
    <2>7. \A s \in Validators : bs[s] <= acceptMaxFutureMsgsFromOneValidator + 1
      BY <2>1, <2>4, <2>5, BacklogAssumption DEF CInv, BacklogBounded, Counts
    <2>8. S \in SUBSET Messages
      BY DEF overflow, stored
    <2>9. \A w \in stored(b) : w \in Messages /\ w.sequence \in Nat
      BY MessageFields DEF stored
    <2>. HIDE DEF b, bs, n, S, c
    <2>10. \A w \in stored(b) : w.sequence <= limit
      BY <2>5, <2>6, Zenon DEF CInv, BacklogBounded, sequences
    <2>11. /\ Counts(backlogBySeq', msgCountBySrc', msgCount')
           /\ \A s \in Validators : msgCountBySrc'[s] <= bs[s]
      BY <2>2, <2>3, <2>8, CountsAfterRemoval, Zenon DEF c
    <2>12. msgCount' \in Nat /\ msgCount' = copiesIn(without(b, S), Messages)
      BY <2>2, <2>11, EntriesFinite DEF Counts
    <2>13. b \in [Messages -> Nat]
      BY <2>3 DEF Counts
    <2>14. stored(backlogBySeq') \subseteq stored(b)
      BY <2>2, <2>13, WithoutType, Zenon DEF stored
    <2>15. TypeOK'
      BY <2>1, <2>2, <2>11, <2>12, Zenon DEF TypeOK, Counts
    <2>16. ASSUME msgCount' > acceptMaxFutureMessages,
                  NEW s \in sequences(backlogBySeq'),
                  NEW t \in sequences(backlogBySeq'), ~ (s <= t)
           PROVE  s <= view.sequence
      <3>1. PICK x \in stored(backlogBySeq') : s = x.sequence
        BY DEF sequences
      <3>2. PICK y \in stored(backlogBySeq') : t = y.sequence
        BY DEF sequences
      <3>3. y.sequence < x.sequence
        BY <2>9, <2>14, <2>16, <3>1, <3>2
      <3>. HIDE DEF limit
      <3>. QED  BY <2>1, <2>2, <2>3, <2>5, <2>10, <2>12, <2>16, <3>1, <3>2, <3>3,
                   OverflowIsEnough, Zenon DEF S
    <2>17. \A s \in sequences(backlogBySeq') : s <= limit
      BY <2>10, <2>14 DEF sequences
    <2>18. \A s \in Validators :
              msgCountBySrc'[s] <= acceptMaxFutureMsgsFromOneValidator + 1
      BY <2>3, <2>7, <2>11, BacklogAssumption DEF Counts
    <2>19. BacklogBounded'
      BY <2>1, <2>16, <2>17, <2>18 DEF BacklogBounded, sequences, stored
    <2>. QED  BY <2>11, <2>15, <2>19 DEF CInv, Counts, copiesIn, entries, sentBy
  <1>. QED  BY <1>1, <1>2

\* The counters are right in the beginning.
LEMMA InitCInv == Init => CInv
  <1>. SUFFICES ASSUME Init PROVE CInv
    OBVIOUS
  <1>1. TypeOK
    BY BacklogAssumption DEF Init, TypeOK, View, StateAcceptRequest, StateWaitingForNewRound
  <1>2. ASSUME NEW T \in SUBSET Messages
        PROVE  entries(backlogBySeq, T) = {}
    BY <1>1, EntriesAre DEF Init, TypeOK
  <1>3. \A T \in SUBSET Messages : copiesIn(backlogBySeq, T) = 0
    BY <1>2, FS_EmptySet DEF copiesIn
  <1>4. \A s \in Validators : sentBy(s) \in SUBSET Messages
    BY DEF sentBy
  <1>5. IsFiniteSet(entries(backlogBySeq, Messages))
    BY <1>2, FS_EmptySet
  <1>6. Counts(backlogBySeq, msgCountBySrc, msgCount)
    BY <1>1, <1>3, <1>4, <1>5, Zenon DEF Init, Counts, TypeOK
  <1>7. BacklogBounded
    BY BacklogAssumption DEF Init, BacklogBounded, sequences, stored
  <1>. QED  BY <1>1, <1>6, <1>7 DEF CInv

\* And after every step.
LEMMA NextCInv == Inv /\ CInv /\ [Next]_vars => CInv'
  <1>. SUFFICES ASSUME Inv, CInv, [Next]_vars PROVE CInv'
    OBVIOUS
  <1>1. ASSUME NEW m \in Messages, NEW p \in [Messages -> Nat], handleCheckedMsg(m, p),
               network' \in [Messages -> 0 .. Copies]
        PROVE  CInv'
    BY <1>1, HandlerShape, LeavesKeepsCounts, StoresKeepsCounts, MovesKeepsCounts
  <1>2. ASSUME NEW m \in Messages, handleMessageEvent(m)
        PROVE  CInv'
    <2>1. posted \in [Messages -> Nat] /\ network' \in [Messages -> 0 .. Copies]
      BY <1>2, BacklogAssumption DEF handleMessageEvent, CInv, TypeOK
    <2>. QED  BY <1>1, <1>2, <2>1 DEF handleMessageEvent
  <1>3. ASSUME NEW m \in Messages, handleBacklogEvent(m)
        PROVE  CInv'
    <2>1. /\ [posted EXCEPT ![m] = @ - 1] \in [Messages -> Nat]
          /\ network' \in [Messages -> 0 .. Copies]
      BY <1>3 DEF handleBacklogEvent, CInv, TypeOK
    <2>. QED  BY <1>1, <1>3, <2>1, Zenon DEF handleBacklogEvent
  <1>4. CASE handleTimeoutAndMoveToNextRound \/ startNewSequence
    <2>1. (\E v : Moves(posted, v, v)) /\ UNCHANGED network
      BY <1>4, TimeoutShape, SequenceShape
    <2>2. posted \in [Messages -> Nat] /\ network' \in [Messages -> 0 .. Copies]
      BY <2>1 DEF CInv, TypeOK
    <2>. QED  BY <2>1, <2>2, MovesKeepsCounts
  <1>5. CASE UNCHANGED vars
    <2>1. Leaves(posted) /\ posted \in [Messages -> Nat] /\ network' \in [Messages -> 0 .. Copies]
      BY <1>5 DEF vars, Leaves, CInv, TypeOK
    <2>. QED  BY <2>1, LeavesKeepsCounts
  <1>. QED  BY <1>2, <1>3, <1>4, <1>5 DEF Next

\* So both invariants always hold.
LEMMA CInvHolds == Spec => [](Inv /\ CInv)
  BY InitInv, NextInv, InitCInv, NextCInv, PTL DEF Spec

\* The backlog, its counters and the events on their way keep their types:
\* no counter of the backlog ever falls below zero.
THEOREM TypeCorrect == Spec => []TypeOK
  <1>1. CInv => TypeOK
    BY DEF CInv
  <1>. QED  BY <1>1, CInvHolds, PTL

\* msgCount and msgCountBySrc count what is in the backlog, however many
\* messages arrive, are pruned or are posted.
THEOREM CountersAlwaysMatch == Spec => []CountersMatch
  <1>1. CInv => CountersMatch
    BY DEF CInv, Counts, CountersMatch
  <1>. QED  BY <1>1, CInvHolds, PTL

\* The limits of store and removeMessagesOverflow bound the backlog, up to
\* what is left of the current and of the nearest sequence.
THEOREM BacklogIsBounded == Spec => []BacklogBounded
  <1>1. CInv => BacklogBounded
    BY DEF CInv
  <1>. QED  BY <1>1, CInvHolds, PTL

-----------------------------------------------------------------------------
(***************************************************************************)
(* Messages to come are kept.                                              *)
(***************************************************************************)
ToCome(v, m) == m.sequence = v.sequence /\ errFutureMessage(v, m)

\* A message of the sequence that is to come is not popped.
LEMMA ToComeIsNotPopped ==
    ASSUME NEW b, NEW v, NEW m \in Messages, ToCome(v, m), v.sequence \in Nat
    PROVE  m \notin popped(b, v)
  <1>1. toPriority(m) \in Int
    <2>1. toPriority(m) = 0 \/ \E k \in 1 .. 3 : toPriority(m) = -(10 * m.round + k)
      BY PriorityOfVote DEF toPriority
    <2>. QED  BY <2>1, MessageFields
  <1>. HIDE DEF toPriority
  <1>. QED  BY <1>1 DEF popped, ToCome

\* A move loses no message to come.
LEMMA MovesLosesNothing ==
    ASSUME CInv, NEW p \in [Messages -> Nat], NEW v, NEW w, Moves(p, v, w),
           NEW m \in Messages, ToCome(w, m)
    PROVE  backlogBySeq'[m] + posted'[m] = backlogBySeq[m] + p[m]
  <1>. DEFINE B == backlogBySeq
              due == popped(B, v)
              b == without(B, due)
              later == popped(b, w)
  <1>1. /\ B \in [Messages -> Nat] /\ v \in View /\ w \in View
        /\ m.sequence \in Nat /\ m.round \in Nat
        /\ v.sequence \in Nat /\ w.sequence \in Nat
        /\ v.desiredRound \in Nat /\ w.desiredRound \in Nat
    BY MessageFields DEF CInv, TypeOK, Moves, View
  <1>2. m \notin later
    BY <1>1, ToComeIsNotPopped
  <1>3. ~errOldMessage(v, m)
    BY <1>1 DEF Moves, Forward, errOldMessage, errFutureMessage, ToCome
  <1>4. m \in due => accepted(v, m)
    <2>. SUFFICES ASSUME m \in due, errFutureMessage(v, m) PROVE FALSE
      BY <1>3 DEF accepted
    <2>1. m.sequence <= v.sequence
      BY <1>1 DEF popped
    <2>2. ToCome(v, m)
      BY <1>1, <2>1 DEF errFutureMessage, ToCome
    <2>. QED  BY <1>1, <2>2, ToComeIsNotPopped
  <1>5. /\ b[m] = IF m \in due THEN 0 ELSE B[m]
        /\ postedBy(B, v)[m] = IF m \in due THEN B[m] ELSE 0
    BY <1>4 DEF without, postedBy
  <1>6. without(b, later)[m] = b[m] /\ postedBy(b, w)[m] = 0
    BY <1>2, Zenon DEF without, postedBy
  <1>7. /\ backlogBySeq' = without(b, later)
        /\ posted' = plus(plus(p, postedBy(B, v)), postedBy(b, w))
    BY DEF Moves, updateState
  <1>. HIDE DEF due, later, b
  <1>8. posted'[m] = p[m] + postedBy(B, v)[m] + postedBy(b, w)[m]
    BY <1>7 DEF plus
  <1>9. p[m] \in Nat /\ B[m] \in Nat
    BY <1>1, Zenon
  <1>10. backlogBySeq'[m] = b[m] /\ posted'[m] = p[m] + postedBy(B, v)[m] + 0
    BY <1>6, <1>7, <1>8, Zenon
  <1>. HIDE DEF B
  <1>11. CASE m \in due
    BY <1>5, <1>9, <1>10, <1>11 DEF B
  <1>12. CASE m \notin due
    BY <1>5, <1>9, <1>10, <1>12 DEF B
  <1>. QED  BY <1>11, <1>12

\* Storing loses no other message to come, and stores this one unless a limit
\* is reached.
LEMMA StoresLosesNothing ==
    ASSUME CInv, NEW w \in Messages, NEW p \in [Messages -> Nat], Stores(p, w),
           NEW m \in Messages, ToCome(view, m)
    PROVE  /\ backlogBySeq'[m] \in Nat /\ backlogBySeq'[m] >= backlogBySeq[m]
           /\ posted' = p
           /\ \/ m # w
              \/ m.round >= maxRoundForPriorityQueue
              \/ msgCountBySrc[m.src] > acceptMaxFutureMsgsFromOneValidator
              \/ backlogBySeq'[m] = backlogBySeq[m] + 1
  <1>1. /\ backlogBySeq \in [Messages -> Nat] /\ m.sequence \in Nat /\ view.sequence \in Nat
        /\ posted' = p
    BY MessageFields DEF CInv, TypeOK, View, Stores
  <1>2. CASE refused(w)
    <2>1. backlogBySeq' = backlogBySeq
      BY <1>2, Zenon DEF Stores, store
    <2>2. \/ m # w
          \/ m.round >= maxRoundForPriorityQueue
          \/ msgCountBySrc[m.src] > acceptMaxFutureMsgsFromOneValidator
      BY <1>1, <1>2, BacklogAssumption DEF refused, ToCome
    <2>3. backlogBySeq'[m] \in Nat /\ backlogBySeq'[m] >= backlogBySeq[m]
      BY <1>1, <2>1
    <2>. QED  BY <1>1, <2>2, <2>3, Zenon
  <1>3. CASE ~refused(w)
    <2>. DEFINE b == [backlogBySeq EXCEPT ![w] = @ + 1]
                S == overflow(b, msgCount + 1)
    <2>1. backlogBySeq' = without(b, S)
      BY <1>3 DEF Stores, store
    <2>2. m \notin S
      BY <1>1 DEF overflow, ToCome
    <2>3. b[m] = backlogBySeq[m] + IF m = w THEN 1 ELSE 0
      BY <1>1
    <2>. HIDE DEF b, S
    <2>4. backlogBySeq'[m] = b[m]
      BY <2>1, <2>2 DEF without
    <2>. QED  BY <1>1, <2>3, <2>4
  <1>. QED  BY <1>2, <1>3

\* Why a copy of a message to come may be lost.
MayBeLost(m) ==
    \/ m.src = Self
    \/ m.round >= maxRoundForPriorityQueue
    \/ msgCountBySrc[m.src] > acceptMaxFutureMsgsFromOneValidator
    \/ accepted(view, m)

\* Handling a message loses no message to come, but for the reasons of
\* MayBeLost.
LEMMA HandlerLosesNothing ==
    ASSUME Inv, CInv, NEW w \in Messages, NEW p \in [Messages -> Nat], handleCheckedMsg(w, p),
           NEW m \in Messages, ToCome(view', m)
    PROVE  \/ m = w /\ MayBeLost(m)
           \/ backlogBySeq'[m] + posted'[m] >= backlogBySeq[m] + p[m] + IF m = w THEN 1 ELSE 0
  <1>1. /\ backlogBySeq[m] \in Nat /\ p[m] \in Nat
        /\ m.sequence \in Nat /\ m.round \in Nat
        /\ view.sequence \in Nat /\ view.desiredRound \in Nat
    BY MessageFields, Zenon DEF CInv, TypeOK, View
  <1>2. CASE Leaves(p) /\ (w.src = Self \/ ~errFutureMessage(view, w))
    <2>1. view' = view /\ backlogBySeq' = backlogBySeq /\ posted' = p
      BY <1>2, Zenon DEF Leaves
    <2>2. m # w \/ m.src = Self
      BY <1>2, <2>1, Zenon DEF ToCome
    <2>. QED  BY <1>1, <2>1, <2>2 DEF MayBeLost
  <1>3. CASE Stores(p, w)
    <2>1. ToCome(view, m)
      BY <1>3, Zenon DEF Stores
    <2>2. /\ backlogBySeq'[m] \in Nat /\ backlogBySeq'[m] >= backlogBySeq[m]
          /\ posted' = p
          /\ \/ m # w
             \/ m.round >= maxRoundForPriorityQueue
             \/ msgCountBySrc[m.src] > acceptMaxFutureMsgsFromOneValidator
             \/ backlogBySeq'[m] = backlogBySeq[m] + 1
      BY <1>3, <2>1, StoresLosesNothing
    <2>3. CASE MayBeLost(m) /\ m = w
      BY <2>3, Zenon
    <2>4. CASE m = w /\ backlogBySeq'[m] = backlogBySeq[m] + 1
      BY <1>1, <2>2, <2>4
    <2>5. CASE m # w
      BY <1>1, <2>2, <2>5
    <2>. QED  BY <2>2, <2>3, <2>4, <2>5 DEF MayBeLost
  <1>4. ASSUME NEW v, NEW u, accepted(view, w), Moves(p, v, u)
        PROVE  \/ m = w /\ MayBeLost(m)
               \/ backlogBySeq'[m] + posted'[m] >=
                     backlogBySeq[m] + p[m] + IF m = w THEN 1 ELSE 0
    <2>1. view' = u
      BY <1>4, Zenon DEF Moves, updateState
    <2>2. backlogBySeq'[m] + posted'[m] = backlogBySeq[m] + p[m]
      BY <1>4, <2>1, MovesLosesNothing, Zenon
    <2>3. CASE m = w
      BY <1>4, <2>3, Zenon DEF MayBeLost
    <2>4. CASE m # w
      BY <1>1, <2>2, <2>4
    <2>. QED  BY <2>3, <2>4, Zenon
  <1>. QED  BY <1>2, <1>3, <1>4, HandlerShape

\* Nor does any other step.
LEMMA NextLosesNothing ==
    ASSUME Inv, CInv, Next, NEW m \in Messages, ToCome(view', m), copies(m)' < copies(m)
    PROVE  MayBeLost(m)
  <1>1. /\ backlogBySeq[m] \in Nat /\ posted[m] \in Nat /\ network[m] \in Nat
        /\ posted \in [Messages -> Nat] /\ network \in [Messages -> 0 .. Copies]
    BY BacklogAssumption DEF CInv, TypeOK
  <1>2. /\ backlogBySeq'[m] \in Nat /\ posted'[m] \in Nat /\ network'[m] \in Nat
    <2>1. CInv'
      BY NextCInv, Zenon
    <2>. QED  BY <2>1, BacklogAssumption DEF CInv, TypeOK
  <1>3. network'[m] + backlogBySeq'[m] + posted'[m] < network[m] + backlogBySeq[m] + posted[m]
    BY Zenon DEF copies
  <1>4. ASSUME NEW w \in Messages, handleMessageEvent(w)
        PROVE  MayBeLost(m)
    <2>1. handleCheckedMsg(w, posted)
      BY <1>4 DEF handleMessageEvent
    <2>2. network'[m] = network[m] - IF m = w THEN 1 ELSE 0
      BY <1>1, <1>4 DEF handleMessageEvent
    <2>3. \/ m = w /\ MayBeLost(m)
          \/ backlogBySeq'[m] + posted'[m] >=
                backlogBySeq[m] + posted[m] + IF m = w THEN 1 ELSE 0
      BY <1>1, <2>1, HandlerLosesNothing, Zenon
    <2>. HIDE DEF MayBeLost
    <2>. QED  BY <1>1, <1>2, <1>3, <2>2, <2>3
  <1>5. ASSUME NEW w \in Messages, handleBacklogEvent(w)
        PROVE  MayBeLost(m)
    <2>. DEFINE p == [posted EXCEPT ![w] = @ - 1]
    <2>1. /\ handleCheckedMsg(w, p) /\ network' = network
          /\ p \in [Messages -> Nat]
          /\ p[m] = posted[m] - IF m = w THEN 1 ELSE 0
      BY <1>1, <1>5 DEF handleBacklogEvent
    <2>. HIDE DEF p
    <2>2. \/ m = w /\ MayBeLost(m)
          \/ backlogBySeq'[m] + posted'[m] >=
                backlogBySeq[m] + p[m] + IF m = w THEN 1 ELSE 0
      BY <2>1, HandlerLosesNothing, Zenon
    <2>. HIDE DEF MayBeLost
    <2>. QED  BY <1>1, <1>2, <1>3, <2>1, <2>2
  <1>6. CASE handleTimeoutAndMoveToNextRound \/ startNewSequence
    <2>1. PICK v : Moves(posted, v, v) /\ network' = network
      BY <1>6, TimeoutShape, SequenceShape, Zenon
    <2>2. view' = v
      BY <2>1, Zenon DEF Moves, updateState
    <2>3. backlogBySeq'[m] + posted'[m] = backlogBySeq[m] + posted[m]
      BY <1>1, <2>1, <2>2, MovesLosesNothing
    <2>. QED  BY <1>1, <1>2, <1>3, <2>1, <2>3
  <1>. QED  BY <1>4, <1>5, <1>6 DEF Next

\* No overflow, no move of the core and no order of deliveries loses a
\* message of the current sequence that is still to come, but for the
\* reasons store and handleCheckedMsg name.
THEOREM FutureIsKept == Spec => FutureOfSequenceKept
  <1>. DEFINE Kept == \A m \in Messages :
                         /\ m.sequence = view'.sequence
                         /\ errFutureMessage(view', m)
                         /\ copies(m)' < copies(m)
                         => \/ m.src = Self
                            \/ m.round >= maxRoundForPriorityQueue
                            \/ msgCountBySrc[m.src] > acceptMaxFutureMsgsFromOneValidator
                            \/ accepted(view, m)
  <1>1. Inv /\ CInv /\ [Next]_vars => [Kept]_vars
    BY NextLosesNothing DEF ToCome, MayBeLost
  <1>. QED  BY <1>1, CInvHolds, PTL DEF Spec, FutureOfSequenceKept

=============================================================================
