------------------------- MODULE RoundStateDBProofs -------------------------
(***************************************************************************)
(* What the database of round states guarantees, for every number of       *)
(* sequences, rounds, faults and crashes: a core can always restart, signs *)
(* for one block in each view, and the collector deletes no evidence; and  *)
(* while no write failed, a restart loses nothing that was handled.        *)
(***************************************************************************)
EXTENDS RoundStateDB, TLAPS

DB == [lastView : Views \cup {Absent},
       rs : [Views -> RoundState \cup {Absent}],
       rcvd : [Views -> Rcvd \cup {Absent}]]

\* The view was reached by the database.
Reached(db, w) == db.lastView # Absent /\ ~before(db.lastView, w)

\* A round state that accepts votes has a proposal.
HasProposal(rs) ==
    rs.state \notin {StateAcceptRequest, StateWaitingForNewRound} => rs.preprepare \in Blocks

\* The last view is the highest of those saved, and what is in the window of
\* the collector is there.
DbInv(db, sv) ==
    /\ \A w \in Views : db.rs[w] # Absent => db.rs[w].view = w /\ HasProposal(db.rs[w])
    /\ db.lastView # Absent => db.lastView \in sv
    /\ \A w \in sv :
          /\ Reached(db, w)
          /\ w[1] + sequencesToSave >= db.lastView[1] => db.rs[w] # Absent

\* The memory is never behind the database.
CurInv(cur, db) ==
    cur # Down => /\ HasProposal(cur)
                  /\ db.lastView # Absent => ~before(cur.view, db.lastView)

Stands(rs, p) == rs.preprepare = p /\ rs.state # StateAcceptRequest

\* What was signed is the proposal of its view, on disk and in memory.
VoteInv(cur, db, vt) ==
    \A w \in Views : \A p \in vt[w] :
        /\ Reached(db, w)
        /\ db.lastView = w => Stands(db.rs[w], p)
        /\ cur # Down /\ cur.view = w => Stands(cur, p)
        /\ \A q \in vt[w] : p = q

\* The collector works below a limit that was valid and stays so.
GcInv(db, g) ==
    /\ g.phase # "idle" =>
          /\ db.lastView # Absent
          /\ g.oldest + sequencesToSave <= db.lastView[1]
          /\ \A w \in g.todo : w[1] < g.oldest
    /\ g.phase = "rs" =>
          \A w \in Views : w[1] < g.oldest /\ db.rs[w] # Absent => w \in g.todo
    /\ g.phase = "rcvd" => \A w \in Views : w[1] < g.oldest => db.rs[w] = Absent

Inv ==
    /\ TypeOK
    /\ DbInv(rsdb, saved)
    /\ CurInv(current, rsdb)
    /\ VoteInv(current, rsdb, voted)
    /\ GcInv(rsdb, gc)

-----------------------------------------------------------------------------
(***************************************************************************)
(* Views and round states.                                                 *)
(***************************************************************************)
\* The state of a round before its proposal is not one of the later ones.
LEMMA StatesDiffer ==
    StateAcceptRequest \notin
        {StatePreprepared, StatePrepared, StateCommitted, StateWaitingForNewRound}
  BY DEF StateAcceptRequest, StatePreprepared, StatePrepared, StateCommitted,
         StateWaitingForNewRound

\* Views are pairs, ordered by the sequence and then by the round.
LEMMA ViewOrder ==
    /\ \A v \in Views : v = <<v[1], v[2]>> /\ v[1] \in Sequences /\ v[2] \in Rounds
    /\ \A v, w \in Views : before(v, w) \/ v = w \/ before(w, v)
    /\ \A v, w \in Views : ~ (before(v, w) /\ before(w, v)) /\ ~before(v, v)
    /\ \A v, w, x \in Views : before(v, w) /\ before(w, x) => before(v, x)
    /\ \A v, w, x \in Views : before(v, w) /\ ~before(x, w) => before(v, x)
    /\ \A v, w, x \in Views : ~before(v, w) /\ ~before(w, x) => ~before(v, x)
    /\ \A v, w \in Views : ~before(v, w) => v[1] >= w[1]
  BY ConstantsAssumption DEF Views, Sequences, Rounds, before

\* The numbers of a view, the round after it and the first view of a sequence.
LEMMA ViewNumbers ==
    /\ \A v \in Views : v[1] \in Nat /\ v[2] \in Nat
    /\ \A v \in Views : v[2] < MaxRound => v[2] + 1 \in Rounds
    /\ \A q \in Sequences : <<q, 0>> \in Views
    /\ \A v \in Views, q \in 0 .. MaxSequence :
          q >= v[1] /\ q < MaxSequence => q + 1 \in Sequences /\ v[1] < q + 1
  BY ConstantsAssumption DEF Views, Sequences, Rounds

\* A transition goes to a later view or keeps a proposal that was accepted.
Legal(cur, rs) ==
    /\ HasProposal(rs)
    /\ ~before(rs.view, cur.view)
    /\ rs.view = cur.view /\ cur.state # StateAcceptRequest => Stands(rs, cur.preprepare)

\* The round state a sequence starts with.
LEMMA NewRoundStateType ==
    ASSUME NEW seq \in Sequences
    PROVE  /\ newRoundState(seq) \in RoundState
           /\ newRoundState(seq).view = <<seq, 0>>
           /\ HasProposal(newRoundState(seq))
  BY ConstantsAssumption DEF newRoundState, RoundState, Views, Sequences, Rounds, MessageSet,
     noMessages, HasProposal, StateAcceptRequest, StateWaitingForNewRound

\* changeRound: a later view, with nothing accepted in it.
LEMMA ChangeRoundType ==
    ASSUME NEW rs \in RoundState, NEW view \in Views, before(rs.view, view)
    PROVE  /\ changeRound(rs, view) \in RoundState
           /\ changeRound(rs, view).view = view
           /\ changeRound(rs, view).state = StateAcceptRequest
           /\ Legal(rs, changeRound(rs, view))
  <1>1. view[2] \in Rounds /\ noMessages \in MessageSet
    BY DEF Views, noMessages, MessageSet
  <1>2. changeRound(rs, view) \in RoundState /\ changeRound(rs, view).view = view
        /\ changeRound(rs, view).state = StateAcceptRequest
    BY <1>1 DEF changeRound, RoundState, StateAcceptRequest, StateWaitingForNewRound
  <1>. QED  BY <1>2, ViewOrder DEF Legal, HasProposal, RoundState

\* One field at a time.
LEMMA SetField ==
    ASSUME NEW rs \in RoundState
    PROVE  /\ \A q \in StateAcceptRequest .. StateWaitingForNewRound :
                 LET n == [rs EXCEPT !.state = q]
                 IN  /\ n \in RoundState /\ n.state = q
                     /\ n.view = rs.view /\ n.preprepare = rs.preprepare
           /\ \A p \in Blocks \cup {NoBlock} :
                 LET n == [rs EXCEPT !.preprepare = p]
                 IN  /\ n \in RoundState /\ n.preprepare = p
                     /\ n.view = rs.view /\ n.state = rs.state
           /\ \A p \in Blocks \cup {NoBlock} :
                 LET n == [rs EXCEPT !.preparedCertificate = p]
                 IN  /\ n \in RoundState /\ n.preprepare = rs.preprepare
                     /\ n.view = rs.view /\ n.state = rs.state
           /\ \A r \in Rounds :
                 LET n == [rs EXCEPT !.desiredRound = r]
                 IN  /\ n \in RoundState /\ n.preprepare = rs.preprepare
                     /\ n.view = rs.view /\ n.state = rs.state
           /\ \A ms \in MessageSet :
                 LET n == [rs EXCEPT !.prepares = ms]
                 IN  /\ n \in RoundState /\ n.preprepare = rs.preprepare
                     /\ n.view = rs.view /\ n.state = rs.state
           /\ \A ms \in MessageSet :
                 LET n == [rs EXCEPT !.commits = ms]
                 IN  /\ n \in RoundState /\ n.preprepare = rs.preprepare
                     /\ n.view = rs.view /\ n.state = rs.state
           /\ \A S \in SUBSET Voters :
                 LET n == [rs EXCEPT !.parentCommits = S]
                 IN  /\ n \in RoundState /\ n.preprepare = rs.preprepare
                     /\ n.view = rs.view /\ n.state = rs.state
  BY DEF RoundState

\* The transitions keep the type and the view, and are legal steps of a round
\* state.
LEMMA TransitionTypes ==
    ASSUME NEW rs \in RoundState, HasProposal(rs)
    PROVE  /\ \A p \in Blocks : rs.state = StateAcceptRequest =>
                 /\ TransitionToPrepreparedV2(rs, p) \in RoundState
                 /\ Legal(rs, TransitionToPrepreparedV2(rs, p))
                 /\ Stands(TransitionToPrepreparedV2(rs, p), p)
                 /\ TransitionToPrepreparedV2(rs, p).view = rs.view
           /\ rs.state \notin {StateAcceptRequest, StateWaitingForNewRound} =>
                 /\ TransitionToPrepared(rs) \in RoundState
                 /\ TransitionToCommitted(rs) \in RoundState
                 /\ Legal(rs, TransitionToPrepared(rs))
                 /\ Legal(rs, TransitionToCommitted(rs))
                 /\ Stands(TransitionToPrepared(rs), rs.preprepare)
                 /\ TransitionToPrepared(rs).view = rs.view
                 /\ TransitionToCommitted(rs).view = rs.view
           /\ \A r \in Rounds :
                 /\ TransitionToWaitingForNewRound(rs, r) \in RoundState
                 /\ Legal(rs, TransitionToWaitingForNewRound(rs, r))
                 /\ TransitionToWaitingForNewRound(rs, r).view = rs.view
  <1>1. ~before(rs.view, rs.view)
    BY ViewOrder DEF RoundState
  <1>2. ASSUME NEW p \in Blocks, rs.state = StateAcceptRequest
        PROVE  LET n == TransitionToPrepreparedV2(rs, p)
               IN  n \in RoundState /\ n.view = rs.view /\ n.preprepare = p
                   /\ n.state = StatePreprepared
    <2>. DEFINE m == [rs EXCEPT !.preprepare = p]
    <2>1. m \in RoundState /\ m.view = rs.view /\ m.preprepare = p
      BY SetField
    <2>2. TransitionToPrepreparedV2(rs, p) = [m EXCEPT !.state = StatePreprepared]
      BY DEF TransitionToPrepreparedV2
    <2>. HIDE DEF m
    <2>3. /\ [m EXCEPT !.state = StatePreprepared] \in RoundState
          /\ [m EXCEPT !.state = StatePreprepared].state = StatePreprepared
          /\ [m EXCEPT !.state = StatePreprepared].view = m.view
          /\ [m EXCEPT !.state = StatePreprepared].preprepare = m.preprepare
      BY <2>1 DEF RoundState, StatePreprepared, StateAcceptRequest, StateWaitingForNewRound
    <2>. QED  BY <2>1, <2>2, <2>3
  <1>3. LET n == TransitionToPrepared(rs)
        IN  n \in RoundState /\ n.view = rs.view /\ n.preprepare = rs.preprepare
            /\ n.state = StatePrepared
    <2>. DEFINE m == [rs EXCEPT !.preparedCertificate = rs.preprepare]
    <2>1. m \in RoundState /\ m.view = rs.view /\ m.preprepare = rs.preprepare
      BY SetField DEF RoundState
    <2>2. TransitionToPrepared(rs) = [m EXCEPT !.state = StatePrepared]
      BY DEF TransitionToPrepared
    <2>. HIDE DEF m
    <2>3. /\ [m EXCEPT !.state = StatePrepared] \in RoundState
          /\ [m EXCEPT !.state = StatePrepared].state = StatePrepared
          /\ [m EXCEPT !.state = StatePrepared].view = m.view
          /\ [m EXCEPT !.state = StatePrepared].preprepare = m.preprepare
      BY <2>1 DEF RoundState, StatePrepared, StateAcceptRequest, StateWaitingForNewRound
    <2>. QED  BY <2>1, <2>2, <2>3
  <1>4. LET n == TransitionToCommitted(rs)
        IN  n \in RoundState /\ n.view = rs.view /\ n.preprepare = rs.preprepare
            /\ n.state = StateCommitted
    BY DEF TransitionToCommitted, RoundState, StateCommitted,
       StateAcceptRequest, StateWaitingForNewRound
  <1>5. ASSUME NEW r \in Rounds
        PROVE  LET n == TransitionToWaitingForNewRound(rs, r)
               IN  n \in RoundState /\ n.view = rs.view /\ n.preprepare = rs.preprepare
                   /\ n.state = StateWaitingForNewRound
    <2>. DEFINE m == [rs EXCEPT !.desiredRound = r]
    <2>1. m \in RoundState /\ m.view = rs.view /\ m.preprepare = rs.preprepare
      BY SetField
    <2>2. TransitionToWaitingForNewRound(rs, r) = [m EXCEPT !.state = StateWaitingForNewRound]
      BY DEF TransitionToWaitingForNewRound
    <2>. HIDE DEF m
    <2>3. /\ [m EXCEPT !.state = StateWaitingForNewRound] \in RoundState
          /\ [m EXCEPT !.state = StateWaitingForNewRound].state = StateWaitingForNewRound
          /\ [m EXCEPT !.state = StateWaitingForNewRound].view = m.view
          /\ [m EXCEPT !.state = StateWaitingForNewRound].preprepare = m.preprepare
      BY <2>1 DEF RoundState, StateAcceptRequest, StateWaitingForNewRound
    <2>. QED  BY <2>1, <2>2, <2>3
  <1>. USE DEF StateAcceptRequest, StatePreprepared, StatePrepared, StateCommitted,
           StateWaitingForNewRound
  <1>6. ASSUME NEW p \in Blocks, rs.state = StateAcceptRequest
        PROVE  LET n == TransitionToPrepreparedV2(rs, p)
               IN  n \in RoundState /\ Legal(rs, n) /\ Stands(n, p) /\ n.view = rs.view
    BY <1>1, <1>2, <1>6 DEF Legal, HasProposal, Stands
  <1>7. ASSUME rs.state \notin {StateAcceptRequest, StateWaitingForNewRound}
        PROVE  /\ TransitionToPrepared(rs) \in RoundState
               /\ TransitionToCommitted(rs) \in RoundState
               /\ Legal(rs, TransitionToPrepared(rs))
               /\ Legal(rs, TransitionToCommitted(rs))
               /\ Stands(TransitionToPrepared(rs), rs.preprepare)
               /\ TransitionToPrepared(rs).view = rs.view
               /\ TransitionToCommitted(rs).view = rs.view
    BY <1>1, <1>3, <1>4, <1>7 DEF Legal, HasProposal, Stands
  <1>8. ASSUME NEW r \in Rounds
        PROVE  LET n == TransitionToWaitingForNewRound(rs, r)
               IN  n \in RoundState /\ Legal(rs, n) /\ n.view = rs.view
    BY <1>1, <1>5, <1>8 DEF Legal, HasProposal, Stands
  <1>. QED  BY <1>6, <1>7, <1>8

\* The same round state but for votes.
Same(rs, n) ==
    /\ n \in RoundState
    /\ n.view = rs.view /\ n.state = rs.state /\ n.preprepare = rs.preprepare

\* Round states that differ only in votes are legal steps of each other.
LEMMA SameIsLegal ==
    ASSUME NEW rs \in RoundState, NEW n, Same(rs, n), HasProposal(rs)
    PROVE  Legal(rs, n) /\ HasProposal(n)
  BY ViewOrder DEF Same, Legal, HasProposal, Stands, RoundState

\* Two legal steps are one.
LEMMA LegalChain ==
    ASSUME NEW a \in RoundState, NEW b \in RoundState, NEW c \in RoundState,
           Legal(a, b), Legal(b, c)
    PROVE  Legal(a, c)
  <1>1. a.view \in Views /\ b.view \in Views /\ c.view \in Views
    BY DEF RoundState
  <1>2. ~before(c.view, a.view)
    BY <1>1, ViewOrder DEF Legal
  <1>3. c.view = a.view => b.view = a.view
    BY <1>1, ViewOrder DEF Legal
  <1>. QED  BY <1>2, <1>3 DEF Legal, Stands

\* Recording a vote changes nothing but the votes.
LEMMA VoteTypes ==
    ASSUME NEW rs \in RoundState, NEW s \in Voters
    PROVE  /\ Same(rs, AddPrepare(rs, s, rs.preprepare))
           /\ Same(rs, AddCommit(rs, s, rs.preprepare))
           /\ Same(rs, AddParentCommit(rs, s))
  BY Zenon DEF Same, AddPrepare, AddCommit, AddParentCommit, RoundState, MessageSet

\* Neither does the merge of what was stored of the votes.
LEMMA MergedType ==
    ASSUME NEW rs \in RoundState, NEW r \in Rcvd
    PROVE  Same(rs, merged(rs, r))
  <1>. DEFINE a == [rs EXCEPT !.prepares = AddAll(rs.prepares, r.prepares)]
              b == [a EXCEPT !.commits = AddAll(rs.commits, r.commits)]
  <1>1. /\ AddAll(rs.prepares, r.prepares) \in MessageSet
        /\ AddAll(rs.commits, r.commits) \in MessageSet
        /\ rs.parentCommits \cup r.parentCommits \in SUBSET Voters
    BY DEF RoundState, Rcvd, MessageSet, AddAll
  <1>2. merged(rs, r) = [b EXCEPT !.parentCommits = rs.parentCommits \cup r.parentCommits]
    BY DEF merged
  <1>3. Same(rs, a)
    BY <1>1, SetField DEF Same
  <1>. HIDE DEF a
  <1>4. Same(a, b)
    BY <1>1, <1>3 DEF Same, RoundState
  <1>. HIDE DEF b
  <1>5. Same(b, merged(rs, r))
    BY <1>1, <1>2, <1>4 DEF Same, RoundState
  <1>. QED  BY <1>3, <1>4, <1>5 DEF Same

\* StartNewSequence: the first view of a later sequence.
LEMMA NewSequenceType ==
    ASSUME NEW rs \in RoundState, NEW seq \in Sequences, rs.view[1] < seq,
           NEW parents \in SUBSET Voters
    PROVE  /\ StartNewSequence(rs, seq, parents) \in RoundState
           /\ StartNewSequence(rs, seq, parents).view = <<seq, 0>>
           /\ Legal(rs, StartNewSequence(rs, seq, parents))
  <1>. DEFINE a == changeRound(rs, <<seq, 0>>)
              b == [a EXCEPT !.preparedCertificate = NoBlock]
              c == [b EXCEPT !.parentCommits = parents]
  <1>1. <<seq, 0>> \in Views /\ before(rs.view, <<seq, 0>>)
    BY ConstantsAssumption DEF Views, Rounds, before
  <1>2. /\ a \in RoundState /\ a.view = <<seq, 0>> /\ a.state = StateAcceptRequest
        /\ Legal(rs, a)
    BY <1>1, ChangeRoundType
  <1>3. StartNewSequence(rs, seq, parents) = c
    BY DEF StartNewSequence
  <1>. HIDE DEF a
  <1>4. Same(a, b)
    BY <1>2 DEF Same, RoundState
  <1>. HIDE DEF b
  <1>5. Same(b, c)
    BY <1>4 DEF Same, RoundState
  <1>. HIDE DEF c
  <1>6. Same(a, c)
    BY <1>4, <1>5 DEF Same
  <1>7. Legal(a, c)
    BY <1>2, <1>6, SameIsLegal DEF Legal
  <1>8. c \in RoundState
    BY <1>6 DEF Same
  <1>. QED  BY <1>2, <1>3, <1>6, <1>7, <1>8, LegalChain DEF Same

-----------------------------------------------------------------------------
(***************************************************************************)
(* The database: the two writes, and the memory over it.                   *)
(***************************************************************************)
LEMMA RcvdType ==
    ASSUME NEW rs \in RoundState
    PROVE  /\ rcvdFromRoundState(rs) \in Rcvd
           /\ rcvdFromRoundState(rs).prepares = rs.prepares
           /\ rcvdFromRoundState(rs).commits = rs.commits
  BY DEF rcvdFromRoundState, RoundState, Rcvd

\* UpdateLastRcvd writes the votes of one view and nothing else.
LEMMA RcvdWrite ==
    ASSUME NEW db \in DB, NEW rs \in RoundState
    PROVE  /\ UpdateLastRcvd(db, rs) \in DB
           /\ UpdateLastRcvd(db, rs).lastView = db.lastView
           /\ UpdateLastRcvd(db, rs).rs = db.rs
           /\ UpdateLastRcvd(db, rs).rcvd =
                 [db.rcvd EXCEPT ![rs.view] = rcvdFromRoundState(rs)]
  BY RcvdType DEF UpdateLastRcvd, DB, RoundState

\* The invariants read neither the votes saved on their own ...
LEMMA RcvdUnread ==
    ASSUME NEW a, NEW b, a.lastView = b.lastView, a.rs = b.rs,
           NEW cur, NEW sv, NEW vt, NEW g
    PROVE  /\ DbInv(a, sv) <=> DbInv(b, sv)
           /\ CurInv(cur, a) <=> CurInv(cur, b)
           /\ VoteInv(cur, a, vt) <=> VoteInv(cur, b, vt)
           /\ GcInv(a, g) <=> GcInv(b, g)
  BY DEF DbInv, CurInv, VoteInv, GcInv, Reached

\* ... nor what a round state that is written leaves alone.
LEMMA RoundStateWrite ==
    ASSUME NEW db \in DB, NEW rs \in RoundState, NEW sv \in SUBSET Views, NEW cur, NEW g,
           HasProposal(rs), DbInv(db, sv), GcInv(db, g),
           g.phase # "idle" => g.oldest \in Nat,
           db.lastView # Absent => ~before(rs.view, db.lastView)
    PROVE  /\ UpdateLastRoundState(db, rs) \in DB
           /\ DbInv(UpdateLastRoundState(db, rs), sv \cup {rs.view})
           /\ CurInv(rs, UpdateLastRoundState(db, rs))
           /\ GcInv(UpdateLastRoundState(db, rs), g)
  <1>. DEFINE a == [db EXCEPT !.lastView = rs.view]
              n == UpdateLastRoundState(db, rs)
  <1>1. rs.view \in Views /\ rs.view # Absent
    BY ConstantsAssumption DEF RoundState
  <1>2. a \in DB /\ a.lastView = rs.view /\ a.rs = db.rs
    BY <1>1 DEF DB
  <1>3. n = [a EXCEPT !.rs[rs.view] = rs]
    BY DEF UpdateLastRoundState
  <1>. HIDE DEF a
  <1>4. /\ n \in DB /\ n.lastView = rs.view
        /\ n.rs[rs.view] = rs
        /\ \A w \in Views : w # rs.view => n.rs[w] = db.rs[w]
    BY <1>1, <1>2, <1>3 DEF DB
  <1>5. rs # Absent
    BY ConstantsAssumption
  <1>. HIDE DEF n
  <1>6. DbInv(n, sv \cup {rs.view})
    <2>1. \A w \in Views : n.rs[w] # Absent => n.rs[w].view = w /\ HasProposal(n.rs[w])
      BY <1>1, <1>4 DEF DbInv
    <2>2. ASSUME NEW w \in sv \cup {rs.view}
          PROVE  /\ Reached(n, w)
                 /\ w[1] + sequencesToSave >= n.lastView[1] => n.rs[w] # Absent
      <3>1. CASE w = rs.view
        BY <1>1, <1>4, <1>5, <3>1, ViewOrder DEF Reached
      <3>2. CASE w # rs.view
        <4>1. w \in sv /\ w \in Views
          BY <3>2
        <4>2. Reached(db, w) /\ db.lastView \in Views
          BY <4>1 DEF DbInv, DB, Reached
        <4>3. Reached(n, w) /\ db.lastView[1] <= rs.view[1]
          BY <1>1, <1>4, <4>1, <4>2, ViewOrder DEF Reached
        <4>4. /\ w[1] \in Int /\ db.lastView[1] \in Int /\ rs.view[1] \in Int
              /\ sequencesToSave \in Int
          BY <1>1, <4>1, <4>2, ConstantsAssumption, ViewOrder DEF Sequences
        <4>5. w[1] + sequencesToSave >= rs.view[1] => w[1] + sequencesToSave >= db.lastView[1]
          BY <4>3, <4>4
        <4>. QED  BY <1>4, <3>2, <4>1, <4>3, <4>5 DEF DbInv
      <3>. QED  BY <3>1, <3>2
    <2>. QED  BY <1>4, <2>1, <2>2 DEF DbInv
  <1>7. CurInv(rs, n)
    BY <1>1, <1>4, ViewOrder DEF CurInv
  <1>8. GcInv(n, g)
    <2>1. ASSUME g.phase # "idle"
          PROVE  /\ g.oldest + sequencesToSave <= rs.view[1]
                 /\ ~ (rs.view[1] < g.oldest)
      <3>1. db.lastView # Absent /\ db.lastView \in Views
        BY <2>1 DEF GcInv, DB
      <3>2. db.lastView[1] <= rs.view[1]
        BY <1>1, <3>1, ViewOrder
      <3>3. db.lastView[1] \in Int /\ rs.view[1] \in Int
        BY <1>1, <3>1, ConstantsAssumption, ViewOrder DEF Sequences
      <3>. QED  BY <2>1, <3>2, <3>3, ConstantsAssumption DEF GcInv
    <2>. QED  BY <1>1, <1>4, <2>1 DEF GcInv
  <1>. QED  BY <1>4, <1>6, <1>7, <1>8 DEF n

Collector == [phase : {"idle", "rs", "rcvd"}, oldest : Nat, todo : SUBSET Views]

Good(cur, db, vt, sv, g) ==
    /\ cur \in RoundState \cup {Down}
    /\ db \in DB
    /\ vt \in [Views -> SUBSET Blocks]
    /\ sv \in SUBSET Views
    /\ g \in Collector
    /\ DbInv(db, sv)
    /\ CurInv(cur, db)
    /\ VoteInv(cur, db, vt)
    /\ GcInv(db, g)

\* A transition in memory.
LEMMA GoodMemory ==
    ASSUME NEW cur \in RoundState, NEW db, NEW vt, NEW sv, NEW g, NEW rs \in RoundState,
           Good(cur, db, vt, sv, g), Legal(cur, rs)
    PROVE  /\ Good(rs, db, vt, sv, g)
           /\ db.lastView # Absent => ~before(rs.view, db.lastView)
           /\ \A w \in Views : \A p \in vt[w] : rs.view = w => Stands(rs, p)
  <1>1. cur.view \in Views /\ rs.view \in Views /\ cur # Down
        /\ (db.lastView # Absent => db.lastView \in Views)
    BY ConstantsAssumption DEF RoundState, Good, DB
  <1>2. db.lastView # Absent => ~before(rs.view, db.lastView)
    BY <1>1, ViewOrder DEF Legal, Good, CurInv
  <1>3. ASSUME NEW w \in Views, NEW p \in vt[w], rs.view = w
        PROVE  Stands(rs, p)
    <2>1. Reached(db, w)
      BY DEF Good, VoteInv
    <2>2. cur.view = w
      <3>1. ~before(db.lastView, w) /\ ~before(cur.view, db.lastView) /\ ~before(w, cur.view)
            /\ db.lastView \in Views
        BY <1>1, <1>3, <2>1 DEF Reached, Good, CurInv, Legal
      <3>. QED  BY <1>1, <3>1, ViewOrder
    <2>3. Stands(cur, p)
      BY <1>1, <2>2 DEF Good, VoteInv
    <2>. QED  BY <1>3, <2>2, <2>3 DEF Legal, Stands
  <1>4. VoteInv(rs, db, vt)
    BY <1>3 DEF Good, VoteInv
  <1>5. CurInv(rs, db)
    BY <1>2 DEF CurInv, Legal
  <1>. QED  BY <1>2, <1>3, <1>4, <1>5 DEF Good

\* A process that ends leaves a database to restart from.
LEMMA GoodDown ==
    ASSUME NEW cur, NEW db, NEW vt, NEW sv, NEW g, Good(cur, db, vt, sv, g)
    PROVE  Good(Down, db, vt, sv, Idle)
  BY DEF Good, CurInv, VoteInv, GcInv, Idle, Collector

\* The write of the votes keeps the invariant.
LEMMA GoodRcvd ==
    ASSUME NEW cur, NEW db, NEW vt, NEW sv, NEW g, NEW rs \in RoundState,
           Good(cur, db, vt, sv, g)
    PROVE  Good(cur, UpdateLastRcvd(db, rs), vt, sv, g)
  <1>1. db \in DB
    BY DEF Good
  <1>2. /\ UpdateLastRcvd(db, rs) \in DB
        /\ UpdateLastRcvd(db, rs).lastView = db.lastView
        /\ UpdateLastRcvd(db, rs).rs = db.rs
    BY <1>1, RcvdWrite, Zenon
  <1>. QED  BY <1>2, RcvdUnread DEF Good

\* A transition that is saved.
LEMMA GoodWrite ==
    ASSUME NEW cur \in RoundState, NEW db, NEW vt, NEW sv, NEW g, NEW rs \in RoundState,
           Good(cur, db, vt, sv, g), Legal(cur, rs)
    PROVE  /\ Good(rs, UpdateLastRoundState(db, rs), vt, sv \cup {rs.view}, g)
           /\ UpdateLastRoundState(db, rs).lastView = rs.view
           /\ UpdateLastRoundState(db, rs).rs[rs.view] = rs
  <1>. DEFINE n == UpdateLastRoundState(db, rs)
  <1>1. /\ db \in DB /\ sv \in SUBSET Views /\ DbInv(db, sv) /\ GcInv(db, g)
        /\ g.oldest \in Nat
    BY DEF Good, Collector
  <1>2. /\ HasProposal(rs)
        /\ db.lastView # Absent => ~before(rs.view, db.lastView)
        /\ \A w \in Views : \A p \in vt[w] : rs.view = w => Stands(rs, p)
    BY GoodMemory, Zenon DEF Legal
  <1>3. n \in DB /\ DbInv(n, sv \cup {rs.view}) /\ CurInv(rs, n) /\ GcInv(n, g)
    BY <1>1, <1>2, RoundStateWrite
  <1>4. n.lastView = rs.view /\ n.rs[rs.view] = rs /\ rs.view \in Views /\ rs.view # Absent
    BY <1>1, ConstantsAssumption DEF UpdateLastRoundState, DB, RoundState
  <1>5. VoteInv(rs, n, vt)
    <2>1. ASSUME NEW w \in Views, NEW p \in vt[w]
          PROVE  Reached(n, w) /\ \A q \in vt[w] : p = q
      <3>1. Reached(db, w) /\ db.lastView \in Views /\ \A q \in vt[w] : p = q
        BY <1>1 DEF Good, VoteInv, Reached, DB
      <3>. QED  BY <1>2, <1>4, <3>1, ViewOrder DEF Reached
    <2>. QED  BY <1>2, <1>4, <2>1 DEF VoteInv
  <1>6. sv \cup {rs.view} \in SUBSET Views
    BY <1>1, <1>4
  <1>. QED  BY <1>3, <1>4, <1>5, <1>6 DEF Good

\* A vote that is signed for the proposal that is saved.
LEMMA GoodSign ==
    ASSUME NEW rs \in RoundState, NEW db, NEW vt, NEW sv, NEW g, NEW signed \in SUBSET Blocks,
           Good(rs, db, vt, sv, g), db.lastView = rs.view, db.rs[rs.view] = rs,
           \A p \in signed : Stands(rs, p)
    PROVE  Good(rs, db, [vt EXCEPT ![rs.view] = @ \cup signed], sv, g)
  <1>. DEFINE vt2 == [vt EXCEPT ![rs.view] = @ \cup signed]
  <1>1. rs.view \in Views /\ rs.view # Absent /\ rs # Down
    BY ConstantsAssumption DEF RoundState
  <1>2. vt \in [Views -> SUBSET Blocks] /\ vt2 \in [Views -> SUBSET Blocks]
    BY <1>1 DEF Good
  <1>3. /\ vt2[rs.view] = vt[rs.view] \cup signed
        /\ \A w \in Views : w # rs.view => vt2[w] = vt[w]
    BY <1>1, <1>2
  <1>. HIDE DEF vt2
  <1>4. \A p \in vt2[rs.view] : Stands(rs, p)
    BY <1>1, <1>3 DEF Good, VoteInv
  <1>5. \A p, q \in vt2[rs.view] : p = q
    BY <1>4 DEF Stands
  <1>6. Reached(db, rs.view)
    BY <1>1, ViewOrder DEF Reached
  <1>7. VoteInv(rs, db, vt2)
    <2>1. ASSUME NEW w \in Views, NEW p \in vt2[w], w # rs.view
          PROVE  /\ Reached(db, w)
                 /\ db.lastView = w => Stands(db.rs[w], p)
                 /\ rs # Down /\ rs.view = w => Stands(rs, p)
                 /\ \A q \in vt2[w] : p = q
      BY <1>3, <2>1 DEF Good, VoteInv
    <2>. QED  BY <1>4, <1>5, <1>6, <2>1 DEF VoteInv
  <1>. QED  BY <1>2, <1>7 DEF Good, vt2

-----------------------------------------------------------------------------
(***************************************************************************)
(* How handlers end.                                                       *)
(***************************************************************************)
GoodNow == Good(current, rsdb, voted, saved, gc)
Counted == failures \in 0 .. MaxFailures /\ crashes \in 0 .. MaxCrashes

\* The invariant, with the state taken apart.
LEMMA InvIsGood ==
    Inv <=> /\ GoodNow /\ Counted
            /\ head \in 0 .. MaxSequence
            /\ received \in [Views -> SUBSET (Voters \X Blocks)]
  BY DEF Inv, GoodNow, Counted, Good, TypeOK, DB, Collector

\* A handler that fails or dies keeps the invariant, given what it wrote.
LEMMA StopsKeeps ==
    ASSUME NEW rs, NEW db, NEW sv, Good(rs, db, voted, sv, gc), Counted,
           Stops(rs, db), saved' = sv
    PROVE  GoodNow' /\ Counted'
  <1>1. CASE Fails(rs, db)
    BY <1>1, ConstantsAssumption DEF Fails, GoodNow, Counted
  <1>2. CASE Dies(db)
    <2>1. Good(Down, db, voted, sv, Idle)
      BY GoodDown
    <2>. QED  BY <1>2, <2>1, ConstantsAssumption DEF Dies, GoodNow, Counted
  <1>. QED  BY <1>1, <1>2 DEF Stops

\* So does one that returns without signing.
LEMMA ReturnsKeeps ==
    ASSUME NEW rs \in RoundState, NEW db, NEW sv, Good(rs, db, voted, sv, gc), Counted,
           Returns(rs, db, {}), saved' = sv
    PROVE  GoodNow' /\ Counted'
  <1>1. voted' = voted
    BY DEF Returns, Good, RoundState
  <1>. QED  BY <1>1 DEF Returns, GoodNow, Counted

\* So does one that saves a legal step, however the save ends, and signs what
\* stands in it.
LEMMA SavesKeeps ==
    ASSUME NEW cur \in RoundState, NEW rs \in RoundState, NEW db,
           NEW signed \in SUBSET Blocks,
           Good(cur, db, voted, saved, gc), Counted, Legal(cur, rs),
           \A p \in signed : Stands(rs, p),
           Saves(rs, db, signed)
    PROVE  GoodNow' /\ Counted'
  <1>. DEFINE n == UpdateLastRoundState(db, rs)
  <1>1. /\ Good(rs, n, voted, saved \cup {rs.view}, gc)
        /\ n.lastView = rs.view /\ n.rs[rs.view] = rs
    BY GoodWrite
  <1>2. Good(rs, n, [voted EXCEPT ![rs.view] = @ \cup signed], saved \cup {rs.view}, gc)
    BY <1>1, GoodSign
  <1>3. Good(rs, db, voted, saved, gc)
    BY GoodMemory
  <1>4. CASE Returns(rs, n, signed) /\ saved' = saved \cup {rs.view}
    BY <1>2, <1>4 DEF Returns, GoodNow, Counted
  <1>5. CASE Stops(rs, db) /\ UNCHANGED saved
    BY <1>3, <1>5, StopsKeeps
  <1>. QED  BY <1>4, <1>5 DEF Saves

-----------------------------------------------------------------------------
(***************************************************************************)
(* The handlers.                                                           *)
(***************************************************************************)
LEMMA UpTypes ==
    ASSUME GoodNow, up
    PROVE  /\ current \in RoundState /\ HasProposal(current)
           /\ current.view \in Views /\ current.preprepare \in Blocks \cup {NoBlock}
           /\ acceptsVote => current.preprepare \in Blocks
  BY DEF GoodNow, Good, CurInv, up, RoundState, acceptsVote, HasProposal

\* handleRequest keeps the invariant.
LEMMA RequestStep ==
    ASSUME GoodNow, Counted, handleRequest
    PROVE  GoodNow' /\ Counted'
  <1>1. up /\ current \in RoundState /\ HasProposal(current)
    BY UpTypes DEF handleRequest
  <1>2. Legal(current, current)
    BY <1>1, SameIsLegal DEF Same
  <1>. QED  BY <1>1, <1>2, SavesKeeps DEF handleRequest, GoodNow

\* handlePreprepareV2 keeps the invariant.
LEMMA PreprepareStep ==
    ASSUME GoodNow, Counted, NEW p \in Blocks, handlePreprepareV2(p)
    PROVE  GoodNow' /\ Counted'
  <1>. DEFINE rs == TransitionToPrepreparedV2(current, p)
  <1>1. up /\ current \in RoundState /\ HasProposal(current)
    BY UpTypes DEF handlePreprepareV2
  <1>2. current.state = StateAcceptRequest /\ Saves(rs, rsdb, {p})
    BY DEF handlePreprepareV2
  <1>3. rs \in RoundState /\ Legal(current, rs) /\ Stands(rs, p)
    BY <1>1, <1>2, TransitionTypes
  <1>. HIDE DEF rs
  <1>. QED  BY <1>1, <1>2, <1>3, SavesKeeps DEF GoodNow

\* A vote that is added, in memory and in the database.
LEMMA VoteAdded ==
    ASSUME GoodNow, up, NEW rs, Same(current, rs)
    PROVE  /\ rs \in RoundState /\ HasProposal(rs)
           /\ Good(rs, rsdb, voted, saved, gc)
           /\ Good(rs, UpdateLastRcvd(rsdb, rs), voted, saved, gc)
  <1>1. current \in RoundState /\ HasProposal(current) /\ rs \in RoundState
    BY UpTypes DEF Same
  <1>2. Legal(current, rs) /\ HasProposal(rs)
    BY <1>1, SameIsLegal
  <1>3. Good(rs, rsdb, voted, saved, gc)
    BY <1>1, <1>2, GoodMemory DEF GoodNow
  <1>. QED  BY <1>1, <1>2, <1>3, GoodRcvd

\* The history of received votes keeps its type.
LEMMA VoteRecorded ==
    ASSUME GoodNow, received \in [Views -> SUBSET (Voters \X Blocks)],
           NEW s \in Voters, acceptsVote, voteSaved(s)
    PROVE  received' \in [Views -> SUBSET (Voters \X Blocks)]
  <1>1. current.view \in Views /\ current.preprepare \in Blocks
    BY UpTypes DEF acceptsVote
  <1>. QED  BY <1>1 DEF voteSaved

\* What follows a vote that does not commit.
LEMMA MaybePrepared ==
    ASSUME Counted, acceptsVote, GoodNow, NEW rs, NEW db, Same(current, rs),
           Good(rs, db, voted, saved, gc),
           IF becomesPrepared(rs) THEN Saves(TransitionToPrepared(rs), db, {rs.preprepare})
           ELSE Returns(rs, db, {}) /\ UNCHANGED saved
    PROVE  GoodNow' /\ Counted'
  <1>. DEFINE n == TransitionToPrepared(rs)
  <1>1. rs \in RoundState /\ HasProposal(rs)
        /\ rs.state \notin {StateAcceptRequest, StateWaitingForNewRound}
    BY UpTypes DEF Same, acceptsVote, HasProposal
  <1>2. n \in RoundState /\ Legal(rs, n) /\ Stands(n, rs.preprepare)
        /\ {rs.preprepare} \in SUBSET Blocks
    BY <1>1, TransitionTypes DEF HasProposal
  <1>. HIDE DEF n
  <1>3. CASE Saves(n, db, {rs.preprepare})
    BY <1>1, <1>2, <1>3, SavesKeeps
  <1>4. CASE Returns(rs, db, {}) /\ UNCHANGED saved
    BY <1>1, <1>4, ReturnsKeeps
  <1>. QED  BY <1>3, <1>4 DEF n

\* handlePrepare keeps the invariant.
LEMMA PrepareStep ==
    ASSUME GoodNow, Counted, NEW s \in Voters, handlePrepare(s)
    PROVE  GoodNow' /\ Counted'
  <1>. DEFINE rs == AddPrepare(current, s, current.preprepare)
              db == UpdateLastRcvd(rsdb, rs)
  <1>1. acceptsVote /\ up
    BY DEF handlePrepare, acceptsVote
  <1>2. Same(current, rs)
    BY <1>1, UpTypes, VoteTypes
  <1>3. Good(rs, rsdb, voted, saved, gc) /\ Good(rs, db, voted, saved, gc)
    BY <1>1, <1>2, VoteAdded
  <1>4. CASE voteNotSaved(rs)
    BY <1>3, <1>4, StopsKeeps DEF voteNotSaved
  <1>5. CASE IF becomesPrepared(rs)
             THEN Saves(TransitionToPrepared(rs), db, {rs.preprepare})
             ELSE Returns(rs, db, {}) /\ UNCHANGED saved
    BY <1>1, <1>2, <1>3, <1>5, MaybePrepared, Zenon
  <1>. QED  BY <1>4, <1>5 DEF handlePrepare

\* commit keeps the invariant, from the round state with the new vote.
LEMMA CommitCall ==
    ASSUME Counted, acceptsVote, GoodNow, NEW rs, NEW db, Same(current, rs),
           Good(rs, db, voted, saved, gc), commit(rs, db)
    PROVE  GoodNow' /\ Counted'
  <1>. DEFINE rs2 == TransitionToCommitted(rs)
              db2 == UpdateLastRoundState(db, rs2)
              rs3 == TransitionToWaitingForNewRound(rs2, rs.view[2] + 1)
  <1>1. rs \in RoundState /\ HasProposal(rs)
        /\ rs.state \notin {StateAcceptRequest, StateWaitingForNewRound}
    BY UpTypes DEF Same, acceptsVote, HasProposal
  <1>2. rs2 \in RoundState /\ Legal(rs, rs2) /\ rs2.view = rs.view /\ HasProposal(rs2)
    BY <1>1, TransitionTypes, Zenon DEF Legal
  <1>3. Good(rs2, db, voted, saved, gc)
    BY <1>1, <1>2, GoodMemory, Zenon
  <1>4. Good(rs2, db2, voted, saved \cup {rs.view}, gc)
    BY <1>1, <1>2, GoodWrite, ZenonT(30)
  <1>5. rs.view[2] < MaxRound =>
           rs3 \in RoundState /\ Legal(rs2, rs3) /\ rs3.view = rs.view
    <2>1. rs.view[2] < MaxRound => rs.view[2] + 1 \in Rounds
      BY <1>1, ViewOrder, ConstantsAssumption DEF RoundState, Rounds
    <2>. HIDE DEF rs2
    <2>. QED  BY <1>2, <2>1, TransitionTypes, Zenon
  <1>. HIDE DEF rs2, db2, rs3
  <1>6. CASE Stops(rs2, db) /\ UNCHANGED saved
    BY <1>3, <1>6, StopsKeeps
  <1>7. CASE Returns(rs2, db2, {}) /\ saved' = saved \cup {rs.view}
    BY <1>2, <1>4, <1>7, ReturnsKeeps
  <1>8. CASE Dies(db2) /\ saved' = saved \cup {rs.view}
    BY <1>4, <1>8, StopsKeeps DEF Stops
  <1>9. CASE /\ rs.view[2] < MaxRound /\ saved' = saved \cup {rs.view}
             /\ Stops(rs3, db2)
    <2>1. Good(rs3, db2, voted, saved \cup {rs.view}, gc)
      BY <1>2, <1>4, <1>5, <1>9, GoodMemory, ZenonT(30)
    <2>. QED  BY <1>9, <2>1, StopsKeeps, Zenon
  <1>10. CASE /\ rs.view[2] < MaxRound /\ saved' = saved \cup {rs.view}
              /\ Returns(rs3, UpdateLastRoundState(db2, rs3), {})
    <2>1. rs3 \in RoundState /\ Legal(rs2, rs3) /\ rs3.view = rs.view
      BY <1>5, <1>10
    <2>2. Good(rs3, UpdateLastRoundState(db2, rs3), voted,
               (saved \cup {rs.view}) \cup {rs3.view}, gc)
      BY <1>2, <1>4, <2>1, GoodWrite
    <2>3. (saved \cup {rs.view}) \cup {rs3.view} = saved \cup {rs.view}
      BY <2>1
    <2>. QED  BY <1>10, <2>1, <2>2, <2>3, ReturnsKeeps
  <1>. QED  BY <1>6, <1>7, <1>8, <1>9, <1>10, Zenon DEF commit, rs2, db2, rs3

\* handleCommit keeps the invariant.
LEMMA CommitStep ==
    ASSUME GoodNow, Counted, NEW s \in Voters, handleCommit(s)
    PROVE  GoodNow' /\ Counted'
  <1>. DEFINE rs == AddCommit(current, s, current.preprepare)
              db == UpdateLastRcvd(rsdb, rs)
  <1>1. acceptsVote /\ up
    BY DEF handleCommit, acceptsVote
  <1>2. Same(current, rs)
    BY <1>1, UpTypes, VoteTypes
  <1>3. Good(rs, rsdb, voted, saved, gc) /\ Good(rs, db, voted, saved, gc)
    BY <1>1, <1>2, VoteAdded
  <1>4. CASE voteNotSaved(rs)
    BY <1>3, <1>4, StopsKeeps DEF voteNotSaved
  <1>5. CASE commit(rs, db)
    BY <1>1, <1>2, <1>3, <1>5, CommitCall
  <1>6. CASE IF becomesPrepared(rs)
             THEN Saves(TransitionToPrepared(rs), db, {rs.preprepare})
             ELSE Returns(rs, db, {}) /\ UNCHANGED saved
    BY <1>1, <1>2, <1>3, <1>6, MaybePrepared
  <1>. QED  BY <1>4, <1>5, <1>6 DEF handleCommit

\* handleParentCommit keeps the invariant.
LEMMA ParentCommitStep ==
    ASSUME GoodNow, Counted, NEW s \in Voters, handleParentCommit(s)
    PROVE  GoodNow' /\ Counted'
  <1>. DEFINE rs == AddParentCommit(current, s)
  <1>1. up /\ Same(current, rs)
    BY UpTypes, VoteTypes DEF handleParentCommit
  <1>2. /\ rs \in RoundState
        /\ Good(rs, rsdb, voted, saved, gc)
        /\ Good(rs, UpdateLastRcvd(rsdb, rs), voted, saved, gc)
    BY <1>1, VoteAdded
  <1>. HIDE DEF rs
  <1>3. saved' = saved /\ (Stops(rs, rsdb) \/ Returns(rs, UpdateLastRcvd(rsdb, rs), {}))
    BY DEF handleParentCommit, rs
  <1>. QED  BY <1>2, <1>3, StopsKeeps, ReturnsKeeps, ZenonT(30)

\* startNewRound and waitForDesiredRound keep the invariant.
LEMMA RoundStep ==
    ASSUME GoodNow, Counted, NEW r \in Rounds, startNewRound(r) \/ waitForDesiredRound(r)
    PROVE  GoodNow' /\ Counted'
  <1>1. up /\ current \in RoundState /\ HasProposal(current) /\ current.view \in Views
    BY UpTypes DEF startNewRound, waitForDesiredRound
  <1>2. CASE startNewRound(r)
    <2>. DEFINE rs == StartNewRound(current, r)
                view == <<current.view[1], r>>
    <2>1. view \in Views /\ before(current.view, view)
      BY <1>1, <1>2, ViewOrder DEF startNewRound, Views, before, Sequences
    <2>2. rs \in RoundState /\ Legal(current, rs) /\ Saves(rs, rsdb, {})
      BY <1>1, <1>2, <2>1, ChangeRoundType DEF StartNewRound, startNewRound
    <2>. HIDE DEF rs
    <2>. QED  BY <1>1, <2>2, SavesKeeps DEF GoodNow
  <1>3. CASE waitForDesiredRound(r)
    <2>. DEFINE rs == TransitionToWaitingForNewRound(current, r)
    <2>1. rs \in RoundState /\ Legal(current, rs) /\ Saves(rs, rsdb, {})
      BY <1>1, <1>3, TransitionTypes DEF waitForDesiredRound
    <2>. HIDE DEF rs
    <2>. QED  BY <1>1, <2>1, SavesKeeps DEF GoodNow
  <1>. QED  BY <1>2, <1>3

\* startNewSequence keeps the invariant.
LEMMA SequenceStep ==
    ASSUME GoodNow, Counted, head \in 0 .. MaxSequence, startNewSequence
    PROVE  GoodNow' /\ Counted'
  <1>1. up /\ current \in RoundState /\ HasProposal(current) /\ current.view \in Views
    BY UpTypes DEF startNewSequence
  <1>2. head + 1 \in Sequences /\ current.view[1] < head + 1
    BY <1>1, ConstantsAssumption, ViewOrder DEF startNewSequence, Sequences
  <1>3. PICK parents \in {{}, {s \in Voters : current.commits[s] # NoBlock}} :
           Saves(StartNewSequence(current, head + 1, parents), rsdb, {})
    BY DEF startNewSequence
  <1>. DEFINE rs == StartNewSequence(current, head + 1, parents)
  <1>4. rs \in RoundState /\ Legal(current, rs)
    BY <1>1, <1>2, NewSequenceType
  <1>. HIDE DEF rs
  <1>5. Saves(rs, rsdb, {})
    BY <1>3 DEF rs
  <1>. QED  BY <1>1, <1>4, <1>5, SavesKeeps DEF GoodNow

\* The round state of a core that starts: a new one, of a sequence nothing
\* was saved for, or the one of the last view.
LEMMA CreatedIsGood ==
    ASSUME NEW db, NEW vt, NEW sv, NEW g, NEW h \in 0 .. MaxSequence, h < MaxSequence,
           Good(Down, db, vt, sv, g)
    PROVE  /\ createRoundState(db, h) \in RoundState
           /\ Good(createRoundState(db, h), db, vt, sv, g)
  <1>. DEFINE cur == createRoundState(db, h)
  <1>1. h + 1 \in Sequences /\ <<h + 1, 0>> \in Views
    BY ConstantsAssumption DEF Sequences, Views, Rounds
  <1>2. db \in DB /\ (db.lastView # Absent => db.lastView \in Views) /\ DbInv(db, sv)
    BY Zenon DEF Good, DB
  <1>3. CASE db.lastView = Absent \/ db.lastView[1] < h + 1
    <2>1. cur = newRoundState(h + 1)
      BY <1>3 DEF createRoundState
    <2>2. cur \in RoundState /\ cur.view = <<h + 1, 0>> /\ HasProposal(cur)
      BY <1>1, <2>1, NewRoundStateType
    <2>. HIDE DEF cur
    <2>3. db.lastView # Absent => before(db.lastView, <<h + 1, 0>>)
      BY <1>3 DEF before
    <2>4. \A w \in Views : \A p \in vt[w] : cur.view # w
      BY <2>2, <2>3 DEF Good, VoteInv, Reached
    <2>5. VoteInv(cur, db, vt)
      BY <2>4 DEF Good, VoteInv
    <2>6. CurInv(cur, db)
      BY <1>1, <1>2, <2>2, <2>3, ViewOrder DEF CurInv
    <2>. QED  BY <2>2, <2>5, <2>6 DEF Good, cur
  <1>4. CASE ~ (db.lastView = Absent \/ db.lastView[1] < h + 1)
    <2>. DEFINE rs == db.rs[db.lastView]
    <2>1. db.lastView \in Views
      BY <1>2, <1>4
    <2>2. rs \in RoundState /\ rs.view = db.lastView /\ HasProposal(rs)
      <3>1. db.lastView \in sv /\ db.lastView[1] \in Int /\ sequencesToSave \in Nat
        BY <1>2, <1>4, <2>1, ViewOrder, ConstantsAssumption DEF DbInv, Sequences
      <3>2. rs # Absent
        BY <1>2, <3>1 DEF DbInv
      <3>. QED  BY <1>2, <2>1, <3>2 DEF DbInv, DB
    <2>3. cur = GetRoundStateFor(db, db.lastView)
      BY <1>4 DEF createRoundState
    <2>4. Same(rs, cur)
      <3>1. CASE db.rcvd[db.lastView] = Absent
        BY <2>2, <2>3, <3>1 DEF GetRoundStateFor, Same
      <3>2. CASE db.rcvd[db.lastView] # Absent
        <4>1. db.rcvd[db.lastView] \in Rcvd
          BY <1>2, <2>1, <3>2 DEF DB
        <4>2. rs # Absent
          BY <2>2, ConstantsAssumption
        <4>3. cur = merged(rs, db.rcvd[db.lastView])
          BY <2>3, <3>2, <4>2, ZenonT(30) DEF GetRoundStateFor
        <4>. QED  BY <2>2, <4>1, <4>3, MergedType
      <3>. QED  BY <3>1, <3>2
    <2>. HIDE DEF cur
    <2>5. VoteInv(cur, db, vt)
      BY <2>2, <2>4 DEF Good, VoteInv, Same, Stands
    <2>6. CurInv(cur, db)
      BY <2>1, <2>2, <2>4, ViewOrder DEF CurInv, Same, HasProposal
    <2>7. cur \in RoundState
      BY <2>4 DEF Same
    <2>. QED  BY <2>5, <2>6, <2>7 DEF Good, cur
  <1>. QED  BY <1>3, <1>4

\* Start, from whatever createRoundState finds, keeps the invariant.
LEMMA StartStep ==
    ASSUME GoodNow, Counted, head \in 0 .. MaxSequence, Start
    PROVE  GoodNow' /\ Counted'
  <1>1. current = Down /\ head < MaxSequence
    BY DEF Start, up
  <1>2. Good(createRoundState(rsdb, head), rsdb, voted, saved, gc)
    BY <1>1, CreatedIsGood DEF GoodNow
  <1>. QED  BY <1>2 DEF Start, GoodNow, Counted

\* Crash and Stop keep the invariant.
LEMMA StopStep ==
    ASSUME GoodNow, Counted, Crash \/ Stop
    PROVE  GoodNow' /\ Counted'
  <1>1. CASE Crash
    BY <1>1, StopsKeeps DEF Crash, Stops, GoodNow
  <1>2. CASE Stop
    BY <1>2, GoodDown DEF Stop, GoodNow, Counted
  <1>. QED  BY <1>1, <1>2

-----------------------------------------------------------------------------
(***************************************************************************)
(* The collector.                                                          *)
(***************************************************************************)

\* The limit is below the window.
LEMMA OldestValidView ==
    ASSUME NEW db \in DB, GetOldestValidView(db) > 0
    PROVE  /\ GetOldestValidView(db) \in Nat /\ db.lastView # Absent
           /\ GetOldestValidView(db) + sequencesToSave <= db.lastView[1]
  <1>1. db.lastView # Absent /\ ~ (db.lastView[1] < sequencesToSave)
    BY DEF GetOldestValidView
  <1>2. db.lastView \in Views
    BY <1>1 DEF DB
  <1>3. db.lastView[1] \in Nat /\ sequencesToSave \in Nat
    BY <1>2, ViewOrder, ConstantsAssumption DEF Sequences
  <1>4. GetOldestValidView(db) = db.lastView[1] - sequencesToSave
    BY <1>1 DEF GetOldestValidView
  <1>. QED  BY <1>1, <1>3, <1>4

\* The deletion of one entry keeps the invariant: it is not within the window.
LEMMA DeleteStep ==
    ASSUME GoodNow, Counted, NEW w \in Views, deleteEntry(w)
    PROVE  GoodNow' /\ Counted'
  <1>1. /\ w \in gc.todo /\ gc.phase # "idle" /\ gc \in Collector /\ rsdb \in DB
        /\ current' = current /\ voted' = voted /\ saved' = saved
        /\ gc' = [gc EXCEPT !.todo = @ \ {w}]
        /\ Counted'
    BY DEF deleteEntry, gcStep, GoodNow, Good, Counted
  <1>2. /\ gc' \in Collector /\ gc'.phase = gc.phase /\ gc'.oldest = gc.oldest
        /\ gc'.todo = gc.todo \ {w}
    BY <1>1 DEF Collector
  <1>3. /\ rsdb.lastView # Absent /\ rsdb.lastView \in Views /\ w[1] < gc.oldest
        /\ gc.oldest + sequencesToSave <= rsdb.lastView[1]
    BY <1>1 DEF GoodNow, Good, GcInv, DB
  <1>4. /\ w # rsdb.lastView
        /\ ~ (w[1] + sequencesToSave >= rsdb.lastView[1])
    <2>1. /\ w[1] \in Nat /\ sequencesToSave \in Nat /\ rsdb.lastView[1] \in Nat
          /\ gc.oldest \in Nat
      BY <1>1, <1>3, ViewOrder, ConstantsAssumption DEF Sequences, Collector
    <2>. QED  BY <1>3, <2>1
  <1>5. CASE gc.phase = "rs" /\ rsdb' = [rsdb EXCEPT !.rs[w] = Absent]
    <2>1. /\ rsdb' \in DB /\ rsdb'.lastView = rsdb.lastView
          /\ rsdb'.rs[w] = Absent
          /\ \A u \in Views : u # w => rsdb'.rs[u] = rsdb.rs[u]
      BY <1>1, <1>5 DEF DB
    <2>2. DbInv(rsdb', saved)
      <3>1. saved \in SUBSET Views /\ DbInv(rsdb, saved)
        BY Zenon DEF GoodNow, Good
      <3>. QED  BY <1>4, <2>1, <3>1 DEF DbInv, Reached
    <2>3. CurInv(current, rsdb')
      BY <2>1, Zenon DEF GoodNow, Good, CurInv
    <2>4. VoteInv(current, rsdb', voted)
      BY <1>4, <2>1, Zenon DEF GoodNow, Good, VoteInv, Reached
    <2>5. GcInv(rsdb', gc')
      BY <1>2, <1>5, <2>1 DEF GoodNow, Good, GcInv
    <2>. QED  BY <1>1, <1>2, <2>1, <2>2, <2>3, <2>4, <2>5 DEF GoodNow, Good
  <1>6. CASE gc.phase # "rs" /\ rsdb' = [rsdb EXCEPT !.rcvd[w] = Absent]
    <2>1. /\ rsdb' \in DB /\ rsdb'.lastView = rsdb.lastView /\ rsdb'.rs = rsdb.rs
      BY <1>1, <1>6 DEF DB
    <2>2. /\ DbInv(rsdb', saved) /\ CurInv(current, rsdb')
          /\ VoteInv(current, rsdb', voted) /\ GcInv(rsdb', gc)
      BY <2>1, RcvdUnread DEF GoodNow, Good
    <2>3. GcInv(rsdb', gc')
      BY <1>2, <1>6, <2>2 DEF GcInv
    <2>. QED  BY <1>1, <1>2, <2>1, <2>2, <2>3 DEF GoodNow, Good
  <1>. QED  BY <1>5, <1>6 DEF deleteEntry

\* The other steps of the collector keep the invariant.
LEMMA CollectorStep ==
    ASSUME GoodNow, Counted, collectsGarbage
    PROVE  GoodNow' /\ Counted'
  <1>1. CASE garbageCollectEntries
    <2>. DEFINE oldest == GetOldestValidView(rsdb)
    <2>1. rsdb \in DB
      BY Zenon DEF GoodNow, Good
    <2>2. /\ oldest \in Nat /\ rsdb.lastView # Absent
          /\ oldest + sequencesToSave <= rsdb.lastView[1]
      BY <1>1, <2>1, OldestValidView DEF garbageCollectEntries
    <2>3. /\ gc'.phase = "rs" /\ gc'.oldest = oldest /\ gc'.todo = olderThan(rsdb.rs, oldest)
          /\ gc' = [phase |-> "rs", oldest |-> oldest, todo |-> olderThan(rsdb.rs, oldest)]
      BY <1>1 DEF garbageCollectEntries
    <2>. HIDE DEF oldest
    <2>4. gc' \in Collector /\ GcInv(rsdb, gc')
      BY <2>2, <2>3 DEF Collector, GcInv, olderThan
    <2>. QED  BY <1>1, <2>4 DEF garbageCollectEntries, gcStep, GoodNow, Good, Counted
  <1>2. ASSUME NEW w \in Views, deleteEntry(w)
        PROVE  GoodNow' /\ Counted'
    BY <1>2, DeleteStep
  <1>3. CASE deletedAll
    <2>1. gc \in Collector /\ gc.todo = {} /\ GcInv(rsdb, gc) /\ gc.phase # "idle"
      BY <1>3 DEF deletedAll, GoodNow, Good
    <2>2. CASE gc.phase = "rs"
      <3>. DEFINE a == [gc EXCEPT !.phase = "rcvd"]
                  t == olderThan(rsdb.rcvd, gc.oldest)
      <3>1. a \in Collector /\ a.phase = "rcvd" /\ a.oldest = gc.oldest
        BY <2>1 DEF Collector
      <3>2. t \in SUBSET Views /\ \A w \in t : w[1] < gc.oldest
        BY DEF olderThan
      <3>3. gc' = [a EXCEPT !.todo = t]
        BY <1>3, <2>2 DEF deletedAll
      <3>. HIDE DEF a, t
      <3>4. gc' \in Collector /\ gc'.phase = "rcvd" /\ gc'.oldest = gc.oldest /\ gc'.todo = t
        BY <3>1, <3>2, <3>3 DEF Collector
      <3>5. GcInv(rsdb, gc')
        BY <2>1, <2>2, <3>2, <3>4 DEF GcInv
      <3>. QED  BY <1>3, <3>4, <3>5 DEF deletedAll, gcStep, GoodNow, Good, Counted
    <2>3. CASE gc.phase # "rs"
      <3>1. gc' = Idle /\ gc' \in Collector /\ GcInv(rsdb, gc')
        BY <1>3, <2>3, Zenon DEF deletedAll, Idle, Collector, GcInv
      <3>. QED  BY <1>3, <3>1 DEF deletedAll, gcStep, GoodNow, Good, Counted
    <2>. QED  BY <2>2, <2>3
  <1>4. CASE deleteFails
    <2>1. gc' = Idle /\ gc' \in Collector /\ GcInv(rsdb, gc')
      BY <1>4 DEF deleteFails, Idle, Collector, GcInv
    <2>. QED  BY <1>4, <2>1 DEF deleteFails, gcStep, GoodNow, Good, Counted
  <1>. QED  BY <1>1, <1>2, <1>3, <1>4 DEF collectsGarbage

-----------------------------------------------------------------------------
(***************************************************************************)
(* The invariant, and what follows.                                        *)
(***************************************************************************)
LEMMA InitInv == Init => Inv
  <1>. SUFFICES ASSUME Init PROVE Inv
    OBVIOUS
  <1>1. 1 \in Sequences
    BY ConstantsAssumption DEF Sequences
  <1>2. current \in RoundState /\ HasProposal(current)
    BY <1>1, NewRoundStateType DEF Init
  <1>3. /\ rsdb \in DB /\ rsdb.lastView = Absent
        /\ \A w \in Views : rsdb.rs[w] = Absent
    BY DEF Init, DB
  <1>4. gc \in Collector /\ GcInv(rsdb, gc)
    BY DEF Init, Idle, Collector, GcInv
  <1>5. /\ voted \in [Views -> SUBSET Blocks] /\ \A w \in Views : voted[w] = {}
        /\ saved = {} /\ head \in 0 .. MaxSequence
        /\ received \in [Views -> SUBSET (Voters \X Blocks)] /\ Counted
    BY ConstantsAssumption DEF Init, Counted
  <1>6. DbInv(rsdb, saved) /\ CurInv(current, rsdb) /\ VoteInv(current, rsdb, voted)
    BY <1>2, <1>3, <1>5, Zenon DEF DbInv, CurInv, VoteInv
  <1>7. GoodNow
    BY <1>2, <1>3, <1>4, <1>5, <1>6, Zenon DEF GoodNow, Good
  <1>. QED  BY <1>5, <1>7, InvIsGood

\* The head and the votes handled.
LEMMA OtherTypes ==
    ASSUME Inv, Next
    PROVE  /\ head' \in 0 .. MaxSequence
           /\ received' \in [Views -> SUBSET (Voters \X Blocks)]
  <1>1. /\ GoodNow /\ head \in 0 .. MaxSequence
        /\ received \in [Views -> SUBSET (Voters \X Blocks)]
    BY InvIsGood
  <1>2. ASSUME NEW s \in Voters, handlePrepare(s)
        PROVE  head' = head /\ received' \in [Views -> SUBSET (Voters \X Blocks)]
    BY <1>1, <1>2, VoteRecorded DEF handlePrepare, voteNotSaved
  <1>3. ASSUME NEW s \in Voters, handleCommit(s)
        PROVE  /\ head' \in 0 .. MaxSequence
               /\ received' \in [Views -> SUBSET (Voters \X Blocks)]
    <2>. DEFINE rs == AddCommit(current, s, current.preprepare)
    <2>1. acceptsVote /\ up /\ Same(current, rs)
      BY <1>1, <1>3, UpTypes, VoteTypes, Zenon DEF handleCommit, acceptsVote
    <2>2. rs.view[1] \in 0 .. MaxSequence
      <3>1. rs.view \in Views
        BY <2>1 DEF Same, RoundState
      <3>2. rs.view[1] \in Sequences
        BY <3>1, ViewOrder
      <3>. QED  BY <3>2, ConstantsAssumption DEF Sequences
    <2>. HIDE DEF rs
    <2>3. ASSUME NEW db, commit(rs, db)
          PROVE  head' \in 0 .. MaxSequence
      <3>1. head' \in {head, rs.view[1]}
        BY <2>3, Zenon DEF commit
      <3>. QED  BY <1>1, <2>2, <3>1, Zenon
    <2>4. head' \in 0 .. MaxSequence
      BY <1>1, <1>3, <2>3 DEF handleCommit, voteNotSaved, rs
    <2>. QED  BY <1>1, <1>3, <2>1, <2>4, VoteRecorded, Zenon DEF handleCommit, voteNotSaved
  <1>4. CASE insertSyncedBlock
    BY <1>1, <1>4, ConstantsAssumption DEF insertSyncedBlock
  <1>5. CASE UNCHANGED <<head, received>>
    BY <1>1, <1>5
  <1>6. ASSUME collectsGarbage \/ Crash \/ Stop \/ Start
        PROVE  UNCHANGED <<head, received>>
    <2>1. CASE collectsGarbage
      <3>1. gcStep
        BY <2>1 DEF collectsGarbage, garbageCollectEntries, deleteEntry, deletedAll, deleteFails
      <3>. QED  BY <3>1 DEF gcStep
    <2>2. CASE Crash \/ Stop \/ Start
      BY <2>2, Zenon DEF Crash, Stop, Start
    <2>. QED  BY <1>6, <2>1, <2>2
  <1>7. ASSUME \/ handleRequest \/ startNewSequence
               \/ \E p \in Blocks : handlePreprepareV2(p)
               \/ \E s \in Voters : handleParentCommit(s)
               \/ \E r \in Rounds : startNewRound(r) \/ waitForDesiredRound(r)
        PROVE  UNCHANGED <<head, received>>
    BY <1>7, Zenon DEF handleRequest, handlePreprepareV2, handleParentCommit, startNewRound,
       waitForDesiredRound, startNewSequence
  <1>8. CASE handleEvents
    BY <1>1, <1>2, <1>3, <1>5, <1>7, <1>8 DEF handleEvents
  <1>. QED  BY <1>4, <1>5, <1>6, <1>8 DEF Next

\* The invariant is inductive.
LEMMA NextInv == Inv /\ [Next]_vars => Inv'
  <1>. SUFFICES ASSUME Inv, [Next]_vars PROVE Inv'
    OBVIOUS
  <1>1. GoodNow /\ Counted /\ head \in 0 .. MaxSequence
    BY InvIsGood
  <1>2. CASE Next
    <2>1. GoodNow' /\ Counted'
      <3>1. CASE insertSyncedBlock
        BY <1>1, <3>1 DEF insertSyncedBlock, GoodNow, Counted
      <3>2. CASE handleEvents
        BY <1>1, <3>2, RequestStep, PreprepareStep, PrepareStep, CommitStep,
           ParentCommitStep, RoundStep, SequenceStep DEF handleEvents
      <3>. QED
        BY <1>1, <1>2, <3>1, <3>2, CollectorStep, StopStep, StartStep DEF Next
    <2>2. /\ head' \in 0 .. MaxSequence
          /\ received' \in [Views -> SUBSET (Voters \X Blocks)]
      BY <1>2, OtherTypes
    <2>. QED  BY <2>1, <2>2 DEF Inv, GoodNow, Counted, Good, TypeOK, DB, Collector
  <1>3. CASE UNCHANGED vars
    BY <1>3 DEF vars, Inv, TypeOK
  <1>. QED  BY <1>2, <1>3

\* So it always holds.
LEMMA InvHolds == Spec => []Inv
  BY InitInv, NextInv, PTL DEF Spec

\* Every variable keeps its type, whatever fails and whenever it crashes.
THEOREM TypeCorrect == Spec => []TypeOK
  <1>1. Inv => TypeOK
    BY DEF Inv
  <1>. QED  BY <1>1, InvHolds, PTL

\* createRoundState always finds the round state of the last view.
THEOREM AlwaysCanRestart == Spec => []CanRestart
  <1>1. Inv => CanRestart
    <2>. SUFFICES ASSUME Inv, rsdb.lastView # Absent
                  PROVE  rsdb.rs[rsdb.lastView] # Absent
      BY Zenon DEF CanRestart
    <2>1. rsdb.lastView \in saved /\ rsdb.lastView \in Views
      BY Zenon DEF Inv, DbInv, TypeOK
    <2>2. rsdb.lastView[1] \in Nat /\ sequencesToSave \in Nat
      BY <2>1, ViewOrder, ConstantsAssumption DEF Sequences
    <2>3. rsdb.lastView[1] + sequencesToSave >= rsdb.lastView[1]
      BY <2>2
    <2>4. DbInv(rsdb, saved)
      BY Zenon DEF Inv
    <2>. QED  BY <2>1, <2>3, <2>4 DEF DbInv
  <1>. QED  BY <1>1, InvHolds, PTL

\* The validator signs for one block in each view: what it signs for is on
\* disk before, and no failed write or crash brings it back behind that.
THEOREM SignsOncePerView == Spec => []OneVotePerView
  <1>1. Inv => OneVotePerView
    BY DEF Inv, VoteInv, OneVotePerView
  <1>. QED  BY <1>1, InvHolds, PTL

\* What the collector has deleted stays deleted.
THEOREM CollectsForGood == Spec => []CollectedForGood
  <1>1. Inv => CollectedForGood
    BY ZenonT(30) DEF Inv, GcInv, CollectedForGood
  <1>. QED  BY <1>1, InvHolds, PTL

-----------------------------------------------------------------------------
(***************************************************************************)
(* While no write failed, nothing that was handled is lost.  The memory is *)
(* either what the two keys of the last view merge to or a new sequence    *)
(* nothing was saved for; the votes under both keys of a view are for its  *)
(* proposal; and votes are handled in views that were saved only.          *)
(***************************************************************************)
Matches(ms, p) == \A s \in Voters : ms[s] \in {NoBlock, p}

VotesMatch(rs) ==
    /\ Matches(rs.prepares, rs.preprepare) /\ Matches(rs.commits, rs.preprepare)
    /\ rs.state = StateAcceptRequest => rs.preprepare = NoBlock

\* The same round state but for the commits of the sequence before.
Alike(a, b) ==
    /\ a.view = b.view /\ a.desiredRound = b.desiredRound /\ a.state = b.state
    /\ a.preprepare = b.preprepare /\ a.preparedCertificate = b.preparedCertificate
    /\ a.prepares = b.prepares /\ a.commits = b.commits

NoVotes(r) == r.prepares = noMessages /\ r.commits = noMessages

Entries(db) ==
    \A v \in Views :
        /\ db.rs[v] # Absent =>
              /\ VotesMatch(db.rs[v])
              /\ db.rcvd[v] # Absent =>
                    /\ Matches(db.rcvd[v].prepares, db.rs[v].preprepare)
                    /\ Matches(db.rcvd[v].commits, db.rs[v].preprepare)
        /\ db.rcvd[v] # Absent /\ ~Reached(db, v) => NoVotes(db.rcvd[v])

Fresh(cur, db, h) ==
    /\ Alike(cur, newRoundState(cur.view[1]))
    /\ cur.view[1] <= h + 1
    /\ db.lastView # Absent => db.lastView[1] < cur.view[1]

Restored(cur, db) ==
    db.lastView = cur.view /\ Alike(GetRoundStateFor(db, cur.view), cur)

Memory(cur, db, h) ==
    cur # Down => VotesMatch(cur) /\ (Fresh(cur, db, h) \/ Restored(cur, db))

Evidence(db, sv, rc) ==
    \A v \in Views :
        /\ rc[v] # {} => v \in sv
        /\ v \in sv /\ db.rs[v] # Absent => rc[v] \subseteq votesOf(GetRoundStateFor(db, v))

Lossless(cur, db, sv, rc, h) ==
    Entries(db) /\ Memory(cur, db, h) /\ Evidence(db, sv, rc)

LInv == failures = 0 => Lossless(current, rsdb, saved, received, head)

\* The fields of a merged round state.
LEMMA MergedFields ==
    ASSUME NEW rs \in RoundState, NEW r \in Rcvd
    PROVE  /\ merged(rs, r) \in RoundState
           /\ merged(rs, r).view = rs.view
           /\ merged(rs, r).desiredRound = rs.desiredRound
           /\ merged(rs, r).state = rs.state
           /\ merged(rs, r).preprepare = rs.preprepare
           /\ merged(rs, r).preparedCertificate = rs.preparedCertificate
           /\ merged(rs, r).prepares = AddAll(rs.prepares, r.prepares)
           /\ merged(rs, r).commits = AddAll(rs.commits, r.commits)
  <1>. DEFINE pp == AddAll(rs.prepares, r.prepares)
              cc == AddAll(rs.commits, r.commits)
              rr == rs.parentCommits \cup r.parentCommits
              a == [rs EXCEPT !.prepares = pp]
              b == [a EXCEPT !.commits = cc]
              c == [b EXCEPT !.parentCommits = rr]
  <1>1. pp \in MessageSet /\ cc \in MessageSet /\ rr \in SUBSET Voters
    BY DEF RoundState, Rcvd, MessageSet, AddAll
  <1>2. merged(rs, r) = c
    BY DEF merged
  <1>. HIDE DEF pp, cc, rr
  <1>3. /\ a \in RoundState /\ a.view = rs.view /\ a.desiredRound = rs.desiredRound
        /\ a.state = rs.state /\ a.preprepare = rs.preprepare
        /\ a.preparedCertificate = rs.preparedCertificate /\ a.prepares = pp
    BY <1>1 DEF RoundState
  <1>. HIDE DEF a
  <1>4. /\ b \in RoundState /\ b.view = a.view /\ b.desiredRound = a.desiredRound
        /\ b.state = a.state /\ b.preprepare = a.preprepare
        /\ b.preparedCertificate = a.preparedCertificate /\ b.prepares = a.prepares
        /\ b.commits = cc
    BY <1>1, <1>3 DEF RoundState
  <1>. HIDE DEF b
  <1>5. /\ c \in RoundState /\ c.view = b.view /\ c.desiredRound = b.desiredRound
        /\ c.state = b.state /\ c.preprepare = b.preprepare
        /\ c.preparedCertificate = b.preparedCertificate /\ c.prepares = b.prepares
        /\ c.commits = b.commits
    BY <1>1, <1>4, Zenon DEF RoundState
  <1>. HIDE DEF c
  <1>. QED  BY <1>2, <1>3, <1>4, <1>5 DEF pp, cc

\* What is read back for a view.
LEMMA EntryFields ==
    ASSUME NEW db \in DB, NEW v \in Views, db.rs[v] # Absent
    PROVE  LET d == db.rs[v]
               r == db.rcvd[v]
               n == GetRoundStateFor(db, v)
           IN  /\ d \in RoundState /\ n \in RoundState
               /\ n.view = d.view /\ n.desiredRound = d.desiredRound /\ n.state = d.state
               /\ n.preprepare = d.preprepare
               /\ n.preparedCertificate = d.preparedCertificate
               /\ r = Absent => n.prepares = d.prepares /\ n.commits = d.commits
               /\ r # Absent =>
                     /\ r \in Rcvd
                     /\ n.prepares = AddAll(d.prepares, r.prepares)
                     /\ n.commits = AddAll(d.commits, r.commits)
  <1>1. db.rs[v] \in RoundState
    BY Zenon DEF DB
  <1>2. CASE db.rcvd[v] = Absent
    BY <1>1, <1>2, Zenon DEF GetRoundStateFor
  <1>3. CASE db.rcvd[v] # Absent
    <2>1. db.rcvd[v] \in Rcvd
      BY <1>3 DEF DB
    <2>2. GetRoundStateFor(db, v) = merged(db.rs[v], db.rcvd[v])
      BY <1>3 DEF GetRoundStateFor
    <2>. DEFINE m == merged(db.rs[v], db.rcvd[v])
    <2>3. /\ m \in RoundState
          /\ m.view = db.rs[v].view /\ m.desiredRound = db.rs[v].desiredRound
          /\ m.state = db.rs[v].state /\ m.preprepare = db.rs[v].preprepare
          /\ m.preparedCertificate = db.rs[v].preparedCertificate
          /\ m.prepares = AddAll(db.rs[v].prepares, db.rcvd[v].prepares)
          /\ m.commits = AddAll(db.rs[v].commits, db.rcvd[v].commits)
      BY <1>1, <2>1, MergedFields, Zenon
    <2>. HIDE DEF m
    <2>4. GetRoundStateFor(db, v) = m
      BY <2>2, Zenon DEF m
    <2>. QED  BY <1>1, <1>3, <2>1, <2>3, <2>4, Zenon
  <1>. QED  BY <1>2, <1>3, Zenon

\* Votes of senders that are there already add nothing.
LEMMA Absorbed ==
    ASSUME NEW ms \in MessageSet, NEW more \in MessageSet,
           \A s \in Voters : more[s] # NoBlock => ms[s] # NoBlock
    PROVE  AddAll(ms, more) = ms
  BY DEF AddAll, MessageSet

\* Votes that include those that are there replace them.
LEMMA Overlaid ==
    ASSUME NEW ms \in MessageSet, NEW more \in MessageSet,
           \A s \in Voters : ms[s] # NoBlock => more[s] = ms[s]
    PROVE  AddAll(ms, more) = more
  BY DEF AddAll, MessageSet

\* The entry of the last view is there.
LEMMA LastEntry ==
    ASSUME NEW cur, NEW db, NEW vt, NEW sv, NEW g, Good(cur, db, vt, sv, g),
           db.lastView # Absent
    PROVE  /\ db.lastView \in Views /\ db.lastView \in sv
           /\ db.rs[db.lastView] # Absent /\ db.rs[db.lastView].view = db.lastView
  <1>1. db.lastView \in Views /\ db.lastView \in sv /\ DbInv(db, sv)
    BY Zenon DEF Good, DB, DbInv
  <1>2. db.lastView[1] \in Nat /\ sequencesToSave \in Nat
    BY <1>1, ViewOrder, ConstantsAssumption DEF Sequences
  <1>3. db.lastView[1] + sequencesToSave >= db.lastView[1]
    BY <1>2
  <1>. QED  BY <1>1, <1>3, Zenon DEF DbInv

\* What the memory says of the view it is in.
LEMMA ViewOfMemory ==
    ASSUME NEW cur \in RoundState, NEW db, NEW vt, NEW sv, NEW g, NEW rc, NEW h,
           Good(cur, db, vt, sv, g), Lossless(cur, db, sv, rc, h)
    PROVE  /\ cur.view \in Views /\ cur # Down /\ cur.view # Absent
           /\ Fresh(cur, db, h) => ~Reached(db, cur.view) /\ NoVotes(cur)
                                   /\ cur.preprepare = NoBlock
           /\ Restored(cur, db) => db.rs[cur.view] # Absent /\ cur.view \in sv
  <1>1. cur.view \in Views /\ cur # Down /\ cur.view # Absent
    BY ConstantsAssumption, Zenon DEF RoundState
  <1>2. ASSUME Fresh(cur, db, h)
        PROVE  ~Reached(db, cur.view) /\ NoVotes(cur) /\ cur.preprepare = NoBlock
    BY <1>2, Zenon DEF Fresh, Reached, before, NoVotes, Alike, newRoundState
  <1>3. ASSUME Restored(cur, db)
        PROVE  db.rs[cur.view] # Absent /\ cur.view \in sv
    BY <1>1, <1>3, LastEntry, Zenon DEF Restored
  <1>. QED  BY <1>1, <1>2, <1>3, Zenon

\* No messages match any proposal.
LEMMA NothingSeen ==
    ASSUME NEW p
    PROVE  Matches(noMessages, p) /\ noMessages \in MessageSet
           /\ \A s \in Voters : noMessages[s] = NoBlock
  BY DEF Matches, noMessages, MessageSet

\* A transition keeps the votes of its view, or leaves for a view without.
Carries(cur, rs) ==
    \/ /\ rs.view = cur.view /\ rs.prepares = cur.prepares /\ rs.commits = cur.commits
       /\ rs.preprepare = cur.preprepare \/ cur.preprepare = NoBlock
    \/ before(cur.view, rs.view) /\ NoVotes(rs)

\* The write of a round state loses no vote, and leaves what a restart finds.
LEMMA LosslessWrite ==
    ASSUME NEW cur \in RoundState, NEW db, NEW vt, NEW sv, NEW g, NEW rc, NEW h,
           NEW rs \in RoundState,
           Good(cur, db, vt, sv, g), Legal(cur, rs), Lossless(cur, db, sv, rc, h),
           VotesMatch(rs), Carries(cur, rs)
    PROVE  Lossless(rs, UpdateLastRoundState(db, rs), sv \cup {rs.view}, rc, h)
  <1>. DEFINE n == UpdateLastRoundState(db, rs)
              v == rs.view
              r == db.rcvd[v]
  <1>1. db \in DB /\ n \in DB /\ DbInv(db, sv) /\ sv \in SUBSET Views
    BY GoodWrite, Zenon DEF Good
  <1>2. /\ n.lastView = v /\ n.rs[v] = rs /\ n.rcvd = db.rcvd
        /\ \A w \in Views : w # v => n.rs[w] = db.rs[w]
    BY <1>1 DEF UpdateLastRoundState, DB, RoundState
  <1>3. v \in Views /\ v # Absent /\ rs # Absent /\ rs # Down
    BY ConstantsAssumption, Zenon DEF RoundState
  <1>4. /\ cur.view \in Views /\ cur # Down
        /\ Fresh(cur, db, h) => ~Reached(db, cur.view)
        /\ Restored(cur, db) => db.rs[cur.view] # Absent /\ cur.view \in sv
    BY ViewOfMemory, Zenon
  <1>5. /\ db.lastView # Absent => db.lastView \in Views /\ ~before(v, db.lastView)
        /\ \/ Restored(cur, db) /\ v = cur.view /\ Reached(db, v)
           \/ ~Reached(db, v)
    <2>1. db.lastView # Absent => db.lastView \in Views /\ ~before(v, db.lastView)
      BY <1>1, GoodMemory, Zenon DEF DB
    <2>2. Fresh(cur, db, h) \/ Restored(cur, db)
      BY <1>4, Zenon DEF Lossless, Memory
    <2>3. CASE rs.view = cur.view /\ rs.prepares = cur.prepares /\ rs.commits = cur.commits
      <3>1. Restored(cur, db) => Reached(db, v)
        BY <1>3, <2>3, ViewOrder, Zenon DEF Restored, Reached
      <3>. QED  BY <1>4, <2>1, <2>2, <2>3, <3>1, Zenon
    <2>4. CASE before(cur.view, rs.view) /\ NoVotes(rs)
      <3>1. Restored(cur, db) => ~Reached(db, v)
        BY <2>4, Zenon DEF Restored, Reached
      <3>2. ASSUME ~Reached(db, cur.view)
            PROVE  ~Reached(db, v)
        <4>1. CASE db.lastView = Absent
          BY <4>1 DEF Reached
        <4>2. CASE db.lastView # Absent
          <5>1. before(db.lastView, cur.view) /\ db.lastView \in Views
            BY <2>1, <3>2, <4>2 DEF Reached
          <5>2. before(db.lastView, v)
            BY <1>3, <1>4, <2>4, <5>1, ViewOrder, Zenon
          <5>. QED  BY <5>2, ZenonT(30) DEF Reached
        <4>. QED  BY <4>1, <4>2
      <3>3. ~Reached(db, v)
        BY <1>4, <2>2, <3>1, <3>2, Zenon
      <3>. QED  BY <2>1, <2>4, <3>3, Zenon
    <2>. QED  BY <2>1, <2>3, <2>4, Zenon DEF Carries
  <1>. HIDE DEF n, v
  <1>6. ASSUME r # Absent
        PROVE  /\ r \in Rcvd
               /\ Matches(r.prepares, rs.preprepare) /\ Matches(r.commits, rs.preprepare)
               /\ \A s \in Voters : /\ r.prepares[s] # NoBlock => rs.prepares[s] # NoBlock
                                    /\ r.commits[s] # NoBlock => rs.commits[s] # NoBlock
    <2>1. r \in Rcvd
      BY <1>1, <1>3, <1>6, Zenon DEF DB
    <2>2. CASE ~Reached(db, v)
      <3>1. NoVotes(r)
        BY <1>3, <1>6, <2>2, Zenon DEF Lossless, Entries
      <3>. QED  BY <2>1, <3>1, NothingSeen, Zenon DEF NoVotes
    <2>3. CASE Restored(cur, db) /\ v = cur.view /\ Reached(db, v)
      <3>. DEFINE d == db.rs[v]
      <3>1. d # Absent
        BY <1>4, <2>3, Zenon
      <3>2. /\ d \in RoundState
            /\ d.preprepare = cur.preprepare
            /\ cur.prepares = AddAll(d.prepares, r.prepares)
            /\ cur.commits = AddAll(d.commits, r.commits)
        BY <1>1, <1>3, <1>6, <2>3, <3>1, EntryFields, Zenon DEF Restored, Alike
      <3>3. Matches(r.prepares, d.preprepare) /\ Matches(r.commits, d.preprepare)
        BY <1>3, <1>6, <3>1, Zenon DEF Lossless, Entries
      <3>. HIDE DEF d, r
      <3>4. Matches(r.prepares, rs.preprepare) /\ Matches(r.commits, rs.preprepare)
        <4>1. cur.view = rs.view /\ ~before(cur.view, rs.view)
          BY <1>4, <2>3, ViewOrder, Zenon DEF v
        <4>. QED  BY <3>2, <3>3, <4>1, Zenon DEF Carries, Matches
      <3>5. rs.prepares = cur.prepares /\ rs.commits = cur.commits
        BY <1>4, <2>3, ViewOrder, Zenon DEF Carries, v
      <3>6. \A s \in Voters :
               /\ r.prepares[s] # NoBlock => cur.prepares[s] # NoBlock
               /\ r.commits[s] # NoBlock => cur.commits[s] # NoBlock
        BY <3>2, ZenonT(60) DEF AddAll
      <3>. QED  BY <2>1, <3>4, <3>5, <3>6, Zenon
    <2>. QED  BY <1>5, <2>2, <2>3, Zenon
  <1>7. Alike(GetRoundStateFor(n, v), rs)
    <2>1. rs.prepares \in MessageSet /\ rs.commits \in MessageSet
      BY Zenon DEF RoundState
    <2>2. CASE r = Absent
      BY <1>1, <1>2, <1>3, <2>2, EntryFields, Zenon DEF Alike
    <2>3. CASE r # Absent
      <3>1. r.prepares \in MessageSet /\ r.commits \in MessageSet
        BY <1>6, <2>3, Zenon DEF Rcvd
      <3>2. AddAll(rs.prepares, r.prepares) = rs.prepares
            /\ AddAll(rs.commits, r.commits) = rs.commits
        BY <1>6, <2>1, <2>3, <3>1, Absorbed, Zenon
      <3>. DEFINE e == GetRoundStateFor(n, v)
      <3>3. /\ e.view = rs.view /\ e.desiredRound = rs.desiredRound /\ e.state = rs.state
            /\ e.preprepare = rs.preprepare
            /\ e.preparedCertificate = rs.preparedCertificate
            /\ e.prepares = AddAll(rs.prepares, r.prepares)
            /\ e.commits = AddAll(rs.commits, r.commits)
        <4>1. n.rs[v] # Absent /\ n.rcvd[v] # Absent
          BY <1>2, <1>3, <2>3, Zenon
        <4>2. /\ e.view = n.rs[v].view /\ e.desiredRound = n.rs[v].desiredRound
              /\ e.state = n.rs[v].state /\ e.preprepare = n.rs[v].preprepare
              /\ e.preparedCertificate = n.rs[v].preparedCertificate
              /\ e.prepares = AddAll(n.rs[v].prepares, n.rcvd[v].prepares)
              /\ e.commits = AddAll(n.rs[v].commits, n.rcvd[v].commits)
          BY <1>1, <1>3, <4>1, EntryFields, Zenon
        <4>3. n.rs[v] = rs /\ n.rcvd[v] = r
          BY <1>2, Zenon
        <4>. HIDE DEF n, v, r, e
        <4>. QED  BY <4>2, <4>3, Zenon
      <3>. HIDE DEF e
      <3>4. Alike(e, rs)
        BY <3>2, <3>3, Zenon DEF Alike
      <3>. QED  BY <3>4, Zenon DEF e
    <2>. QED  BY <2>2, <2>3
  <1>8. Memory(rs, n, h)
    BY <1>2, <1>7, Zenon DEF Memory, Restored, v
  <1>9. Entries(n)
    <2>1. ASSUME NEW w \in Views, n.rs[w] # Absent
          PROVE  /\ VotesMatch(n.rs[w])
                 /\ n.rcvd[w] # Absent =>
                       /\ Matches(n.rcvd[w].prepares, n.rs[w].preprepare)
                       /\ Matches(n.rcvd[w].commits, n.rs[w].preprepare)
      <3>1. CASE w = v
        BY <1>2, <1>6, <3>1, Zenon
      <3>2. CASE w # v
        BY <1>2, <2>1, <3>2, Zenon DEF Lossless, Entries
      <3>. QED  BY <3>1, <3>2, Zenon
    <2>2. ASSUME NEW w \in Views, n.rcvd[w] # Absent, ~Reached(n, w)
          PROVE  NoVotes(n.rcvd[w])
      <3>1. before(v, w)
        BY <1>2, <1>3, <2>2, Zenon DEF Reached
      <3>2. ~Reached(db, w)
        BY <1>3, <1>5, <3>1, ViewOrder, Zenon DEF Reached
      <3>. QED  BY <1>2, <2>2, <3>2, Zenon DEF Lossless, Entries
    <2>. QED  BY <2>1, <2>2, Zenon DEF Entries
  <1>10. Evidence(n, sv \cup {v}, rc)
    <2>1. ASSUME NEW w \in Views, w # v
          PROVE  /\ GetRoundStateFor(n, w) = GetRoundStateFor(db, w)
                 /\ n.rs[w] = db.rs[w]
      BY <1>2, <2>1, Zenon DEF GetRoundStateFor
    <2>2. rc[v] \subseteq votesOf(GetRoundStateFor(n, v))
      <3>1. CASE ~Reached(db, v)
        BY <1>1, <1>3, <3>1, Zenon DEF Lossless, Evidence, DbInv
      <3>2. CASE Restored(cur, db) /\ v = cur.view
        <4>1. rc[v] \subseteq votesOf(GetRoundStateFor(db, v))
          BY <1>3, <1>4, <3>2, Zenon DEF Lossless, Evidence
        <4>2. rs.prepares = cur.prepares /\ rs.commits = cur.commits
          BY <1>4, <3>2, ViewOrder, Zenon DEF Carries, v
        <4>3. /\ GetRoundStateFor(n, v).prepares = GetRoundStateFor(db, v).prepares
              /\ GetRoundStateFor(n, v).commits = GetRoundStateFor(db, v).commits
          BY <1>7, <3>2, <4>2, Zenon DEF Restored, Alike
        <4>4. votesOf(GetRoundStateFor(n, v)) = votesOf(GetRoundStateFor(db, v))
          BY <4>3, Zenon DEF votesOf
        <4>. QED  BY <4>1, <4>4, Zenon
      <3>. QED  BY <1>5, <3>1, <3>2, Zenon
    <2>. QED  BY <2>1, <2>2, Zenon DEF Lossless, Evidence
  <1>. QED  BY <1>8, <1>9, <1>10, Zenon DEF Lossless, n, v

\* Votes for the proposal are added.
Adds(cur, rs) ==
    /\ rs \in RoundState
    /\ rs.view = cur.view /\ rs.desiredRound = cur.desiredRound /\ rs.state = cur.state
    /\ rs.preprepare = cur.preprepare /\ rs.preparedCertificate = cur.preparedCertificate
    /\ \A s \in Voters : /\ rs.prepares[s] \in {cur.prepares[s], cur.preprepare}
                         /\ rs.commits[s] \in {cur.commits[s], cur.preprepare}

\* Nor does the write of the votes, which covers the one just received.
LEMMA LosslessVote ==
    ASSUME NEW cur \in RoundState, NEW db, NEW vt, NEW sv, NEW g, NEW rc, NEW h,
           NEW rs, NEW rc2,
           Good(cur, db, vt, sv, g), Lossless(cur, db, sv, rc, h), Adds(cur, rs),
           rc2[cur.view] \subseteq rc[cur.view] \cup votesOf(rs),
           rc[cur.view] \subseteq Voters \X Blocks,
           \A w \in Views : w # cur.view => rc2[w] = rc[w]
    PROVE  Lossless(rs, UpdateLastRcvd(db, rs), sv, rc2, h)
  <1>. DEFINE n == UpdateLastRcvd(db, rs)
              v == cur.view
              r == rcvdFromRoundState(rs)
  <1>1. rs \in RoundState /\ rs.view = v /\ db \in DB /\ DbInv(db, sv)
    BY Zenon DEF Adds, Good
  <1>2. v \in Views /\ v # Absent /\ r # Absent /\ rs # Down /\ r \in Rcvd
        /\ r.prepares = rs.prepares /\ r.commits = rs.commits
    <2>1. v \in Views /\ r \in Rcvd /\ r.prepares = rs.prepares /\ r.commits = rs.commits
      BY <1>1, RcvdType, Zenon DEF RoundState
    <2>. HIDE DEF v, r
    <2>. QED  BY <1>1, <2>1, ConstantsAssumption, Zenon
  <1>3. /\ n \in DB /\ n.lastView = db.lastView /\ n.rs = db.rs /\ n.rcvd[v] = r
        /\ \A w \in Views : w # v => n.rcvd[w] = db.rcvd[w]
    <2>1. /\ n \in DB /\ n.lastView = db.lastView /\ n.rs = db.rs
          /\ n.rcvd = [db.rcvd EXCEPT ![v] = r]
      <3>1. /\ n \in DB /\ n.lastView = db.lastView /\ n.rs = db.rs
            /\ n.rcvd = [db.rcvd EXCEPT ![rs.view] = r]
        BY <1>1, RcvdWrite, Zenon
      <3>. HIDE DEF n, v, r
      <3>. QED  BY <1>1, <3>1, Zenon
    <2>2. db.rcvd \in [Views -> Rcvd \cup {Absent}]
      BY <1>1, Zenon DEF DB
    <2>. HIDE DEF n, v, r
    <2>. QED  BY <1>2, <2>1, <2>2, Zenon
  <1>4. /\ cur # Down
        /\ Fresh(cur, db, h) => ~Reached(db, v) /\ NoVotes(cur) /\ cur.preprepare = NoBlock
        /\ Restored(cur, db) => db.rs[v] # Absent /\ v \in sv
    BY ViewOfMemory, Zenon
  <1>. HIDE DEF n, v, r
  <1>5. VotesMatch(cur) /\ (Fresh(cur, db, h) \/ Restored(cur, db))
    BY <1>4, Zenon DEF Lossless, Memory
  <1>6. VotesMatch(rs)
    BY <1>5, Zenon DEF Adds, VotesMatch, Matches
  <1>7. \A w \in Views : w # v => GetRoundStateFor(n, w) = GetRoundStateFor(db, w)
    BY <1>3, Zenon DEF GetRoundStateFor
  <1>8. Fresh(cur, db, h) => Fresh(rs, n, h) /\ NoVotes(rs)
    <2>. SUFFICES ASSUME Fresh(cur, db, h) PROVE Fresh(rs, n, h) /\ NoVotes(rs)
      BY Zenon
    <2>1. NoVotes(cur) /\ cur.preprepare = NoBlock
      BY <1>4, Zenon
    <2>2. \A s \in Voters : rs.prepares[s] = NoBlock /\ rs.commits[s] = NoBlock
      BY <2>1, NothingSeen, Zenon DEF Adds, NoVotes
    <2>3. NoVotes(rs)
      BY <1>1, <2>2, Zenon DEF NoVotes, noMessages, RoundState, MessageSet
    <2>. QED  BY <1>1, <1>3, <2>1, <2>3, Zenon DEF Fresh, Alike, Adds, NoVotes, v
  <1>9. Restored(cur, db) => Restored(rs, n)
    <2>. SUFFICES ASSUME Restored(cur, db) PROVE Restored(rs, n)
      BY Zenon
    <2>. DEFINE d == db.rs[v]
    <2>1. d # Absent
      BY <1>4, Zenon
    <2>2. /\ d \in RoundState
          /\ d.view = cur.view /\ d.desiredRound = cur.desiredRound /\ d.state = cur.state
          /\ d.preprepare = cur.preprepare
          /\ d.preparedCertificate = cur.preparedCertificate
          /\ \/ cur.prepares = d.prepares /\ cur.commits = d.commits
             \/ \E x \in Rcvd : /\ cur.prepares = AddAll(d.prepares, x.prepares)
                                /\ cur.commits = AddAll(d.commits, x.commits)
      BY <1>1, <1>2, <2>1, EntryFields, ZenonT(30) DEF Restored, Alike, v
    <2>3. \A s \in Voters :
             /\ d.prepares[s] # NoBlock => cur.prepares[s] = d.prepares[s]
             /\ d.commits[s] # NoBlock => cur.commits[s] = d.commits[s]
      BY <2>2, Zenon DEF AddAll
    <2>4. \A s \in Voters :
             /\ d.prepares[s] # NoBlock => rs.prepares[s] = d.prepares[s]
             /\ d.commits[s] # NoBlock => rs.commits[s] = d.commits[s]
      BY <1>5, <2>3, ZenonT(30) DEF Adds, VotesMatch, Matches
    <2>5. /\ d.prepares \in MessageSet /\ d.commits \in MessageSet
          /\ rs.prepares \in MessageSet /\ rs.commits \in MessageSet
      BY <1>1, <2>2, Zenon DEF RoundState
    <2>a. AddAll(d.prepares, r.prepares) = rs.prepares
      <3>. DEFINE ms == d.prepares
                  more == rs.prepares
      <3>1. /\ ms \in MessageSet /\ more \in MessageSet /\ r.prepares = more
            /\ \A s \in Voters : ms[s] # NoBlock => more[s] = ms[s]
        BY <1>2, <2>4, <2>5, Zenon
      <3>. HIDE DEF ms, more
      <3>2. AddAll(ms, more) = more
        BY <3>1, Overlaid, Zenon
      <3>. QED  BY <3>1, <3>2, Zenon DEF ms, more
    <2>b. AddAll(d.commits, r.commits) = rs.commits
      <3>. DEFINE ms == d.commits
                  more == rs.commits
      <3>1. /\ ms \in MessageSet /\ more \in MessageSet /\ r.commits = more
            /\ \A s \in Voters : ms[s] # NoBlock => more[s] = ms[s]
        BY <1>2, <2>4, <2>5, Zenon
      <3>. HIDE DEF ms, more
      <3>2. AddAll(ms, more) = more
        BY <3>1, Overlaid, Zenon
      <3>. QED  BY <3>1, <3>2, Zenon DEF ms, more
    <2>6. AddAll(d.prepares, r.prepares) = rs.prepares
          /\ AddAll(d.commits, r.commits) = rs.commits
      BY <2>a, <2>b, Zenon
    <2>7. n.rs[v] = d /\ n.rcvd[v] = r
      BY <1>3, Zenon
    <2>. HIDE DEF d
    <2>8. LET m == GetRoundStateFor(n, v)
          IN  /\ m.view = d.view /\ m.desiredRound = d.desiredRound /\ m.state = d.state
              /\ m.preprepare = d.preprepare
              /\ m.preparedCertificate = d.preparedCertificate
              /\ m.prepares = AddAll(d.prepares, r.prepares)
              /\ m.commits = AddAll(d.commits, r.commits)
      BY <1>2, <1>3, <2>1, <2>7, EntryFields, ZenonT(30)
    <2>9. Alike(GetRoundStateFor(n, v), rs)
      BY <2>2, <2>6, <2>8, Zenon DEF Alike, Adds
    <2>. QED  BY <1>1, <1>3, <2>9, Zenon DEF Restored, v
  <1>10. Memory(rs, n, h)
    BY <1>5, <1>6, <1>8, <1>9, Zenon DEF Memory
  <1>11. Entries(n)
    <2>1. ASSUME NEW w \in Views, w # v
          PROVE  /\ n.rs[w] # Absent =>
                       /\ VotesMatch(n.rs[w])
                       /\ n.rcvd[w] # Absent =>
                             /\ Matches(n.rcvd[w].prepares, n.rs[w].preprepare)
                             /\ Matches(n.rcvd[w].commits, n.rs[w].preprepare)
                 /\ n.rcvd[w] # Absent /\ ~Reached(n, w) => NoVotes(n.rcvd[w])
      BY <1>3, <2>1, Zenon DEF Lossless, Entries, Reached
    <2>2. ASSUME n.rs[v] # Absent
          PROVE  /\ VotesMatch(n.rs[v])
                 /\ Matches(r.prepares, n.rs[v].preprepare)
                 /\ Matches(r.commits, n.rs[v].preprepare)
      <3>1. VotesMatch(n.rs[v])
        BY <1>2, <1>3, <2>2, Zenon DEF Lossless, Entries
      <3>2. CASE Fresh(cur, db, h)
        BY <1>2, <1>8, <3>1, <3>2, NothingSeen, Zenon DEF NoVotes
      <3>3. CASE Restored(cur, db)
        <4>1. db.rs[v].preprepare = rs.preprepare
          BY <1>1, <1>2, <1>3, <2>2, <3>3, EntryFields, ZenonT(30) DEF Restored, Alike, Adds, v
        <4>. QED  BY <1>2, <1>3, <1>6, <3>1, <4>1, Zenon DEF VotesMatch
      <3>. QED  BY <1>5, <3>2, <3>3, Zenon
    <2>3. ~Reached(n, v) => NoVotes(r)
      <3>1. Restored(cur, db) => Reached(db, v)
        BY <1>2, ViewOrder, Zenon DEF Restored, Reached, v
      <3>. QED  BY <1>2, <1>3, <1>5, <1>8, <3>1, Zenon DEF Reached, NoVotes
    <2>. QED  BY <1>3, <2>1, <2>2, <2>3, Zenon DEF Entries
  <1>12. Evidence(n, sv, rc2)
    <2>1. ASSUME NEW w \in Views, w # v
          PROVE  /\ rc2[w] # {} => w \in sv
                 /\ w \in sv /\ n.rs[w] # Absent => rc2[w] \subseteq votesOf(GetRoundStateFor(n, w))
      BY <1>3, <1>7, <2>1, Zenon DEF Lossless, Evidence, v
    <2>2. CASE Fresh(cur, db, h)
      <3>1. v \notin sv
        BY <1>4, <2>2, Zenon DEF DbInv, Good
      <3>2. rc[v] = {}
        BY <1>2, <3>1, Zenon DEF Lossless, Evidence
      <3>3. votesOf(rs) = {}
        BY <1>8, <2>2, NothingSeen, ConstantsAssumption, ZenonT(30) DEF votesOf, NoVotes
      <3>4. rc2[v] = {}
        BY <3>2, <3>3, Zenon DEF v
      <3>. QED  BY <2>1, <3>1, <3>4, Zenon DEF Evidence
    <2>3. CASE Restored(cur, db)
      <3>1. v \in sv /\ rc[v] \subseteq votesOf(GetRoundStateFor(db, v))
        BY <1>2, <1>4, <2>3, Zenon DEF Lossless, Evidence
      <3>2. votesOf(GetRoundStateFor(db, v)) \subseteq votesOf(rs)
        <4>1. votesOf(GetRoundStateFor(db, v)) = votesOf(cur)
          BY <2>3, Zenon DEF Restored, Alike, votesOf, v
        <4>2. ASSUME NEW x \in Voters \X Blocks, cur.prepares[x[1]] = x[2]
              PROVE  rs.prepares[x[1]] = x[2]
          BY <1>5, <4>2, ConstantsAssumption DEF Adds, VotesMatch, Matches
        <4>3. ASSUME NEW x \in Voters \X Blocks, cur.commits[x[1]] = x[2]
              PROVE  rs.commits[x[1]] = x[2]
          BY <1>5, <4>3, ConstantsAssumption DEF Adds, VotesMatch, Matches
        <4>. QED  BY <4>1, <4>2, <4>3, Zenon DEF votesOf
      <3>3. votesOf(rs) = votesOf(GetRoundStateFor(n, v))
        BY <1>1, <1>9, <2>3, Zenon DEF Restored, Alike, votesOf
      <3>4. rc2[v] \subseteq votesOf(GetRoundStateFor(n, v))
        BY <3>1, <3>2, <3>3, Zenon DEF v
      <3>. QED  BY <2>1, <3>1, <3>4, Zenon DEF Evidence
    <2>. QED  BY <1>5, <2>2, <2>3, Zenon
  <1>. QED  BY <1>10, <1>11, <1>12, Zenon DEF Lossless, n

\* What was stored is still there when the process ends.
LEMMA LosslessDown ==
    ASSUME NEW cur, NEW db, NEW sv, NEW rc, NEW h, Lossless(cur, db, sv, rc, h)
    PROVE  Lossless(Down, db, sv, rc, h)
  BY DEF Lossless, Memory

\* And when the head has moved on.
LEMMA LosslessHead ==
    ASSUME NEW cur, NEW db, NEW sv, NEW rc, NEW h \in Nat, NEW h2 \in Nat, h <= h2,
           cur \in RoundState \cup {Down}, Lossless(cur, db, sv, rc, h)
    PROVE  Lossless(cur, db, sv, rc, h2)
  <1>1. ASSUME cur # Down, Fresh(cur, db, h)
        PROVE  Fresh(cur, db, h2)
    <2>1. cur.view \in Views
      BY <1>1, Zenon DEF RoundState
    <2>2. cur.view[1] \in Nat
      BY <2>1, ViewOrder, ConstantsAssumption DEF Sequences
    <2>3. /\ Alike(cur, newRoundState(cur.view[1])) /\ cur.view[1] <= h + 1
          /\ db.lastView # Absent => db.lastView[1] < cur.view[1]
      BY <1>1, Zenon DEF Fresh
    <2>4. \A q \in Nat : q <= h + 1 => q <= h2 + 1
      OBVIOUS
    <2>. QED  BY <2>2, <2>3, <2>4, Zenon DEF Fresh
  <1>. QED  BY <1>1, Zenon DEF Lossless, Memory

LosslessNow == Lossless(current, rsdb, saved, received, head)

\* How handlers end, when no write failed.
LEMMA StopsLossless ==
    ASSUME Counted, NEW cur, NEW rs, NEW db, Stops(rs, db), failures' = 0,
           Lossless(cur, db, saved', received', head')
    PROVE  LosslessNow'
  <1>1. ~Fails(rs, db)
    BY DEF Fails, Counted
  <1>2. current' = Down /\ rsdb' = db
    BY <1>1 DEF Stops, Dies
  <1>. QED  BY <1>2, LosslessDown DEF LosslessNow

\* A save that succeeds, or dies on the way, loses nothing.
LEMMA SavesLossless ==
    ASSUME NEW cur \in RoundState, NEW rs \in RoundState, NEW db, NEW signed,
           Good(cur, db, voted, saved, gc), Counted, Legal(cur, rs),
           Lossless(cur, db, saved, received', head'),
           VotesMatch(rs), Carries(cur, rs), Saves(rs, db, signed), failures' = 0
    PROVE  LosslessNow'
  <1>. DEFINE n == UpdateLastRoundState(db, rs)
  <1>1. Lossless(rs, n, saved \cup {rs.view}, received', head')
    BY LosslessWrite
  <1>. HIDE DEF n
  <1>2. CASE Returns(rs, n, signed) /\ saved' = saved \cup {rs.view}
    BY <1>1, <1>2 DEF Returns, LosslessNow
  <1>3. CASE Stops(rs, db) /\ UNCHANGED saved
    BY <1>3, StopsLossless, Zenon
  <1>. QED  BY <1>2, <1>3 DEF Saves, n

\* What the transitions do to the votes.
LEMMA TransitionsCarry ==
    ASSUME NEW rs \in RoundState, VotesMatch(rs)
    PROVE  /\ \A p \in Blocks : rs.state = StateAcceptRequest =>
                 LET n == TransitionToPrepreparedV2(rs, p)
                 IN  Carries(rs, n) /\ VotesMatch(n)
           /\ Carries(rs, TransitionToPrepared(rs)) /\ VotesMatch(TransitionToPrepared(rs))
           /\ Carries(rs, TransitionToCommitted(rs)) /\ VotesMatch(TransitionToCommitted(rs))
           /\ \A r \in Rounds :
                 LET n == TransitionToWaitingForNewRound(rs, r)
                 IN  Carries(rs, n) /\ VotesMatch(n)
  <1>1. ASSUME NEW p \in Blocks, rs.state = StateAcceptRequest
        PROVE  LET n == TransitionToPrepreparedV2(rs, p)
               IN  Carries(rs, n) /\ VotesMatch(n)
    <2>. DEFINE m == [rs EXCEPT !.preprepare = p]
                n == [m EXCEPT !.state = StatePreprepared]
    <2>1. /\ m \in RoundState /\ m.view = rs.view /\ m.preprepare = p
          /\ m.prepares = rs.prepares /\ m.commits = rs.commits
      BY DEF RoundState
    <2>2. TransitionToPrepreparedV2(rs, p) = n
      BY DEF TransitionToPrepreparedV2
    <2>. HIDE DEF m
    <2>3. /\ n.view = m.view /\ n.preprepare = m.preprepare /\ n.state = StatePreprepared
          /\ n.prepares = m.prepares /\ n.commits = m.commits
      BY <2>1, Zenon DEF RoundState
    <2>. HIDE DEF n
    <2>4. rs.preprepare = NoBlock
      BY <1>1, Zenon DEF VotesMatch
    <2>5. Matches(n.prepares, NoBlock) /\ Matches(n.commits, NoBlock)
      BY <2>1, <2>3, <2>4, Zenon DEF VotesMatch
    <2>6. Carries(rs, n) /\ VotesMatch(n)
      BY <2>1, <2>3, <2>4, <2>5, StatesDiffer, Zenon DEF Carries, VotesMatch, Matches
    <2>. QED  BY <2>2, <2>6, Zenon
  <1>2. LET n == TransitionToPrepared(rs) IN Carries(rs, n) /\ VotesMatch(n)
    <2>. DEFINE m == [rs EXCEPT !.preparedCertificate = rs.preprepare]
                n == [m EXCEPT !.state = StatePrepared]
    <2>1. /\ m \in RoundState /\ m.view = rs.view /\ m.preprepare = rs.preprepare
          /\ m.prepares = rs.prepares /\ m.commits = rs.commits
      BY DEF RoundState
    <2>2. TransitionToPrepared(rs) = n
      BY DEF TransitionToPrepared
    <2>. HIDE DEF m
    <2>3. /\ n.view = m.view /\ n.preprepare = m.preprepare /\ n.state = StatePrepared
          /\ n.prepares = m.prepares /\ n.commits = m.commits
      BY <2>1, Zenon DEF RoundState
    <2>. HIDE DEF n
    <2>4. Carries(rs, n) /\ VotesMatch(n)
      BY <2>1, <2>3, StatesDiffer, Zenon DEF Carries, VotesMatch
    <2>. QED  BY <2>2, <2>4, Zenon
  <1>3. LET n == TransitionToCommitted(rs) IN Carries(rs, n) /\ VotesMatch(n)
    <2>. DEFINE n == TransitionToCommitted(rs)
    <2>1. /\ n.view = rs.view /\ n.preprepare = rs.preprepare /\ n.state = StateCommitted
          /\ n.prepares = rs.prepares /\ n.commits = rs.commits
      BY Zenon DEF RoundState, TransitionToCommitted
    <2>. HIDE DEF n
    <2>2. Carries(rs, n) /\ VotesMatch(n)
      BY <2>1, StatesDiffer, Zenon DEF Carries, VotesMatch
    <2>. QED  BY <2>2, Zenon DEF n
  <1>4. ASSUME NEW r \in Rounds
        PROVE  LET n == TransitionToWaitingForNewRound(rs, r)
               IN  Carries(rs, n) /\ VotesMatch(n)
    <2>. DEFINE m == [rs EXCEPT !.desiredRound = r]
                n == [m EXCEPT !.state = StateWaitingForNewRound]
    <2>1. /\ m \in RoundState /\ m.view = rs.view /\ m.preprepare = rs.preprepare
          /\ m.prepares = rs.prepares /\ m.commits = rs.commits
      BY DEF RoundState
    <2>2. TransitionToWaitingForNewRound(rs, r) = n
      BY DEF TransitionToWaitingForNewRound
    <2>. HIDE DEF m
    <2>3. /\ n.view = m.view /\ n.preprepare = m.preprepare
          /\ n.state = StateWaitingForNewRound
          /\ n.prepares = m.prepares /\ n.commits = m.commits
      BY <2>1, Zenon DEF RoundState
    <2>. HIDE DEF n
    <2>4. Carries(rs, n) /\ VotesMatch(n)
      BY <2>1, <2>3, StatesDiffer, Zenon DEF Carries, VotesMatch
    <2>. QED  BY <2>2, <2>4, Zenon
  <1>. QED  BY <1>1, <1>2, <1>3, <1>4, Zenon

\* A new view starts with no votes and so carries all of them.
LEMMA NewViewCarries ==
    ASSUME NEW rs \in RoundState, NEW n \in RoundState, before(rs.view, n.view),
           n.preprepare = NoBlock, n.prepares = noMessages, n.commits = noMessages
    PROVE  Carries(rs, n) /\ VotesMatch(n)
  BY NothingSeen, Zenon DEF Carries, VotesMatch, NoVotes

\* A recorded vote is for the proposal and is there.
LEMMA VotesAdd ==
    ASSUME NEW rs \in RoundState, NEW s \in Voters
    PROVE  /\ Adds(rs, AddPrepare(rs, s, rs.preprepare))
           /\ Adds(rs, AddCommit(rs, s, rs.preprepare))
           /\ Adds(rs, AddParentCommit(rs, s))
           /\ AddPrepare(rs, s, rs.preprepare).prepares[s] = rs.preprepare
           /\ AddCommit(rs, s, rs.preprepare).commits[s] = rs.preprepare
  <1>1. /\ Adds(rs, AddPrepare(rs, s, rs.preprepare))
        /\ AddPrepare(rs, s, rs.preprepare).prepares[s] = rs.preprepare
    BY DEF Adds, AddPrepare, RoundState, MessageSet
  <1>2. /\ Adds(rs, AddCommit(rs, s, rs.preprepare))
        /\ AddCommit(rs, s, rs.preprepare).commits[s] = rs.preprepare
    BY DEF Adds, AddCommit, RoundState, MessageSet
  <1>3. Adds(rs, AddParentCommit(rs, s))
    BY Zenon DEF Adds, AddParentCommit, RoundState, MessageSet
  <1>. QED  BY <1>1, <1>2, <1>3

\* A vote that is in the database before the handler goes on.
LEMMA VoteIsKept ==
    ASSUME GoodNow, LosslessNow, acceptsVote, NEW s \in Voters, voteSaved(s), NEW rs,
           received \in [Views -> SUBSET (Voters \X Blocks)],
           Adds(current, rs),
           rs.prepares[s] = current.preprepare \/ rs.commits[s] = current.preprepare
    PROVE  Lossless(rs, UpdateLastRcvd(rsdb, rs), saved, received', head)
  <1>1. up /\ current \in RoundState /\ current.view \in Views /\ current.preprepare \in Blocks
    BY UpTypes, Zenon DEF acceptsVote
  <1>2. <<s, current.preprepare>> \in votesOf(rs)
    BY <1>1, Zenon DEF votesOf
  <1>3. /\ received'[current.view] = received[current.view] \cup {<<s, current.preprepare>>}
        /\ \A w \in Views : w # current.view => received'[w] = received[w]
    BY <1>1, Zenon DEF voteSaved
  <1>4. received[current.view] \subseteq Voters \X Blocks
    BY <1>1, Zenon
  <1>5. received'[current.view] \subseteq received[current.view] \cup votesOf(rs)
    BY <1>2, <1>3
  <1>. QED  BY <1>1, <1>3, <1>4, <1>5, LosslessVote, Zenon DEF GoodNow, LosslessNow

\* The transition to Prepared, or none, after a vote loses nothing.
LEMMA LosslessPrepared ==
    ASSUME Counted, acceptsVote, GoodNow, NEW rs, NEW db, Same(current, rs),
           Good(rs, db, voted, saved, gc), failures' = 0, head' = head,
           Lossless(rs, db, saved, received', head),
           IF becomesPrepared(rs) THEN Saves(TransitionToPrepared(rs), db, {rs.preprepare})
           ELSE Returns(rs, db, {}) /\ UNCHANGED saved
    PROVE  LosslessNow'
  <1>. DEFINE n == TransitionToPrepared(rs)
  <1>1. rs \in RoundState /\ HasProposal(rs) /\ rs # Down
        /\ rs.state \notin {StateAcceptRequest, StateWaitingForNewRound}
    BY UpTypes, ConstantsAssumption, Zenon DEF Same, acceptsVote, HasProposal
  <1>2. n \in RoundState /\ Legal(rs, n)
    BY <1>1, TransitionTypes, Zenon
  <1>3. Carries(rs, n) /\ VotesMatch(n)
    BY <1>1, TransitionsCarry, Zenon DEF Lossless, Memory
  <1>. HIDE DEF n
  <1>4. CASE Saves(n, db, {rs.preprepare})
    BY <1>1, <1>2, <1>3, <1>4, SavesLossless, Zenon
  <1>5. CASE Returns(rs, db, {}) /\ UNCHANGED saved
    BY <1>5, Zenon DEF Returns, LosslessNow
  <1>. QED  BY <1>4, <1>5, Zenon DEF n

\* Nor does commit.
LEMMA LosslessCommit ==
    ASSUME Counted, acceptsVote, GoodNow, NEW rs, NEW db, Same(current, rs),
           Good(rs, db, voted, saved, gc), failures' = 0, head \in 0 .. MaxSequence,
           Lossless(rs, db, saved, received', head), commit(rs, db)
    PROVE  LosslessNow'
  <1>. DEFINE rs2 == TransitionToCommitted(rs)
              db2 == UpdateLastRoundState(db, rs2)
              rs3 == TransitionToWaitingForNewRound(rs2, rs.view[2] + 1)
  <1>1. rs \in RoundState /\ HasProposal(rs) /\ rs # Down
        /\ rs.state \notin {StateAcceptRequest, StateWaitingForNewRound}
    BY UpTypes, ConstantsAssumption, Zenon DEF Same, acceptsVote, HasProposal
  <1>2. rs2 \in RoundState /\ Legal(rs, rs2) /\ rs2.view = rs.view /\ HasProposal(rs2)
        /\ rs2 # Down
    BY <1>1, TransitionTypes, ConstantsAssumption, Zenon DEF Legal
  <1>3. Carries(rs, rs2) /\ VotesMatch(rs2)
    BY <1>1, TransitionsCarry, Zenon DEF Lossless, Memory
  <1>4. Good(rs2, db2, voted, saved \cup {rs.view}, gc)
    BY <1>1, <1>2, GoodWrite, Zenon
  <1>5. Lossless(rs2, db2, saved \cup {rs.view}, received', head)
    <2>. HIDE DEF rs2
    <2>. QED  BY <1>1, <1>2, <1>3, LosslessWrite
  <1>6. rs.view[2] < MaxRound =>
           /\ rs3 \in RoundState /\ Legal(rs2, rs3) /\ rs3.view = rs.view
           /\ Carries(rs2, rs3) /\ VotesMatch(rs3)
    <2>1. rs.view[2] < MaxRound => rs.view[2] + 1 \in Rounds
      BY <1>1, ViewNumbers, Zenon DEF RoundState
    <2>. HIDE DEF rs2
    <2>. QED  BY <1>2, <1>3, <2>1, TransitionTypes, TransitionsCarry, Zenon
  <1>. HIDE DEF rs2, db2, rs3
  <1>7. CASE Stops(rs2, db) /\ UNCHANGED <<head, saved>>
    BY <1>7, StopsLossless, Zenon
  <1>8. CASE /\ Returns(rs2, db2, {}) /\ saved' = saved \cup {rs.view}
             /\ head' = IF head < rs.view[1] THEN rs.view[1] ELSE head
    <2>1. rs.view \in Views
      BY <1>1, Zenon DEF RoundState
    <2>2. rs.view[1] \in Nat /\ head \in Nat
      BY <2>1, ViewNumbers
    <2>3. head' \in Nat /\ head <= head'
      <3>1. head' = IF head < rs.view[1] THEN rs.view[1] ELSE head
        BY <1>8, Zenon
      <3>. QED  BY <2>2, <3>1
    <2>4. Lossless(rs2, db2, saved \cup {rs.view}, received', head')
      BY <1>2, <1>5, <2>2, <2>3, LosslessHead, Zenon
    <2>. QED  BY <1>8, <2>4, Zenon DEF Returns, LosslessNow
  <1>9. CASE Dies(db2) /\ saved' = saved \cup {rs.view} /\ UNCHANGED head
    BY <1>5, <1>9, StopsLossless, Zenon DEF Stops
  <1>10. CASE /\ Stops(rs3, db2) /\ saved' = saved \cup {rs.view} /\ UNCHANGED head
    BY <1>5, <1>10, StopsLossless, Zenon
  <1>11. CASE /\ rs.view[2] < MaxRound /\ saved' = saved \cup {rs.view} /\ UNCHANGED head
              /\ Returns(rs3, UpdateLastRoundState(db2, rs3), {})
    <2>1. /\ rs3 \in RoundState /\ Legal(rs2, rs3) /\ rs3.view = rs.view
          /\ Carries(rs2, rs3) /\ VotesMatch(rs3)
      BY <1>6, <1>11, Zenon
    <2>2. Lossless(rs3, UpdateLastRoundState(db2, rs3),
                   (saved \cup {rs.view}) \cup {rs3.view}, received', head)
      BY <1>2, <1>4, <1>5, <2>1, LosslessWrite, Zenon
    <2>3. (saved \cup {rs.view}) \cup {rs3.view} = saved \cup {rs.view}
      BY <2>1, Zenon
    <2>. QED  BY <1>11, <2>2, <2>3, Zenon DEF Returns, LosslessNow
  <1>. QED  BY <1>7, <1>8, <1>9, <1>10, <1>11, Zenon DEF commit, rs2, db2, rs3

\* The handlers of votes lose nothing.
LEMMA LosslessVotes ==
    ASSUME GoodNow, Counted, LosslessNow, failures' = 0, head \in 0 .. MaxSequence,
           received \in [Views -> SUBSET (Voters \X Blocks)],
           NEW s \in Voters, handlePrepare(s) \/ handleCommit(s) \/ handleParentCommit(s)
    PROVE  LosslessNow'
  <1>1. up /\ current \in RoundState /\ current.view \in Views
    BY UpTypes, Zenon DEF handlePrepare, handleCommit, handleParentCommit, acceptsVote
  <1>2. CASE handlePrepare(s)
    <2>. DEFINE rs == AddPrepare(current, s, current.preprepare)
                db == UpdateLastRcvd(rsdb, rs)
    <2>1. acceptsVote /\ Same(current, rs) /\ Adds(current, rs)
          /\ rs.prepares[s] = current.preprepare
      BY <1>1, <1>2, VoteTypes, VotesAdd, Zenon DEF handlePrepare
    <2>2. Good(rs, db, voted, saved, gc)
      BY <1>1, <2>1, VoteAdded, Zenon
    <2>. HIDE DEF rs, db
    <2>3. CASE voteNotSaved(rs)
      BY <2>3, StopsLossless, Zenon DEF voteNotSaved, LosslessNow
    <2>4. CASE /\ voteSaved(s) /\ UNCHANGED head
               /\ IF becomesPrepared(rs)
                  THEN Saves(TransitionToPrepared(rs), db, {rs.preprepare})
                  ELSE Returns(rs, db, {}) /\ UNCHANGED saved
      <3>1. Lossless(rs, db, saved, received', head)
        BY <2>1, <2>4, VoteIsKept, Zenon DEF db
      <3>. QED  BY <2>1, <2>2, <2>4, <3>1, LosslessPrepared, Zenon
    <2>. QED  BY <1>2, <2>3, <2>4, Zenon DEF handlePrepare, rs, db
  <1>3. CASE handleCommit(s)
    <2>. DEFINE rs == AddCommit(current, s, current.preprepare)
                db == UpdateLastRcvd(rsdb, rs)
    <2>1. acceptsVote /\ Same(current, rs) /\ Adds(current, rs)
          /\ rs.commits[s] = current.preprepare
      BY <1>1, <1>3, VoteTypes, VotesAdd, Zenon DEF handleCommit
    <2>2. Good(rs, db, voted, saved, gc)
      BY <1>1, <2>1, VoteAdded, Zenon
    <2>. HIDE DEF rs, db
    <2>3. CASE voteNotSaved(rs)
      BY <2>3, StopsLossless DEF voteNotSaved, LosslessNow
    <2>4. CASE voteSaved(s) /\ commit(rs, db)
      <3>1. Lossless(rs, db, saved, received', head)
        BY <2>1, <2>4, VoteIsKept, Zenon DEF db
      <3>. QED  BY <2>1, <2>2, <2>4, <3>1, LosslessCommit, Zenon
    <2>5. CASE /\ voteSaved(s) /\ UNCHANGED head
               /\ IF becomesPrepared(rs)
                  THEN Saves(TransitionToPrepared(rs), db, {rs.preprepare})
                  ELSE Returns(rs, db, {}) /\ UNCHANGED saved
      <3>1. Lossless(rs, db, saved, received', head)
        BY <2>1, <2>5, VoteIsKept, Zenon DEF db
      <3>. QED  BY <2>1, <2>2, <2>5, <3>1, LosslessPrepared, Zenon
    <2>. QED  BY <1>3, <2>3, <2>4, <2>5, Zenon DEF handleCommit, rs, db
  <1>4. CASE handleParentCommit(s)
    <2>. DEFINE rs == AddParentCommit(current, s)
    <2>1. Adds(current, rs)
      BY <1>1, VotesAdd, Zenon
    <2>2. /\ Stops(rs, rsdb) \/ Returns(rs, UpdateLastRcvd(rsdb, rs), {})
          /\ head' = head /\ saved' = saved /\ received' = received
      BY <1>4, Zenon DEF handleParentCommit
    <2>. HIDE DEF rs
    <2>3. CASE Stops(rs, rsdb)
      BY <2>2, <2>3, StopsLossless, Zenon DEF LosslessNow
    <2>4. CASE Returns(rs, UpdateLastRcvd(rsdb, rs), {})
      <3>1. Lossless(rs, UpdateLastRcvd(rsdb, rs), saved, received, head)
        BY <1>1, <2>1, LosslessVote DEF GoodNow, LosslessNow
      <3>. QED  BY <2>2, <2>4, <3>1, Zenon DEF Returns, LosslessNow
    <2>. QED  BY <2>2, <2>3, <2>4, Zenon
  <1>. QED  BY <1>2, <1>3, <1>4, Zenon

\* The handlers that change the view or accept a proposal lose nothing.
LEMMA LosslessTransitions ==
    ASSUME GoodNow, Counted, LosslessNow, failures' = 0, head \in 0 .. MaxSequence,
           \/ handleRequest \/ startNewSequence
           \/ \E p \in Blocks : handlePreprepareV2(p)
           \/ \E r \in Rounds : startNewRound(r) \/ waitForDesiredRound(r)
    PROVE  LosslessNow'
  <1>1. /\ up /\ current \in RoundState /\ HasProposal(current) /\ current.view \in Views
        /\ head' = head /\ received' = received
    BY UpTypes, Zenon DEF handleRequest, startNewSequence, handlePreprepareV2, startNewRound,
       waitForDesiredRound
  <1>2. VotesMatch(current)
    BY <1>1 DEF LosslessNow, Lossless, Memory, up
  <1>3. ASSUME NEW rs \in RoundState, NEW signed, Legal(current, rs), VotesMatch(rs),
               Carries(current, rs), Saves(rs, rsdb, signed)
        PROVE  LosslessNow'
    BY <1>1, <1>3, SavesLossless DEF GoodNow, LosslessNow
  <1>4. CASE handleRequest
    <2>1. Legal(current, current) /\ Carries(current, current)
      BY <1>1, SameIsLegal DEF Same, Carries
    <2>. QED  BY <1>1, <1>2, <1>3, <1>4, <2>1 DEF handleRequest
  <1>5. ASSUME NEW p \in Blocks, handlePreprepareV2(p)
        PROVE  LosslessNow'
    <2>. DEFINE rs == TransitionToPrepreparedV2(current, p)
    <2>1. current.state = StateAcceptRequest /\ Saves(rs, rsdb, {p})
      BY <1>5, Zenon DEF handlePreprepareV2
    <2>2. rs \in RoundState /\ Legal(current, rs) /\ Carries(current, rs) /\ VotesMatch(rs)
      BY <1>1, <1>2, <2>1, TransitionTypes, TransitionsCarry, Zenon
    <2>. HIDE DEF rs
    <2>. QED  BY <1>3, <2>1, <2>2
  <1>6. ASSUME NEW r \in Rounds, startNewRound(r)
        PROVE  LosslessNow'
    <2>. DEFINE rs == StartNewRound(current, r)
                view == <<current.view[1], r>>
    <2>1. view \in Views /\ before(current.view, view)
      BY <1>1, <1>6, ViewOrder, Zenon DEF startNewRound, Views, before, Sequences
    <2>2. rs \in RoundState /\ Legal(current, rs) /\ rs.view = view /\ Saves(rs, rsdb, {})
      BY <1>1, <1>6, <2>1, ChangeRoundType, Zenon DEF StartNewRound, startNewRound
    <2>3. rs.preprepare = NoBlock /\ rs.prepares = noMessages /\ rs.commits = noMessages
      BY Zenon DEF StartNewRound, changeRound
    <2>. HIDE DEF rs, view
    <2>4. Carries(current, rs) /\ VotesMatch(rs)
      BY <1>1, <2>1, <2>2, <2>3, NewViewCarries, Zenon
    <2>. QED  BY <1>3, <2>2, <2>4, Zenon
  <1>7. ASSUME NEW r \in Rounds, waitForDesiredRound(r)
        PROVE  LosslessNow'
    <2>. DEFINE rs == TransitionToWaitingForNewRound(current, r)
    <2>1. rs \in RoundState /\ Legal(current, rs) /\ Saves(rs, rsdb, {})
          /\ Carries(current, rs) /\ VotesMatch(rs)
      BY <1>1, <1>2, <1>7, TransitionTypes, TransitionsCarry, Zenon DEF waitForDesiredRound
    <2>. HIDE DEF rs
    <2>. QED  BY <1>3, <2>1, Zenon
  <1>8. CASE startNewSequence
    <2>1. head + 1 \in Sequences /\ current.view[1] < head + 1
      BY <1>1, <1>8, ViewNumbers, Zenon DEF startNewSequence
    <2>2. PICK parents \in {{}, {s \in Voters : current.commits[s] # NoBlock}} :
             Saves(StartNewSequence(current, head + 1, parents), rsdb, {})
      BY <1>8, Zenon DEF startNewSequence
    <2>. DEFINE rs == StartNewSequence(current, head + 1, parents)
                a == changeRound(current, <<head + 1, 0>>)
                b == [a EXCEPT !.preparedCertificate = NoBlock]
                c == [b EXCEPT !.parentCommits = parents]
    <2>3. rs \in RoundState /\ Legal(current, rs) /\ rs.view = <<head + 1, 0>>
      BY <1>1, <2>1, NewSequenceType, Zenon
    <2>4. before(current.view, <<head + 1, 0>>)
      BY <2>1, Zenon DEF before
    <2>5. a.preprepare = NoBlock /\ a.prepares = noMessages /\ a.commits = noMessages
      BY Zenon DEF changeRound
    <2>6. a \in RoundState
      <3>1. <<head + 1, 0>> \in Views
        BY <2>1, ViewNumbers, Zenon
      <3>. QED  BY <1>1, <2>4, <3>1, ChangeRoundType, Zenon
    <2>7. rs = c
      BY DEF StartNewSequence
    <2>. HIDE DEF a
    <2>8. /\ b \in RoundState /\ b.preprepare = a.preprepare /\ b.prepares = a.prepares
          /\ b.commits = a.commits
      BY <2>6 DEF RoundState
    <2>. HIDE DEF b
    <2>9. c.preprepare = b.preprepare /\ c.prepares = b.prepares /\ c.commits = b.commits
      BY <2>8, Zenon DEF RoundState
    <2>10. Saves(rs, rsdb, {})
      BY <2>2, Zenon
    <2>. HIDE DEF c, rs
    <2>11. Carries(current, rs) /\ VotesMatch(rs)
      BY <1>1, <2>3, <2>4, <2>5, <2>7, <2>8, <2>9, NewViewCarries, Zenon
    <2>. QED  BY <1>3, <2>3, <2>10, <2>11, Zenon
  <1>. QED  BY <1>4, <1>5, <1>6, <1>7, <1>8, Zenon

\* A restart works on a new sequence or on the last view, as it was.
LEMMA LosslessStart ==
    ASSUME GoodNow, LosslessNow, head \in 0 .. MaxSequence, Start
    PROVE  LosslessNow'
  <1>. DEFINE cur == createRoundState(rsdb, head)
  <1>1. /\ current = Down /\ head < MaxSequence /\ current' = cur
        /\ UNCHANGED <<rsdb, head, saved, received>>
    BY DEF Start, up
  <1>2. rsdb \in DB /\ (rsdb.lastView # Absent => rsdb.lastView \in Views)
    BY Zenon DEF GoodNow, Good, DB
  <1>3. CASE rsdb.lastView = Absent \/ rsdb.lastView[1] < head + 1
    <2>1. cur = newRoundState(head + 1)
      BY <1>3, Zenon DEF createRoundState
    <2>. HIDE DEF cur
    <2>a. /\ cur.view = <<head + 1, 0>> /\ cur.view[1] = head + 1
          /\ cur.prepares = noMessages /\ cur.commits = noMessages /\ cur.preprepare = NoBlock
      BY <2>1, Zenon DEF newRoundState
    <2>b. VotesMatch(cur)
      <3>1. Matches(noMessages, cur.preprepare)
        BY NothingSeen, Zenon
      <3>. QED  BY <2>a, <3>1 DEF VotesMatch
    <2>c. Alike(cur, newRoundState(cur.view[1]))
      BY <2>1, <2>a, Zenon DEF Alike
    <2>2. cur.view = <<head + 1, 0>> /\ VotesMatch(cur) /\ Alike(cur, newRoundState(cur.view[1]))
      BY <2>a, <2>b, <2>c, Zenon
    <2>3. Fresh(cur, rsdb, head)
      <3>1. cur.view[1] <= head + 1
        BY <2>a
      <3>2. rsdb.lastView # Absent => rsdb.lastView[1] < cur.view[1]
        BY <1>3, <2>a
      <3>. QED  BY <2>c, <3>1, <3>2, Zenon DEF Fresh
    <2>. QED  BY <1>1, <2>2, <2>3, Zenon DEF LosslessNow, Lossless, Memory
  <1>4. CASE ~ (rsdb.lastView = Absent \/ rsdb.lastView[1] < head + 1)
    <2>. DEFINE v == rsdb.lastView
                d == rsdb.rs[v]
                r == rsdb.rcvd[v]
    <2>1. v \in Views /\ d # Absent /\ d.view = v
      BY <1>4, LastEntry, Zenon DEF GoodNow
    <2>2. cur = GetRoundStateFor(rsdb, v)
      BY <1>4, Zenon DEF createRoundState
    <2>3. /\ cur \in RoundState /\ cur.view = v /\ cur.state = d.state
          /\ cur.preprepare = d.preprepare
          /\ r = Absent => cur.prepares = d.prepares /\ cur.commits = d.commits
          /\ r # Absent =>
                /\ cur.prepares = AddAll(d.prepares, r.prepares)
                /\ cur.commits = AddAll(d.commits, r.commits)
      <3>. HIDE DEF cur
      <3>. QED  BY <1>2, <2>1, <2>2, EntryFields, Zenon
    <2>. HIDE DEF cur
    <2>4. /\ VotesMatch(d)
          /\ r # Absent => Matches(r.prepares, d.preprepare) /\ Matches(r.commits, d.preprepare)
      BY <2>1, Zenon DEF LosslessNow, Lossless, Entries
    <2>5. VotesMatch(cur)
      <3>1. CASE r = Absent
        BY <2>3, <2>4, <3>1, Zenon DEF VotesMatch
      <3>2. CASE r # Absent
        BY <2>3, <2>4, <3>2, ZenonT(30) DEF VotesMatch, Matches, AddAll
      <3>. QED  BY <3>1, <3>2, Zenon
    <2>6. Restored(cur, rsdb)
      BY <2>2, <2>3, Zenon DEF Restored, Alike
    <2>. QED  BY <1>1, <2>5, <2>6, Zenon DEF LosslessNow, Lossless, Memory
  <1>. QED  BY <1>3, <1>4

\* The collector takes entries out of reach of the memory: of votes alone
\* only when the round state they belong to is gone.
LEMMA LosslessDelete ==
    ASSUME GoodNow, LosslessNow, NEW w \in Views, deleteEntry(w)
    PROVE  LosslessNow'
  <1>1. /\ w \in gc.todo /\ gc.phase # "idle" /\ gc \in Collector /\ rsdb \in DB
        /\ UNCHANGED <<current, head, saved, received>>
    BY Zenon DEF deleteEntry, gcStep, GoodNow, Good
  <1>2. /\ rsdb.lastView # Absent /\ rsdb.lastView \in Views /\ w[1] < gc.oldest
        /\ gc.oldest + sequencesToSave <= rsdb.lastView[1]
    BY <1>1, Zenon DEF GoodNow, Good, GcInv, DB
  <1>3. w # rsdb.lastView /\ w \in Views
    <2>1. w[1] \in Nat /\ rsdb.lastView[1] \in Nat
      BY <1>2, ViewNumbers, Zenon
    <2>2. gc.oldest \in Nat
      BY <1>1, Zenon DEF Collector
    <2>. QED  BY <1>2, <2>1, <2>2, ConstantsAssumption
  <1>4. /\ rsdb'.lastView = rsdb.lastView
        /\ rsdb'.rs[w] = Absent
        /\ rsdb'.rcvd[w] \in {rsdb.rcvd[w], Absent}
        /\ \A u \in Views : u # w => rsdb'.rs[u] = rsdb.rs[u] /\ rsdb'.rcvd[u] = rsdb.rcvd[u]
    <2>1. CASE gc.phase = "rs" /\ rsdb' = [rsdb EXCEPT !.rs[w] = Absent]
      BY <1>1, <2>1 DEF DB
    <2>2. CASE gc.phase # "rs" /\ rsdb' = [rsdb EXCEPT !.rcvd[w] = Absent]
      <3>1. gc.phase = "rcvd"
        BY <1>1, <2>2, Zenon DEF Collector
      <3>2. rsdb.rs[w] = Absent
        BY <1>2, <3>1, Zenon DEF GoodNow, Good, GcInv
      <3>. QED  BY <1>1, <2>2, <3>2 DEF DB
    <2>. QED  BY <2>1, <2>2 DEF deleteEntry
  <1>5. \A u \in Views : u # w => GetRoundStateFor(rsdb', u) = GetRoundStateFor(rsdb, u)
    BY <1>4, Zenon DEF GetRoundStateFor
  <1>6. Entries(rsdb')
    BY <1>4, Zenon DEF LosslessNow, Lossless, Entries, Reached
  <1>7. Memory(current, rsdb', head)
    <2>1. ASSUME current # Down, Restored(current, rsdb)
          PROVE  Restored(current, rsdb')
      BY <1>2, <1>3, <1>4, <1>5, <2>1, Zenon DEF Restored
    <2>2. ASSUME Fresh(current, rsdb, head)
          PROVE  Fresh(current, rsdb', head)
      BY <1>4, <2>2, Zenon DEF Fresh
    <2>. QED  BY <2>1, <2>2, Zenon DEF LosslessNow, Lossless, Memory
  <1>8. Evidence(rsdb', saved, received)
    <2>1. Evidence(rsdb, saved, received)
      BY Zenon DEF LosslessNow, Lossless
    <2>2. ASSUME NEW u \in Views
          PROVE  /\ received[u] # {} => u \in saved
                 /\ u \in saved /\ rsdb'.rs[u] # Absent =>
                       received[u] \subseteq votesOf(GetRoundStateFor(rsdb', u))
      <3>1. CASE u = w
        BY <1>4, <2>1, <3>1, Zenon DEF Evidence
      <3>2. CASE u # w
        <4>1. rsdb'.rs[u] = rsdb.rs[u] /\ GetRoundStateFor(rsdb', u) = GetRoundStateFor(rsdb, u)
          BY <1>4, <1>5, <3>2, Zenon
        <4>. QED  BY <2>1, <4>1 DEF Evidence
      <3>. QED  BY <3>1, <3>2, Zenon
    <2>. QED  BY <2>2, Zenon DEF Evidence
  <1>. QED  BY <1>1, <1>6, <1>7, <1>8, Zenon DEF LosslessNow, Lossless

\* Nothing was lost in the beginning.
LEMMA InitLInv == Init => LInv
  <1>. SUFFICES ASSUME Init PROVE LosslessNow
    BY DEF LInv, LosslessNow
  <1>1. /\ rsdb.lastView = Absent
        /\ \A w \in Views : rsdb.rs[w] = Absent /\ rsdb.rcvd[w] = Absent
        /\ current = newRoundState(1) /\ head = 0
        /\ \A w \in Views : received[w] = {}
    BY Zenon DEF Init
  <1>2. current.view = <<1, 0>> /\ VotesMatch(current)
        /\ Alike(current, newRoundState(current.view[1]))
    BY <1>1, NothingSeen, Zenon DEF newRoundState, VotesMatch, Alike
  <1>3. Memory(current, rsdb, head)
    BY <1>1, <1>2, SMTT(20) DEF Memory, Fresh
  <1>4. Entries(rsdb) /\ Evidence(rsdb, saved, received)
    BY <1>1 DEF Entries, Evidence
  <1>. QED  BY <1>3, <1>4 DEF LosslessNow, Lossless

\* No step forgets a failure.
LEMMA FailuresGrow ==
    ASSUME Counted, [Next]_vars, failures' = 0
    PROVE  failures = 0
  <1>1. failures' \in {failures, failures + 1}
    <2>1. ASSUME NEW rs, NEW db, Stops(rs, db)
          PROVE  failures' \in {failures, failures + 1}
      BY <2>1 DEF Stops, Fails, Dies
    <2>2. ASSUME NEW rs, NEW db, NEW signed, Returns(rs, db, signed)
          PROVE  failures' = failures
      BY <2>2 DEF Returns
    <2>3. ASSUME NEW rs, NEW db, NEW signed, Saves(rs, db, signed)
          PROVE  failures' \in {failures, failures + 1}
      BY <2>1, <2>2, <2>3, Zenon DEF Saves
    <2>4. ASSUME NEW rs, NEW db, commit(rs, db)
          PROVE  failures' \in {failures, failures + 1}
      BY <2>1, <2>2, <2>4, Zenon DEF commit, Stops
    <2>5. CASE handleEvents
      <3>1. CASE handleRequest \/ startNewSequence
        BY <2>3, <3>1 DEF handleRequest, startNewSequence
      <3>2. CASE \E p \in Blocks : handlePreprepareV2(p)
        BY <2>3, <3>2, Zenon DEF handlePreprepareV2
      <3>3. CASE \E r \in Rounds : startNewRound(r) \/ waitForDesiredRound(r)
        BY <2>3, <3>3, Zenon DEF startNewRound, waitForDesiredRound
      <3>4. ASSUME NEW s \in Voters, handlePrepare(s)
            PROVE  failures' \in {failures, failures + 1}
        BY <2>1, <2>2, <2>3, <3>4, Zenon DEF handlePrepare, voteNotSaved
      <3>5. ASSUME NEW s \in Voters, handleCommit(s)
            PROVE  failures' \in {failures, failures + 1}
        BY <2>1, <2>2, <2>3, <2>4, <3>5, ZenonT(30) DEF handleCommit, voteNotSaved
      <3>6. ASSUME NEW s \in Voters, handleParentCommit(s)
            PROVE  failures' \in {failures, failures + 1}
        BY <2>1, <2>2, <3>6 DEF handleParentCommit
      <3>. QED  BY <2>5, <3>1, <3>2, <3>3, <3>4, <3>5, <3>6, ZenonT(30) DEF handleEvents
    <2>6. CASE collectsGarbage
      <3>1. gcStep
        BY <2>6, Zenon DEF collectsGarbage, garbageCollectEntries, deleteEntry, deletedAll, deleteFails
      <3>. QED  BY <3>1 DEF gcStep
    <2>7. CASE insertSyncedBlock \/ Crash \/ Stop \/ Start
      BY <2>7 DEF insertSyncedBlock, Crash, Stop, Start, Dies
    <2>8. CASE UNCHANGED vars
      BY <2>8 DEF vars
    <2>. QED  BY <2>5, <2>6, <2>7, <2>8, Zenon DEF Next
  <1>. QED  BY <1>1 DEF Counted

\* And nothing is lost by a step, while no write has failed.
LEMMA NextLInv == Inv /\ LInv /\ [Next]_vars => LInv'
  <1>. SUFFICES ASSUME Inv, LInv, [Next]_vars, failures' = 0 PROVE LosslessNow'
    BY DEF LInv, LosslessNow
  <1>1. /\ GoodNow /\ Counted /\ head \in 0 .. MaxSequence
        /\ received \in [Views -> SUBSET (Voters \X Blocks)]
    BY InvIsGood
  <1>2. LosslessNow
    BY <1>1, FailuresGrow DEF LInv, LosslessNow
  <1>3. CASE handleEvents
    <2>1. CASE \E s \in Voters : handlePrepare(s) \/ handleCommit(s) \/ handleParentCommit(s)
      BY <1>1, <1>2, <2>1, LosslessVotes, Zenon
    <2>2. CASE \/ handleRequest \/ startNewSequence
               \/ \E p \in Blocks : handlePreprepareV2(p)
               \/ \E r \in Rounds : startNewRound(r) \/ waitForDesiredRound(r)
      BY <1>1, <1>2, <2>2, LosslessTransitions
    <2>. QED  BY <1>3, <2>1, <2>2, Zenon DEF handleEvents
  <1>4. CASE collectsGarbage
    <2>1. CASE \E w \in Views : deleteEntry(w)
      BY <1>1, <1>2, <2>1, LosslessDelete
    <2>2. CASE garbageCollectEntries \/ deletedAll \/ deleteFails
      BY <1>2, <2>2
      DEF garbageCollectEntries, deletedAll, deleteFails, gcStep, LosslessNow
    <2>. QED  BY <1>4, <2>1, <2>2 DEF collectsGarbage
  <1>5. CASE insertSyncedBlock
    <2>1. head' = head + 1 /\ head \in Nat /\ UNCHANGED <<current, rsdb, saved, received>>
      BY <1>1, <1>5, ConstantsAssumption DEF insertSyncedBlock
    <2>2. current \in RoundState \cup {Down}
      BY <1>1, Zenon DEF GoodNow, Good
    <2>3. Lossless(current, rsdb, saved, received, head + 1)
      BY <1>2, <2>1, <2>2, LosslessHead DEF LosslessNow
    <2>. QED  BY <2>1, <2>3, Zenon DEF LosslessNow
  <1>6. CASE Crash
    BY <1>1, <1>2, <1>6, StopsLossless, Zenon DEF Crash, Stops, LosslessNow
  <1>7. CASE Stop
    BY <1>2, <1>7, LosslessDown DEF Stop, LosslessNow
  <1>8. CASE Start
    BY <1>1, <1>2, <1>8, LosslessStart
  <1>9. CASE UNCHANGED vars
    BY <1>2, <1>9 DEF vars, LosslessNow
  <1>. QED  BY <1>3, <1>4, <1>5, <1>6, <1>7, <1>8, <1>9, Zenon DEF Next

\* So both invariants always hold.
LEMMA LInvHolds == Spec => [](Inv /\ LInv)
  <1>1. Inv /\ LInv /\ [Next]_vars => (Inv /\ LInv)'
    BY NextInv, NextLInv
  <1>. QED  BY <1>1, InitInv, InitLInv, PTL DEF Spec

\* The votes a quorum is counted from are for the proposal of their view,
\* restarts included: no merge of the two keys of a view mixes proposals
\* (UpdateLastRcvd, GetRoundStateFor).
THEOREM VotesAlwaysMatch == Spec => []VotesMatchProposal
  <1>1. LInv => VotesMatchProposal
    BY DEF LInv, Lossless, Memory, VotesMatch, Matches, VotesMatchProposal, up
  <1>. QED  BY <1>1, LInvHolds, PTL

\* Inside the window of the collector every round state that was saved is
\* there, with every vote that was handled in its view as long as no write
\* failed, whatever crash and whatever collection came between.
THEOREM EvidenceIsKept == Spec => []EvidenceKept
  <1>1. Inv /\ LInv => EvidenceKept
    <2>. SUFFICES ASSUME Inv, LInv, NEW w \in saved,
                         w[1] + sequencesToSave >= rsdb.lastView[1]
                  PROVE  /\ rsdb.rs[w] # Absent
                         /\ failures = 0 =>
                               received[w] \subseteq votesOf(GetRoundStateFor(rsdb, w))
      BY Zenon DEF EvidenceKept
    <2>1. w \in Views /\ rsdb.rs[w] # Absent
      BY Zenon DEF Inv, TypeOK, DbInv
    <2>. QED  BY <2>1, Zenon DEF LInv, Lossless, Evidence
  <1>. QED  BY <1>1, LInvHolds, PTL

\* A core that starts now works on the very state the running one has, but
\* for commits of the sequence before: createRoundState loses nothing.
THEOREM RestartsWhereItWas == Spec => []RestoresCurrent
  <1>1. Inv /\ LInv => RestoresCurrent
    <2>. SUFFICES ASSUME Inv, LInv, failures = 0, up, head < current.view[1]
                  PROVE  [createRoundState(rsdb, head) EXCEPT !.parentCommits = {}]
                            = [current EXCEPT !.parentCommits = {}]
      BY DEF RestoresCurrent
    <2>. DEFINE n == createRoundState(rsdb, head)
    <2>1. /\ GoodNow /\ head \in 0 .. MaxSequence /\ current \in RoundState
          /\ current.view \in Views
      BY InvIsGood, UpTypes, Zenon
    <2>2. head \in Nat /\ current.view[1] \in Sequences /\ current.view[1] \in Nat
      BY <2>1, ViewOrder, ConstantsAssumption DEF Sequences
    <2>3. Fresh(current, rsdb, head) \/ Restored(current, rsdb)
      BY Zenon DEF LInv, Lossless, Memory, up
    <2>4. n \in RoundState /\ Alike(n, current)
      <3>1. CASE Fresh(current, rsdb, head)
        <4>1. current.view[1] = head + 1
          BY <2>2, <3>1 DEF Fresh
        <4>2. n = newRoundState(head + 1)
          BY <3>1, <4>1, Zenon DEF Fresh, createRoundState
        <4>3. n \in RoundState
          BY <2>2, <4>1, <4>2, NewRoundStateType, Zenon
        <4>. QED  BY <3>1, <4>1, <4>2, <4>3, Zenon DEF Fresh, Alike
      <3>2. CASE Restored(current, rsdb)
        <4>1. rsdb.lastView = current.view /\ rsdb.lastView # Absent
          BY <2>1, <3>2, ConstantsAssumption, Zenon DEF Restored
        <4>2. ~ (rsdb.lastView[1] < head + 1)
          BY <2>2, <4>1
        <4>3. n = GetRoundStateFor(rsdb, current.view)
          BY <4>1, <4>2, Zenon DEF createRoundState
        <4>4. rsdb.rs[current.view] # Absent /\ rsdb \in DB
          BY <2>1, <4>1, LastEntry, ZenonT(30) DEF GoodNow, Good
        <4>5. n \in RoundState
          BY <2>1, <4>3, <4>4, EntryFields
        <4>. QED  BY <3>2, <4>3, <4>5 DEF Restored
      <3>. QED  BY <2>3, <3>1, <3>2, Zenon
    <2>. HIDE DEF n
    <2>5. [n EXCEPT !.parentCommits = {}] = [current EXCEPT !.parentCommits = {}]
      BY <2>1, <2>4 DEF RoundState, Alike
    <2>. QED  BY <2>5 DEF n
  <1>. QED  BY <1>1, LInvHolds, PTL

=============================================================================
