---------------------------- MODULE RoundStateDB ----------------------------
(***************************************************************************)
(* The round state of one validator and the database it is saved in        *)
(* (roundstate_db.go, roundstate_save_decorator.go): the keys of a view    *)
(* and their merge, writes that fail or that the process does not live to  *)
(* see, the garbage collector beside the event loop, and the round state   *)
(* that a restart picks (createRoundState).                                *)
(*                                                                         *)
(* The handlers of the core are the ones of IstanbulCore, seen from one    *)
(* validator and over several sequences; what the others send is taken     *)
(* from small sets.  A handler that writes twice may stop between.         *)
(***************************************************************************)
EXTENDS Integers, FiniteSets, CoreTypes

CONSTANTS
    Voters,            \* validators whose votes arrive
    Quorum,            \* MinQuorumSize of the validator set
    Blocks, NoBlock,
    Absent,            \* goleveldb.ErrNotFound
    Down,              \* c.current is nil
    sequencesToSave,
    MaxSequence, MaxRound,          \* bounds of the views
    MaxFailures, MaxCrashes         \* bounds of the faults

Sequences == 1 .. MaxSequence
Rounds == 0 .. MaxRound
Views == Sequences \X Rounds

\* View.Cmp; the keys of the database are in this order.
before(u, w) == u[1] < w[1] \/ (u[1] = w[1] /\ u[2] < w[2])

MessageSet == [Voters -> Blocks \cup {NoBlock}]
RoundState ==
    [view : Views, desiredRound : Rounds,
     state : StateAcceptRequest .. StateWaitingForNewRound,
     preprepare : Blocks \cup {NoBlock},
     prepares : MessageSet, commits : MessageSet, parentCommits : SUBSET Voters,
     preparedCertificate : Blocks \cup {NoBlock}]
Rcvd == [prepares : MessageSet, commits : MessageSet, parentCommits : SUBSET Voters]

ASSUME ConstantsAssumption ==
    /\ NoBlock \notin Blocks
    /\ Absent \notin Views \cup RoundState \cup Rcvd
    /\ Down \notin RoundState
    /\ Quorum \in Nat
    /\ sequencesToSave \in Nat \ {0}
    /\ MaxSequence \in Nat \ {0} /\ MaxRound \in Nat
    /\ MaxFailures \in Nat /\ MaxCrashes \in Nat

VARIABLES
    current,     \* the round state in memory
    rsdb,        \* the database: lastView, and rs and rcvd by view
    gc,          \* the garbage collector: its limit and the views still to delete
    head,        \* the number of the head block
    voted,       \* what the validator has signed prepares and commits for, by view
    saved,       \* views that a round state was written for
    received,    \* votes that were handled without an error, by view
    failures, crashes

vars == <<current, rsdb, gc, head, voted, saved, received, failures, crashes>>

Idle == [phase |-> "idle", oldest |-> 0, todo |-> {}]

TypeOK ==
    /\ current \in RoundState \cup {Down}
    /\ rsdb \in [lastView : Views \cup {Absent},
                 rs : [Views -> RoundState \cup {Absent}],
                 rcvd : [Views -> Rcvd \cup {Absent}]]
    /\ gc \in [phase : {"idle", "rs", "rcvd"}, oldest : Nat, todo : SUBSET Views]
    /\ head \in 0 .. MaxSequence
    /\ voted \in [Views -> SUBSET Blocks]
    /\ saved \subseteq Views
    /\ received \in [Views -> SUBSET (Voters \X Blocks)]
    /\ failures \in 0 .. MaxFailures
    /\ crashes \in 0 .. MaxCrashes

-----------------------------------------------------------------------------
(***************************************************************************)
(* The round state.                                                        *)
(***************************************************************************)
noMessages == [s \in Voters |-> NoBlock]
Size(ms) == Cardinality({s \in Voters : ms[s] # NoBlock})

newRoundState(seq) ==
    [view |-> <<seq, 0>>, desiredRound |-> 0, state |-> StateAcceptRequest,
     preprepare |-> NoBlock, prepares |-> noMessages, commits |-> noMessages,
     parentCommits |-> {}, preparedCertificate |-> NoBlock]

\* Mutant: the votes of the round before are kept.
changeRound_KeepsVotes(rs, view) ==
    [rs EXCEPT !.view = view, !.desiredRound = view[2], !.state = StateAcceptRequest,
               !.preprepare = NoBlock]

changeRound(rs, view) ==
    [view |-> view, desiredRound |-> view[2], state |-> StateAcceptRequest,
     preprepare |-> NoBlock, prepares |-> noMessages, commits |-> noMessages,
     parentCommits |-> rs.parentCommits, preparedCertificate |-> rs.preparedCertificate]

StartNewRound(rs, r) == changeRound(rs, <<rs.view[1], r>>)

StartNewSequence(rs, seq, parents) ==
    [changeRound(rs, <<seq, 0>>) EXCEPT !.preparedCertificate = NoBlock,
                                        !.parentCommits = parents]

TransitionToPrepreparedV2(rs, p) ==
    [rs EXCEPT !.preprepare = p, !.state = StatePreprepared]

TransitionToPrepared(rs) ==
    [rs EXCEPT !.preparedCertificate = rs.preprepare, !.state = StatePrepared]

TransitionToCommitted(rs) == [rs EXCEPT !.state = StateCommitted]

TransitionToWaitingForNewRound(rs, r) ==
    [rs EXCEPT !.desiredRound = r, !.state = StateWaitingForNewRound]

AddPrepare(rs, s, p) == [rs EXCEPT !.prepares[s] = p]
AddCommit(rs, s, p) == [rs EXCEPT !.commits[s] = p]
AddParentCommit(rs, s) == [rs EXCEPT !.parentCommits = @ \cup {s}]

PrepareOrCommitSize(rs) ==
    Cardinality({s \in Voters : rs.prepares[s] # NoBlock \/ rs.commits[s] # NoBlock})

-----------------------------------------------------------------------------
(***************************************************************************)
(* The database.                                                           *)
(***************************************************************************)

\* Mutant: the last view is not moved.
UpdateLastRoundState_EntryOnly(db, rs) == [db EXCEPT !.rs[rs.view] = rs]

\* One batch: both keys or none.
UpdateLastRoundState(db, rs) ==
    [db EXCEPT !.lastView = rs.view, !.rs[rs.view] = rs]

rcvdFromRoundState(rs) ==
    [prepares |-> rs.prepares, commits |-> rs.commits, parentCommits |-> rs.parentCommits]

\* Mutant: the last view is moved with the votes.
UpdateLastRcvd_MovesView(db, rs) ==
    [db EXCEPT !.lastView = rs.view, !.rcvd[rs.view] = rcvdFromRoundState(rs)]

UpdateLastRcvd(db, rs) == [db EXCEPT !.rcvd[rs.view] = rcvdFromRoundState(rs)]

\* AddAll does not overwrite a message by the same address.
AddAll(ms, more) == [s \in Voters |-> IF ms[s] = NoBlock THEN more[s] ELSE ms[s]]

\* Mutant: the votes saved on their own are left out.
merged_EntryOnly(rs, r) == rs

merged(rs, r) ==
    [rs EXCEPT !.prepares = AddAll(@, r.prepares), !.commits = AddAll(@, r.commits),
               !.parentCommits = @ \cup r.parentCommits]

GetRoundStateFor(db, view) ==
    IF db.rs[view] = Absent \/ db.rcvd[view] = Absent
    THEN db.rs[view]
    ELSE merged(db.rs[view], db.rcvd[view])

\* Mutant: one sequence too many is given up.
GetOldestValidView_OneLess(db) ==
    IF db.lastView = Absent \/ db.lastView[1] < sequencesToSave
    THEN 0 ELSE db.lastView[1] - sequencesToSave + 1

\* The sequence of the oldest view that is kept, in round 0.
GetOldestValidView(db) ==
    IF db.lastView = Absent \/ db.lastView[1] < sequencesToSave
    THEN 0 ELSE db.lastView[1] - sequencesToSave

\* Mutant: the sequence of the head block, not the one after it.
createRoundState_AtHead(db, h) ==
    IF db.lastView = Absent \/ db.lastView[1] < h + 1 THEN newRoundState(h)
    ELSE GetRoundStateFor(db, db.lastView)

\* createRoundState: what a core that starts now works on, or an error.
createRoundState(db, h) ==
    IF db.lastView = Absent THEN newRoundState(h + 1)
    ELSE IF db.lastView[1] < h + 1 THEN newRoundState(h + 1)
    ELSE GetRoundStateFor(db, db.lastView)

-----------------------------------------------------------------------------
(***************************************************************************)
(* How a handler ends: it returns, with the votes it has signed; a write   *)
(* fails, with memory already changed; or the process dies.                *)
(***************************************************************************)
Returns(rs, db, signed) ==
    /\ current' = rs
    /\ rsdb' = db
    /\ voted' = [voted EXCEPT ![rs.view] = @ \cup signed]
    /\ UNCHANGED <<gc, failures, crashes>>

Fails(rs, db) ==
    /\ failures < MaxFailures
    /\ failures' = failures + 1
    /\ current' = rs
    /\ rsdb' = db
    /\ UNCHANGED <<gc, voted, crashes>>

Dies(db) ==
    /\ crashes < MaxCrashes
    /\ crashes' = crashes + 1
    /\ current' = Down
    /\ rsdb' = db
    /\ gc' = Idle
    /\ UNCHANGED <<voted, failures>>

Stops(rs, db) == Fails(rs, db) \/ Dies(db)

\* A transition that is saved and then ends the handler.
Saves(rs, db, signed) ==
    \/ /\ Returns(rs, UpdateLastRoundState(db, rs), signed)
       /\ saved' = saved \cup {rs.view}
    \/ Stops(rs, db) /\ UNCHANGED saved

-----------------------------------------------------------------------------
(***************************************************************************)
(* The handlers.  One that first starts a round and then does more is the  *)
(* step that starts the round followed by the one that does more.          *)
(***************************************************************************)
up == current # Down

handleRequest ==
    /\ up
    /\ Saves(current, rsdb, {})
    /\ UNCHANGED <<head, received>>

handlePreprepareV2(p) ==
    /\ up /\ current.state = StateAcceptRequest
    /\ Saves(TransitionToPrepreparedV2(current, p), rsdb, {p})
    /\ UNCHANGED <<head, received>>

acceptsVote ==
    up /\ current.state \notin {StateAcceptRequest, StateWaitingForNewRound}

\* The vote is in memory and not in the database.
voteNotSaved(rs) == Stops(rs, rsdb) /\ UNCHANGED <<head, saved, received>>

voteSaved(s) ==
    received' = [received EXCEPT ![current.view] = @ \cup {<<s, current.preprepare>>}]

becomesPrepared(rs) ==
    PrepareOrCommitSize(rs) >= Quorum /\ rs.state < StatePrepared

handlePrepare(s) ==
    LET rs == AddPrepare(current, s, current.preprepare)
        db == UpdateLastRcvd(rsdb, rs)
    IN  /\ acceptsVote
        /\ \/ voteNotSaved(rs)
           \/ /\ voteSaved(s)
              /\ IF becomesPrepared(rs)
                 THEN Saves(TransitionToPrepared(rs), db, {rs.preprepare})
                 ELSE Returns(rs, db, {}) /\ UNCHANGED saved
              /\ UNCHANGED head

\* commit: the block is inserted, or the validator waits for the next round.
commit(rs, db) ==
    LET rs2 == TransitionToCommitted(rs)
        db2 == UpdateLastRoundState(db, rs2)
        rs3 == TransitionToWaitingForNewRound(rs2, rs.view[2] + 1)
    IN  \/ Stops(rs2, db) /\ UNCHANGED <<head, saved>>
        \/ /\ saved' = saved \cup {rs.view}
           /\ \/ Returns(rs2, db2, {}) /\ head' = IF head < rs.view[1] THEN rs.view[1] ELSE head
              \/ Dies(db2) /\ UNCHANGED head
              \/ /\ rs.view[2] < MaxRound
                 /\ Stops(rs3, db2) \/ Returns(rs3, UpdateLastRoundState(db2, rs3), {})
                 /\ UNCHANGED head

handleCommit(s) ==
    LET rs == AddCommit(current, s, current.preprepare)
        db == UpdateLastRcvd(rsdb, rs)
    IN  /\ acceptsVote
        /\ \/ voteNotSaved(rs)
           \/ /\ voteSaved(s)
              /\ \/ /\ Size(rs.commits) >= Quorum /\ rs.state < StateCommitted
                    /\ commit(rs, db)
                 \/ /\ ~ (Size(rs.commits) >= Quorum /\ rs.state < StateCommitted)
                    /\ IF becomesPrepared(rs)
                       THEN Saves(TransitionToPrepared(rs), db, {rs.preprepare})
                       ELSE Returns(rs, db, {}) /\ UNCHANGED saved
                    /\ UNCHANGED head

\* handleCheckedCommitForPreviousSequence.
handleParentCommit(s) ==
    LET rs == AddParentCommit(current, s)
    IN  /\ up /\ head = current.view[1] - 1 /\ head > 0
        /\ Stops(rs, rsdb) \/ Returns(rs, UpdateLastRcvd(rsdb, rs), {})
        /\ UNCHANGED <<head, saved, received>>

\* startNewRound goes on when the save fails.
startNewRound(r) ==
    /\ up /\ r > current.view[2] /\ r >= current.desiredRound
    /\ Saves(StartNewRound(current, r), rsdb, {})
    /\ UNCHANGED <<head, received>>

waitForDesiredRound(r) ==
    /\ up /\ r > current.desiredRound
    /\ Saves(TransitionToWaitingForNewRound(current, r), rsdb, {})
    /\ UNCHANGED <<head, received>>

\* The commits of our own proposal become the parent commits if it is the
\* head block, in its round.
startNewSequence ==
    /\ up /\ head >= current.view[1] /\ head < MaxSequence
    /\ \E parents \in {{}, {s \in Voters : current.commits[s] # NoBlock}} :
          Saves(StartNewSequence(current, head + 1, parents), rsdb, {})
    /\ UNCHANGED <<head, received>>

insertSyncedBlock ==
    /\ head < MaxSequence
    /\ head' = head + 1
    /\ UNCHANGED <<current, rsdb, gc, voted, saved, received, failures, crashes>>

Crash == up /\ Dies(rsdb) /\ UNCHANGED <<head, saved, received>>

Stop ==
    /\ up
    /\ current' = Down
    /\ gc' = Idle
    /\ UNCHANGED <<rsdb, head, voted, saved, received, failures, crashes>>

Start ==
    /\ ~up /\ head < MaxSequence
    /\ createRoundState(rsdb, head) # Absent
    /\ current' = createRoundState(rsdb, head)
    /\ UNCHANGED <<rsdb, gc, head, voted, saved, received, failures, crashes>>

-----------------------------------------------------------------------------
(***************************************************************************)
(* The garbage collector, a goroutine of its own.                          *)
(***************************************************************************)

\* Mutant: only the first round of each sequence.
olderThan_FirstRounds(entries, oldest) ==
    {w \in Views : entries[w] # Absent /\ w[1] < oldest /\ w[2] = 0}

olderThan(entries, oldest) == {w \in Views : entries[w] # Absent /\ w[1] < oldest}

gcStep == UNCHANGED <<current, head, voted, saved, received, failures, crashes>>

\* With a limit of 0 there is nothing to delete.
garbageCollectEntries ==
    LET oldest == GetOldestValidView(rsdb)
    IN  /\ up /\ gc.phase = "idle" /\ oldest > 0
        /\ gc' = [phase |-> "rs", oldest |-> oldest, todo |-> olderThan(rsdb.rs, oldest)]
        /\ UNCHANGED rsdb /\ gcStep

\* deleteIteratorEntries, one key.
deleteEntry(w) ==
    /\ gc.phase # "idle" /\ w \in gc.todo
    /\ \A u \in gc.todo : ~before(u, w)
    /\ gc' = [gc EXCEPT !.todo = @ \ {w}]
    /\ rsdb' = IF gc.phase = "rs" THEN [rsdb EXCEPT !.rs[w] = Absent]
               ELSE [rsdb EXCEPT !.rcvd[w] = Absent]
    /\ gcStep

deletedAll ==
    /\ gc.phase # "idle" /\ gc.todo = {}
    /\ gc' = IF gc.phase = "rs"
             THEN [gc EXCEPT !.phase = "rcvd", !.todo = olderThan(rsdb.rcvd, gc.oldest)]
             ELSE Idle
    /\ UNCHANGED rsdb /\ gcStep

\* A delete fails.
deleteFails ==
    /\ gc.phase # "idle" /\ gc.todo # {}
    /\ gc' = Idle
    /\ UNCHANGED rsdb /\ gcStep

-----------------------------------------------------------------------------
Init ==
    /\ current = newRoundState(1)
    /\ rsdb = [lastView |-> Absent, rs |-> [w \in Views |-> Absent],
               rcvd |-> [w \in Views |-> Absent]]
    /\ gc = Idle
    /\ head = 0
    /\ voted = [w \in Views |-> {}]
    /\ saved = {}
    /\ received = [w \in Views |-> {}]
    /\ failures = 0
    /\ crashes = 0

handleEvents ==
    \/ handleRequest
    \/ \E p \in Blocks : handlePreprepareV2(p)
    \/ \E s \in Voters : handlePrepare(s) \/ handleCommit(s) \/ handleParentCommit(s)
    \/ \E r \in Rounds : startNewRound(r) \/ waitForDesiredRound(r)
    \/ startNewSequence

collectsGarbage ==
    \/ garbageCollectEntries
    \/ \E w \in Views : deleteEntry(w)
    \/ deletedAll
    \/ deleteFails

Next ==
    \/ handleEvents
    \/ collectsGarbage
    \/ insertSyncedBlock
    \/ Crash
    \/ Stop
    \/ Start

Spec == Init /\ [][Next]_vars

-----------------------------------------------------------------------------
\* A core can always be started again: the round state of the last view is
\* in the database, whatever the collector has deleted and wherever a crash
\* or a failed write has left the two keys of a view.
CanRestart == rsdb.lastView # Absent => rsdb.rs[rsdb.lastView] # Absent

votesOf(rs) ==
    {v \in Voters \X Blocks : rs.prepares[v[1]] = v[2] \/ rs.commits[v[1]] = v[2]}

\* "we'll need this information to allow the node to have evidence": the
\* round states of the last sequencesToSave sequences are never deleted,
\* by a collector whose limit was read long ago either, and while no write
\* failed they have every vote that was handled.
EvidenceKept ==
    \A w \in saved :
        w[1] + sequencesToSave >= rsdb.lastView[1] =>
            /\ rsdb.rs[w] # Absent
            /\ failures = 0 => received[w] \subseteq votesOf(GetRoundStateFor(rsdb, w))

\* The validator signs for one block in each view, whatever writes fail and
\* whenever it crashes: what it signs for is in the database before.
OneVotePerView == \A w \in Views : \A p, q \in voted[w] : p = q

\* The votes a quorum is counted from are for the proposal they are counted
\* for, after any restart, as long as no write failed: the merge of the two
\* keys of a view never mixes two proposals.
VotesMatchProposal ==
    failures = 0 /\ up =>
        \A s \in Voters : /\ current.prepares[s] \in {NoBlock, current.preprepare}
                          /\ current.commits[s] \in {NoBlock, current.preprepare}

\* While no write failed a crash loses nothing of the sequence in progress,
\* but for commits of the sequence before: the core that starts next works
\* on the very state this one has, votes included.
RestoresCurrent ==
    failures = 0 /\ up /\ head < current.view[1] =>
        LET restored == createRoundState(rsdb, head)
        IN  [restored EXCEPT !.parentCommits = {}] = [current EXCEPT !.parentCommits = {}]

\* What the collector has deleted stays deleted: no handler writes behind it.
CollectedForGood ==
    gc.phase = "rcvd" => \A w \in Views : w[1] < gc.oldest => rsdb.rs[w] = Absent

=============================================================================
