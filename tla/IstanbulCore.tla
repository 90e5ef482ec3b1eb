---------------------------- MODULE IstanbulCore ----------------------------
(***************************************************************************)
(* The Istanbul BFT core (consensus/istanbul/core) deciding the block of   *)
(* ONE sequence number, by any number of rounds: every handler of the      *)
(* event loop handleEvents, the round state it works on, the database the  *)
(* round state is saved in, and the crash and restart of a validator.      *)
(*                                                                         *)
(* The network may delay, lose, duplicate and reorder: the sent* variables *)
(* only grow, and a validator may handle any message in them at any time,  *)
(* or never.  The backlog of future messages is part of this network: a    *)
(* message the code puts aside is one that is handled later.               *)
(*                                                                         *)
(* Validators in Faulty may sign anything; the others run the code.        *)
(***************************************************************************)
EXTENDS Integers, FiniteSets, ValidatorSet, CoreTypes

CONSTANTS
    Validators,          \* the validator set of the sequence
    Faulty,              \* validators that do not run this code
    FaultyPreprepares,   \* preprepares that faulty validators sign
    FaultyRoundChanges,  \* round changes that faulty validators sign
    Proposals,           \* block hashes
    NoBlock,             \* nil
    Author,              \* Author[p] is the validator that made block p
    ParentAuthor,        \* the author of the block of the previous sequence
    selectProposer,      \* selectProposer[a, r]: proposer of round r after a block of a
    LastRound,           \* bound: the last round
    MaxCrashes           \* bound: crashes, of all validators together

Honest == Validators \ Faulty
Rounds == 0 .. LastRound
Quorum == MinQuorumSize(Cardinality(Validators))

ASSUME ValidatorsAssumption ==
    /\ IsFiniteSet(Validators)
    /\ Faulty \subseteq Validators
    /\ Cardinality(Faulty) <= F(Cardinality(Validators))

ASSUME BoundsAssumption == LastRound \in Nat /\ MaxCrashes \in Nat

ASSUME ProposerAssumption ==
    /\ NoBlock \notin Proposals
    /\ Author \in [Proposals -> Validators]
    /\ selectProposer \in [(Validators \cup {ParentAuthor}) \X Rounds -> Validators]

(***************************************************************************)
(* A prepared certificate is abstracted to the view and the proposal its   *)
(* messages are for; whether a quorum signed those messages is decided     *)
(* where the code verifies them.  The empty certificate has round -1.      *)
(***************************************************************************)
PreparedCertificate == [round : Rounds, proposal : Proposals]
EmptyPreparedCertificate == [round |-> -1, proposal |-> NoBlock]

RoundChangeRequest ==
    [src : Validators, round : Rounds,
     pc : PreparedCertificate \cup {EmptyPreparedCertificate}]

Vote == [src : Validators, round : Rounds, digest : Proposals]
Preprepare == [src : Validators, round : Rounds, proposal : Proposals,
               rcc : SUBSET RoundChangeRequest]
RoundChange == [req : RoundChangeRequest, dst : SUBSET Validators]

ASSUME FaultyAssumption ==
    /\ FaultyPreprepares \subseteq {m \in Preprepare : m.src \in Faulty}
    /\ FaultyRoundChanges \subseteq {m \in RoundChange : m.req.src \in Faulty}

NoRequest == [round |-> -1, pc |-> EmptyPreparedCertificate]
StoredRequest ==
    [round : Rounds, pc : PreparedCertificate \cup {EmptyPreparedCertificate}]

RoundState ==
    [state : StateAcceptRequest .. StateWaitingForNewRound,
     round : Rounds,
     desiredRound : Rounds,
     preprepare : Proposals \cup {NoBlock},
     prepares : SUBSET Validators,
     commits : SUBSET Validators,
     pendingRequest : Proposals \cup {NoBlock},
     preparedCertificate : PreparedCertificate \cup {EmptyPreparedCertificate}]

VARIABLES
    current,            \* current[v]: the round state of v, in memory
    rsdb,               \* rsdb[v]: the round state of v that a restart loads
    roundChangeSet,     \* roundChangeSet[v][u]: the last round change of u that v holds
    head,               \* head[v]: the block of this sequence in the chain of v
    final,              \* final[v]: v has moved on to the next sequence
    sentPreprepare, sentPrepare, sentCommit, sentRoundChange,
    crashes

vars == <<current, rsdb, roundChangeSet, head, final,
          sentPreprepare, sentPrepare, sentCommit, sentRoundChange, crashes>>

TypeOK ==
    /\ current \in [Honest -> RoundState]
    /\ rsdb \in [Honest -> RoundState]
    /\ roundChangeSet \in [Honest -> [Validators -> StoredRequest \cup {NoRequest}]]
    /\ head \in [Honest -> Proposals \cup {NoBlock}]
    /\ final \in [Honest -> BOOLEAN]
    /\ sentPreprepare \subseteq {m \in Preprepare : m.src \in Honest}
    /\ sentPrepare \subseteq {m \in Vote : m.src \in Honest}
    /\ sentCommit \subseteq {m \in Vote : m.src \in Honest}
    /\ sentRoundChange \subseteq {m \in RoundChange : m.req.src \in Honest}
    /\ crashes \in 0 .. MaxCrashes

-----------------------------------------------------------------------------
(***************************************************************************)
(* Signatures.  A signature verifies exactly when its signer signed: an    *)
(* honest validator signs what it sends, a faulty one may sign anything.   *)
(***************************************************************************)
SignedPrepare(s, r, p) ==
    s \in Faulty \/ [src |-> s, round |-> r, digest |-> p] \in sentPrepare

SignedCommit(s, r, p) ==
    s \in Faulty \/ [src |-> s, round |-> r, digest |-> p] \in sentCommit

SignedRoundChange(req) ==
    req.src \in Faulty \/ \E m \in sentRoundChange : m.req = req

\* The validators that signed a prepare or a commit for p in round r.
Voters(r, p) ==
    {s \in Validators : SignedPrepare(s, r, p) \/ SignedCommit(s, r, p)}

Committers(r, p) == {s \in Validators : SignedCommit(s, r, p)}

\* A prepared certificate verifies when a quorum signed for its round and
\* its proposal, each signer counted once.
verifyPC(pc) == Cardinality(Voters(pc.round, pc.proposal)) >= Quorum

emptyOrVerified(pc) == pc = EmptyPreparedCertificate \/ verifyPC(pc)

-----------------------------------------------------------------------------
(***************************************************************************)
(* The round state and its transitions (roundStateImpl).                   *)
(***************************************************************************)
newRoundState ==
    [state |-> StateAcceptRequest, round |-> 0, desiredRound |-> 0,
     preprepare |-> NoBlock, prepares |-> {}, commits |-> {},
     pendingRequest |-> NoBlock,
     preparedCertificate |-> EmptyPreparedCertificate]

\* Mutant: a new round starts without the prepared certificate.
StartNewRound_NoCertificate(rs, r) ==
    [rs EXCEPT !.state = StateAcceptRequest, !.round = r, !.desiredRound = r,
               !.prepares = {}, !.commits = {}, !.preprepare = NoBlock,
               !.preparedCertificate = EmptyPreparedCertificate]

StartNewRound(rs, r) ==
    [rs EXCEPT !.state = StateAcceptRequest, !.round = r, !.desiredRound = r,
               !.prepares = {}, !.commits = {}, !.preprepare = NoBlock]

TransitionToPrepreparedV2(rs, p) ==
    [rs EXCEPT !.preprepare = p, !.state = StatePreprepared]

TransitionToPrepared(rs) ==
    [rs EXCEPT !.preparedCertificate =
                   [round |-> rs.round, proposal |-> rs.preprepare],
               !.state = StatePrepared]

TransitionToCommitted(rs) == [rs EXCEPT !.state = StateCommitted]

\* Mutant: the state is left as it was.
TransitionToWaitingForNewRound_SameState(rs, r) == [rs EXCEPT !.desiredRound = r]

TransitionToWaitingForNewRound(rs, r) ==
    [rs EXCEPT !.desiredRound = r, !.state = StateWaitingForNewRound]

AddPrepare(rs, s) == [rs EXCEPT !.prepares = @ \cup {s}]

AddCommit(rs, s) == [rs EXCEPT !.commits = @ \cup {s}]

\* Mutant: F+1 votes are taken for a quorum.
HasPrepareOrCommitQuorum_F1(rs) ==
    Cardinality(rs.prepares \cup rs.commits) >= F(Cardinality(Validators)) + 1

HasPrepareOrCommitQuorum(rs) ==
    Cardinality(rs.prepares \cup rs.commits) >= Quorum

\* Mutant: the transition is not saved.
Save_MemoryOnly(v, rs) ==
    current' = [current EXCEPT ![v] = rs] /\ UNCHANGED rsdb

\* rsSaveDecorator: every transition is saved before the handler goes on.
Save(v, rs) ==
    /\ current' = [current EXCEPT ![v] = rs]
    /\ rsdb' = [rsdb EXCEPT ![v] = rs]

-----------------------------------------------------------------------------
(***************************************************************************)
(* checkMessage for a message of the current sequence; roundChangeV2       *)
(* messages need only the comparison with desiredRound.                    *)
(***************************************************************************)
acceptsPreprepare(rs, r) == r = rs.desiredRound

acceptsVote(rs, r) ==
    /\ r = rs.desiredRound
    /\ rs.state \notin {StateAcceptRequest, StateWaitingForNewRound}

\* verifyPrepare, verifyCommit: the vote is for our own subject.
matchesSubject(rs, r, p) == rs.preprepare = p /\ rs.round = r

\* The author of the block at the head of v's chain.
headAuthor(v) == IF head[v] = NoBlock THEN ParentAuthor ELSE Author[head[v]]

isProposer(v, r) == selectProposer[ParentAuthor, r] = v

\* Who the code takes for the proposer when it checks a preprepare: this
\* one is computed from the head of the chain, wherever that is by now.
isProposerAtHead(v, u, r) == selectProposer[headAuthor(v), r] = u

roundChangeMsg(v, rs, dst) ==
    [req |-> [src |-> v, round |-> rs.desiredRound, pc |-> rs.preparedCertificate],
     dst |-> dst]

\* A copy sent to one validator adds nothing to a broadcast of the same.
Multicast(m) ==
    sentRoundChange' = IF [m EXCEPT !.dst = Validators] \in sentRoundChange
                       THEN sentRoundChange ELSE sentRoundChange \cup {m}

\* rs is the round state the handler has reached so far.
waitForDesiredRound(v, rs, r) ==
    IF rs.desiredRound >= r
    THEN Save(v, rs) /\ UNCHANGED sentRoundChange
    ELSE LET rs2 == TransitionToWaitingForNewRound(rs, r)
         IN  Save(v, rs2) /\ Multicast(roundChangeMsg(v, rs2, Validators))

-----------------------------------------------------------------------------
(***************************************************************************)
(* The set of round changes received, the last one of each validator       *)
(* (roundChangeSetV2), and the certificates made of it.                    *)
(***************************************************************************)

\* MaxRound(num) = r: r is the highest round that num validators ask for,
\* or a later one.
IsMaxRound(rcs, num, r) ==
    LET reached(q) == /\ \E u \in Validators : rcs[u].round = q
                      /\ Cardinality({u \in Validators : rcs[u].round >= q}) >= num
    IN  reached(r) /\ \A q \in Rounds : reached(q) => q <= r

\* Mutant: one more than num.
IsMaxOnOneRound_OneMore(rcs, num, r) ==
    LET reached(q) == Cardinality({u \in Validators : rcs[u].round = q}) > num
    IN  reached(r) /\ \A q \in Rounds : reached(q) => q <= r

\* MaxOnOneRound(num) = r: r is the highest round that num validators ask for.
IsMaxOnOneRound(rcs, num, r) ==
    LET reached(q) == Cardinality({u \in Validators : rcs[u].round = q}) >= num
    IN  reached(r) /\ \A q \in Rounds : reached(q) => q <= r

\* getCertificate: a quorum of the requests with the highest rounds, none
\* below minRound.  Among the requests of one round the order is that of a
\* Go map: any.
getCertificate(rcs, minRound) ==
    {{[src |-> u, round |-> rcs[u].round, pc |-> rcs[u].pc] : u \in S} :
        S \in {S \in SUBSET Validators :
                 /\ Cardinality(S) = Quorum
                 /\ \A u \in S : /\ rcs[u].round >= minRound
                                 /\ \A w \in Validators \ S :
                                        rcs[w].round <= rcs[u].round}}

\* The requests that carry a prepared certificate and that have, among
\* those, the highest round: the round of the request, not the round of
\* its certificate (HighestRoundWithPreparedCertificate).
HighestRoundRequests(rcc) ==
    LET withPC == {q \in rcc : q.pc # EmptyPreparedCertificate}
    IN  {q \in withPC : \A q2 \in withPC : q2.round <= q.round}

\* What the proposer of a round may propose on a round change certificate.
proposalsFor(rs, rcc) ==
    IF HighestRoundRequests(rcc) = {}
    THEN {rs.pendingRequest}
    ELSE {q.pc.proposal : q \in HighestRoundRequests(rcc)}

\* handleRoundChangeCertificateV2, up to the start of the round.
validRoundChangeCertificate(m) ==
    /\ Cardinality(m.rcc) >= Quorum
    /\ \A q \in m.rcc : /\ SignedRoundChange(q)
                        /\ q.round >= m.round
                        /\ \A q2 \in m.rcc : q.src = q2.src => q = q2
    /\ HighestRoundRequests(m.rcc) # {} =>
         \E q \in HighestRoundRequests(m.rcc) :
            /\ q.pc.proposal = m.proposal
            /\ verifyPC(q.pc)
            /\ q.pc.round <= m.round

-----------------------------------------------------------------------------
(***************************************************************************)
(* The handlers of a validator that is still at this sequence.             *)
(***************************************************************************)
running(v) == ~final[v]

\* A block that v's miner made reaches the core.
handleRequest(v, p) ==
    LET rs == [current[v] EXCEPT !.pendingRequest = p]
    IN  /\ running(v)
        /\ Author[p] = v
        /\ Save(v, rs)
        /\ sentPreprepare' =
             IF rs.state = StateAcceptRequest /\ rs.round = 0 /\ isProposer(v, 0)
             THEN sentPreprepare \cup
                    {[src |-> v, round |-> 0, proposal |-> p, rcc |-> {}]}
             ELSE sentPreprepare
        /\ UNCHANGED <<roundChangeSet, head, final, sentPrepare, sentCommit,
                       sentRoundChange, crashes>>

\* verified is the verdict of verifyProposal, which turns down a block
\* whose time has not come yet.
handlePreprepareV2(v, m, verified) ==
    LET rs  == current[v]
        rs1 == IF m.round > rs.round THEN StartNewRound(rs, m.round) ELSE rs
        accept == verified /\ rs1.state = StateAcceptRequest
    IN  /\ running(v)
        /\ acceptsPreprepare(rs, m.round)
        /\ isProposerAtHead(v, m.src, m.round)
        /\ IF m.round > 0 THEN validRoundChangeCertificate(m) ELSE m.rcc = {}
        /\ Save(v, IF accept THEN TransitionToPrepreparedV2(rs1, m.proposal) ELSE rs1)
        /\ sentPrepare' =
             IF accept
             THEN sentPrepare \cup
                    {[src |-> v, round |-> rs1.round, digest |-> m.proposal]}
             ELSE sentPrepare
        /\ UNCHANGED <<roundChangeSet, head, final, sentPreprepare, sentCommit,
                       sentRoundChange, crashes>>

\* The votes in rs may complete a prepared certificate.
becomesPrepared(rs) == HasPrepareOrCommitQuorum(rs) /\ rs.state < StatePrepared

\* Mutant: the commit is for the validator's own block.
sendCommit_PendingRequest(v, rs) ==
    sentCommit' = sentCommit \cup
                    {[src |-> v, round |-> rs.round, digest |-> rs.pendingRequest]}

sendCommit(v, rs) ==
    sentCommit' = sentCommit \cup
                    {[src |-> v, round |-> rs.round, digest |-> rs.preprepare]}

handlePrepare(v, s, r, p) ==
    LET rs == AddPrepare(current[v], s)
    IN  /\ running(v)
        /\ SignedPrepare(s, r, p)
        /\ acceptsVote(current[v], r)
        /\ matchesSubject(current[v], r, p)
        /\ IF becomesPrepared(rs)
           THEN Save(v, TransitionToPrepared(rs)) /\ sendCommit(v, rs)
           ELSE Save(v, rs) /\ UNCHANGED sentCommit
        /\ UNCHANGED <<roundChangeSet, head, final, sentPreprepare, sentPrepare,
                       sentRoundChange, crashes>>

\* Mutant: a quorum of prepares and commits together is enough to commit.
becomesCommitted_AnyVotes(rs) ==
    HasPrepareOrCommitQuorum(rs) /\ rs.state < StateCommitted

becomesCommitted(rs) ==
    Cardinality(rs.commits) >= Quorum /\ rs.state < StateCommitted

\* inserted is the outcome of backend.Commit: if the block could not be
\* added to the chain, the validator waits for the next round.
commit(v, rs, inserted) ==
    IF inserted
    THEN /\ Save(v, TransitionToCommitted(rs))
         /\ \E b \in {rs.preprepare} \cup ({head[v]} \ {NoBlock}) :
               head' = [head EXCEPT ![v] = b]
         /\ UNCHANGED sentRoundChange
    ELSE /\ rs.round < LastRound
         /\ waitForDesiredRound(v, TransitionToCommitted(rs), rs.round + 1)
         /\ UNCHANGED head

handleCommit(v, s, r, p, inserted) ==
    LET rs == AddCommit(current[v], s)
    IN  /\ running(v)
        /\ SignedCommit(s, r, p)
        /\ acceptsVote(current[v], r)
        /\ matchesSubject(current[v], r, p)
        /\ IF becomesCommitted(rs)
           THEN commit(v, rs, inserted) /\ UNCHANGED sentCommit
           ELSE /\ IF becomesPrepared(rs)
                   THEN Save(v, TransitionToPrepared(rs)) /\ sendCommit(v, rs)
                   ELSE Save(v, rs) /\ UNCHANGED sentCommit
                /\ UNCHANGED <<head, sentRoundChange>>
        /\ UNCHANGED <<roundChangeSet, final, sentPreprepare, sentPrepare, crashes>>

\* startNewRound(round, true): if v is the proposer of the round, it makes
\* a round change certificate and, if it has anything to propose, proposes.
startNewRound(v, rcs, r) ==
    IF r <= current[v].round
    THEN UNCHANGED <<current, rsdb, sentPreprepare>>
    ELSE /\ Save(v, StartNewRound(current[v], r))
         /\ IF isProposer(v, r)
            THEN \E rcc \in getCertificate(rcs, r) :
                   \E p \in proposalsFor(current[v], rcc) :
                     sentPreprepare' =
                       IF p = NoBlock THEN sentPreprepare
                       ELSE sentPreprepare \cup
                              {[src |-> v, round |-> r, proposal |-> p, rcc |-> rcc]}
            ELSE UNCHANGED sentPreprepare

\* A round change for a round before ours: help the sender catch up.
handleOldRoundChange(v, m) ==
    /\ running(v)
    /\ v \in m.dst
    /\ m.req.round < current[v].desiredRound
    /\ Multicast(roundChangeMsg(v, current[v], {m.req.src}))
    /\ UNCHANGED <<current, rsdb, roundChangeSet, head, final, sentPreprepare,
                   sentPrepare, sentCommit, crashes>>

handleRoundChangeV2(v, m) ==
    LET rs  == current[v]
        rcs == [roundChangeSet[v] EXCEPT
                  ![m.req.src] = [round |-> m.req.round, pc |-> m.req.pc]]
        quorumRound(r) == IsMaxOnOneRound(rcs, Quorum, r) /\ r >= rs.desiredRound
        ffRound(r) == IsMaxRound(rcs, F(Cardinality(Validators)) + 1, r)
    IN  /\ running(v)
        /\ v \in m.dst
        /\ m.req.round >= rs.desiredRound
        /\ emptyOrVerified(m.req.pc) /\ m.req.pc.round <= m.req.round
        /\ m.req.round >= roundChangeSet[v][m.req.src].round
        /\ roundChangeSet' = [roundChangeSet EXCEPT ![v] = rcs]
        /\ \/ \E r \in Rounds : /\ quorumRound(r)
                                /\ startNewRound(v, rcs, r)
                                /\ UNCHANGED sentRoundChange
           \/ /\ ~ \E r \in Rounds : quorumRound(r)
              /\ IF \E r \in Rounds : ffRound(r)
                 THEN \E r \in Rounds : ffRound(r) /\ waitForDesiredRound(v, rs, r)
                 ELSE UNCHANGED <<current, rsdb, sentRoundChange>>
              /\ UNCHANGED sentPreprepare
        /\ UNCHANGED <<head, final, sentPrepare, sentCommit, crashes>>

handleTimeoutAndMoveToNextRound(v) ==
    /\ running(v)
    /\ current[v].desiredRound < LastRound
    /\ waitForDesiredRound(v, current[v], current[v].desiredRound + 1)
    /\ UNCHANGED <<roundChangeSet, head, final, sentPreprepare, sentPrepare,
                   sentCommit, crashes>>

handleResendRoundChangeEvent(v) ==
    /\ running(v)
    /\ current[v].state = StateWaitingForNewRound
    /\ Multicast(roundChangeMsg(v, current[v], Validators))
    /\ UNCHANGED <<current, rsdb, roundChangeSet, head, final, sentPreprepare,
                   sentPrepare, sentCommit, crashes>>

\* A block of this sequence arrives from a peer, with the seals of a quorum.
insertSyncedBlock(v, r, p) ==
    /\ running(v)
    /\ head[v] = NoBlock
    /\ Faulty # {} \/ \E u \in Honest : head[u] = p
    /\ Cardinality(Committers(r, p)) >= Quorum
    /\ head' = [head EXCEPT ![v] = p]
    /\ UNCHANGED <<current, rsdb, roundChangeSet, final, sentPreprepare,
                   sentPrepare, sentCommit, sentRoundChange, crashes>>

\* The round state is reset for the next sequence.
startNewSequence(v) ==
    /\ Save(v, newRoundState)
    /\ roundChangeSet' = [roundChangeSet EXCEPT ![v] = [u \in Validators |-> NoRequest]]
    /\ final' = [final EXCEPT ![v] = TRUE]

handleFinalCommitted(v) ==
    /\ running(v)
    /\ head[v] # NoBlock
    /\ startNewSequence(v)
    /\ UNCHANGED <<head, sentPreprepare, sentPrepare, sentCommit,
                   sentRoundChange, crashes>>

(***************************************************************************)
(* A crash, and the restart that follows (createRoundState).  saved is the *)
(* round state last written: what is in rsdb or, for a crash in the middle *)
(* of a handler, what the handler had saved so far, with a vote added but  *)
(* not yet acted upon, or the state Committed and the block not inserted.  *)
(* A crash between a save and the broadcast that follows it is a broadcast *)
(* that is lost.                                                           *)
(***************************************************************************)
savedBeforeCrash(v) ==
    LET rs == rsdb[v]
        voted == {AddPrepare(rs, s) : s \in {s \in Validators :
                     SignedPrepare(s, rs.round, rs.preprepare)}}
                 \cup
                 {AddCommit(rs, s) : s \in {s \in Validators :
                     SignedCommit(s, rs.round, rs.preprepare)}}
    IN  {rs} \cup
        IF acceptsVote(rs, rs.round)
        THEN voted \cup {TransitionToCommitted(x) : x \in {x \in voted : becomesCommitted(x)}}
        ELSE {}

Restart(v) ==
    /\ running(v)
    /\ crashes < MaxCrashes
    /\ crashes' = crashes + 1
    /\ \E saved \in savedBeforeCrash(v) :
          /\ Save(v, IF head[v] = NoBlock THEN saved ELSE newRoundState)
          /\ final' = [final EXCEPT ![v] = head[v] # NoBlock]
    /\ roundChangeSet' = [roundChangeSet EXCEPT ![v] = [u \in Validators |-> NoRequest]]
    /\ UNCHANGED <<head, sentPreprepare, sentPrepare, sentCommit, sentRoundChange>>

-----------------------------------------------------------------------------
Init ==
    /\ current = [v \in Honest |-> newRoundState]
    /\ rsdb = [v \in Honest |-> newRoundState]
    /\ roundChangeSet = [v \in Honest |-> [u \in Validators |-> NoRequest]]
    /\ head = [v \in Honest |-> NoBlock]
    /\ final = [v \in Honest |-> FALSE]
    /\ sentPreprepare = {}
    /\ sentPrepare = {}
    /\ sentCommit = {}
    /\ sentRoundChange = {}
    /\ crashes = 0

\* One iteration of handleEvents at v; proposed is what preprepares it may see.
handleEvents(v, proposed) ==
    \/ \E p \in Proposals : handleRequest(v, p)
    \/ \E m \in proposed, verified \in BOOLEAN : handlePreprepareV2(v, m, verified)
    \/ \E s \in Validators, r \in Rounds, p \in Proposals : handlePrepare(v, s, r, p)
    \/ \E s \in Validators, r \in Rounds, p \in Proposals, inserted \in BOOLEAN :
          handleCommit(v, s, r, p, inserted)
    \/ \E m \in sentRoundChange \cup FaultyRoundChanges :
          handleOldRoundChange(v, m) \/ handleRoundChangeV2(v, m)
    \/ handleTimeoutAndMoveToNextRound(v)
    \/ handleResendRoundChangeEvent(v)
    \/ \E r \in Rounds, p \in Proposals : insertSyncedBlock(v, r, p)
    \/ handleFinalCommitted(v)
    \/ Restart(v)

preprepares == sentPreprepare \cup FaultyPreprepares

Next == \E v \in Honest : handleEvents(v, preprepares)

Spec == Init /\ [][Next]_vars

(***************************************************************************)
(* Fairness.  What a validator's own timers and chain guarantee: the round *)
(* times out, a decided block is inserted and ends the sequence, and the   *)
(* round change of a validator that waits for a round, which it sends      *)
(* again and again, arrives.                                               *)
(***************************************************************************)
resentRoundChange(u) == roundChangeMsg(u, current[u], Validators)

FairSpec ==
    /\ Spec
    /\ \A v \in Honest :
         WF_vars(/\ running(v)
                 /\ \/ handleFinalCommitted(v)
                    \/ handleTimeoutAndMoveToNextRound(v)
                    \/ \E r \in Rounds, p \in Proposals : insertSyncedBlock(v, r, p)
                    \/ \E u \in Honest : /\ current[u].state = StateWaitingForNewRound
                                         /\ handleRoundChangeV2(v, resentRoundChange(u)))

\* What the network guarantees once it is synchronous, which it is in the
\* last round: the messages of that round arrive, the round changes as long
\* as the validator has not started it.  Those of the rounds before may all
\* be lost.
NetworkDelivers ==
    \A v \in Honest :
        WF_vars(/\ running(v)
                /\ \/ /\ current[v].desiredRound = LastRound
                      /\ \/ \E m \in sentPreprepare : handlePreprepareV2(v, m, TRUE)
                         \/ \E u \in Honest, p \in Proposals :
                              \/ handlePrepare(v, u, LastRound, p)
                              \/ handleCommit(v, u, LastRound, p, TRUE)
                   \/ /\ current[v].round < LastRound
                      /\ \E m \in sentRoundChange : /\ m.req.round = LastRound
                                                    /\ handleRoundChangeV2(v, m))

(***************************************************************************)
(* The rule that the comments of core.go and roundchange_v2.go state: of   *)
(* the certificates in a round change certificate, the proposal is that of *)
(* the one prepared in the highest round.  HighestPreparedSpec has the     *)
(* behaviours in which no validator takes a preprepare that breaks it.     *)
(***************************************************************************)
proposesHighestPrepared(m) ==
    \A q \in m.rcc : q.pc # EmptyPreparedCertificate =>
        \E q2 \in m.rcc : /\ q2.pc.proposal = m.proposal
                          /\ verifyPC(q2.pc)
                          /\ q2.pc.round >= q.pc.round

NextHighestPrepared ==
    \E v \in Honest :
        handleEvents(v, {m \in preprepares : proposesHighestPrepared(m)})

HighestPreparedSpec == Init /\ [][NextHighestPrepared]_vars

(***************************************************************************)
(* What the votes decide, as an abstract consensus: a block is chosen in a *)
(* round when a quorum has signed commits for it.                          *)
(***************************************************************************)
Committed(r, p) == Cardinality(Committers(r, p)) >= Quorum

\* One choice in each round.
RoundConsensus ==
    INSTANCE Consensus WITH
        Nodes <- Honest, Values <- Proposals, NoValue <- NoBlock, Instances <- Rounds,
        chosen <- [r \in Rounds |-> {p \in Proposals : Committed(r, p)}],
        chain <- head

\* One choice for the sequence, whatever the round.
SequenceConsensus ==
    INSTANCE Consensus WITH
        Nodes <- Honest, Values <- Proposals, NoValue <- NoBlock, Instances <- {0},
        chosen <- [i \in {0} |-> {p \in Proposals : \E r \in Rounds : Committed(r, p)}],
        chain <- head

-----------------------------------------------------------------------------
(***************************************************************************)
(* Safety.                                                                 *)
(***************************************************************************)

\* checkMessage panics when the round of a validator is past its desired
\* round: it never is, in memory or after any restart, and a validator is
\* behind its desired round exactly while it waits for that round.
RoundBehindDesired ==
    \A v \in Honest : \A rs \in {current[v], rsdb[v]} :
        /\ rs.round <= rs.desiredRound
        /\ rs.round < rs.desiredRound <=> rs.state = StateWaitingForNewRound

\* A validator votes for one proposal per round: all its prepares and
\* commits of a round are for the same block, even if it crashed and was
\* restarted in between, on the strength of what handlePreprepareV2 saves
\* before it sends.
OneVotePerRound ==
    \A m1, m2 \in sentPrepare \cup sentCommit :
        m1.src = m2.src /\ m1.round = m2.round => m1.digest = m2.digest

\* A validator that has sent a commit holds, in memory and on disk, a
\* prepared certificate of that round or a later one, until it leaves the
\* sequence: this is what makes its next round changes report the block.
CommitKeepsCertificate ==
    \A m \in sentCommit :
        ~final[m.src] =>
            /\ current[m.src].preparedCertificate.round >= m.round
            /\ rsdb[m.src].preparedCertificate.round >= m.round

\* "All prepared certificates from the same round are assumed to be the
\* same proposal or no proposal (guaranteed by quorum intersection)"
\* (getPreprepareWithRoundChangeCertificateV2): no two certificates that
\* verify are for one round and different proposals.
PreparedCertificatesAgree ==
    \A r \in Rounds : \A p, q \in Proposals :
        /\ verifyPC([round |-> r, proposal |-> p])
        /\ verifyPC([round |-> r, proposal |-> q])
        => p = q

\* Certificates that honest validators hold or send always verify: a
\* round change is never turned down for the certificate it carries.
CertificatesVerify ==
    /\ \A v \in Honest : emptyOrVerified(current[v].preparedCertificate)
    /\ \A m \in sentRoundChange :
          emptyOrVerified(m.req.pc) /\ m.req.pc.round <= m.req.round

\* No two validators have different blocks of this sequence.
Agreement ==
    \A u, v \in Honest :
        head[u] # NoBlock /\ head[v] # NoBlock => head[u] = head[v]

\* In every round the votes choose at most one block, for good, and a block
\* enters a chain only once it was chosen: the code implements a consensus
\* of one choice in each round.
ChoosesPerRound == RoundConsensus!Spec

\* Where no validator takes a preprepare that breaks the rule, the votes of
\* all rounds choose one block, and no chain ever has another.
ChoosesOnce == SequenceConsensus!Spec

\* The view of a validator never goes back, not even over a crash.
ViewNeverRegresses ==
    [][\A v \in Honest : ~final'[v] =>
          /\ current'[v].round >= current[v].round
          /\ current'[v].desiredRound >= current[v].desiredRound
          /\ current'[v].preparedCertificate.round
                >= current[v].preparedCertificate.round]_vars

-----------------------------------------------------------------------------
(***************************************************************************)
(* Liveness.                                                               *)
(***************************************************************************)

\* If every validator has a block to propose and the network delivers the
\* messages of the last round, every validator gets the block of the
\* sequence, whatever timed out, was lost, crashed, failed to be verified
\* or failed to be inserted before that round: the round changes bring
\* them all to one round, its proposer has something to propose, and one
\* that has moved on does not leave the others behind.  A later crash may
\* lose messages of the last round, and is left out.
EveryoneDecides ==
    NetworkDelivers =>
        \A k \in 0 .. MaxCrashes :
            (/\ crashes = k
             /\ \A v \in Honest :
                  \/ final[v]
                  \/ /\ current[v].pendingRequest # NoBlock
                     /\ current[v].desiredRound < LastRound)
            ~> ((\A v \in Honest : final[v]) \/ crashes > k)

\* Validators that all wait for one round do not wait for ever, whatever
\* round changes they lost to a crash (the set of round changes received is
\* not saved): handleResendRoundChangeEvent makes up for it.
WaitingEnds ==
    (\A v \in Honest : /\ current[v].state = StateWaitingForNewRound
                       /\ current[v].desiredRound = LastRound)
    ~> (\E v \in Honest : current[v].state # StateWaitingForNewRound)

=============================================================================
