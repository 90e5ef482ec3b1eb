# TLA+ models of the Istanbul consensus of celo-blockchain

This directory holds TLA+ specifications of the consensus code of
celo-blockchain (`src/consensus/istanbul` and the parts of `src/miner`,
`src/core` and `src/p2p` that it works with), the TLC configurations that model-check them on small instances,
and theorems about them that TLAPS proves for all instances. `PROJECT.json`
lists the components, the runs, the correspondence of every definition with
source lines, the hazards of the code, the findings and the theorems.

To check a run, `tlc -config CoreLive.cfg MCIstanbulCore` (the runs and their
modules are in the table below); to check the proofs of a module,
`tlapm ReplicaStateProofs.tla`.

## The system

A celo node is a go-ethereum node whose consensus engine is Istanbul BFT. A
validator runs these parts:

| part | state | operations | interacts with |
|---|---|---|---|
| core (`core/core.go`, `handler.go`, `preprepare_v2.go`, `prepare.go`, `commit.go`, `roundchange_v2.go`, `request.go`, `final_committed.go`) | the current round state, the round change set | one event loop: messages, requests of the miner, timeouts, "block inserted" | all the parts below |
| round state (`core/roundstate.go`, `roundstate_save_decorator.go`) | state, round, desired round, preprepare, votes, prepared certificate | transitions, each followed by a save | database |
| round state database (`core/roundstate_db.go`) | last view, round state and received votes per view | update, merge on read, garbage collection | restart |
| round change set (`core/roundchangeset_v2.go`) | the last round change of each validator | add, highest round of f+1, of a quorum, certificate | core |
| backlog (`core/backlog.go`) | queues of future messages, counters | store, prune, process at a view change | core, event bus |
| validator set (`validator/`) | ordered validators | quorum size, proposer of a round | everything |
| backend (`backend/`) | chain access, gossip caches, enode tables | verify, seal, insert, send | core, p2p, chain |
| replica state (`backend/internal/replica`) | primary or replica, start and stop block, on disk | commands of the operator, new chain heads | starts and stops the core |
| miner's worker (`miner/worker.go`) | running or not | start, stop, new work on a new head | backend, core |
| snapshots (`backend/snapshot.go`, `Backend.snapshot`) | validator sets by block, in a cache and on disk | find, apply the differences of epochs, store | chain, verification, core |
| uptime (`uptime/`) | the tally of one epoch | a header, the scores at the end of an epoch | chain, snapshots |
| proxied validator (`proxy/`) | proxies, assignment of remote validators to them | one thread: commands, connections, epochs, a ticker | p2p, chain |
| announce (`announce/`) | enode query tasks, version certificates | per timer and message | p2p |

What makes it hard: the messages of validators interleave with each other and
with each validator's timeouts, may be lost, repeated, delayed over several
rounds and reordered; a validator may crash between saving, broadcasting and
inserting, and has to go on from its database without contradicting its
signatures; blocks arrive from the network beside consensus; several
goroutines start and stop the core under two locks; writes to the databases
fail; the chain is rewound and forks while tallies and caches follow it;
proxies come and go; and up to a third of the validators may sign anything.

What correctness means here: validators that run the code agree on the block
of a height; none of them ever signs for two blocks of one round; what a commit
promised survives round changes and restarts; certificates are verifiable;
views do not go back; no message that could be processed is left waiting or
lost to pruning; a node that hands over to another one with the same key is
silent before the other may speak; what an operator asks for happens; validators
are scored by what the chain says of them; and every remote validator is served
by a proxy that is there.

## Modules

| module | models | lines of the code |
|---|---|---|
| `CoreTypes` | the states of a round, in the order in which the code compares them | `core/types.go` |
| `ValidatorSet` | F, MinQuorumSize, the shuffled round robin proposer | `validator/default.go`, `selectors.go` |
| `Consensus` | the abstract specification: values are chosen, one per instance, and learned | |
| `IstanbulCore` | one sequence of consensus by all validators | `core/` (see below), `types*.go` |
| `RoundStateDB` | the round state of one validator over several sequences, and its database | `core/roundstate*.go`, and the handlers of `core/` |
| `MsgBacklog` | the backlog of one validator with its event loop | `core/backlog.go`, `handler.go` |
| `ReplicaState` | primary, replica, and the start and stop of the core | `backend/internal/replica`, `backend/engine.go`, `core/handler.go`, `core/core.go`, `miner/worker.go` |
| `EpochChain` | validator set snapshots and the uptime monitor over a chain that grows, forks and is rewound | `backend/engine.go`, `snapshot.go`, `pos.go`, `uptime/`, `utils.go`, `headers_provider.go`, `src/core/blockchain.go` |
| `ProxiedValidator` | the engine of a validator behind proxies, with its proxies | `proxy/`, `src/p2p/server.go` |
| `MCIstanbulCore`, `MCRoundStateDB`, `MCMsgBacklog`, `MCReplicaState`, `MCEpochChain`, `MCProxiedValidator` | instances for TLC | |
| `IstanbulCoreProofs`, `IstanbulCoreAgreement` | the proofs about `IstanbulCore` and `ValidatorSet` | |
| `EpochMonitorProofs`, `EpochChainProofs` | the proofs about `EpochChain` | |
| `RoundStateDBProofs`, `MsgBacklogProofs`, `ReplicaStateProofs`, `ProxiedValidatorProofs` | the proofs about the modules of those names | |

### IstanbulCore

The state is, per validator: `current`, the round state in memory; `rsdb`, the
one that a restart loads; `roundChangeSet`; `head`, the block of this sequence
in its chain; `final`, whether it has moved on to the next sequence. The
network is the set of all messages ever signed (`sentPreprepare`,
`sentPrepare`, `sentCommit`, `sentRoundChange`): any of them may be handled at
any time, several times, or never, which covers loss, delay, repetition and
reordering. Every handler of `handleEvents` is one action with everything it
calls: `handleCommit`, for example, adds the vote, and then either, on a quorum
of commits, makes the transition to Committed and inserts the block (or, if the
chain refuses it, waits for the next round and sends a round change), or, on a
quorum of prepares and commits, makes the transition to Prepared and signs a
commit of its own, with a save after each change, as the code does in one call.

- `handleRequest`, `handlePreprepareV2`, `handlePrepare`, `handleCommit`,
  `handleRoundChangeV2` with `handleOldRoundChange` (the answer to a validator
  that is behind), `handleTimeoutAndMoveToNextRound`,
  `handleResendRoundChangeEvent`, `handleFinalCommitted`.
- `insertSyncedBlock` (external): a block with a quorum of commits reaches the
  chain from peers.
- `Restart`: a crash and the restart from the database. A crash can fall
  between the save and the broadcast (the message is then among those nobody
  handles), between recording a vote and the transition it causes, and between
  the transition to Committed and the insertion (`savedBeforeCrash`).
- Faulty validators sign any vote at any time; the preprepares and round
  changes they sign are a constant of the instance.

Abstractions. A certificate is the view and the block it is for; that a quorum
signed is decided where the code verifies it. The backlog is part of the
network here. A message that the code turns down changes nothing and is a
stuttering step. The proposer of a round is a function of the author of the
head and the round (`selectProposer`), given by `ValidatorSet` in the
instances. Block verification is a Boolean input. `Resend` and `Gossip` repeat
messages that were sent. The queue of pending requests is reduced to its effect
on the current sequence. The durations of timers are left out; errors of the
database and the commits of the previous sequence are in `RoundStateDB`.

`RoundConsensus` and `SequenceConsensus` instantiate `Consensus` with the
refinement mapping: an instance is a round (or the whole sequence), chosen in it
are the blocks for which a quorum has signed commits, and the chain of a node is
its `head`. `ChoosesPerRound` is the abstract specification of the first,
checked and proved for `Spec`; `ChoosesOnce` is that of the second.
`HighestPreparedSpec` has the behaviours of `Spec` in which no validator takes a
preprepare other than the comments allow (`proposesHighestPrepared`); it is not
the code, see finding 1.

### RoundStateDB

One validator with the database of `roundstate_db.go`: `lastView`, a round state
by view (`rs`) and the received votes by view (`rcvd`), written as the save
decorator does, after each change of the round state in memory. The handlers are
those of `IstanbulCore` seen from one validator, and what other validators send
is any vote for its proposal. Each handler may end in three ways: it
`Returns`; a write of it `Fails`, with the memory changed already; or the process
`Dies`, before a write, between two, or between a write and the insertion of the
block. `startNewSequence` goes on to the sequence after the head, with the
commits of its own proposal as parent commits or with none.
`createRoundState` is what a `Start` finds: a new sequence, or the round state of
`lastView` merged with its votes. The collector (`garbageCollectEntries`,
`deleteEntry`, `deletedAll`, `deleteFails`) reads its limit and then deletes one
key after the other, beside the handlers. `voted`, `saved` and `received` are
history: what was signed, which views were written, and which votes were handled.

### MsgBacklog

The state is the view of the core (sequence, desired round, state), the
stored messages as a bag, the counters of the code, the messages that were
taken out and posted (each by a goroutine of its own, so in no order), and the
messages that are still in the network. `handleMessageEvent` and
`handleBacklogEvent` check a message against the view and either store it
(with pruning), drop it, or handle it; a handled message may move the view to
any of the views its handler can lead to (`movesOf`), and each move processes
the backlog (`updateState`). What the handler does with the votes is the
subject of `IstanbulCore`. Messages of one's own are not stored
(`handler.go:198`). Priorities cannot overflow: rounds from 2^58 on are turned
down and 10 * 2^58 < 2^63; the model has that bound as
`maxRoundForPriorityQueue`.

### ReplicaState

Five kinds of goroutine: the event loop of the core (`handleFinalCommitted`,
`startNewSequence`, `handleEventsReturns`), the updates it spawns
(`UpdateReplicaState`), the listener of chain events (`chainEvent`,
`chainEventCalls`), the operator (`SetStartValidatingBlock`,
`SetStopValidatingBlock`, `MakeReplica`, `MakePrimary`) and the worker of the
miner (`minerStart`, `minerIsPrimary`, `minerStartValidating`, `minerStop`,
`minerStopped`, `NewWork`). Two locks: `mu` holds the operation that has
`rs.mu`, with the call of `startFn` or `stopFn` that it is in; `coreMu` says
who is in `StopValidating`, waiting for the event loop. An operation that needs
a lock waits by not being enabled. `MakeReplica`, `MakePrimary` and
`NewChainHead` go through the phases of `mu`: the call (`startFn`; `stopFn` and,
once the event loop has ended, `stopFnReturns`, which leaves `coreMu`), then
`StoreReplicaState`, a step of its own, and after a failed write the opposite call.
Between the call and the write somebody else may have `coreMu`. `startedLate` is
history: the core was last started by the worker on an answer of `IsPrimary` that
no longer held, or while an operation was under way. Where the code reads, releases
and acts (the listener's `isCoreStarted`, the worker's `IsPrimary`, the new sequence
that `startNewSequence` computes before it asks for `rs.mu`) the model has two
steps. `nil` is 0, as in the encoding on disk. A failed write in
`NewChainHead` ends the process (`log.Crit`): that is `Crash` before the
write. `core.Start` and `core.Stop` do not fail, and of the events of the core
only the one that starts a sequence is modelled.

### EpochChain

A block is the sequence of blocks up to it, so it is its own hash; of its content
there is the bitmap of the validators that signed its parent. Next to the chain
there are the uptime monitor (its last header and its entries), the cache of
snapshots by number and the snapshots on disk by block. `processBlock` verifies
and finalizes the next block, by the miner, for a proposal, or on the way into
the chain; at the end of an epoch the rewards are paid, or skipped before the scores
are looked at, because they are frozen or a call of a contract fails. An insertion
first passes the header to the monitor
(`OnBlockInsertion`), which may refuse it, and may still fail after that.
`writeKnownBlock` makes a block the head that was processed before, without the
monitor. `verifyAhead` is what `VerifyHeaders` does for a batch before its blocks
are inserted: the snapshots of headers that are not on the chain are computed from
the headers passed along (`parents`), cached and stored. `verifyHeader` has the two
calls of `snapshot` that verification makes, for the validators of the header and,
in the first block of an epoch, for those of its parent; the seals themselves, and
the other fields of a header, are not modelled. Of `SetHeadBeyondRoot` and
`loadLastState` there is what the engine sees: `SetHead` rewinds the chain and leaves
monitor and cache alone; `Restart` keeps the chain and empties both. `evict` is the
limit of the cache. `snapshot`, `ProcessHeader`,
`cleanBuild`, `advance` and the others are the functions of those names,
`updateValidatorScores` included, which indexes the scores by validator and panics
where there are too few. Scores are counts of blocks, and the lookback window is
constant. Who is elected is the same on all forks: the cache is by number, and what
it has for an epoch of one fork is not tried on another fork with another election.

### ProxiedValidator

`threadRun` is one action per case of its select: `started` and `AddProxy`,
`RemoveProxy`, `setProxyPeer`, `unsetProxyPeer`, `proxiedValThreadOp`,
`handleEpoch`, `schedulerTick`. The channels of peers that came and went are
queues of their own, so that their events overtake each other; the one of epochs
has no buffer. `RemoveProxy` ends in `RemovePeer`, which waits until the
peer-to-peer layer has dropped the connection; the thread does nothing else
meanwhile (`removing`). `Start` and `Stop` hold the lock that
`RegisterProxyPeer` and `UnregisterProxyPeer` need to ask whether the engine runs.
The assignment is the two maps of the code. The consistent hash is any function
of the members and the validator (external). `valEnodes` is what a proxy was last
told; a message reaches it if the connection it is peered by still stands. The
time that a proxy has to be disconnected before it loses its validators is a step
(`disconnectTime`). `unassignDisconnectedProxies` ranges over a map that its body
changes: the model lets it come to any of the entries that appear meanwhile.

The connection set is elected from the state of the current block, and cached for up
to 20 blocks or a minute, so that two retrievals, at the start of the thread and on
each epoch, may give any two sets (`ConnSets`) without anybody telling the thread;
a retrieval may also fail, and then the assignment stays as it is. `connSet` and
`confirmed` are history: the set that was last retrieved, and whether the one before
was the same. A proxy is a static peer for no other purpose than that, so that its
removal always asks it to disconnect; a peer that keeps another purpose would stay,
and `RemovePeer` return at once.

## Runs

| run | instance | result |
|---|---|---|
| `CoreFaulty` | 4 validators, one faulty that proposes two blocks, round 0, 1 crash | `OneVotePerRound`, `PreparedCertificatesAgree`, `ChoosesPerRound` hold |
| `CoreLive` | 2 validators, 2 rounds, 1 crash, fairness | `TypeOK`, `RoundBehindDesired`, `CommitKeepsCertificate`, `ViewNeverRegresses`, `EveryoneDecides`, `WaitingEnds` hold |
| `CoreHighest` | 3 validators, 3 rounds, each misses one, the rule of the comments | `Agreement`, `CertificatesVerify`, `ChoosesOnce` hold |
| `CoreDisagree` | 3 validators, 3 rounds, nobody faulty, one absent per round, the code's rule | `Agreement` is violated |
| `Backlog` | two sequences of two rounds, 10 messages for up to three sequences ahead, room for 3 | `TypeOK`, `CountersMatch`, `NothingDueWaits`, `BacklogBounded`, `FutureOfSequenceKept` hold |
| `ReplicaSwitch` | 3 commands, 2 blocks, 2 starts and 1 stop of the miner, 1 crash, 1 failing write | `TypeOK`, `RangeWellFormed`, `ReplicaIsSilent` hold |
| `ReplicaHandover` | four ranges set before the start, 4 blocks, fairness | `StopsAtStopBlock`, `StartsAtStartBlock` hold |
| `ReplicaDeadlock` | 1 command, 2 blocks, fairness | `MakeReplicaStopsCore` is violated |
| `RoundStateDB` | 3 sequences, 2 rounds, 2 blocks, 2 other voters, 1 failing write, 1 crash | `TypeOK`, `CanRestart`, `EvidenceKept`, `OneVotePerView`, `VotesMatchProposal`, `RestoresCurrent`, `CollectedForGood` hold |
| `EpochChain` | two epochs of 6 blocks, three validator sets, restarts and rewinds at 4 heights, headers verified 3 ahead | `TypeOK`, `TallyRight`, `EveryoneScored`, `NextBlockAccepted`, `SnapshotsRight` hold |
| `EpochRestart` | one epoch of 6 blocks, restarts before its last block | `ScorePerSigner` is violated |
| `ProxiedValidator` | 2 proxies, 2 remote validators, sets of them to retrieve, 2 connections, 2 commands, epochs or restarts, fairness | `TypeOK`, `AssignmentsConsistent`, `ConnSetAssigned`, `ServedInTheEnd`, `TablesSettle`, `RemovalEnds` hold |

Bounds. Two validators already need both votes, three have a quorum of two with
any two quorums overlapping in one, four are the smallest set with a faulty
one. Two rounds are enough for a vote, a certificate, a round change and a
re-proposal; the disagreement needs three. Two blocks are enough to disagree.
In the core, `VIEW` identifies states that differ only in votes no handler
reads again; in `RoundStateDB`, those that differ in the content of views that
are never worked on again. The constraints `NoCommitReachesC`, `RoundsMissed`,
`OneAbsentPerRound`, `FirstSequence`, `VotesInOrder` and `SealsOfForks` restrict
a run to some of the behaviours, which the comments beside them describe:
`CoreFaulty` needs only two validators that commit, `CoreHighest` covers the
schedules in which each round is missed by one validator, the disagreement's among
them, and `CoreDisagree` only needs one. The safety properties of
those runs are also theorems, and do not depend on the bounds at all. In `Backlog`,
three messages fill the backlog, so pruning happens with messages for three
sequences; there is a message beyond the horizon, one of a round the queue turns down and one of the
validator itself. In `ReplicaSwitch`, every ordered triple of commands meets every
interleaving over two blocks; start and stop blocks range over all blocks.
`RoundStateDB` keeps one sequence, so that the third has the first collected.
In `EpochChain` six blocks are the smallest epoch with a window of two blocks to
count in, forks differ before and after a height to rewind to, a batch of three
headers has the last block of an epoch before its last header, and the three
elections remove, replace, re-key, bring back and reorder validators. In
`ProxiedValidator` two connections are enough for a proxy that comes back before
it is known to be gone, and two changes for a proxy that is removed and added, an
epoch that brings and removes validators, or a stop and a start. Two epochs are
enough to retrieve a set that brings and removes, and then the same again. Deadlock checking
is off everywhere because the bounds (rounds, crashes, messages, blocks) make the
instances stop.

Fairness. Safety runs assume none. `CoreLive` has weak fairness of a validator's
own timers, of the insertion and announcement of a block that was decided, and of
the round change that a waiting validator sends again and again. `EveryoneDecides`
also assumes that in the last round the network delivers (`NetworkDelivers`: its
proposal and votes, and the round changes that ask for it as long as a validator
has not started it); in the rounds before everything may be lost. `ReplicaHandover` and `ReplicaDeadlock`
have weak fairness of each goroutine step (the Go scheduler runs a goroutine that
can run, and its mutexes are not starved), of `NewWork` (the worker calls it for
each new head) and of `insertBlock` (the network goes on). `ProxiedValidator` has
weak fairness of what the thread has to do, together with the passing of
`minProxyDisconnectTime` and the end of connections that were asked to end, which
are each done with after a while, and of the scheduler's tick: a select picks
among its ready cases at random. Commands, starts and stops of the miner or the
engine, connections and crashes are never assumed to happen. The liveness
properties of `ReplicaHandover` are about a node left alone: with commands in
between, the deadlock of finding 2 can stop it. They have no crash either: a
restarted node only learns of its start block from a block that arrives
afterwards, and the instance has a last block.

Each property of a passing run has a mutant (`PROJECT.json`), an operator with
a plausible bug such as `handlerEnded_NoWait` or `merged_EntryOnly`, under
which TLC finds that property violated.

## Findings

1. **Two validators can insert different blocks of one height**
   (`CoreDisagree`; `types_v2.go:258`). From the V2 messages on, the block that
   a round change certificate obliges the proposer to propose is selected by
   the round *of the request* that carries a prepared certificate, not by the
   round the certificate was prepared in. All requests for the new round have
   the same round, so an older prepared block may be proposed, and receivers
   accept it, though a newer one was committed. No fault or crash is needed.
   `CoreHighest`, over the same three rounds, and the theorems
   `AgreementUnderRule` and `ImplementsConsensus` show that agreement holds if no
   validator takes a proposal other than the block prepared in the highest round,
   which is what the comments say.
2. **MakeReplica can deadlock** (`ReplicaDeadlock`; `state.go:288`): it waits
   for the event loop with the lock the event loop needs in `IsPrimaryForSeq`.
3. **The last block of an epoch after a restart** (`EpochRestart`;
   `backend.go:1035`). A node that comes to the last block of an epoch without a
   monitor of that epoch, because it was restarted, rewound or took known blocks
   just before, makes one for the validators that sign *after* that block. That set
   depends on the block itself, which is not in the chain yet: it is empty, or, if
   a snapshot for the block was stored earlier (when its header was verified ahead,
   or before a rewind), that of the next epoch. The scores
   are then indexed by the validators of the ending epoch (`pos.go:161`), which
   panics where they are fewer.

Deviations that the models reach and no run states:

- A comment (`backlog.go:80`) says that proposals for rounds above the desired
  one are accepted while waiting; the code treats them as future messages.
- A stop block that is moved after the event loop has found the old one reached
  (`core.go:598`) leaves a primary whose core counts as started and is
  unsubscribed for good.
- The worker asks `IsPrimary` and then starts the core (`worker.go:232`): it may
  start that of a node that has become a replica meanwhile, or one that
  `StopValidating` has just stopped, before the replica is stored. This replica takes
  part until its next sequence. `ReplicaIsSilent` is stated up to this case.
- A command whose write fails calls the opposite function whatever the state was: a
  replica that is made a replica again starts its core (`state.go:297`).
- The removal of a proxy waits for the end of the proxy's protocol handler, in
  the thread that this handler may be waiting for (`handler.go:174`); and `Stop`
  waits for the thread with the lock that the handler needs to unregister the
  peer. `RemovalEnds` is stated up to these two cases.
- Validators that left the connection set stay assigned while the epoch also
  brought new ones (`proxied_validator_engine.go:580`), until the same set is
  retrieved again, or another without new ones (`ConnSetAssigned`).
- A proxy whose events of connecting and disconnecting were handled in the other
  order, or that stayed connected while the engine was stopped and started, has no
  peer until it connects again, and one that is gone may count as a peer.
  `ServedInTheEnd` is about what the thread takes for a peer.

## Proofs

All theorems hold for every value of the constants that satisfies the named
assumptions of the modules, the bounds included: any number of validators, rounds,
messages, blocks, epochs, proxies, commands, crashes and failing writes. Every
invariant and action property that a passing run checks is proved, and so are the
two refinements. The runs are where each of them, and the inductive invariants,
were tried first.

**IstanbulCore** (`IstanbulCoreProofs`). Assumptions: finitely many
validators, at most F of them faulty (`ValidatorsAssumption`); the parent's
author, the authors of the blocks and the proposers are of the right sets
(`ProposerAssumption`); the bounds are naturals. None of the properties that
matter is inductive: that a validator votes once per round depends on its round
state remembering what it voted for, that on the save before each broadcast,
and that a certificate verifies on each recorded vote having been signed. The
inductive invariant `IInv` says so:

- `rsdb = current`: what is in memory was saved;
- `WellFormed`: round and desired round, and which states have a preprepare;
- `VotesSigned`, `Backed`: recorded votes and certificates were signed;
- `VotesRemembered`: a vote of the current round is for its preprepare;
- `CommitsRemembered`: a commit of round r leaves a certificate of round r or
  later;
- `OneVotePerRound`, `SentCertificatesVerify`, and `HeadsCommitted`: an
  inserted block has a quorum of commits in some round.

The module goes from quorums (two of them share an honest validator, since
2 * ceil(2n/3) - n > F for every n) to what each transition of a round state
preserves, to each handler being a step that signs what its new round state
remembers, to the theorems `TypeCorrectness`, `RoundNeverPassesDesired`,
`NoDoubleVote`, `CommitIsRemembered`, `SentCertificatesAreValid`,
`CertificatesAgree` and `ViewIsMonotonic`. Two theorems are about
`ValidatorSet`, with the arithmetic of rests proved beside them. `EveryoneProposes`:
under the shuffled round robin each validator is the proposer of one of any n
rounds in a row, whatever the permutation and the parent's author.
`HonestProposes`: no validator has two turns in n rounds, so that at most F rounds
in a row are lost to faulty proposers. That is the safe half of what
`EveryoneDecides` needs of the proposers.

`IstanbulCoreAgreement` proves the refinements. `ImplementsRoundConsensus` needs
`IInv` only: two quorums of commits of one round share an honest validator, and
`head` changes only to a block with such a quorum. For `ImplementsConsensus` and
`AgreementUnderRule` the invariant is strengthened by `VotesSafe`: when a
validator votes for q in round r, then in each round before r there is a quorum
whose honest members have voted for q in it or have left it without a commit
(`Locked`), so that no other block can be committed there any more. It holds of a
re-proposal because the requests of a certificate bind their senders
(`RequestsBinding`), and because of the rule: above the round of the highest
certificate nobody of the quorum has committed, in that round nobody voted for
another block, and below it the votes that made the certificate were safe
already. It rests on no crash losing a vote, which `IInv` has.

**RoundStateDB** (`RoundStateDBProofs`). Assumptions: the markers are no views,
round states or votes, and the bounds are naturals. There are two invariants.
`Inv` holds whatever fails: the last view is the highest one saved and the views
within the window of the collector are there (`DbInv`); memory is never behind the
database, though it may be ahead after a failed write (`CurInv`); what was signed
for in the last view, or in the one in memory, is its proposal (`VoteInv`); and the
limit of the collector, read once, stays below the window (`GcInv`). From it
follow `TypeCorrect`, `AlwaysCanRestart`, `SignsOncePerView` and
`CollectsForGood`. `LInv` says that as long as no write has failed nothing is
lost: in each view stored the two entries, merged, have every vote that was
received (`Evidence`), and what a restart would make of them is the round state in
memory but for the parent's commits, or memory is at a sequence not yet written
(`Memory`). It gives `EvidenceIsKept`, `VotesAlwaysMatch` and
`RestartsWhereItWas`. The point of the argument is that a vote is first in the
entry of votes alone and later in that of the round state too, so that the merge
must neither lose nor replace one, at every place where the process may die.

**MsgBacklog** (`MsgBacklogProofs`). Assumption: the limits are naturals.
`NothingDueEverWaits`: the code stops processing a sequence at the first message
that is still to come; nothing due is left behind because whatever has a lower
priority than a message to come is to come as well (`OrderOfPriority`), for every
view. `CountersAlwaysMatch` and `BacklogIsBounded` count the stored messages as
the cardinality of a set of copies, and show for each handler, reduced to one of
three shapes (`Leaves`, `Stores`, `Moves`), that counters and contents change by
the same amount. `FutureIsKept`, an action property, follows from the shapes:
pruning takes from other sequences, and processing only what is not to come.

**ReplicaState** (`ReplicaStateProofs`). Assumption: the initial states are well
formed. `RangeIsAlwaysWellFormed`: the invariant adds to the property that an
operation under way leads to a well-formed state, to a primary if it starts the
core. `ReplicaStaysSilent`: `ReplicaIsSilent` speaks of the moments between two
operations, and its invariant (`SilentInv`) says of each phase of an operation what
may be running: a replica, or an operation on its way to one that has stopped the
core, has no event loop unless it was started late (`OnlyLate`), and a start that is
not late can only be one of an operation that leads to a primary, or of a caller that
asked with no operation under way. `TypeCorrect`, and `OneEventLoop`: where the core may be started, no event
loop of an earlier start is left.

**EpochChain** (`EpochMonitorProofs`, `EpochChainProofs`). Assumptions: an epoch
has room for the lookback window and the blocks that are not counted, which the
code demands of its configuration; the elections of each epoch are sequences of
validators with different addresses, out of finitely many. The inductive invariant
is that of two caches, each of which is right about the block it is for, however it
got there:

- the monitor is `Right`: each entry has the number of blocks that count up to the
  last header, and the last block that its validator signed. The second half is
  not in the property, but the next count depends on it;
- cache and disk are right (`RecentRight`, `DiskRight`): the snapshot kept for a
  block that ends an epoch is what the differences of all epochs up to it make of
  the genesis set, by number in the cache and by block on disk.

`EpochMonitorProofs` has the arithmetic of epochs, and shows that one header
counts right (`CountsGrow`), that a sequence of headers does (`AddAllTakes`), and
that each way of `ProcessHeader` to the next block (a clean build, an advance with
or without a fork below, one more header, the same header again) does so from any
monitor that is right and ends at that block (`ProcessHeaderTakes`).
`EpochChainProofs` shows that applying the difference of two sets to the first
gives the members of the second (`ApplyDiff`), that the loop over epochs gives
the signers of the last one from wherever it starts (`SetsAreSigners`), and that
`snapshot` finds, computes and stores what is right (`SnapshotRight`), on the chain
and for headers passed along, so that verification ahead of the chain leaves both
caches right (`HeaderVerified`, `VerifyAheadKeeps`). Theorems:
`TypeCorrect`, `TallyStaysRight`, `EveryoneIsScored`, `NextBlockIsAccepted`,
`SnapshotsStayRight`.

**ProxiedValidator** (`ProxiedValidatorProofs`). Assumptions: finitely many
proxies, and a hash that gives a validator one of the members, whatever its choice.
Between two steps of the thread the assignment is one map and its reverse
(`WellFormed`); each operation leads from one such assignment to another. The loop
of `unassignDisconnectedProxies`, which removes proxies from the map it ranges
over, is covered by induction over its iterations: it comes to an assignment that
agrees with the hash over the proxies that are left, in whatever order and however
many of the entries it meets. `TypeCorrect`, `AssignmentsStayConsistent`, and
`ConnSetStaysAssigned`: no operation but an update on a retrieved set changes who
takes part, and an update that skips its removals has all of the set, so that the
next one on the same set has only removals to make.

Loops and recursive functions. The induction principles of the library take an
operator as a parameter, which the installed provers cannot instantiate. The
modules state induction over a set instead (`Induction`: a set of numbers that has
0 and with each number the next one has them all), proved from the least element
of the complement (`WFMin`), and prove once that a loop has a function of its
states (`Recursion`, `AddAllLoops`, `FilteredLoops`). This covers the recursive
functions of the models. Recursive operators would not be covered; the modules with
theorems have none.

Only model-checked: the liveness properties `EveryoneDecides`, `WaitingEnds`,
`StopsAtStopBlock`, `StartsAtStartBlock`, `ServedInTheEnd`, `TablesSettle` and
`RemovalEnds`, since liveness under fairness is out of the reach of the prover.
The three properties of the violation runs do not hold.

## Not modelled

The EVM, state, tries, transaction pool, synchronisation, light clients and RPC
are go-ethereum's and are seen only through what the consensus code uses of them
(a block is inserted, a message arrives, a connection ends). They are most of the
lines of the repository, sequential code over large data or I/O, and out of the
reach of a model checker. Cryptography is abstract: a signature verifies exactly
if its signer signed. Encodings have no state and are left out, except where 0
stands for nil on disk.

Of `consensus/istanbul` there remain: the announce protocol (a gossip of version
certificates and a table of enodes, on which consensus depends only for
connectivity); the proxy's side of the forwarding; the aggregation and verification
of seals and the randomness beacon; the queue of pending requests; and the timers but
for their firing. `PROJECT.json` says of each hazard that no property covers why; among
them are a proposer that never gets a request, the loss of the timer of a future
preprepare, a command whose write fails, the two deadlocks of a proxy's removal, and
snapshots of forks with different elections.
The core and its database are two models that share their handlers' control and
not a composition: `IstanbulCore` has a database of one cell whose writes do not
fail. `PROJECT.json` gives the reason for each part.
