---------------------------- MODULE ReplicaState ----------------------------
(***************************************************************************)
(* Whether a validator is primary or replica, and the start and stop of    *)
(* its consensus core (backend/internal/replica/state.go, its callers in   *)
(* backend/, core/ and miner/).  Five kinds of goroutine interleave: the   *)
(* event loop of the core, the goroutines it spawns to update the state,   *)
(* the listener of chain events, the operator's commands and the miner.    *)
(* They share two locks: mu, of the replica state, which an operation      *)
(* holds while it starts or stops the core, and coreMu, which              *)
(* StopValidating holds while it waits for the event loop to end.          *)
(***************************************************************************)
EXTENDS Integers

CONSTANTS InitialStates,      \* the replica states a node may be started with
          Commands,           \* the operator's commands that are used
          MaxBlock,           \* bounds: blocks of the chain,
          MaxCommands,        \* commands,
          MaxStarts,          \* starts of the miner,
          MaxStops,           \* stops of the miner,
          MaxCrashes,         \* restarts of the node
          MaxStoreFailures    \* and failing writes of the database

nil == 0   \* a *big.Int that is nil; RLP writes it as 0, DecodeRLP reads 0 as nil

primaryPermanent == 0
primaryInRange == 1
replicaPermanent == 2
replicaWaiting == 3

Blocks == 0 .. MaxBlock + 1
State == [state : primaryPermanent .. replicaWaiting,
          startValidatingBlock : Blocks, stopValidatingBlock : Blocks]

permanent(s) == [state |-> s, startValidatingBlock |-> nil, stopValidatingBlock |-> nil]

IsPrimary(r) == r.state \in {primaryPermanent, primaryInRange}

\* If a range is set, start <= seq < stop.
IsPrimaryForSeq(r, seq) ==
    \/ r.state = primaryPermanent
    \/ r.state = replicaWaiting /\ seq >= r.startValidatingBlock
    \/ r.state = primaryInRange /\ seq < r.stopValidatingBlock

\* The permanent states have no range, a waiting replica has a start and a
\* primary in range has a stop.
wellFormed(r) ==
    LET start == r.startValidatingBlock
        stop  == r.stopValidatingBlock
    IN  /\ r.state \in {primaryPermanent, replicaPermanent} => start = nil /\ stop = nil
        /\ r.state = primaryInRange => stop # nil
        /\ r.state = replicaWaiting => start # nil
        /\ start # nil /\ stop # nil => start < stop

ASSUME ReplicaAssumption ==
    /\ MaxBlock \in Nat /\ MaxCommands \in Nat /\ MaxStarts \in Nat /\ MaxStops \in Nat
    /\ MaxCrashes \in Nat /\ MaxStoreFailures \in Nat
    /\ InitialStates \subseteq {r \in State : wellFormed(r)}

VARIABLES
    rs,             \* the replica state in memory, as it is seen when mu is free,
    rsdb,           \* and in its database
    mu,             \* Free, or the operation that holds rs.mu
    coreMu,         \* "free", or who is in StopValidating: "replicaState", "miner"
    coreStarted,
    subscribed,     \* the core is subscribed to its events
    handler,        \* its event loop: "off", "select" or "startNewSequence"
    sequence,       \* the sequence of the core,
    newSequence,    \* and the one that its event loop is about to start
    finalCommitted, \* a FinalCommittedEvent is on its way
    startedLate,    \* history: how the core was last started, see startCore
    updates,        \* the UpdateReplicaState goroutines, by their argument
    chainEvents,    \* the blocks the listener has been told of
    chainCall,      \* the argument of its pending NewChainHead, or nil
    head,           \* number of the head block
    running,        \* the worker of the miner runs
    callbacks,      \* SetCallBacks has been called
    miner,          \* "idle", "start", "startValidating" or "stop"
    commands, starts, stops, crashes, failures

replica == <<rs, rsdb, mu, failures>>
core == <<coreStarted, subscribed, handler, sequence, newSequence, finalCommitted, startedLate>>
listener == <<chainEvents, chainCall>>
worker == <<running, callbacks, miner, starts, stops>>
rest == <<commands, crashes>>
vars == <<replica, coreMu, core, updates, listener, head, worker, rest>>

\* An operation: what it is, who called it, the state it leads to and what it
\* does next: call startFn or stopFn ("undo..." after a failed write), or store.
Operation == [op : {"NewChainHead", "MakeReplica", "MakePrimary"},
              by : {"listener", "update", "operator"}, target : State,
              phase : {"start", "stop", "stopping", "store",
                       "undoStart", "undoStop", "undoStopping"}]
Free == [op |-> "none", by |-> "nobody", phase |-> "none"]

TypeOK ==
    /\ rs \in State /\ rsdb \in State
    /\ mu \in Operation \cup {Free}
    /\ coreMu \in {"free", "replicaState", "miner"}
    /\ coreStarted \in BOOLEAN /\ subscribed \in BOOLEAN
    /\ handler \in {"off", "select", "startNewSequence"}
    /\ sequence \in Blocks /\ newSequence \in Blocks
    /\ finalCommitted \in BOOLEAN /\ startedLate \in BOOLEAN
    /\ updates \subseteq Blocks
    /\ head \in 0 .. MaxBlock /\ chainEvents \in 0 .. head /\ chainCall \in Blocks
    /\ running \in BOOLEAN /\ callbacks \in BOOLEAN
    /\ miner \in {"idle", "start", "startValidating", "stop"}
    /\ commands \in 0 .. MaxCommands /\ starts \in 0 .. MaxStarts
    /\ stops \in 0 .. MaxStops /\ crashes \in 0 .. MaxCrashes
    /\ failures \in 0 .. MaxStoreFailures

\* NewState, of a node that has never run, or of one that has.
Init ==
    /\ rs \in InitialStates /\ rsdb = rs
    /\ mu = Free /\ coreMu = "free"
    /\ coreStarted = FALSE /\ subscribed = FALSE /\ handler = "off"
    /\ sequence = 0 /\ newSequence = 0 /\ finalCommitted = FALSE
    /\ startedLate = FALSE
    /\ updates = {} /\ chainEvents = 0 /\ chainCall = nil /\ head = 0
    /\ running = FALSE /\ callbacks = FALSE /\ miner = "idle"
    /\ commands = 0 /\ starts = 0 /\ stops = 0 /\ crashes = 0 /\ failures = 0

-----------------------------------------------------------------------------
(***************************************************************************)
(* StartValidating and StopValidating of the backend, with coreMu free.    *)
(***************************************************************************)
canStart == callbacks /\ ~coreStarted

\* late: by a caller that asked whether the node is primary, and then left mu,
\* while now the node is a replica or an operation is under way.
startCore(late) ==
    /\ coreStarted' = TRUE /\ subscribed' = TRUE
    /\ handler' = "select"
    /\ sequence' = head + 1
    /\ startedLate' = late
    /\ UNCHANGED <<newSequence, finalCommitted>>

\* core.Stop unsubscribes, and waits for the event loop
unsubscribe ==
    /\ subscribed' = FALSE
    /\ UNCHANGED <<coreStarted, handler, sequence, newSequence, finalCommitted, startedLate>>

handlerEnded_NoWait == TRUE

handlerEnded == handler = "off"

stopped ==
    /\ coreStarted' = FALSE
    /\ UNCHANGED <<subscribed, handler, sequence, newSequence, finalCommitted, startedLate>>

-----------------------------------------------------------------------------
(***************************************************************************)
(* The operations on the replica state.  Those that start or stop the core *)
(* take mu, make their call, which takes and leaves coreMu, store the new  *)
(* state and leave mu.  If the state cannot be stored, a command makes the *)
(* opposite call and takes the new state back, unless that call fails too; *)
(* NewChainHead ends the process, which is a Crash before the state is     *)
(* stored.                                                                 *)
(***************************************************************************)
begin(op, by, target, phase) ==
    /\ mu' = [op |-> op, by |-> by, target |-> target, phase |-> phase]
    /\ UNCHANGED <<rs, rsdb, failures>>

\* The call of startFn returns.
startFn ==
    /\ mu.phase \in {"start", "undoStart"}
    /\ coreMu = "free"
    /\ IF canStart
       THEN /\ startCore(FALSE)
            /\ mu' = IF mu.phase = "start" THEN [mu EXCEPT !.phase = "store"] ELSE Free
            /\ UNCHANGED rs
       ELSE /\ mu' = Free
            /\ rs' = IF mu.phase = "start" THEN rs ELSE mu.target
            /\ UNCHANGED core
    /\ UNCHANGED <<rsdb, failures, coreMu, updates, listener, head, worker, rest>>

\* The call of stopFn fails, or waits for the event loop ...
stopFn ==
    /\ mu.phase \in {"stop", "undoStop"}
    /\ coreMu = "free"
    /\ IF coreStarted
       THEN /\ unsubscribe
            /\ coreMu' = "replicaState"
            /\ mu' = [mu EXCEPT !.phase = IF @ = "stop" THEN "stopping" ELSE "undoStopping"]
            /\ UNCHANGED rs
       ELSE /\ mu' = Free
            /\ rs' = IF mu.phase = "stop" THEN rs ELSE mu.target
            /\ UNCHANGED <<coreMu, core>>
    /\ UNCHANGED <<rsdb, failures, updates, listener, head, worker, rest>>

\* ... and returns.
stopFnReturns ==
    /\ mu.phase \in {"stopping", "undoStopping"}
    /\ handlerEnded
    /\ stopped
    /\ coreMu' = "free"
    /\ mu' = IF mu.phase = "stopping" THEN [mu EXCEPT !.phase = "store"] ELSE Free
    /\ UNCHANGED <<rs, rsdb, failures, updates, listener, head, worker, rest>>

StoreReplicaState ==
    /\ mu.phase = "store"
    /\ \/ /\ rs' = mu.target /\ rsdb' = mu.target
          /\ mu' = Free
          /\ UNCHANGED failures
       \/ /\ mu.op # "NewChainHead"
          /\ failures < MaxStoreFailures
          /\ failures' = failures + 1
          /\ mu' = [mu EXCEPT !.phase = IF mu.op = "MakeReplica" THEN "undoStart" ELSE "undoStop"]
          /\ UNCHANGED <<rs, rsdb>>
    /\ UNCHANGED <<coreMu, core, updates, listener, head, worker, rest>>

NewChainHead(blockNumber, by) ==
    \/ /\ rs.state = primaryInRange /\ blockNumber >= rs.stopValidatingBlock
       /\ begin("NewChainHead", by, permanent(replicaPermanent), "stop")
    \/ /\ rs.state = replicaWaiting /\ blockNumber >= rs.startValidatingBlock
       /\ begin("NewChainHead", by,
                IF rs.stopValidatingBlock = nil THEN permanent(primaryPermanent)
                ELSE [rs EXCEPT !.state = primaryInRange], "start")
    \/ /\ ~ (rs.state = primaryInRange /\ blockNumber >= rs.stopValidatingBlock)
       /\ ~ (rs.state = replicaWaiting /\ blockNumber >= rs.startValidatingBlock)
       /\ UNCHANGED replica

command(c) ==
    /\ c \in Commands
    /\ mu = Free
    /\ commands < MaxCommands
    /\ commands' = commands + 1
    /\ UNCHANGED <<coreMu, core, updates, listener, head, worker, crashes>>

\* A start or stop block is set; if it cannot be stored nothing changes.
set(r) ==
    \/ rs' = r /\ rsdb' = r /\ UNCHANGED <<mu, failures>>
    \/ /\ failures < MaxStoreFailures /\ failures' = failures + 1
       /\ UNCHANGED <<rs, rsdb, mu>>

startAllowed(blockNumber) ==
    /\ blockNumber >= head
    /\ blockNumber > 0
    /\ rs.stopValidatingBlock # nil => blockNumber < rs.stopValidatingBlock
    /\ ~IsPrimary(rs)

SetStartValidatingBlock(blockNumber) ==
    /\ command("SetStartValidatingBlock")
    /\ startAllowed(blockNumber)
    /\ set([rs EXCEPT !.state = replicaWaiting, !.startValidatingBlock = blockNumber])

stopAllowed_AnyStart(blockNumber) ==
    /\ blockNumber >= head
    /\ blockNumber > 0
    /\ rs.state # replicaPermanent

stopAllowed(blockNumber) ==
    /\ blockNumber >= head
    /\ blockNumber > 0
    /\ rs.startValidatingBlock # nil => blockNumber > rs.startValidatingBlock
    /\ rs.state # replicaPermanent

SetStopValidatingBlock(blockNumber) ==
    /\ command("SetStopValidatingBlock")
    /\ stopAllowed(blockNumber)
    /\ set([rs EXCEPT !.state = IF IsPrimary(rs) THEN primaryInRange ELSE replicaWaiting,
                      !.stopValidatingBlock = blockNumber])

\* One of the two commands that make the node what it may be already.
make(op, s, call) ==
    /\ command(op)
    /\ begin(op, "operator", permanent(s),
             IF IsPrimary(rs) = IsPrimary(permanent(s)) THEN "store" ELSE call)

MakeReplica == make("MakeReplica", replicaPermanent, "stop")
MakePrimary == make("MakePrimary", primaryPermanent, "start")

-----------------------------------------------------------------------------
(***************************************************************************)
(* The event loop of the core: of its events, the one that starts a new    *)
(* sequence.  The sequence is computed before the replica state is asked.  *)
(***************************************************************************)
handleFinalCommitted ==
    /\ handler = "select" /\ subscribed
    /\ finalCommitted
    /\ finalCommitted' = FALSE
    /\ IF head >= sequence
       THEN handler' = "startNewSequence" /\ newSequence' = head + 1
       ELSE UNCHANGED <<handler, newSequence>>
    /\ UNCHANGED <<coreStarted, subscribed, sequence, startedLate, replica, coreMu, updates,
                   listener, head, worker, rest>>

spawned_None == updates

\* go UpdateReplicaState(newView.Sequence)
spawned == updates \cup {newSequence}

startNewSequence ==
    /\ handler = "startNewSequence"
    /\ mu = Free
    /\ handler' = "select"
    /\ IF IsPrimaryForSeq(rs, newSequence)
       THEN sequence' = newSequence /\ UNCHANGED <<subscribed, updates>>
       ELSE subscribed' = FALSE /\ updates' = spawned /\ UNCHANGED sequence
    /\ UNCHANGED <<coreStarted, newSequence, finalCommitted, startedLate, replica, coreMu,
                   listener, head, worker, rest>>

\* The channel of events is closed.
handleEventsReturns ==
    /\ handler = "select" /\ ~subscribed
    /\ handler' = "off"
    /\ UNCHANGED <<coreStarted, subscribed, sequence, newSequence, finalCommitted, startedLate,
                   replica, coreMu, updates, listener, head, worker, rest>>

UpdateReplicaState(seq) ==
    /\ seq \in updates
    /\ mu = Free
    /\ NewChainHead(seq, "update")
    /\ updates' = updates \ {seq}
    /\ UNCHANGED <<coreMu, core, listener, head, worker, rest>>

-----------------------------------------------------------------------------
(***************************************************************************)
(* The chain and the listener of its events, which updates the replica     *)
(* state while the core is stopped.                                        *)
(***************************************************************************)
insertBlock ==
    /\ head < MaxBlock
    /\ head' = head + 1
    /\ UNCHANGED <<replica, coreMu, core, updates, listener, worker, rest>>

consensusBlock_Late(number) == number + 2

consensusBlock(number) == number + 1

listens_WhenStarted == coreStarted

listens == ~coreStarted

chainEvent ==
    /\ chainCall = nil /\ mu.by # "listener"
    /\ chainEvents < head
    /\ chainEvents' = chainEvents + 1
    /\ chainCall' = IF listens THEN consensusBlock(chainEvents + 1) ELSE nil
    /\ UNCHANGED <<replica, coreMu, core, updates, head, worker, rest>>

chainEventCalls ==
    /\ chainCall # nil
    /\ mu = Free
    /\ NewChainHead(chainCall, "listener")
    /\ chainCall' = nil
    /\ UNCHANGED <<coreMu, core, updates, chainEvents, head, worker, rest>>

-----------------------------------------------------------------------------
(***************************************************************************)
(* The miner: start and stop of its worker, and the call of NewWork that   *)
(* follows a new head.                                                     *)
(***************************************************************************)
minerStart ==
    /\ miner = "idle" /\ ~running
    /\ coreMu = "free"
    /\ starts < MaxStarts
    /\ starts' = starts + 1
    /\ running' = TRUE
    /\ callbacks' = TRUE
    /\ miner' = "start"
    /\ UNCHANGED <<stops, replica, coreMu, core, updates, listener, head, rest>>

minerIsPrimary ==
    /\ miner = "start"
    /\ mu = Free
    /\ miner' = IF IsPrimary(rs) THEN "startValidating" ELSE "idle"
    /\ UNCHANGED <<running, callbacks, starts, stops, replica, coreMu, core, updates,
                   listener, head, rest>>

\* The worker starts the core on the answer it got before.
minerStartValidating ==
    /\ miner = "startValidating"
    /\ coreMu = "free"
    /\ miner' = "idle"
    /\ IF canStart THEN startCore(mu # Free \/ ~IsPrimary(rs)) ELSE UNCHANGED core
    /\ UNCHANGED <<running, callbacks, starts, stops, replica, coreMu, updates, listener,
                   head, rest>>

minerStop ==
    /\ miner = "idle"
    /\ coreMu = "free"
    /\ stops < MaxStops
    /\ stops' = stops + 1
    /\ running' = FALSE
    /\ IF coreStarted
       THEN unsubscribe /\ coreMu' = "miner" /\ miner' = "stop"
       ELSE UNCHANGED <<core, coreMu, miner>>
    /\ UNCHANGED <<callbacks, starts, replica, updates, listener, head, rest>>

minerStopped ==
    /\ miner = "stop"
    /\ handlerEnded
    /\ stopped
    /\ coreMu' = "free"
    /\ miner' = "idle"
    /\ UNCHANGED <<running, callbacks, starts, stops, replica, updates, listener, head, rest>>

NewWork ==
    /\ running /\ coreStarted
    /\ coreMu = "free"
    /\ ~finalCommitted
    /\ finalCommitted' = TRUE
    /\ UNCHANGED <<coreStarted, subscribed, handler, sequence, newSequence, startedLate, replica,
                   coreMu, updates, listener, head, worker, rest>>

-----------------------------------------------------------------------------
\* The process ends, and the next one reads the replica state back.
Crash ==
    /\ crashes < MaxCrashes
    /\ crashes' = crashes + 1
    /\ rs' = rsdb /\ mu' = Free /\ coreMu' = "free"
    /\ coreStarted' = FALSE /\ subscribed' = FALSE /\ handler' = "off"
    /\ finalCommitted' = FALSE /\ startedLate' = FALSE
    /\ updates' = {} /\ chainEvents' = head /\ chainCall' = nil
    /\ running' = FALSE /\ callbacks' = FALSE /\ miner' = "idle"
    /\ UNCHANGED <<rsdb, failures, sequence, newSequence, head, starts, stops, commands>>

Operator ==
    \/ \E n \in Blocks : SetStartValidatingBlock(n) \/ SetStopValidatingBlock(n)
    \/ MakeReplica \/ MakePrimary

\* The steps a goroutine takes without being asked to.
Progress ==
    \/ startFn \/ stopFn \/ stopFnReturns \/ StoreReplicaState
    \/ handleFinalCommitted \/ startNewSequence \/ handleEventsReturns
    \/ \E seq \in updates : UpdateReplicaState(seq)
    \/ chainEvent \/ chainEventCalls
    \/ minerIsPrimary \/ minerStartValidating \/ minerStopped
    \/ NewWork \/ insertBlock

Next == Operator \/ Progress \/ minerStart \/ minerStop \/ Crash

Spec == Init /\ [][Next]_vars

\* Every goroutine that can go on does, the worker calls NewWork again and
\* again, and the network produces blocks.  Commands, starts and stops of
\* the miner and crashes need not happen.
Fairness ==
    /\ WF_vars(startFn) /\ WF_vars(stopFn) /\ WF_vars(stopFnReturns)
    /\ WF_vars(StoreReplicaState)
    /\ WF_vars(handleFinalCommitted) /\ WF_vars(startNewSequence)
    /\ WF_vars(handleEventsReturns)
    /\ \A seq \in Blocks : WF_vars(UpdateReplicaState(seq))
    /\ WF_vars(chainEvent) /\ WF_vars(chainEventCalls)
    /\ WF_vars(minerIsPrimary) /\ WF_vars(minerStartValidating) /\ WF_vars(minerStopped)
    /\ WF_vars(NewWork) /\ WF_vars(insertBlock)

FairSpec == Spec /\ Fairness

-----------------------------------------------------------------------------
(***************************************************************************)
(* Properties.                                                             *)
(***************************************************************************)

\* In memory and on disk a waiting replica has a start block, a primary in
\* range has a stop block, the permanent states have neither, and the start
\* is before the stop: NewChainHead and IsPrimaryForSeq dereference the
\* blocks of the state they find, and a restart finds the one on disk.
RangeWellFormed == wellFormed(rs) /\ wellFormed(rsdb)

\* Once the command or NewChainHead that makes the node a replica has returned,
\* another node may take over with the same key, and the two must not both
\* vote: as long as the node is a replica and no operation is under way, no
\* event loop runs and the core is stopped, unless the worker of the miner
\* started it late, on an answer of IsPrimary from before.  It is claimed while
\* every write of the database succeeds.
ReplicaIsSilent ==
    failures = 0 /\ mu = Free /\ ~IsPrimary(rs) /\ ~startedLate
        => handler = "off" /\ ~coreStarted

\* A core that validates below its stop block is eventually stopped and the
\* node a replica: the event loop leaves, NewChainHead waits for it.  One that
\* the worker starts late ends with the next block, where the chain has one.
StopsAtStopBlock ==
    rs.state = primaryInRange /\ subscribed /\ sequence < rs.stopValidatingBlock
        ~> /\ rs.state = replicaPermanent
           /\ handler = "off" \/ (startedLate /\ sequence > MaxBlock)

\* A replica that waits for a block which the listener has not seen yet
\* eventually validates.
StartsAtStartBlock ==
    rs.state = replicaWaiting /\ callbacks /\ chainEvents + 1 < rs.startValidatingBlock
        ~> IsPrimary(rs) /\ handler # "off"

\* "MakeReplica clears the start/stop state & stops this node from
\* participating in consensus" (backend/engine.go:819): once the command has
\* taken mu the core is stopped.
MakeReplicaStopsCore == mu.op = "MakeReplica" ~> ~coreStarted

=============================================================================
