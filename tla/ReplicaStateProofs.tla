------------------------- MODULE ReplicaStateProofs -------------------------
(***************************************************************************)
(* The replica state always has the blocks that its readers dereference,   *)
(* no second event loop is started beside a first, and none runs in a      *)
(* replica but one that was started late, whatever commands, restarts and  *)
(* failing writes interleave, for every bound.                             *)
(***************************************************************************)
EXTENDS ReplicaState, TLAPS

\* An operation under way leads to a state that is well formed, and the memory
\* differs from the disk only after a write has failed.
Inv ==
    /\ rs \in State /\ rsdb \in State
    /\ mu \in Operation \cup {Free}
    /\ failures \in Nat
    /\ wellFormed(rs) /\ wellFormed(rsdb)
    /\ mu # Free => wellFormed(mu.target)
    /\ mu.phase \in {"undoStart", "undoStop", "undoStopping"} => failures > 0
    /\ failures = 0 => rs = rsdb

\* The states without start and stop blocks are well formed.
LEMMA PermanentState ==
    ASSUME NEW s \in {primaryPermanent, replicaPermanent}
    PROVE  /\ permanent(s) \in State /\ wellFormed(permanent(s))
           /\ IsPrimary(permanent(s)) <=> s = primaryPermanent
  BY ReplicaAssumption DEF permanent, State, Blocks, wellFormed, IsPrimary, nil,
     primaryPermanent, primaryInRange, replicaPermanent, replicaWaiting

\* A new state, stored or not, keeps the invariant.
LEMMA StoreKeepsInv ==
    ASSUME Inv, StoreReplicaState
    PROVE  Inv'
  <1>0. mu \in Operation /\ wellFormed(mu.target) /\ mu.target \in State
    BY DEF StoreReplicaState, Inv, Free, Operation
  <1>1. CASE rs' = mu.target /\ rsdb' = mu.target /\ mu' = Free /\ UNCHANGED failures
    BY <1>0, <1>1 DEF Inv, Free, wellFormed
  <1>2. CASE /\ failures < MaxStoreFailures /\ failures' = failures + 1
             /\ mu' = [mu EXCEPT !.phase = IF mu.op = "MakeReplica" THEN "undoStart"
                                                                    ELSE "undoStop"]
             /\ UNCHANGED <<rs, rsdb>>
    <2>1. /\ mu' \in Operation
          /\ mu'.target = mu.target
          /\ mu'.phase \in {"undoStart", "undoStop"}
      BY <1>0, <1>2 DEF Operation
    <2>2. failures' \in Nat /\ failures' > 0
      BY <1>2 DEF Inv
    <2>. QED  BY <1>0, <1>2, <2>1, <2>2 DEF Inv, wellFormed
  <1>. QED  BY <1>1, <1>2 DEF StoreReplicaState

\* An operation that takes the lock keeps the invariant.
LEMMA BeginKeepsInv ==
    ASSUME Inv, NEW op \in {"NewChainHead", "MakeReplica", "MakePrimary"},
           NEW by \in {"listener", "update", "operator"},
           NEW target \in State, NEW phase \in {"start", "stop", "store"},
           wellFormed(target), begin(op, by, target, phase)
    PROVE  Inv'
  <1>1. /\ mu' \in Operation /\ mu'.target = target /\ mu'.phase = phase
    BY DEF begin, Operation
  <1>2. UNCHANGED <<rs, rsdb, failures>>
    BY DEF begin
  <1>. QED  BY <1>1, <1>2 DEF Inv, wellFormed

\* NewChainHead keeps the invariant.
LEMMA NewChainHeadKeepsInv ==
    ASSUME Inv, mu = Free, NEW n, NEW by \in {"listener", "update"}, NewChainHead(n, by)
    PROVE  Inv'
  <1>1. CASE rs.state = primaryInRange
             /\ begin("NewChainHead", by, permanent(replicaPermanent), "stop")
    BY <1>1, PermanentState, BeginKeepsInv
  <1>2. CASE /\ rs.state = replicaWaiting
             /\ begin("NewChainHead", by,
                      IF rs.stopValidatingBlock = nil THEN permanent(primaryPermanent)
                      ELSE [rs EXCEPT !.state = primaryInRange], "start")
    <2>1. CASE rs.stopValidatingBlock = nil
      BY <1>2, <2>1, PermanentState, BeginKeepsInv
    <2>2. CASE rs.stopValidatingBlock # nil
      <3>. DEFINE t == [rs EXCEPT !.state = primaryInRange]
      <3>1. t \in State /\ wellFormed(t)
        BY <1>2, <2>2 DEF Inv, State, wellFormed, primaryPermanent, primaryInRange,
           replicaPermanent, replicaWaiting
      <3>2. begin("NewChainHead", by, t, "start")
        BY <1>2, <2>2
      <3>. HIDE DEF t
      <3>. QED  BY <3>1, <3>2, BeginKeepsInv
    <2>. QED  BY <2>1, <2>2
  <1>3. CASE UNCHANGED replica
    BY <1>3 DEF Inv, replica, wellFormed, IsPrimary
  <1>. QED  BY <1>1, <1>2, <1>3 DEF NewChainHead

\* The commands that set a start or stop block keep the invariant.
LEMMA SetKeepsInv ==
    ASSUME Inv, mu = Free, NEW r \in State, wellFormed(r), set(r)
    PROVE  Inv'
  BY DEF Inv, set, wellFormed, IsPrimary, Free

\* MakeReplica and MakePrimary keep the invariant.
LEMMA MakeKeepsInv ==
    ASSUME Inv, MakeReplica \/ MakePrimary
    PROVE  Inv'
  <1>1. ASSUME NEW op \in {"MakeReplica", "MakePrimary"},
               NEW s \in {primaryPermanent, replicaPermanent}, NEW call \in {"start", "stop"},
               make(op, s, call)
        PROVE  Inv'
    <2>1. permanent(s) \in State /\ wellFormed(permanent(s))
      BY PermanentState
    <2>2. PICK phase \in {"start", "stop", "store"} : begin(op, "operator", permanent(s), phase)
      BY <1>1, Zenon DEF make
    <2>. QED  BY <2>1, <2>2, BeginKeepsInv
  <1>. QED  BY <1>1 DEF MakeReplica, MakePrimary

\* The calls of startFn and stopFn keep the invariant.
LEMMA CallsKeepInv ==
    ASSUME Inv, startFn \/ stopFn \/ stopFnReturns
    PROVE  Inv'
  <1>0. /\ mu \in Operation /\ mu # Free
        /\ mu.target \in State /\ wellFormed(mu.target)
    <2>1. mu.phase # "none"
      BY DEF startFn, stopFn, stopFnReturns
    <2>2. mu # Free
      BY <2>1 DEF Free
    <2>. QED  BY <2>2 DEF Inv, Operation
  <1>1. ASSUME mu' = [mu EXCEPT !.phase = "store"], UNCHANGED <<rs, rsdb, failures>>
        PROVE  Inv'
    <2>1. mu' \in Operation /\ mu'.target = mu.target /\ mu'.phase = "store"
      BY <1>0, <1>1 DEF Operation
    <2>. QED  BY <1>0, <1>1, <2>1 DEF Inv, wellFormed
  <1>2. ASSUME mu' = Free, UNCHANGED <<rsdb, failures>>,
               rs' = rs \/ (rs' = mu.target /\ failures > 0)
        PROVE  Inv'
    BY <1>0, <1>2 DEF Inv, wellFormed, IsPrimary, Free
  <1>3. CASE startFn
    <2>1. CASE mu.phase = "start"
      BY <1>1, <1>2, <1>3, <2>1 DEF startFn
    <2>2. CASE mu.phase = "undoStart"
      BY <1>2, <1>3, <2>2 DEF startFn, Inv
    <2>. QED  BY <1>3, <2>1, <2>2 DEF startFn
  <1>4. CASE stopFn
    <2>1. CASE ~coreStarted
      BY <1>2, <1>4, <2>1 DEF stopFn, Inv
    <2>2. CASE coreStarted
      <3>1. /\ mu' \in Operation /\ mu'.target = mu.target
            /\ mu'.phase = IF mu.phase = "stop" THEN "stopping" ELSE "undoStopping"
        BY <1>0, <1>4, <2>2 DEF stopFn, Operation
      <3>2. UNCHANGED <<rs, rsdb, failures>>
        BY <1>4, <2>2 DEF stopFn
      <3>3. mu'.phase = "undoStopping" => failures > 0
        BY <1>4, <3>1 DEF stopFn, Inv
      <3>. QED  BY <1>0, <3>1, <3>2, <3>3 DEF Inv, wellFormed
    <2>. QED  BY <2>1, <2>2
  <1>5. CASE stopFnReturns
    <2>1. CASE mu.phase = "stopping"
      BY <1>1, <1>5, <2>1 DEF stopFnReturns
    <2>2. CASE mu.phase = "undoStopping"
      BY <1>2, <1>5, <2>2 DEF stopFnReturns
    <2>. QED  BY <1>5, <2>1, <2>2 DEF stopFnReturns
  <1>. QED  BY <1>3, <1>4, <1>5

\* The range that a start or stop block gives.
LEMMA RangeSet ==
    ASSUME Inv, NEW n \in Blocks,
           NEW r, \/ /\ startAllowed(n)
                     /\ r = [rs EXCEPT !.state = replicaWaiting, !.startValidatingBlock = n]
                  \/ /\ stopAllowed(n)
                     /\ r = [rs EXCEPT !.state = IF IsPrimary(rs) THEN primaryInRange
                                                                  ELSE replicaWaiting,
                                       !.stopValidatingBlock = n]
    PROVE  r \in State /\ wellFormed(r)
  <1>0. n \in Int /\ rs \in State /\ wellFormed(rs)
    BY ReplicaAssumption DEF Inv, Blocks
  <1>1. n > 0
    BY DEF startAllowed, stopAllowed
  <1>2. CASE startAllowed(n) /\ r = [rs EXCEPT !.state = replicaWaiting,
                                               !.startValidatingBlock = n]
    <2>1. /\ r \in State /\ r.state = replicaWaiting /\ r.startValidatingBlock = n
          /\ r.stopValidatingBlock = rs.stopValidatingBlock
      <3>. DEFINE q == [rs EXCEPT !.state = replicaWaiting]
      <3>1. /\ q \in State /\ q.state = replicaWaiting
            /\ q.stopValidatingBlock = rs.stopValidatingBlock
        BY <1>0 DEF State, primaryPermanent, replicaWaiting
      <3>2. r = [q EXCEPT !.startValidatingBlock = n]
        BY <1>2
      <3>. HIDE DEF q
      <3>. QED  BY <3>1, <3>2 DEF State
    <2>2. rs.stopValidatingBlock # nil => n < rs.stopValidatingBlock
      BY <1>2 DEF startAllowed
    <2>. QED  BY <1>0, <1>1, <2>1, <2>2 DEF wellFormed, nil, primaryPermanent,
                 primaryInRange, replicaPermanent, replicaWaiting
  <1>3. CASE stopAllowed(n) /\ r = [rs EXCEPT !.state = IF IsPrimary(rs) THEN primaryInRange
                                                        ELSE replicaWaiting,
                                              !.stopValidatingBlock = n]
    <2>1. /\ r \in State
          /\ r.state = IF IsPrimary(rs) THEN primaryInRange ELSE replicaWaiting
          /\ r.startValidatingBlock = rs.startValidatingBlock
          /\ r.stopValidatingBlock = n
      <3>. DEFINE t == IF IsPrimary(rs) THEN primaryInRange ELSE replicaWaiting
                  q == [rs EXCEPT !.state = t]
      <3>1. /\ q \in State /\ q.state = t
            /\ q.startValidatingBlock = rs.startValidatingBlock
        BY <1>0 DEF State, primaryPermanent, primaryInRange, replicaWaiting
      <3>2. r = [q EXCEPT !.stopValidatingBlock = n]
        BY <1>3
      <3>. HIDE DEF q
      <3>. QED  BY <3>1, <3>2 DEF State
    <2>2. ~IsPrimary(rs) => rs.state = replicaWaiting
      BY <1>0, <1>3 DEF stopAllowed, State, IsPrimary, primaryPermanent, primaryInRange,
         replicaPermanent, replicaWaiting
    <2>3. rs.startValidatingBlock # nil => rs.startValidatingBlock < n
      <3>1. rs.startValidatingBlock \in Int
        BY <1>0, ReplicaAssumption DEF State, Blocks
      <3>. QED  BY <1>0, <1>3, <3>1 DEF stopAllowed
    <2>4. r.state \in {primaryInRange, replicaWaiting}
          /\ (r.state = replicaWaiting => rs.state = replicaWaiting)
      BY <2>1, <2>2 DEF primaryInRange, replicaWaiting
    <2>. QED  BY <1>0, <1>1, <2>1, <2>3, <2>4 DEF wellFormed, nil, primaryPermanent,
                 primaryInRange, replicaPermanent, replicaWaiting
  <1>. QED  BY <1>2, <1>3

\* It holds in the beginning.
LEMMA InitInv == Init => Inv
  BY ReplicaAssumption DEF Init, Inv, Free, Operation, State

\* The invariant is inductive.
LEMMA NextInv ==
    ASSUME Inv, [Next]_vars
    PROVE  Inv'
  <1>1. CASE UNCHANGED replica
    BY <1>1, SMTT(20) DEF Inv, replica, wellFormed, IsPrimary
  <1>2. ASSUME NEW n \in Blocks, SetStartValidatingBlock(n) \/ SetStopValidatingBlock(n)
        PROVE  Inv'
    BY <1>2, RangeSet, SetKeepsInv, Zenon
    DEF SetStartValidatingBlock, SetStopValidatingBlock, command
  <1>3. CASE MakeReplica \/ MakePrimary
    BY <1>3, MakeKeepsInv
  <1>4. CASE startFn \/ stopFn \/ stopFnReturns \/ StoreReplicaState
    BY <1>4, CallsKeepInv, StoreKeepsInv
  <1>5. ASSUME NEW seq \in updates, UpdateReplicaState(seq)
        PROVE  Inv'
    BY <1>5, NewChainHeadKeepsInv DEF UpdateReplicaState
  <1>6. CASE chainEventCalls
    BY <1>6, NewChainHeadKeepsInv DEF chainEventCalls
  <1>7. CASE Crash
    BY <1>7 DEF Crash, Inv, wellFormed, IsPrimary, Free
  <1>8. CASE UNCHANGED vars
    BY <1>1, <1>8 DEF vars
  <1>9. CASE \/ handleFinalCommitted \/ startNewSequence \/ handleEventsReturns
             \/ chainEvent \/ minerIsPrimary \/ minerStartValidating \/ minerStopped
             \/ NewWork \/ insertBlock \/ minerStart \/ minerStop
    BY <1>1, <1>9 DEF handleFinalCommitted, startNewSequence, handleEventsReturns,
       chainEvent, minerIsPrimary, minerStartValidating, minerStopped, NewWork,
       insertBlock, minerStart, minerStop
  <1>. QED  BY <1>2, <1>3, <1>4, <1>5, <1>6, <1>7, <1>8, <1>9 DEF Next, Operator, Progress

\* The replica state is never left half set: NewChainHead and
\* IsPrimaryForSeq find the start or stop block of the state they read, in
\* the running process and after a restart (replica/state.go).
THEOREM RangeIsAlwaysWellFormed == Spec => []RangeWellFormed
  <1>1. Init => Inv
    BY InitInv
  <1>2. Inv /\ [Next]_vars => Inv'
    BY NextInv
  <1>3. Inv => RangeWellFormed
    BY DEF Inv, RangeWellFormed
  <1>. QED  BY <1>1, <1>2, <1>3, PTL DEF Spec

-----------------------------------------------------------------------------
(***************************************************************************)
(* Types, and the one event loop of the core.                              *)
(***************************************************************************)
LoopInv == ~coreStarted => handler = "off"

OtherVars ==
    /\ coreMu \in {"free", "replicaState", "miner"}
    /\ coreStarted \in BOOLEAN /\ subscribed \in BOOLEAN
    /\ handler \in {"off", "select", "startNewSequence"}
    /\ sequence \in Blocks /\ newSequence \in Blocks
    /\ finalCommitted \in BOOLEAN /\ startedLate \in BOOLEAN
    /\ updates \subseteq Blocks
    /\ head \in 0 .. MaxBlock /\ chainEvents \in 0 .. head /\ chainCall \in Blocks
    /\ running \in BOOLEAN /\ callbacks \in BOOLEAN
    /\ miner \in {"idle", "start", "startValidating", "stop"}
    /\ commands \in 0 .. MaxCommands /\ starts \in 0 .. MaxStarts
    /\ stops \in 0 .. MaxStops /\ crashes \in 0 .. MaxCrashes
    /\ LoopInv

Bounded == failures \in 0 .. MaxStoreFailures

\* The block after the head, and none, are blocks.
LEMMA HeadBlocks ==
    ASSUME head \in 0 .. MaxBlock
    PROVE  head + 1 \in Blocks /\ nil \in Blocks
  BY ReplicaAssumption DEF Blocks, nil

\* The operator's commands keep the types of the other variables.
LEMMA OperatorOther ==
    ASSUME OtherVars, Operator
    PROVE  OtherVars'
  <1>1. \E c \in Commands : command(c)
    BY Zenon DEF Operator, SetStartValidatingBlock, SetStopValidatingBlock, MakeReplica,
       MakePrimary, make, command
  <1>2. /\ commands < MaxCommands /\ commands' = commands + 1
        /\ UNCHANGED <<coreMu, core, updates, listener, head, worker, crashes>>
    BY <1>1 DEF command
  <1>. QED
    BY <1>2, ReplicaAssumption, SMTT(20) DEF OtherVars, LoopInv, core, listener, worker

\* So do the calls of startFn and stopFn.
LEMMA CallsOther ==
    ASSUME OtherVars, startFn \/ stopFn \/ stopFnReturns \/ StoreReplicaState
    PROVE  OtherVars'
  <1>1. CASE startFn
    <2>1. /\ startCore(FALSE) \/ UNCHANGED core
          /\ UNCHANGED <<coreMu, updates, listener, head, worker, rest>>
      BY <1>1, Zenon DEF startFn
    <2>2. CASE UNCHANGED core
      BY <2>1, <2>2, SMTT(20) DEF OtherVars, LoopInv, core, listener, worker, rest
    <2>3. CASE startCore(FALSE)
      <3>1. /\ coreStarted' \in BOOLEAN /\ subscribed' \in BOOLEAN /\ startedLate' \in BOOLEAN
            /\ handler' \in {"off", "select", "startNewSequence"} /\ LoopInv'
            /\ UNCHANGED <<newSequence, finalCommitted>>
        BY <2>3 DEF startCore, LoopInv
      <3>2. sequence' \in Blocks
        BY <2>3, HeadBlocks DEF startCore, OtherVars
      <3>. QED  BY <2>1, <3>1, <3>2, ZenonT(20) DEF OtherVars, listener, worker, rest
    <2>. QED  BY <2>1, <2>2, <2>3
  <1>2. CASE stopFn
    BY <1>2, Zenon DEF stopFn, unsubscribe, OtherVars, LoopInv, core, listener, worker, rest
  <1>3. CASE stopFnReturns
    BY <1>3, Zenon DEF stopFnReturns, stopped, handlerEnded, OtherVars, LoopInv, core, listener,
       worker, rest
  <1>4. CASE StoreReplicaState
    <2>1. UNCHANGED <<coreMu, core, updates, listener, head, worker, rest>>
      BY <1>4 DEF StoreReplicaState
    <2>. QED  BY <2>1, SMTT(20) DEF OtherVars, LoopInv, core, listener, worker, rest
  <1>. QED  BY <1>1, <1>2, <1>3, <1>4

\* So does the event loop.
LEMMA LoopOther ==
    ASSUME OtherVars, handleFinalCommitted \/ startNewSequence \/ handleEventsReturns
    PROVE  OtherVars'
  <1>1. CASE handleFinalCommitted
    BY <1>1, HeadBlocks, Zenon DEF handleFinalCommitted, OtherVars, LoopInv, listener, worker, rest
  <1>2. CASE startNewSequence
    BY <1>2, Zenon DEF startNewSequence, spawned, OtherVars, LoopInv, listener, worker, rest
  <1>3. CASE handleEventsReturns
    BY <1>3 DEF handleEventsReturns, OtherVars, LoopInv, listener, worker, rest
  <1>. QED  BY <1>1, <1>2, <1>3

\* So do the listener, the updates and new blocks.
LEMMA ListenerOther ==
    ASSUME OtherVars,
           \/ \E seq \in updates : UpdateReplicaState(seq)
           \/ chainEvent \/ chainEventCalls \/ insertBlock
    PROVE  OtherVars'
  <1>1. CASE \E seq \in updates : UpdateReplicaState(seq)
    BY <1>1 DEF UpdateReplicaState, OtherVars, LoopInv, core, listener, worker, rest
  <1>2. CASE chainEvent
    <2>1. chainEvents < head /\ chainEvents' = chainEvents + 1 /\ head' = head
      BY <1>2 DEF chainEvent
    <2>2. chainEvents' \in 0 .. head' /\ head' \in 0 .. MaxBlock
      BY <2>1, ReplicaAssumption DEF OtherVars
    <2>3. chainCall' \in Blocks
      <3>1. chainEvents + 1 + 1 \in Blocks /\ nil \in Blocks
        BY <2>1, ReplicaAssumption DEF OtherVars, Blocks, nil
      <3>. QED  BY <1>2, <3>1 DEF chainEvent, consensusBlock
    <2>3b. UNCHANGED <<coreMu, core, updates, worker, rest>>
      BY <1>2 DEF chainEvent
    <2>. QED  BY <2>2, <2>3, <2>3b DEF OtherVars, LoopInv, core, worker, rest
  <1>3. CASE chainEventCalls
    BY <1>3, HeadBlocks DEF chainEventCalls, OtherVars, LoopInv, core, worker, rest
  <1>4. CASE insertBlock
    <2>1. head' \in 0 .. MaxBlock /\ chainEvents' \in 0 .. head'
      BY <1>4, ReplicaAssumption DEF insertBlock, listener, OtherVars
    <2>2. UNCHANGED <<coreMu, core, updates, listener, worker, rest>>
      BY <1>4 DEF insertBlock
    <2>. QED  BY <2>1, <2>2 DEF OtherVars, LoopInv, core, listener, worker, rest
  <1>. QED  BY <1>1, <1>2, <1>3, <1>4

\* So does the worker of the miner.
LEMMA MinerOther ==
    ASSUME OtherVars,
           \/ minerStart \/ minerIsPrimary \/ minerStartValidating
           \/ minerStop \/ minerStopped \/ NewWork
    PROVE  OtherVars'
  <1>1. CASE minerStart
    BY <1>1, ReplicaAssumption DEF minerStart, OtherVars, LoopInv, core, listener, rest
  <1>2. CASE minerIsPrimary
    BY <1>2 DEF minerIsPrimary, OtherVars, LoopInv, core, listener, rest
  <1>3. CASE minerStartValidating
    BY <1>3, HeadBlocks, Zenon
    DEF minerStartValidating, startCore, OtherVars, LoopInv, core, listener, rest
  <1>4. CASE minerStop
    <2>1. stops' \in 0 .. MaxStops /\ running' \in BOOLEAN
      <3>1. stops < MaxStops /\ stops' = stops + 1 /\ running' = FALSE
        BY <1>4 DEF minerStop
      <3>2. stops \in 0 .. MaxStops
        BY DEF OtherVars
      <3>3. stops' \in 0 .. MaxStops
        BY <3>1, <3>2, ReplicaAssumption
      <3>4. running' \in BOOLEAN
        BY <3>1, Zenon
      <3>. QED  BY <3>3, <3>4
    <2>2. /\ subscribed' \in {subscribed, FALSE}
          /\ coreMu' \in {coreMu, "miner"} /\ miner' \in {miner, "stop"}
          /\ UNCHANGED <<coreStarted, handler, sequence, newSequence, finalCommitted, startedLate>>
      BY <1>4, Zenon DEF minerStop, unsubscribe, core
    <2>3. UNCHANGED <<callbacks, starts, updates, listener, head, rest>>
      BY <1>4 DEF minerStop
    <2>. QED  BY <2>1, <2>2, <2>3, ZenonT(30) DEF OtherVars, LoopInv, listener, rest
  <1>5. CASE minerStopped
    BY <1>5, Zenon DEF minerStopped, stopped, handlerEnded, OtherVars, LoopInv, core, listener, rest
  <1>6. CASE NewWork
    BY <1>6 DEF NewWork, OtherVars, LoopInv, listener, worker, rest
  <1>. QED  BY <1>1, <1>2, <1>3, <1>4, <1>5, <1>6

\* So does a crash.
LEMMA CrashOther ==
    ASSUME OtherVars, Crash
    PROVE  OtherVars'
  <1>1. crashes' \in 0 .. MaxCrashes /\ head' \in 0 .. MaxBlock /\ chainEvents' \in 0 .. head'
    BY ReplicaAssumption DEF Crash, OtherVars
  <1>. QED  BY <1>1, HeadBlocks, Zenon DEF Crash, OtherVars, LoopInv

\* So does every step.
LEMMA NextOther == OtherVars /\ [Next]_vars => OtherVars'
  <1>. SUFFICES ASSUME OtherVars, [Next]_vars PROVE OtherVars'
    OBVIOUS
  <1>1. CASE UNCHANGED vars
    BY <1>1 DEF vars, OtherVars, LoopInv, core, listener, worker, rest
  <1>2. CASE Progress
    BY <1>2, CallsOther, LoopOther, ListenerOther, MinerOther DEF Progress
  <1>3. CASE minerStart \/ minerStop
    BY <1>3, MinerOther
  <1>4. CASE Operator
    BY <1>4, OperatorOther
  <1>5. CASE Crash
    BY <1>5, CrashOther
  <1>. QED  BY <1>1, <1>2, <1>3, <1>4, <1>5 DEF Next

\* A write fails at most MaxStoreFailures times.
LEMMA NextBounded == Bounded /\ [Next]_vars => Bounded'
  <1>. SUFFICES ASSUME Bounded, [Next]_vars PROVE Bounded'
    OBVIOUS
  <1>1. failures' = failures \/ (failures < MaxStoreFailures /\ failures' = failures + 1)
    <2>1. CASE UNCHANGED vars
      BY <2>1 DEF vars, replica
    <2>2. CASE Operator
      BY <2>2, Zenon DEF Operator, SetStartValidatingBlock, SetStopValidatingBlock, set, MakeReplica,
         MakePrimary, make, begin
    <2>3. CASE startFn \/ stopFn \/ stopFnReturns \/ StoreReplicaState
      BY <2>3 DEF startFn, stopFn, stopFnReturns, StoreReplicaState
    <2>4. CASE chainEventCalls \/ \E seq \in updates : UpdateReplicaState(seq)
      BY <2>4 DEF chainEventCalls, UpdateReplicaState, NewChainHead, begin, replica
    <2>5. CASE \/ handleFinalCommitted \/ startNewSequence \/ handleEventsReturns
               \/ chainEvent \/ minerIsPrimary \/ minerStartValidating \/ minerStopped
               \/ NewWork \/ insertBlock \/ minerStart \/ minerStop
      <3>1. UNCHANGED replica
        BY <2>5 DEF handleFinalCommitted, startNewSequence, handleEventsReturns,
           chainEvent, minerIsPrimary, minerStartValidating, minerStopped, NewWork,
           insertBlock, minerStart, minerStop
      <3>. QED  BY <3>1 DEF replica
    <2>6. CASE Crash
      BY <2>6 DEF Crash
    <2>. QED  BY <2>1, <2>2, <2>3, <2>4, <2>5, <2>6 DEF Next, Progress
  <1>. QED  BY <1>1, ReplicaAssumption DEF Bounded

\* The invariant, the types and the bounds always hold.
LEMMA AllHold == Spec => [](Inv /\ OtherVars /\ Bounded)
  <1>1. Init => OtherVars /\ Bounded
    <2>1. 0 \in Blocks /\ 0 \in 0 .. MaxBlock /\ 0 \in 0 .. MaxCommands /\ 0 \in 0 .. MaxStarts
          /\ 0 \in 0 .. MaxStops /\ 0 \in 0 .. MaxCrashes /\ 0 \in 0 .. MaxStoreFailures
          /\ 0 \in 0 .. 0
      BY ReplicaAssumption DEF Blocks
    <2>. QED  BY <2>1, Zenon DEF Init, OtherVars, LoopInv, Bounded, nil
  <1>2. Inv /\ OtherVars /\ Bounded /\ [Next]_vars => (Inv /\ OtherVars /\ Bounded)'
    BY NextInv, NextOther, NextBounded
  <1>. QED  BY <1>1, <1>2, InitInv, PTL DEF Spec

\* Every variable keeps its type: no block number leaves its range, and the
\* listener is never told of a block beyond the head.
THEOREM TypeCorrect == Spec => []TypeOK
  <1>1. Inv /\ OtherVars /\ Bounded => TypeOK
    BY DEF Inv, OtherVars, Bounded, TypeOK
  <1>. QED  BY <1>1, AllHold, PTL

\* A core is started only when no event loop of an earlier start runs any
\* more: whoever stops it, the miner or the replica state, clears
\* coreStarted when the loop has ended and not before (StartValidating,
\* StopValidating), so a validator never has two event loops.
THEOREM OneEventLoop == Spec => [](canStart => handler = "off")
  <1>1. OtherVars => (canStart => handler = "off")
    BY DEF OtherVars, LoopInv, canStart
  <1>. QED  BY <1>1, AllHold, PTL

-----------------------------------------------------------------------------
(***************************************************************************)
(* The core of a replica.  While no write has failed, an operation that    *)
(* starts the core leads from a replica to a primary, one that stops it is *)
(* one of a primary, and a core that runs in a replica, or in a node that is about  *)
(* to be recorded as one, was started late.                                *)
(***************************************************************************)
OnlyLate == coreStarted => startedLate

SilentInv ==
    failures = 0 =>
        /\ mu = Free /\ ~IsPrimary(rs) => OnlyLate
        /\ mu.phase = "start" => ~IsPrimary(rs) /\ IsPrimary(mu.target) /\ OnlyLate
        /\ mu.phase \in {"stop", "stopping"} => IsPrimary(rs)
        /\ mu.phase = "store" /\ ~IsPrimary(mu.target) => OnlyLate

\* An operation that takes the lock finds the core of a replica as it should be.
LEMMA BeginSilent ==
    ASSUME SilentInv, mu = Free, UNCHANGED core, NEW op, NEW by, NEW target,
           NEW phase \in {"start", "stop", "store"}, begin(op, by, target, phase),
           phase = "start" => ~IsPrimary(rs) /\ IsPrimary(target),
           phase = "stop" => IsPrimary(rs),
           phase = "store" => IsPrimary(target) = IsPrimary(rs)
    PROVE  SilentInv'
  <1>1. mu'.phase = phase /\ mu'.target = target /\ mu' # Free
    BY DEF begin, Free
  <1>2. UNCHANGED <<rs, failures, coreStarted, startedLate>>
    BY DEF begin, core
  <1>. QED  BY <1>1, <1>2 DEF SilentInv, OnlyLate

\* The operations that begin keep it.
LEMMA OperationsSilent ==
    ASSUME Inv, SilentInv, mu = Free, UNCHANGED core,
           \/ MakeReplica \/ MakePrimary
           \/ \E n, by : NewChainHead(n, by)
    PROVE  SilentInv'
  <1>1. ASSUME NEW op, NEW s, NEW call \in {"start", "stop"}, make(op, s, call),
               call = "start" => IsPrimary(permanent(s)),
               call = "stop" => ~IsPrimary(permanent(s))
        PROVE  SilentInv'
    <2>1. CASE IsPrimary(rs) = IsPrimary(permanent(s))
      BY <1>1, <2>1, BeginSilent DEF make
    <2>2. CASE IsPrimary(rs) # IsPrimary(permanent(s))
      <3>1. /\ call = "start" => ~IsPrimary(rs) /\ IsPrimary(permanent(s))
            /\ call = "stop" => IsPrimary(rs)
        BY <1>1, <2>2 DEF IsPrimary
      <3>2. begin(op, "operator", permanent(s), call)
        BY <1>1, <2>2 DEF make
      <3>. QED  BY <3>1, <3>2, BeginSilent
    <2>. QED  BY <2>1, <2>2
  <1>2. CASE MakeReplica
    BY <1>1, <1>2, PermanentState DEF MakeReplica, primaryPermanent, replicaPermanent
  <1>3. CASE MakePrimary
    BY <1>1, <1>3, PermanentState DEF MakePrimary, primaryPermanent, replicaPermanent
  <1>4. ASSUME NEW n, NEW by, NewChainHead(n, by)
        PROVE  SilentInv'
    <2>1. CASE rs.state = primaryInRange
               /\ begin("NewChainHead", by, permanent(replicaPermanent), "stop")
      BY <2>1, BeginSilent DEF IsPrimary
    <2>2. ASSUME NEW t, rs.state = replicaWaiting, IsPrimary(t),
                 begin("NewChainHead", by, t, "start")
          PROVE  SilentInv'
      <3>1. ~IsPrimary(rs)
        BY <2>2 DEF IsPrimary, primaryPermanent, primaryInRange, replicaWaiting
      <3>. QED  BY <2>2, <3>1, BeginSilent
    <2>3. /\ IsPrimary(permanent(primaryPermanent))
          /\ rs.state = replicaWaiting => IsPrimary([rs EXCEPT !.state = primaryInRange])
      BY DEF Inv, State, permanent, IsPrimary
    <2>4. CASE UNCHANGED replica
      BY <2>4 DEF replica, core, SilentInv, OnlyLate
    <2>. QED  BY <1>4, <2>1, <2>2, <2>3, <2>4 DEF NewChainHead
  <1>. QED  BY <1>2, <1>3, <1>4

\* So do the calls of startFn and stopFn, and the store.
LEMMA CallsSilent ==
    ASSUME Inv, SilentInv, startFn \/ stopFn \/ stopFnReturns \/ StoreReplicaState
    PROVE  SilentInv'
  <1>. SUFFICES ASSUME failures' = 0 PROVE SilentInv'
    BY DEF SilentInv
  <1>0. failures = 0 /\ mu \in Operation
    <2>1. mu.phase # "none"
      BY DEF startFn, stopFn, stopFnReturns, StoreReplicaState
    <2>2. failures' = failures \/ failures' = failures + 1
      BY Zenon DEF startFn, stopFn, stopFnReturns, StoreReplicaState
    <2>. QED  BY <2>1, <2>2 DEF Inv, Free
  <1>1. Free.phase = "none"
    BY DEF Free
  <1>2. CASE startFn
    <2>0. mu.phase \in {"start", "undoStart"} /\ (mu.phase = "start" => rs' = rs)
      BY <1>2, Zenon DEF startFn
    <2>1. mu.phase = "start" /\ rs' = rs
      BY <1>0, <2>0 DEF Inv
    <2>2. CASE canStart
      <3>1. mu'.phase = "store" /\ mu' # Free /\ mu'.target = mu.target
        <4>1. mu' = [mu EXCEPT !.phase = "store"]
          BY <1>2, <2>1, <2>2 DEF startFn
        <4>. QED  BY <1>0, <1>1, <4>1 DEF Operation
      <3>2. IsPrimary(mu.target)
        BY <1>0, <2>1 DEF SilentInv
      <3>. QED  BY <3>1, <3>2 DEF SilentInv
    <2>3. CASE ~canStart
      BY <1>0, <1>1, <1>2, <2>1, <2>3 DEF startFn, SilentInv, OnlyLate, core
    <2>. QED  BY <2>2, <2>3
  <1>3. CASE stopFn
    <2>1. mu.phase = "stop" /\ rs' = rs /\ IsPrimary(rs)
      BY <1>0, <1>3 DEF stopFn, Inv, SilentInv
    <2>2. mu' = Free \/ mu'.phase = "stopping"
      BY <1>0, <1>3, <2>1 DEF stopFn, Operation
    <2>. QED  BY <1>1, <2>1, <2>2 DEF SilentInv
  <1>4. CASE stopFnReturns
    <2>1. OnlyLate' /\ rs' = rs
      BY <1>4 DEF stopFnReturns, stopped, OnlyLate
    <2>2. mu' = Free \/ mu'.phase = "store"
      BY <1>0, <1>4 DEF stopFnReturns, Operation
    <2>. QED  BY <1>1, <2>1, <2>2 DEF SilentInv
  <1>5. CASE StoreReplicaState
    <2>1. rs' = mu.target /\ mu' = Free /\ UNCHANGED core
      BY <1>0, <1>5 DEF StoreReplicaState, Inv
    <2>2. mu.phase = "store"
      BY <1>5 DEF StoreReplicaState
    <2>. QED  BY <1>0, <1>1, <2>1, <2>2 DEF SilentInv, OnlyLate, core
  <1>. QED  BY <1>2, <1>3, <1>4, <1>5

\* So does every step: only the worker starts the core beside an operation or
\* in a replica, and it does so late.
LEMMA NextSilent == Inv /\ SilentInv /\ [Next]_vars => SilentInv'
  <1>. SUFFICES ASSUME Inv, SilentInv, [Next]_vars PROVE SilentInv'
    OBVIOUS
  <1>1. ASSUME UNCHANGED replica, OnlyLate => OnlyLate'
        PROVE  SilentInv'
    BY <1>1 DEF replica, SilentInv
  <1>2. CASE \/ handleFinalCommitted \/ startNewSequence \/ handleEventsReturns
             \/ chainEvent \/ minerIsPrimary \/ NewWork \/ insertBlock \/ minerStart
             \/ minerStop \/ minerStopped \/ UNCHANGED vars
    <2>1. UNCHANGED replica /\ (coreStarted' => coreStarted) /\ UNCHANGED startedLate
      BY <1>2 DEF handleFinalCommitted, startNewSequence, handleEventsReturns, chainEvent,
         minerIsPrimary, minerStop, minerStopped, unsubscribe, stopped, NewWork, insertBlock,
         minerStart, vars, core
    <2>. QED  BY <1>1, <2>1 DEF OnlyLate
  <1>3. CASE minerStartValidating
    <2>1. CASE UNCHANGED core
      BY <1>1, <1>3, <2>1 DEF minerStartValidating, core, OnlyLate
    <2>2. CASE startCore(mu # Free \/ ~IsPrimary(rs))
      <3>1. startedLate' = (mu # Free \/ ~IsPrimary(rs)) /\ UNCHANGED replica
        BY <1>3, <2>2 DEF minerStartValidating, startCore
      <3>2. CASE mu # Free \/ ~IsPrimary(rs)
        BY <1>1, <3>1, <3>2 DEF OnlyLate
      <3>3. CASE mu = Free /\ IsPrimary(rs)
        BY <3>1, <3>3 DEF SilentInv, replica, Free
      <3>. QED  BY <3>2, <3>3
    <2>. QED  BY <1>3, <2>1, <2>2 DEF minerStartValidating
  <1>4. CASE startFn \/ stopFn \/ stopFnReturns \/ StoreReplicaState
    BY <1>4, CallsSilent
  <1>5. CASE MakeReplica \/ MakePrimary
    <2>1. mu = Free /\ UNCHANGED core
      BY <1>5 DEF MakeReplica, MakePrimary, make, command
    <2>. QED  BY <1>5, <2>1, OperationsSilent
  <1>6. CASE chainEventCalls \/ \E seq \in updates : UpdateReplicaState(seq)
    BY <1>6, OperationsSilent DEF chainEventCalls, UpdateReplicaState
  <1>7. ASSUME NEW n \in Blocks, SetStartValidatingBlock(n) \/ SetStopValidatingBlock(n)
        PROVE  SilentInv'
    <2>1. mu = Free /\ mu' = mu /\ UNCHANGED core
      BY <1>7 DEF SetStartValidatingBlock, SetStopValidatingBlock, set, command
    <2>2. \/ failures' # 0
          \/ failures' = failures /\ (IsPrimary(rs) => IsPrimary(rs'))
      <3>1. CASE SetStartValidatingBlock(n)
        BY <3>1 DEF SetStartValidatingBlock, startAllowed, set, Inv
      <3>2. CASE SetStopValidatingBlock(n)
        <4>1. \/ /\ rs' = [rs EXCEPT !.state = IF IsPrimary(rs) THEN primaryInRange
                                                              ELSE replicaWaiting,
                                   !.stopValidatingBlock = n]
                 /\ failures' = failures
              \/ failures' = failures + 1
          BY <3>2, Zenon DEF SetStopValidatingBlock, set
        <4>2. ASSUME IsPrimary(rs), failures' = failures
              PROVE  rs'.state = primaryInRange
          <5>1. rs' = [rs EXCEPT !.state = primaryInRange, !.stopValidatingBlock = n]
            BY <4>1, <4>2 DEF Inv
          <5>. QED  BY <5>1 DEF Inv, State
        <4>. QED  BY <4>1, <4>2 DEF Inv, IsPrimary
      <3>. QED  BY <1>7, <3>1, <3>2
    <2>. QED  BY <2>1, <2>2 DEF SilentInv, OnlyLate, core, Free
  <1>8. CASE Crash
    BY <1>8 DEF Crash, SilentInv, OnlyLate, Free
  <1>. QED  BY <1>2, <1>3, <1>4, <1>5, <1>6, <1>7, <1>8 DEF Next, Operator, Progress

\* While every write succeeds, the core of a replica is stopped and its event
\* loop has ended (MakeReplica, NewChainHead and the wait in core.Stop), unless
\* the worker, which asks whether the node is primary and starts the core
\* later, started it: nothing else lets a node vote after it was made a replica.
THEOREM ReplicaStaysSilent == Spec => []ReplicaIsSilent
  <1>1. Init => SilentInv
    BY DEF Init, SilentInv, OnlyLate, Free
  <1>2. Inv /\ OtherVars /\ SilentInv => ReplicaIsSilent
    BY DEF OtherVars, LoopInv, SilentInv, OnlyLate, ReplicaIsSilent
  <1>. QED  BY <1>1, <1>2, NextSilent, AllHold, PTL DEF Spec

=============================================================================
