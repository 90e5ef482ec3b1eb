----------------------------- MODULE EpochChain -----------------------------
(***************************************************************************)
(* What a node keeps of an epoch while its chain grows: the snapshots of   *)
(* the validator set (backend/snapshot.go, Backend.snapshot), with their   *)
(* cache and their copies on disk, and the monitor of the validators'      *)
(* uptime (package uptime) with the builder around it that repairs it      *)
(* after gaps, rewinds and forks.  Both are read when the last block of an *)
(* epoch is finalized, to score the validators of the epoch.               *)
(*                                                                         *)
(* A block is the sequence of the blocks up to it, each given by the       *)
(* indices of the validators that signed its parent (the bitmap of its     *)
(* ParentAggregatedSeal); so a block is its own hash, and its number is    *)
(* its length.  Which validators are elected for an epoch is the same in   *)
(* all blocks that could end the epoch before, and the seals of a header   *)
(* are those of its signers: what verifying it does to the snapshots is    *)
(* here, the cryptography is not.                                          *)
(***************************************************************************)
EXTENDS Integers, FiniteSets, FiniteSetsExt, Sequences, Functions

CONSTANTS
    EpochSize,
    lookbackWindow,      \* constant during an epoch
    Bitmaps,             \* what the seal of a parent may be
    Elections,           \* the sets that may be elected, by epoch
    None,
    Batches,             \* headers that are verified ahead of the chain
    MaxNumber,           \* bound of the chain
    RestartHeads         \* heads at which the node restarts or is set back to

MinEpochSize == 3
BlocksToSkipAtEpochEnd == 2

ASSUME ConstantsAssumption ==
    /\ EpochSize \in Nat /\ EpochSize >= MinEpochSize
    /\ lookbackWindow \in Nat /\ lookbackWindow >= 1
    /\ EpochSize >= lookbackWindow + BlocksToSkipAtEpochEnd
    /\ MaxNumber \in Nat /\ RestartHeads \subseteq 0 .. MaxNumber
    /\ Batches \subseteq Seq(Bitmaps) \ {<<>>}

VARIABLES
    elected,          \* by epoch, in the order of the election
    chain,            \* the head block
    uptimeMonitor,    \* of one epoch, or None
    recentSnapshots,  \* by number
    db                \* snapshots on disk, by block

vars == <<elected, chain, uptimeMonitor, recentSnapshots, db>>

-----------------------------------------------------------------------------
(***************************************************************************)
(* Epochs and windows.  Block 0 is epoch 0 of its own.                     *)
(***************************************************************************)
GetNumberWithinEpoch(n) == IF n % EpochSize = 0 THEN EpochSize ELSE n % EpochSize
IsLastBlockOfEpoch(n) == GetNumberWithinEpoch(n) = EpochSize
GetEpochNumber(n) ==
    IF IsLastBlockOfEpoch(n) THEN n \div EpochSize ELSE n \div EpochSize + 1
GetEpochFirstBlockNumber(e) == (e - 1) * EpochSize + 1
GetEpochLastBlockNumber(e) == e * EpochSize

Epochs == 1 .. GetEpochNumber(MaxNumber) + 1
Validators == UNION {UNION {Range(l[e]) : e \in Epochs} : l \in Elections}
Blocks == Seq(Bitmaps)

\* The validators of an election have different addresses.
distinct(set) == \A i, j \in DOMAIN set : set[i].address = set[j].address => i = j

ASSUME ElectionsAssumption ==
    /\ IsFiniteSet(Validators)
    /\ \A l \in Elections, e \in Epochs : l[e] \in Seq(Validators) /\ distinct(l[e])
    /\ None \notin Seq(Validators) /\ None \notin Blocks /\ None \notin Seq(Blocks)

windowContains(w, n) == w.start <= n /\ n <= w.end

\* The bounds are unsigned: a window that would start below 0 contains nothing.
newWindowEndingAt(end, size) ==
    [start |-> IF end - size + 1 >= 0 THEN end - size + 1 ELSE end + 1, end |-> end]

MonitoringWindow(e) ==
    [start |-> GetEpochFirstBlockNumber(e) + lookbackWindow - 1,
     end |-> GetEpochLastBlockNumber(e) - BlocksToSkipAtEpochEnd]

-----------------------------------------------------------------------------
(***************************************************************************)
(* Validator sets: sequences of validators, each an address and a key.     *)
(***************************************************************************)

\* Those of a set that are at the given positions, appended one by one.
filtered(set, positions) ==
    LET upTo[n \in 0 .. Len(set)] ==
            IF n = 0 THEN <<>>
            ELSE IF n \in positions THEN Append(upTo[n - 1], set[n]) ELSE upTo[n - 1]
    IN  upTo[Len(set)]

\* Mutant: a validator with a new key is not in the difference.
ValidatorSetDiff_Addresses(old, new) ==
    [added |-> filtered(new, {j \in DOMAIN new :
                                \A i \in DOMAIN old : old[i].address # new[j].address}),
     removed |-> {i \in DOMAIN old : \A j \in DOMAIN new : new[j].address # old[i].address}]

\* A validator whose key changed is removed and added.
ValidatorSetDiff(old, new) ==
    [added |-> filtered(new, {j \in DOMAIN new : new[j] \notin Range(old)}),
     removed |-> {i \in DOMAIN old : old[i] \notin Range(new)}]

RemoveValidators(set, removed) == filtered(set, DOMAIN set \ removed)

\* A validator that is there already is refused.
AddValidators(set, added) ==
    IF \E i \in DOMAIN set, j \in DOMAIN added : set[i].address = added[j].address
    THEN None ELSE set \o added

apply(set, diff) ==
    IF \E i \in diff.removed : i > Len(set) THEN None
    ELSE AddValidators(RemoveValidators(set, diff.removed), diff.added)

\* The validators that sign the blocks of an epoch.
Signers[e \in Epochs] ==
    IF e = 1 THEN elected[1]
    ELSE apply(Signers[e - 1], ValidatorSetDiff(Signers[e - 1], elected[e]))

\* UpdateValSetDiff: what the last block of an epoch says of the next.
diffOf(n) ==
    LET e == GetEpochNumber(n)
    IN  ValidatorSetDiff(Signers[e], elected[e + 1])

-----------------------------------------------------------------------------
(***************************************************************************)
(* Snapshots.  store is what the engine keeps: the monitor, the cache and  *)
(* the disk.                                                               *)
(***************************************************************************)
store == [monitor |-> uptimeMonitor, recent |-> recentSnapshots, disk |-> db]

\* What is put into a map takes the place of what it had there.
put(map, more) ==
    [k \in DOMAIN map \cup DOMAIN more |-> IF k \in DOMAIN more THEN more[k] ELSE map[k]]

GetHeaderByNumber(c, n) == IF n <= Len(c) THEN SubSeq(c, 1, n) ELSE None

\* The block before a block.
parent(h) == SubSeq(h, 1, Len(h) - 1)

\* The block whose snapshot is looked for at number k, of a request for hash at n.
blockHash(c, n, hash, k) == IF k = n THEN hash ELSE GetHeaderByNumber(c, k)

\* The last block of an epoch that decides who signs after block n.
lastOfEpochBefore(n) ==
    IF IsLastBlockOfEpoch(n) THEN n ELSE GetEpochLastBlockNumber(GetEpochNumber(n) - 1)

\* The latest snapshot in the cache or on disk that may lead to the one asked
\* for; else that of the genesis block, which is stored.
latestSnapshot(c, st, n, hash) ==
    LET onDisk(k) == blockHash(c, n, hash, k) \in DOMAIN st.disk
        found == {k \in 0 .. lastOfEpochBefore(n) :
                    k % EpochSize = 0 /\ (k \in DOMAIN st.recent \/ onDisk(k))}
        load(k) == IF k \in DOMAIN st.recent THEN st.recent[k]
                   ELSE st.disk[blockHash(c, n, hash, k)]
        foundAt(k) == [number |-> k, set |-> load(k),
                       st |-> [st EXCEPT !.recent = put(@, [j \in {k} |-> load(k)])]]
    IN  IF found # {} THEN foundAt(Max(found))
        ELSE [number |-> 0, set |-> elected[1],
              st |-> [st EXCEPT !.disk = put(@, [genesis \in {<<>>} |-> elected[1]])]]

\* Mutant: cached under the number asked for.
applyHeaders_AsAsked(q, n, snap) ==
    LET steps == (n - snap.number) \div EpochSize
        number(i) == snap.number + i * EpochSize
        sets[i \in 0 .. steps] ==
            IF i = 0 \/ sets[i - 1] = None THEN snap.set
            ELSE apply(sets[i - 1], diffOf(number(i)))
        onDisk == [h \in {GetHeaderByNumber(q, number(i)) : i \in 1 .. steps} |->
                      sets[(Len(h) - snap.number) \div EpochSize]]
    IN  IF (steps > 0 /\ number(steps) > Len(q)) \/ \E i \in 1 .. steps : sets[i] = None
        THEN [ok |-> FALSE, set |-> <<>>, st |-> snap.st]
        ELSE [ok |-> TRUE, set |-> sets[steps],
              st |-> IF steps = 0 THEN snap.st
                     ELSE [snap.st EXCEPT !.recent = put(@, [k \in {n} |-> sets[steps]]),
                                          !.disk = put(@, onDisk)]]

\* From there, the headers that end the epochs up to n, of the block q.  A
\* header that is missing is an error.
applyHeaders(q, n, snap) ==
    LET steps == (n - snap.number) \div EpochSize
        number(i) == snap.number + i * EpochSize
        sets[i \in 0 .. steps] ==
            IF i = 0 \/ sets[i - 1] = None THEN snap.set
            ELSE apply(sets[i - 1], diffOf(number(i)))
        onDisk == [h \in {GetHeaderByNumber(q, number(i)) : i \in 1 .. steps} |->
                      sets[(Len(h) - snap.number) \div EpochSize]]
    IN  IF (steps > 0 /\ number(steps) > Len(q)) \/ \E i \in 1 .. steps : sets[i] = None
        THEN [ok |-> FALSE, set |-> <<>>, st |-> snap.st]
        ELSE [ok |-> TRUE, set |-> sets[steps],
              st |-> IF steps = 0 THEN snap.st
                     ELSE [snap.st EXCEPT !.recent = put(@, [k \in {number(steps)} |-> sets[steps]]),
                                          !.disk = put(@, onDisk)]]

\* A header is one of the chain c, or one of the parents that come with the
\* request: q is the last of them, or c.
snapshot(c, q, st, n, hash) == applyHeaders(q, n, latestSnapshot(c, st, n, hash))

-----------------------------------------------------------------------------
(***************************************************************************)
(* The monitor: one entry for each validator of the set it is made for.    *)
(***************************************************************************)
noEntries(size) == [i \in 0 .. size - 1 |-> [upBlocks |-> 0, lastSignedBlock |-> 0]]

NewMonitor(e, size) == [epoch |-> e, latest |-> None, entries |-> noEntries(size)]

\* Mutant: the counts stay.
Clear_KeepsEntries(m) == [m EXCEPT !.latest = None]

Clear(m) == NewMonitor(m.epoch, Cardinality(DOMAIN m.entries))

updateUptime(m, n, bitmap) ==
    [i \in DOMAIN m.entries |->
        LET signed == IF i \in bitmap THEN n ELSE m.entries[i].lastSignedBlock
            up == /\ windowContains(MonitoringWindow(m.epoch), n)
                  /\ windowContains(newWindowEndingAt(n, lookbackWindow), signed)
        IN  [upBlocks |-> m.entries[i].upBlocks + IF up THEN 1 ELSE 0,
             lastSignedBlock |-> signed]]

Fails(m) == [ok |-> FALSE, m |-> m]
Succeeds(m) == [ok |-> TRUE, m |-> m]

\* Monitor.ProcessHeader.
processNext(m, h) ==
    LET n == Len(h)
    IN  IF GetEpochNumber(n) # m.epoch THEN Fails(m)
        ELSE IF m.latest = None
        THEN IF n = GetEpochFirstBlockNumber(m.epoch)
             THEN Succeeds([m EXCEPT !.latest = h]) ELSE Fails(m)
        ELSE IF Len(m.latest) >= n \/ m.latest # parent(h) THEN Fails(m)
        ELSE Succeeds([m EXCEPT !.entries = updateUptime(m, n - 1, h[Len(h)]), !.latest = h])

\* The headers up to h, at most limit of them, from its epoch; those before
\* h are taken from the chain, not from h.
GetEpochHeadersUpToLimit(c, h, limit) ==
    LET amount == Min({GetNumberWithinEpoch(Len(h)), limit}) - 1
    IN  IF amount > 0 /\ GetHeaderByNumber(c, Len(h) - 1) = None THEN None
        ELSE [i \in 1 .. amount |-> SubSeq(c, 1, Len(h) - 1 - amount + i)] \o <<h>>

addAll(m, headers) ==
    LET after[i \in 0 .. Len(headers)] ==
            IF i = 0 THEN Succeeds(m)
            ELSE IF after[i - 1].ok THEN processNext(after[i - 1].m, headers[i])
            ELSE after[i - 1]
    IN  after[Len(headers)]

cleanBuild(c, m, h) ==
    LET headers == GetEpochHeadersUpToLimit(c, h, GetNumberWithinEpoch(Len(h)))
    IN  IF headers = None THEN Fails(m) ELSE addAll(m, headers)

\* Mutant: a fork below the monitor is not noticed.
advance_NoForkCheck(c, m, h) ==
    LET headers == GetEpochHeadersUpToLimit(c, h, Len(h) - Len(m.latest) + 1)
    IN  IF headers = None THEN Fails(m) ELSE addAll(m, Tail(headers))

advance(c, m, h) ==
    LET headers == GetEpochHeadersUpToLimit(c, h, Len(h) - Len(m.latest) + 1)
    IN  IF headers = None THEN Fails(m)
        ELSE IF headers[1] # m.latest THEN cleanBuild(c, Clear(m), h)
        ELSE addAll(m, Tail(headers))

\* Mutant: a header of the height of the last one is taken to be that one.
ProcessHeader_ByNumber(c, m, h) ==
    IF GetEpochNumber(Len(h)) # m.epoch THEN Fails(m)
    ELSE IF m.latest = None THEN cleanBuild(c, m, h)
    ELSE IF Len(h) = Len(m.latest) THEN Succeeds(m)
    ELSE IF Len(h) > Len(m.latest) + 1 THEN advance(c, m, h)
    ELSE IF Len(h) = Len(m.latest) + 1 /\ parent(h) = m.latest THEN processNext(m, h)
    ELSE cleanBuild(c, Clear(m), h)

\* autoFixBuilder.ProcessHeader.
ProcessHeader(c, m, h) ==
    IF GetEpochNumber(Len(h)) # m.epoch THEN Fails(m)
    ELSE IF m.latest = None THEN cleanBuild(c, m, h)
    ELSE IF h = m.latest THEN Succeeds(m)
    ELSE IF Len(h) > Len(m.latest) + 1 THEN advance(c, m, h)
    ELSE IF Len(h) = Len(m.latest) + 1 /\ parent(h) = m.latest THEN processNext(m, h)
    ELSE cleanBuild(c, Clear(m), h)

\* The scores at the last block of an epoch, as shares of the window, from a
\* copy of the monitor.
ComputeUptime(c, m, h) ==
    LET r == ProcessHeader(c, m, h)
    IN  IF r.ok THEN [i \in DOMAIN r.m.entries |-> r.m.entries[i].upBlocks] ELSE None

-----------------------------------------------------------------------------
(***************************************************************************)
(* The engine.                                                             *)
(***************************************************************************)

\* getValidators: an error is an empty set.
getValidators(c, st, n, hash) == snapshot(c, c, st, n, hash)

\* The monitor of the epoch of h, made if the one there is of another epoch.
retrieveUptimeScoreBuilder(c, st, h) ==
    LET e == GetEpochNumber(Len(h))
        made(v) == [v.st EXCEPT !.monitor = NewMonitor(e, Len(v.set))]
    IN  IF st.monitor # None /\ st.monitor.epoch = e THEN st
        ELSE made(getValidators(c, st, Len(h), h))

\* Each validator that signs the last block of an epoch is looked up in the
\* scores, by index: one that is not there panics.
updateValidatorScores(c, st, h, valSet) ==
    LET short(uptimes) == uptimes # None /\ Cardinality(DOMAIN uptimes) < Len(valSet)
        result(s) == [panics |-> short(ComputeUptime(c, s.monitor, h)), st |-> s]
    IN  result(retrieveUptimeScoreBuilder(c, st, h))

\* Rewards that are frozen, and a contract call that fails, leave the scores
\* out (skipped).  What comes after the scores touches the state only.
distributeEpochRewards(c, st, h, skipped) ==
    LET scoredBy(v) ==
            IF v.set = <<>> THEN [panics |-> FALSE, st |-> v.st]
            ELSE updateValidatorScores(c, v.st, h, v.set)
    IN  IF skipped THEN [panics |-> FALSE, st |-> st]
        ELSE scoredBy(getValidators(c, st, Len(h) - 1, parent(h)))

Finalize(c, st, h, skipped) ==
    IF IsLastBlockOfEpoch(Len(h)) THEN distributeEpochRewards(c, st, h, skipped)
    ELSE [panics |-> FALSE, st |-> st]

OnBlockInsertion(c, st, h) ==
    LET keep(s, r) == [ok |-> r.ok, st |-> [s EXCEPT !.monitor = r.m]]
        inserted(s) == keep(s, ProcessHeader(c, s.monitor, h))
    IN  inserted(retrieveUptimeScoreBuilder(c, st, h))

\* A header is verified against the validators that sign after its parent;
\* the first one of an epoch also against those that signed its parent, whose
\* headers are looked up in the chain only.
verifyHeader(c, st, h) ==
    LET n == Len(h) - 2
        parentSeals(v) ==
            IF v.ok /\ Len(h) > 1 /\ Len(h) % EpochSize = 1
            THEN snapshot(c, c, v.st, n, GetHeaderByNumber(c, n)) ELSE v
    IN  parentSeals(snapshot(c, parent(h), st, Len(h) - 1, parent(h)))

Keep(st) ==
    /\ uptimeMonitor' = st.monitor
    /\ recentSnapshots' = st.recent
    /\ db' = st.disk
    /\ UNCHANGED elected

next(b) == Append(chain, b)

\* The next block is verified and finalized.
process(b, skipped) ==
    Finalize(chain, verifyHeader(chain, store, next(b)).st, next(b), skipped)

canProcess(b) == Len(chain) < MaxNumber /\ verifyHeader(chain, store, next(b)).ok

\* A panic ends the node, which starts again.
panic(p) ==
    /\ Keep([monitor |-> None, recent |-> <<>>, disk |-> p.st.disk])
    /\ UNCHANGED chain

\* The monitor may refuse the block, and the write after it may fail.
insertBlock(p, h) ==
    \E r \in {OnBlockInsertion(chain, p.st, h)} :
        /\ Keep(r.st)
        /\ chain' \in IF r.ok THEN {h, chain} ELSE {chain}

\* A block is processed by the miner or to verify a proposal, or it is
\* processed and inserted.
processBlock(b) ==
    /\ canProcess(b)
    /\ \E skipped \in IF IsLastBlockOfEpoch(Len(next(b))) THEN BOOLEAN ELSE {FALSE} :
       \E p \in {process(b, skipped)} :
          \/ p.panics /\ panic(p)
          \/ ~p.panics /\ Keep(p.st) /\ UNCHANGED chain
          \/ ~p.panics /\ insertBlock(p, next(b))

\* A block that is known already becomes the head without the monitor.
writeKnownBlock(b) ==
    /\ canProcess(b)
    /\ Keep(verifyHeader(chain, store, next(b)).st)
    /\ chain' = next(b)

\* VerifyHeaders runs ahead of the insertion: a header is verified while those
\* before it in its batch are not yet on the chain.
verifyAhead(batch) ==
    /\ Len(chain) + Len(batch) <= MaxNumber
    /\ Keep(verifyHeader(chain, store, chain \o batch).st)
    /\ UNCHANGED chain

\* The head is set to an earlier block: the one asked for, or the last one
\* before it that has its state.
SetHead(n) ==
    /\ n < Len(chain) /\ n \in RestartHeads
    /\ chain' = SubSeq(chain, 1, n)
    /\ UNCHANGED <<elected, uptimeMonitor, recentSnapshots, db>>

Restart ==
    /\ Len(chain) \in RestartHeads
    /\ uptimeMonitor' = None
    /\ recentSnapshots' = <<>>
    /\ UNCHANGED <<elected, chain, db>>

\* The cache has room for so many.
evict(n) ==
    /\ n \in DOMAIN recentSnapshots
    /\ recentSnapshots' = [k \in DOMAIN recentSnapshots \ {n} |-> recentSnapshots[k]]
    /\ UNCHANGED <<elected, chain, uptimeMonitor, db>>

Init ==
    /\ elected \in Elections
    /\ chain = <<>>
    /\ uptimeMonitor = None
    /\ recentSnapshots = <<>>
    /\ db = <<>>

Next ==
    \/ \E b \in Bitmaps : processBlock(b) \/ writeKnownBlock(b)
    \/ \E batch \in Batches : verifyAhead(batch)
    \/ \E n \in 0 .. MaxNumber : SetHead(n) \/ evict(n)
    \/ Restart

Spec == Init /\ [][Next]_vars

-----------------------------------------------------------------------------
TypeOK ==
    /\ elected \in Elections
    /\ Len(chain) <= MaxNumber /\ Range(chain) \subseteq Bitmaps
    /\ uptimeMonitor # None =>
          /\ uptimeMonitor.epoch \in 1 .. GetEpochNumber(MaxNumber)
          /\ uptimeMonitor.latest # None =>
                GetEpochNumber(Len(uptimeMonitor.latest)) = uptimeMonitor.epoch
          /\ \E size \in 0 .. Cardinality(Validators) :
                DOMAIN uptimeMonitor.entries = 0 .. size - 1
    /\ DOMAIN recentSnapshots \subseteq {n \in 0 .. MaxNumber : n % EpochSize = 0}
    /\ \A h \in DOMAIN db : Len(h) % EpochSize = 0

\* The blocks of the epoch of h, among those that count, for which validator
\* i signed in the lookback window that ends there: block m is signed by the
\* validators that the seal in block m + 1 names.
upBlocks(h, i) ==
    LET e == GetEpochNumber(Len(h))
        counted == (e - 1) * EpochSize + lookbackWindow .. e * EpochSize - 2
        signed(m) == m < Len(h) /\ i \in h[m + 1]
    IN  {n \in counted : n < Len(h) /\ \E m \in n - lookbackWindow + 1 .. n : signed(m)}

\* Whatever the monitor went through, gaps, rewinds, forks, blocks it saw
\* that were never written, restarts, its counts are those of the chain that
\* leads to its last header.
TallyRight ==
    uptimeMonitor # None /\ uptimeMonitor.latest # None =>
        \A i \in DOMAIN uptimeMonitor.entries :
            uptimeMonitor.entries[i].upBlocks = Cardinality(upBlocks(uptimeMonitor.latest, i))

\* What the next block would score, if it is the last of its epoch.
scored(b) == ComputeUptime(chain, process(b, FALSE).st.monitor, next(b))
endsEpoch == Len(chain) < MaxNumber /\ IsLastBlockOfEpoch(Len(chain) + 1)

\* With a monitor made before the last block of its epoch, every validator
\* that signs in the epoch is scored at its end by what the chain says of
\* it: updateValidatorScores indexes the scores by validator.
EveryoneScored ==
    LET e == GetEpochNumber(Len(chain) + 1)
        size == Len(elected[e])
    IN  /\ endsEpoch /\ uptimeMonitor # None
        /\ uptimeMonitor.epoch = e /\ DOMAIN uptimeMonitor.entries = 0 .. size - 1
        => \A b \in Bitmaps :
              scored(b) = [i \in 0 .. size - 1 |-> Cardinality(upBlocks(next(b), i))]

\* The monitor never refuses the next block, which would keep the node from
\* inserting it, and then stands at that block, whether the rewards of an
\* epoch are paid or skipped.
NextBlockAccepted ==
    Len(chain) < MaxNumber =>
        \A b \in Bitmaps, skipped \in BOOLEAN :
            \A r \in {OnBlockInsertion(chain, process(b, skipped).st, next(b))} :
                r.ok /\ r.st.monitor.latest = next(b)

\* The validators that sign after any block of the chain are those elected
\* for that epoch, with their current keys, from whatever is cached, was
\* evicted or is on disk.
SnapshotsRight ==
    \A n \in 0 .. Len(chain) :
        LET s == snapshot(chain, chain, store, n, SubSeq(chain, 1, n))
            e == GetEpochNumber(n + 1)
        IN  /\ s.ok
            /\ Range(s.set) = Range(elected[e])
            /\ Len(s.set) = Len(elected[e])

\* "The validator set that signs off on the last block of the epoch is the
\* one that we need to iterate over" (pos.go): the last block of an epoch
\* finds a score for each of them, however the node came to that block.
ScorePerSigner ==
    endsEpoch =>
        \A b \in Bitmaps :
            DOMAIN scored(b) = 0 .. Len(elected[GetEpochNumber(Len(chain) + 1)]) - 1

=============================================================================
