------------------------- MODULE EpochMonitorProofs -------------------------
(***************************************************************************)
(* Lemmas about EpochChain for its proofs: the arithmetic of epochs, and   *)
(* that the uptime monitor counts what the chain of its last header says,  *)
(* for any size of an epoch, any lookback window and chains of any length. *)
(*                                                                         *)
(* The monitor is right (Right) when its entries have the counts of its    *)
(* last header, which for an entry are the blocks that count and the last  *)
(* block that was signed.  Each way the builder has to come to the next    *)
(* block (a new build, an advance, one more block) leads from a monitor    *)
(* that is right to one that is.  The loop of the builder is covered by    *)
(* induction over its iterations.                                          *)
(***************************************************************************)
EXTENDS EpochChain, FiniteSetTheorems, SequenceTheorems, WellFoundedInduction, TLAPS

\* The constants that the arithmetic is about.
LEMMA Constants ==
    /\ EpochSize \in Nat /\ EpochSize >= 3
    /\ lookbackWindow \in Nat /\ lookbackWindow >= 1 /\ lookbackWindow + 2 <= EpochSize
    /\ MaxNumber \in Nat
BY ConstantsAssumption DEF MinEpochSize, BlocksToSkipAtEpochEnd

\* Multiples of the size of an epoch keep the order of the factors.
LEMMA Multiples ==
    ASSUME NEW a \in Int, NEW b \in Int
    PROVE  /\ a * EpochSize \in Int
           /\ (a + 1) * EpochSize = a * EpochSize + EpochSize
           /\ (a - 1) * EpochSize = a * EpochSize - EpochSize
           /\ a < b => a * EpochSize + EpochSize <= b * EpochSize
           /\ a >= 0 => a * EpochSize >= 0
<1>1. \A e \in Nat : a * e \in Int /\ (a + 1) * e = a * e + e /\ (a - 1) * e = a * e - e
    OBVIOUS
<1>2. \A d \in Nat, e \in Nat : d * e >= 0
    OBVIOUS
<1>3. ASSUME a < b PROVE a * EpochSize + EpochSize <= b * EpochSize
    <2>1. (b - (a + 1)) \in Nat
        BY <1>3
    <2>2. (b - (a + 1)) * EpochSize >= 0
        BY <2>1, <1>2, Constants
    <2>3. \A e \in Nat : (b - (a + 1)) * e = b * e - (a * e + e)
        OBVIOUS
    <2>4. b * EpochSize \in Int /\ a * EpochSize \in Int
        BY Constants
    <2>. QED  BY <2>2, <2>3, <2>4, Constants
<1>. QED  BY <1>1, <1>2, <1>3, Constants

\* The quotient and the rest by the size of an epoch.
LEMMA DivMod ==
    ASSUME NEW n \in Nat
    PROVE  /\ n \div EpochSize \in Nat
           /\ n % EpochSize \in 0 .. EpochSize - 1
           /\ n = (n \div EpochSize) * EpochSize + (n % EpochSize)
<1>1. EpochSize \in Nat \ {0}
    BY Constants
<1>2. /\ n \div EpochSize \in Nat
      /\ n % EpochSize \in 0 .. EpochSize - 1
    BY <1>1
<1>3. n = EpochSize * (n \div EpochSize) + (n % EpochSize)
    BY <1>1
<1>. QED  BY <1>1, <1>2, <1>3

\* They are the only ones.
LEMMA DivModUnique ==
    ASSUME NEW n \in Nat, NEW q \in Int, NEW r \in 0 .. EpochSize - 1, n = q * EpochSize + r
    PROVE  n \div EpochSize = q /\ n % EpochSize = r
<1>. DEFINE d == n \div EpochSize
            m == n % EpochSize
<1>1. d \in Nat /\ m \in 0 .. EpochSize - 1 /\ n = d * EpochSize + m
    BY DivMod
<1>. HIDE DEF d, m
<1>2. d * EpochSize \in Int /\ q * EpochSize \in Int
    BY <1>1, Multiples
<1>3. ~(d < q)
    <2>1. d < q => d * EpochSize + EpochSize <= q * EpochSize
        BY <1>1, Multiples
    <2>. QED  BY <1>1, <1>2, <2>1, Constants
<1>4. ~(q < d)
    <2>1. q < d => q * EpochSize + EpochSize <= d * EpochSize
        BY <1>1, Multiples
    <2>. QED  BY <1>1, <1>2, <2>1, Constants
<1>5. d = q
    BY <1>1, <1>3, <1>4
<1>6. m = r
    BY <1>1, <1>2, <1>5, Constants
<1>. QED  BY <1>5, <1>6 DEF d, m

\* The epoch of a block, and its place in it.
LEMMA EpochFacts ==
    ASSUME NEW n \in Nat
    PROVE  LET e == GetEpochNumber(n)
           IN  /\ e \in Nat /\ (n >= 1 => e >= 1)
               /\ (e - 1) * EpochSize \in Int /\ e * EpochSize = (e - 1) * EpochSize + EpochSize
               /\ (e - 1) * EpochSize < n /\ n <= e * EpochSize
               /\ GetNumberWithinEpoch(n) = n - (e - 1) * EpochSize
               /\ GetNumberWithinEpoch(n) \in 1 .. EpochSize
               /\ IsLastBlockOfEpoch(n) <=> n = e * EpochSize
               /\ IsLastBlockOfEpoch(n) <=> n % EpochSize = 0
               /\ n \div EpochSize <= e
<1>. DEFINE d == n \div EpochSize
            m == n % EpochSize
            e == GetEpochNumber(n)
<1>1. d \in Nat /\ m \in 0 .. EpochSize - 1 /\ n = d * EpochSize + m
    BY DivMod
<1>2. GetNumberWithinEpoch(n) = IF m = 0 THEN EpochSize ELSE m
    BY DEF GetNumberWithinEpoch
<1>3. IsLastBlockOfEpoch(n) <=> m = 0
    BY <1>1, <1>2, Constants DEF IsLastBlockOfEpoch
<1>4. e = IF m = 0 THEN d ELSE d + 1
    BY <1>3 DEF GetEpochNumber
<1>. HIDE DEF d, m, e
<1>5. /\ d * EpochSize \in Int /\ (d + 1) * EpochSize = d * EpochSize + EpochSize
      /\ (d - 1) * EpochSize = d * EpochSize - EpochSize
      /\ d * EpochSize >= 0
    BY <1>1, Multiples
<1>6. CASE m = 0
    <2>1. e = d /\ n = e * EpochSize /\ GetNumberWithinEpoch(n) = EpochSize
        BY <1>6, <1>1, <1>2, <1>4, <1>5
    <2>2. n >= 1 => d # 0
        BY <2>1, Constants
    <2>. QED  BY <2>1, <2>2, <1>1, <1>3, <1>5, <1>6, Constants DEF d, m, e
<1>7. CASE m # 0
    <2>1. e = d + 1 /\ GetNumberWithinEpoch(n) = m /\ e - 1 = d
        BY <1>7, <1>1, <1>2, <1>4
    <2>. QED  BY <2>1, <1>1, <1>3, <1>5, <1>7, Constants DEF d, m, e
<1>. QED  BY <1>6, <1>7

\* The epoch of a block from the blocks that bound it.
LEMMA EpochOf ==
    ASSUME NEW n \in Nat, NEW e \in Int, (e - 1) * EpochSize < n, n <= e * EpochSize
    PROVE  GetEpochNumber(n) = e
<1>. DEFINE f == GetEpochNumber(n)
<1>1. f \in Nat /\ (f - 1) * EpochSize < n /\ n <= f * EpochSize
    BY EpochFacts
<1>. HIDE DEF f
<1>2. /\ e * EpochSize \in Int /\ f * EpochSize \in Int
      /\ (e - 1) * EpochSize = e * EpochSize - EpochSize
      /\ (f - 1) * EpochSize = f * EpochSize - EpochSize
    BY <1>1, Multiples
<1>3. ~(e < f)
    <2>1. e < f => e * EpochSize + EpochSize <= f * EpochSize
        BY <1>1, Multiples
    <2>. QED  BY <1>1, <1>2, <2>1, Constants
<1>4. ~(f < e)
    <2>1. f < e => f * EpochSize + EpochSize <= e * EpochSize
        BY <1>1, Multiples
    <2>. QED  BY <1>1, <1>2, <2>1, Constants
<1>5. e = f
    BY <1>1, <1>3, <1>4
<1>. QED  BY <1>5 DEF f

\* The block that ends the epoch before, and the epoch after it.
LEMMA LastOfEpochBefore ==
    ASSUME NEW n \in Nat
    PROVE  /\ lastOfEpochBefore(n) = (n \div EpochSize) * EpochSize
           /\ lastOfEpochBefore(n) \in 0 .. n
           /\ GetEpochNumber(n + 1) = n \div EpochSize + 1
<1>. DEFINE d == n \div EpochSize
            m == n % EpochSize
<1>1. d \in Nat /\ m \in 0 .. EpochSize - 1 /\ n = d * EpochSize + m
    BY DivMod
<1>2. IsLastBlockOfEpoch(n) <=> m = 0
    BY EpochFacts
<1>3. GetEpochNumber(n) = IF m = 0 THEN d ELSE d + 1
    BY <1>2 DEF GetEpochNumber
<1>4. lastOfEpochBefore(n) = IF m = 0 THEN n ELSE (GetEpochNumber(n) - 1) * EpochSize
    BY <1>2 DEF lastOfEpochBefore, GetEpochLastBlockNumber
<1>. HIDE DEF d, m
<1>5. /\ d * EpochSize \in Int /\ (d + 1) * EpochSize = d * EpochSize + EpochSize
      /\ d * EpochSize >= 0
    BY <1>1, Multiples
<1>6. lastOfEpochBefore(n) = d * EpochSize
    <2>1. CASE m = 0
        BY <2>1, <1>1, <1>4, <1>5
    <2>2. CASE m # 0
        <3>1. GetEpochNumber(n) - 1 = d
            BY <2>2, <1>1, <1>3
        <3>. QED  BY <2>2, <1>4, <3>1
    <2>. QED  BY <2>1, <2>2
<1>7. GetEpochNumber(n + 1) = d + 1
    <2>1. n + 1 \in Nat /\ d + 1 \in Int /\ (d + 1) - 1 = d
        BY <1>1
    <2>2. d * EpochSize < n + 1 /\ n + 1 <= (d + 1) * EpochSize
        BY <1>1, <1>5, Constants
    <2>. QED  BY <2>1, <2>2, EpochOf
<1>. QED  BY <1>1, <1>5, <1>6, <1>7 DEF d

-----------------------------------------------------------------------------
(***************************************************************************)
(* Blocks.                                                                 *)
(***************************************************************************)

\* The block of a number on the chain of a block.
LEMMA UpToBlock ==
    ASSUME NEW h \in Blocks, NEW n \in 0 .. Len(h)
    PROVE  /\ SubSeq(h, 1, n) \in Blocks /\ Len(SubSeq(h, 1, n)) = n
           /\ \A k \in 1 .. n : SubSeq(h, 1, n)[k] = h[k]
           /\ SubSeq(h, 1, n) # None
<1>1. /\ SubSeq(h, 1, n) \in Blocks /\ Len(SubSeq(h, 1, n)) = n
      /\ \A k \in 1 .. n : SubSeq(h, 1, n)[k] = h[k]
    BY SubSeqProperties DEF Blocks
<1>. QED  BY <1>1, ElectionsAssumption, Zenon

\* Blocks with the same seals are the same.
LEMMA SameBlock ==
    ASSUME NEW g \in Blocks, NEW h \in Blocks, Len(g) = Len(h),
           \A k \in 1 .. Len(h) : g[k] = h[k]
    PROVE  g = h
BY SeqEqual DEF Blocks

\* A block is the end of its chain.
LEMMA UpToEnd ==
    ASSUME NEW h \in Blocks
    PROVE  Len(h) \in Nat /\ SubSeq(h, 1, Len(h)) = h
<1>1. Len(h) \in Nat
    BY DEF Blocks
<1>2. Len(h) \in 0 .. Len(h)
    BY <1>1
<1>. DEFINE g == SubSeq(h, 1, Len(h))
<1>3. g \in Blocks /\ Len(g) = Len(h) /\ \A k \in 1 .. Len(h) : g[k] = h[k]
    BY <1>2, UpToBlock
<1>. HIDE DEF g
<1>4. g = h
    BY <1>3, SameBlock
<1>. QED  BY <1>1, <1>4 DEF g

\* A block on the chain of a block on the chain.
LEMMA UpToUpTo ==
    ASSUME NEW h \in Blocks, NEW n \in 0 .. Len(h), NEW k \in 0 .. n
    PROVE  SubSeq(SubSeq(h, 1, n), 1, k) = SubSeq(h, 1, k)
<1>1. Len(h) \in Nat
    BY DEF Blocks
<1>2. /\ SubSeq(h, 1, n) \in Blocks /\ Len(SubSeq(h, 1, n)) = n
      /\ \A j \in 1 .. n : SubSeq(h, 1, n)[j] = h[j]
    BY UpToBlock
<1>3. k \in 0 .. Len(h)
    BY <1>1
<1>4. /\ SubSeq(h, 1, k) \in Blocks /\ Len(SubSeq(h, 1, k)) = k
      /\ \A j \in 1 .. k : SubSeq(h, 1, k)[j] = h[j]
    BY <1>3, UpToBlock
<1>. DEFINE g == SubSeq(h, 1, n)
<1>5. g \in Blocks /\ k \in 0 .. Len(g)
    BY <1>2
<1>6. /\ SubSeq(g, 1, k) \in Blocks /\ Len(SubSeq(g, 1, k)) = k
      /\ \A j \in 1 .. k : SubSeq(g, 1, k)[j] = g[j]
    <2>. HIDE DEF g
    <2>. QED  BY <1>5, UpToBlock
<1>7. \A j \in 1 .. k : SubSeq(g, 1, k)[j] = SubSeq(h, 1, k)[j]
    BY <1>2, <1>4, <1>6
<1>. HIDE DEF g
<1>8. SubSeq(g, 1, k) = SubSeq(h, 1, k)
    BY <1>4, <1>6, <1>7, SameBlock
<1>. QED  BY <1>8 DEF g

\* A block after another.
LEMMA NextBlock ==
    ASSUME NEW g \in Blocks, NEW b \in Bitmaps
    PROVE  /\ Append(g, b) \in Blocks /\ Len(Append(g, b)) = Len(g) + 1
           /\ parent(Append(g, b)) = g
<1>1. /\ Append(g, b) \in Blocks /\ Len(Append(g, b)) = Len(g) + 1
      /\ \A k \in 1 .. Len(g) : Append(g, b)[k] = g[k]
    BY AppendProperties DEF Blocks
<1>2. Len(g) \in Nat
    BY DEF Blocks
<1>. DEFINE h == Append(g, b)
<1>3. Len(g) \in 0 .. Len(h) /\ Len(h) - 1 = Len(g)
    BY <1>1, <1>2
<1>4. /\ SubSeq(h, 1, Len(g)) \in Blocks /\ Len(SubSeq(h, 1, Len(g))) = Len(g)
      /\ \A k \in 1 .. Len(g) : SubSeq(h, 1, Len(g))[k] = h[k]
    <2>. HIDE DEF h
    <2>. QED  BY <1>1, <1>3, UpToBlock, Zenon DEF h
<1>5. SubSeq(h, 1, Len(g)) = g
    BY <1>1, <1>4, SameBlock, Zenon
<1>. QED  BY <1>1, <1>3, <1>5 DEF parent

-----------------------------------------------------------------------------
(***************************************************************************)
(* The counts of the monitor.                                              *)
(***************************************************************************)
Entry == [upBlocks : Nat, lastSignedBlock : Nat]

\* The blocks of the epoch of h that validator i signed, by the seals up to h.
signedBlocks(h, i) ==
    {k \in GetEpochFirstBlockNumber(GetEpochNumber(Len(h))) .. Len(h) - 1 : i \in h[k + 1]}

isLastOf(k, S) == IF S = {} THEN k = 0 ELSE k \in S /\ \A j \in S : j <= k

Counted(h, i, entry) ==
    /\ entry.upBlocks = Cardinality(upBlocks(h, i))
    /\ isLastOf(entry.lastSignedBlock, signedBlocks(h, i))

\* The monitor of an epoch, with the counts of the chain of its last header.
Right(m) ==
    /\ m = [epoch |-> m.epoch, latest |-> m.latest, entries |-> m.entries]
    /\ m.epoch \in Nat /\ m.epoch >= 1
    /\ m.entries \in [DOMAIN m.entries -> Entry]
    /\ m.latest = None =>
          \A i \in DOMAIN m.entries : m.entries[i] = [upBlocks |-> 0, lastSignedBlock |-> 0]
    /\ m.latest # None =>
          /\ m.latest \in Blocks /\ GetEpochNumber(Len(m.latest)) = m.epoch
          /\ \A i \in DOMAIN m.entries : Counted(m.latest, i, m.entries[i])

\* A block h after g in the same epoch.
Follows(h, g) ==
    /\ h \in Blocks /\ g \in Blocks /\ Len(h) = Len(g) + 1
    /\ \A k \in 1 .. Len(g) : h[k] = g[k]
    /\ GetEpochNumber(Len(g)) = GetEpochNumber(Len(h)) /\ GetEpochNumber(Len(h)) >= 1

\* The bounds of the epoch of a block.
LEMMA EpochBounds ==
    ASSUME NEW h \in Blocks, GetEpochNumber(Len(h)) >= 1
    PROVE  LET e == GetEpochNumber(Len(h))
               P == (e - 1) * EpochSize
           IN  /\ Len(h) \in Nat /\ e \in Nat /\ P \in Nat /\ e * EpochSize = P + EpochSize
               /\ GetEpochFirstBlockNumber(e) = P + 1
               /\ P + 1 <= Len(h) /\ Len(h) <= P + EpochSize
<1>. DEFINE e == GetEpochNumber(Len(h))
<1>1. Len(h) \in Nat
    BY DEF Blocks
<1>2. /\ e \in Nat /\ (e - 1) * EpochSize \in Int /\ e * EpochSize = (e - 1) * EpochSize + EpochSize
      /\ (e - 1) * EpochSize < Len(h) /\ Len(h) <= e * EpochSize
    BY <1>1, EpochFacts
<1>3. (e - 1) * EpochSize >= 0
    <2>. HIDE DEF e
    <2>1. e - 1 \in Int /\ e - 1 >= 0
        BY <1>2 DEF e
    <2>. QED  BY <2>1, Multiples
<1>. QED  BY <1>1, <1>2, <1>3 DEF GetEpochFirstBlockNumber

\* The blocks that count are finitely many.
LEMMA UpBlocksFinite ==
    ASSUME NEW h \in Blocks, GetEpochNumber(Len(h)) >= 1, NEW i
    PROVE  /\ IsFiniteSet(upBlocks(h, i)) /\ Cardinality(upBlocks(h, i)) \in Nat
           /\ \A n \in upBlocks(h, i) : n < Len(h)
<1>. DEFINE e == GetEpochNumber(Len(h))
            first == (e - 1) * EpochSize + lookbackWindow
            last == e * EpochSize - 2
            up == upBlocks(h, i)
<1>1. first \in Int /\ last \in Int
    BY EpochBounds, Constants
<1>2. up \subseteq first .. last /\ \A n \in up : n < Len(h)
    BY DEF upBlocks
<1>. HIDE DEF first, last, up
<1>3. IsFiniteSet(first .. last)
    BY <1>1, FS_Interval
<1>4. IsFiniteSet(up)
    BY <1>2, <1>3, FS_Subset, Zenon
<1>5. Cardinality(up) \in Nat
    BY <1>4, FS_CardinalityType
<1>. QED  BY <1>2, <1>4, <1>5 DEF up

\* The first block of an epoch says nothing of its own epoch.
LEMMA FirstCounts ==
    ASSUME NEW h \in Blocks, GetEpochNumber(Len(h)) >= 1,
           Len(h) = GetEpochFirstBlockNumber(GetEpochNumber(Len(h))), NEW i
    PROVE  Counted(h, i, [upBlocks |-> 0, lastSignedBlock |-> 0])
<1>. DEFINE e == GetEpochNumber(Len(h))
            P == (e - 1) * EpochSize
<1>1. /\ Len(h) \in Nat /\ P \in Nat /\ GetEpochFirstBlockNumber(e) = P + 1
      /\ Len(h) = P + 1
    BY EpochBounds
<1>2. upBlocks(h, i) = {}
    <2>1. \A n \in upBlocks(h, i) : n \in P + lookbackWindow .. e * EpochSize - 2 /\ n < Len(h)
        BY DEF upBlocks
    <2>2. P + lookbackWindow \in Int /\ P + lookbackWindow >= Len(h)
        BY <1>1, Constants
    <2>. HIDE DEF P
    <2>. QED  BY <1>1, <2>1, <2>2
<1>3. signedBlocks(h, i) = {}
    <2>1. signedBlocks(h, i) \subseteq P + 1 .. Len(h) - 1
        BY <1>1 DEF signedBlocks
    <2>. HIDE DEF P
    <2>. QED  BY <1>1, <2>1
<1>4. Cardinality({}) = 0
    BY FS_EmptySet
<1>. QED  BY <1>2, <1>3, <1>4 DEF Counted, isLastOf

\* What a further block says of a validator: whether it signed the block
\* before.
LEMMA SignedGrows ==
    ASSUME NEW h, NEW g, Follows(h, g), NEW i
    PROVE  /\ signedBlocks(h, i) = signedBlocks(g, i) \cup
                 (IF i \in h[Len(h)] THEN {Len(g)} ELSE {})
           /\ \A k \in signedBlocks(g, i) : k < Len(g)
<1>. DEFINE e == GetEpochNumber(Len(h))
            first == GetEpochFirstBlockNumber(e)
<1>1. h \in Blocks /\ g \in Blocks /\ Len(h) = Len(g) + 1 /\ e >= 1 /\ GetEpochNumber(Len(g)) = e
    BY DEF Follows
<1>2. Len(h) \in Nat /\ Len(g) \in Nat /\ first \in Nat /\ first >= 1 /\ first <= Len(g)
    BY <1>1, EpochBounds
<1>3. /\ signedBlocks(h, i) = {k \in first .. Len(h) - 1 : i \in h[k + 1]}
      /\ signedBlocks(g, i) = {k \in first .. Len(g) - 1 : i \in g[k + 1]}
    BY <1>1 DEF signedBlocks
<1>4. \A k \in first .. Len(g) - 1 : h[k + 1] = g[k + 1]
    <2>1. \A k \in first .. Len(g) - 1 : k + 1 \in 1 .. Len(g)
        BY <1>2
    <2>. QED  BY <2>1 DEF Follows
<1>. HIDE DEF e, first
<1>5. first .. Len(h) - 1 = (first .. Len(g) - 1) \cup {Len(g)} /\ Len(g) + 1 = Len(h)
    BY <1>1, <1>2
<1>. QED  BY <1>1, <1>2, <1>3, <1>4, <1>5, SMTT(20)

\* Whether it was up at the block before.
LEMMA UpGrows ==
    ASSUME NEW h, NEW g, Follows(h, g), NEW i,
           NEW up, up <=>
                /\ Len(g) >= (GetEpochNumber(Len(h)) - 1) * EpochSize + lookbackWindow
                /\ Len(g) <= GetEpochNumber(Len(h)) * EpochSize - 2
                /\ \E m \in Len(g) - lookbackWindow + 1 .. Len(g) : i \in h[m + 1]
    PROVE  upBlocks(h, i) = upBlocks(g, i) \cup (IF up THEN {Len(g)} ELSE {})
<1>. DEFINE e == GetEpochNumber(Len(h))
            first == (e - 1) * EpochSize + lookbackWindow
            last == e * EpochSize - 2
            n == Len(g)
            signed(x, m) == m < Len(x) /\ i \in x[m + 1]
            upAt(x, j) == j < Len(x) /\ \E m \in j - lookbackWindow + 1 .. j : signed(x, m)
<1>1. h \in Blocks /\ g \in Blocks /\ Len(h) = n + 1 /\ e >= 1 /\ GetEpochNumber(Len(g)) = e
    BY DEF Follows
<1>2. n \in Nat /\ first \in Nat /\ last \in Int /\ first >= lookbackWindow /\ lookbackWindow \in Nat
    <2>1. /\ Len(h) \in Nat /\ e \in Nat /\ (e - 1) * EpochSize \in Nat
          /\ e * EpochSize = (e - 1) * EpochSize + EpochSize
        BY <1>1, EpochBounds, Zenon
    <2>2. n \in Nat
        BY <1>1 DEF Blocks
    <2>. HIDE DEF e
    <2>. QED  BY <2>1, <2>2, Constants
<1>3. /\ upBlocks(h, i) = {j \in first .. last : upAt(h, j)}
      /\ upBlocks(g, i) = {j \in first .. last : upAt(g, j)}
    BY <1>1 DEF upBlocks
<1>4. ASSUME NEW j \in first .. last, j < n
      PROVE  upAt(h, j) <=> upAt(g, j)
    <2>1. ASSUME NEW m \in j - lookbackWindow + 1 .. j
          PROVE  m < Len(h) /\ m < Len(g) /\ h[m + 1] = g[m + 1]
        <3>1. m + 1 \in 1 .. n /\ m < n /\ m < n + 1
            BY <1>2, <1>4
        <3>. QED  BY <3>1, <1>1 DEF Follows
    <2>2. j < Len(h) /\ j < Len(g)
        BY <1>1, <1>2, <1>4
    <2>. QED  BY <2>1, <2>2
<1>5. upAt(h, n) <=> \E m \in n - lookbackWindow + 1 .. n : i \in h[m + 1]
    <2>1. n < Len(h) /\ \A m \in n - lookbackWindow + 1 .. n : m < Len(h)
        BY <1>1, <1>2
    <2>. QED  BY <2>1
<1>6. up <=> n \in first .. last /\ upAt(h, n)
    <2>1. up <=> n >= first /\ n <= last /\ upAt(h, n)
        BY <1>5, Zenon
    <2>2. n \in first .. last <=> n >= first /\ n <= last
        <3>. HIDE DEF n, first, last
        <3>. QED  BY <1>2
    <2>. QED  BY <2>1, <2>2, Zenon
<1>7. /\ \A j \in first .. last : upAt(h, j) => j < n \/ j = n
      /\ \A j \in first .. last : upAt(g, j) => j < n
    BY <1>1, <1>2
<1>. HIDE DEF upAt, first, last, n
<1>8. \A j : j \in upBlocks(h, i) <=> j \in upBlocks(g, i) \/ (up /\ j = n)
    BY <1>3, <1>4, <1>6, <1>7
<1>9. upBlocks(h, i) = upBlocks(g, i) \cup (IF up THEN {n} ELSE {})
    BY <1>8
<1>. QED  BY <1>9 DEF n

\* The entry of a validator after a further block.
counts(m, i, n, bitmap) ==
    LET signed == IF i \in bitmap THEN n ELSE m.entries[i].lastSignedBlock
        up == /\ windowContains(MonitoringWindow(m.epoch), n)
              /\ windowContains(newWindowEndingAt(n, lookbackWindow), signed)
    IN  [upBlocks |-> m.entries[i].upBlocks + IF up THEN 1 ELSE 0,
         lastSignedBlock |-> signed]

\* updateUptime: an entry that has the counts of a block has those of the
\* next one after it.
LEMMA CountsGrow ==
    ASSUME NEW h, NEW g, Follows(h, g), NEW m, m.epoch = GetEpochNumber(Len(h)),
           NEW i, m.entries[i] \in Entry, Counted(g, i, m.entries[i])
    PROVE  /\ counts(m, i, Len(g), h[Len(h)]) \in Entry
           /\ Counted(h, i, counts(m, i, Len(g), h[Len(h)]))
<1>. DEFINE e == GetEpochNumber(Len(h))
            P == (e - 1) * EpochSize
            n == Len(g)
            bitmap == h[Len(h)]
            old == m.entries[i].lastSignedBlock
            signed == IF i \in bitmap THEN n ELSE old
            up == /\ windowContains(MonitoringWindow(m.epoch), n)
                  /\ windowContains(newWindowEndingAt(n, lookbackWindow), signed)
            start == n - lookbackWindow + 1
<1>1. h \in Blocks /\ g \in Blocks /\ Len(h) = n + 1 /\ e >= 1 /\ GetEpochNumber(Len(g)) = e
    BY DEF Follows
<1>2. /\ n \in Nat /\ P \in Nat /\ e * EpochSize = P + EpochSize /\ n >= P + 1
      /\ GetEpochFirstBlockNumber(e) = P + 1 /\ lookbackWindow \in Nat /\ lookbackWindow >= 1
    BY <1>1, EpochBounds, Constants, Zenon
<1>3. /\ signedBlocks(h, i) = signedBlocks(g, i) \cup (IF i \in bitmap THEN {n} ELSE {})
      /\ \A k \in signedBlocks(g, i) : k < n
    BY SignedGrows
<1>4. old \in Nat /\ isLastOf(old, signedBlocks(g, i))
    BY DEF Counted, Entry
<1>5. signedBlocks(h, i) = {k \in P + 1 .. n : i \in h[k + 1]}
    <2>1. Len(h) - 1 = n
        BY <1>1, <1>2
    <2>. QED  BY <1>2, <2>1 DEF signedBlocks
<1>6. signed \in Nat /\ signed <= n /\ isLastOf(signed, signedBlocks(h, i))
    <2>. HIDE DEF n, bitmap, old
    <2>1. CASE i \in bitmap
        <3>1. n \in signedBlocks(h, i)
            BY <2>1, <1>3
        <3>2. \A k \in signedBlocks(h, i) : k <= n
            BY <1>2, <1>5
        <3>. QED  BY <2>1, <1>2, <3>1, <3>2, Zenon DEF isLastOf
    <2>2. CASE i \notin bitmap
        <3>1. signedBlocks(h, i) = signedBlocks(g, i)
            BY <2>2, <1>3
        <3>2. old <= n
            <4>1. old = 0 \/ old \in signedBlocks(g, i)
                BY <1>4 DEF isLastOf
            <4>2. old = 0 \/ old < n
                BY <4>1, <1>3
            <4>. QED  BY <4>2, <1>2, <1>4
        <3>. QED  BY <2>2, <1>4, <3>1, <3>2, Zenon
    <2>. QED  BY <2>1, <2>2
<1>7. windowContains(MonitoringWindow(m.epoch), n)
        <=> n >= P + lookbackWindow /\ n <= e * EpochSize - 2
    <2>1. MonitoringWindow(m.epoch) = [start |-> P + 1 + lookbackWindow - 1, end |-> e * EpochSize - 2]
        BY <1>2 DEF MonitoringWindow, GetEpochLastBlockNumber, BlocksToSkipAtEpochEnd
    <2>. HIDE DEF n, P, e
    <2>2. P + 1 + lookbackWindow - 1 = P + lookbackWindow
        BY <1>2
    <2>. QED  BY <1>2, <2>1, <2>2 DEF windowContains
<1>8. ASSUME n >= P + lookbackWindow
      PROVE  windowContains(newWindowEndingAt(n, lookbackWindow), signed)
                <=> \E k \in start .. n : i \in h[k + 1]
    <2>. HIDE DEF n, P, e, signed
    <2>1. start >= P + 1 /\ start >= 1 /\ start \in Nat
        BY <1>2, <1>8
    <2>2. newWindowEndingAt(n, lookbackWindow) = [start |-> start, end |-> n]
        BY <2>1 DEF newWindowEndingAt
    <2>. HIDE DEF start
    <2>3. windowContains(newWindowEndingAt(n, lookbackWindow), signed) <=> start <= signed
        BY <1>6, <2>2 DEF windowContains
    <2>4. ASSUME start <= signed PROVE \E k \in start .. n : i \in h[k + 1]
        <3>1. signed # 0
            BY <2>1, <2>4, <1>6
        <3>2. signed \in signedBlocks(h, i)
            BY <3>1, <1>6 DEF isLastOf
        <3>3. i \in h[signed + 1] /\ signed \in start .. n
            BY <3>2, <2>1, <2>4, <1>2, <1>5, <1>6
        <3>. QED  BY <3>3
    <2>5. ASSUME NEW k \in start .. n, i \in h[k + 1] PROVE start <= signed
        <3>1. k \in signedBlocks(h, i)
            BY <2>1, <2>5, <1>2, <1>5
        <3>2. k <= signed
            BY <3>1, <1>6, Zenon DEF isLastOf
        <3>. QED  BY <3>2, <2>1, <1>2, <1>6
    <2>. QED  BY <2>3, <2>4, <2>5, Zenon
<1>9. up <=> /\ n >= P + lookbackWindow
             /\ n <= e * EpochSize - 2
             /\ \E k \in n - lookbackWindow + 1 .. n : i \in h[k + 1]
    BY <1>7, <1>8
<1>10. upBlocks(h, i) = upBlocks(g, i) \cup (IF up THEN {n} ELSE {})
    <2>. HIDE DEF up
    <2>. QED  BY <1>9, UpGrows
<1>11. /\ IsFiniteSet(upBlocks(g, i)) /\ Cardinality(upBlocks(g, i)) \in Nat
       /\ \A j \in upBlocks(g, i) : j < n
    BY <1>1, UpBlocksFinite
<1>12. n \notin upBlocks(g, i)
    BY <1>2, <1>11
<1>13. Cardinality(upBlocks(h, i)) = Cardinality(upBlocks(g, i)) + IF up THEN 1 ELSE 0
    <2>. HIDE DEF up, n
    <2>1. CASE up
        BY <2>1, <1>10, <1>11, <1>12, FS_AddElement, Zenon
    <2>2. CASE ~up
        BY <2>2, <1>10, <1>11
    <2>. QED  BY <2>1, <2>2
<1>14. m.entries[i].upBlocks = Cardinality(upBlocks(g, i)) /\ m.entries[i].upBlocks \in Nat
    BY DEF Counted, Entry
<1>. DEFINE c == counts(m, i, n, bitmap)
<1>15. c = [upBlocks |-> m.entries[i].upBlocks + IF up THEN 1 ELSE 0, lastSignedBlock |-> signed]
    BY DEF counts
<1>. HIDE DEF c, up, signed, n, bitmap
<1>16. (m.entries[i].upBlocks + IF up THEN 1 ELSE 0) \in Nat
    BY <1>14
<1>17. c \in Entry
    BY <1>6, <1>15, <1>16, Zenon DEF Entry
<1>18. c.upBlocks = Cardinality(upBlocks(h, i)) /\ c.lastSignedBlock = signed
    BY <1>13, <1>14, <1>15, Zenon
<1>19. Counted(h, i, c)
    BY <1>6, <1>18 DEF Counted
<1>. QED  BY <1>17, <1>19 DEF c, n, bitmap

\* updateUptime is counts, for each validator.
LEMMA UpdateUptimeCounts ==
    ASSUME NEW m, NEW n, NEW bitmap
    PROVE  updateUptime(m, n, bitmap) = [i \in DOMAIN m.entries |-> counts(m, i, n, bitmap)]
BY DEF updateUptime, counts

\* The two monitors differ in what they count, and not in whom.
SameEntries(m, l) == m.epoch = l.epoch /\ DOMAIN m.entries = DOMAIN l.entries

\* A new monitor is right, for a set of any size.
LEMMA NewMonitorRight ==
    ASSUME NEW e \in Nat, e >= 1, NEW size
    PROVE  LET m == NewMonitor(e, size)
           IN  /\ Right(m) /\ m.latest = None /\ m.epoch = e
               /\ DOMAIN m.entries = 0 .. size - 1
<1>. DEFINE m == NewMonitor(e, size)
            zero == [upBlocks |-> 0, lastSignedBlock |-> 0]
<1>1. /\ m = [epoch |-> e, latest |-> None, entries |-> noEntries(size)]
      /\ m.epoch = e /\ m.latest = None /\ m.entries = noEntries(size)
    BY DEF NewMonitor
<1>2. noEntries(size) = [i \in 0 .. size - 1 |-> zero]
    BY DEF noEntries
<1>3. zero \in Entry
    BY DEF Entry
<1>. HIDE DEF m, zero
<1>4. /\ DOMAIN m.entries = 0 .. size - 1 /\ m.entries \in [DOMAIN m.entries -> Entry]
      /\ \A i \in DOMAIN m.entries : m.entries[i] = zero
    BY <1>1, <1>2, <1>3, Zenon
<1>5. m = [epoch |-> m.epoch, latest |-> m.latest, entries |-> m.entries]
    BY <1>1
<1>6. Right(m)
    BY <1>1, <1>4, <1>5, Zenon DEF Right, zero
<1>. QED  BY <1>1, <1>4, <1>6 DEF m

\* Clear: as new.
LEMMA ClearRight ==
    ASSUME NEW m, Right(m)
    PROVE  /\ Right(Clear(m)) /\ Clear(m).latest = None /\ Clear(m).epoch = m.epoch
           /\ \A size \in Nat : DOMAIN m.entries = 0 .. size - 1 => SameEntries(Clear(m), m)
<1>1. m.epoch \in Nat /\ m.epoch >= 1
    BY DEF Right
<1>. DEFINE size == Cardinality(DOMAIN m.entries)
<1>2. Clear(m) = NewMonitor(m.epoch, size)
    BY DEF Clear
<1>. HIDE DEF size
<1>3. /\ Right(Clear(m)) /\ Clear(m).latest = None /\ Clear(m).epoch = m.epoch
      /\ DOMAIN Clear(m).entries = 0 .. size - 1
    BY <1>1, <1>2, NewMonitorRight
<1>4. ASSUME NEW k \in Nat, DOMAIN m.entries = 0 .. k - 1
      PROVE  SameEntries(Clear(m), m)
    <2>1. Cardinality(0 .. k - 1) = k
        BY FS_Interval
    <2>2. size = k
        BY <2>1, <1>4 DEF size
    <2>. QED  BY <2>2, <1>3, <1>4 DEF SameEntries
<1>. QED  BY <1>3, <1>4

\* Monitor.ProcessHeader takes the first block of its epoch.
LEMMA TakesFirst ==
    ASSUME NEW m, Right(m), m.latest = None, NEW h \in Blocks,
           GetEpochNumber(Len(h)) = m.epoch, Len(h) = GetEpochFirstBlockNumber(m.epoch)
    PROVE  LET r == processNext(m, h)
           IN  r.ok /\ Right(r.m) /\ r.m.latest = h /\ SameEntries(r.m, m)
<1>. DEFINE l == [m EXCEPT !.latest = h]
            zero == [upBlocks |-> 0, lastSignedBlock |-> 0]
<1>1. processNext(m, h) = Succeeds(l)
    BY DEF processNext
<1>2. /\ m = [epoch |-> m.epoch, latest |-> m.latest, entries |-> m.entries]
      /\ m.epoch \in Nat /\ m.epoch >= 1 /\ m.entries \in [DOMAIN m.entries -> Entry]
      /\ \A i \in DOMAIN m.entries : m.entries[i] = zero
    BY DEF Right
<1>3. l = [epoch |-> m.epoch, latest |-> h, entries |-> m.entries]
    BY <1>2
<1>. HIDE DEF l, zero
<1>4. l.epoch = m.epoch /\ l.latest = h /\ l.entries = m.entries
    BY <1>3
<1>5. \A i \in DOMAIN m.entries : Counted(h, i, zero)
    BY <1>2, FirstCounts, Zenon DEF zero
<1>6. Right(l)
    <2>1. l = [epoch |-> l.epoch, latest |-> l.latest, entries |-> l.entries]
        BY <1>3, <1>4
    <2>2. h # None
        BY ElectionsAssumption
    <2>3. \A i \in DOMAIN l.entries : Counted(l.latest, i, l.entries[i])
        BY <1>2, <1>4, <1>5, Zenon
    <2>. QED  BY <1>2, <1>4, <2>1, <2>2, <2>3, Zenon DEF Right
<1>. QED  BY <1>1, <1>4, <1>6 DEF Succeeds, SameEntries

\* Monitor.ProcessHeader takes the block after its last one.
LEMMA TakesNext ==
    ASSUME NEW m, Right(m), m.latest # None, NEW h, Follows(h, m.latest),
           GetEpochNumber(Len(h)) = m.epoch, parent(h) = m.latest
    PROVE  LET r == processNext(m, h)
           IN  r.ok /\ Right(r.m) /\ r.m.latest = h /\ SameEntries(r.m, m)
<1>. DEFINE f == updateUptime(m, Len(h) - 1, h[Len(h)])
            l == [m EXCEPT !.entries = f, !.latest = h]
            g == m.latest
<1>1. /\ m = [epoch |-> m.epoch, latest |-> m.latest, entries |-> m.entries]
      /\ m.epoch \in Nat /\ m.epoch >= 1 /\ m.entries \in [DOMAIN m.entries -> Entry]
      /\ g \in Blocks /\ \A i \in DOMAIN m.entries : Counted(g, i, m.entries[i])
    BY DEF Right
<1>2. h \in Blocks /\ Len(g) \in Nat /\ Len(h) = Len(g) + 1 /\ Len(h) - 1 = Len(g)
    BY <1>1 DEF Follows, Blocks
<1>3. processNext(m, h) = Succeeds(l)
    <2>1. ~(Len(m.latest) >= Len(h))
        BY <1>2
    <2>. HIDE DEF l
    <2>2. processNext(m, h) = Succeeds([m EXCEPT !.entries = updateUptime(m, Len(h) - 1, h[Len(h)]), !.latest = h])
        BY <2>1 DEF processNext
    <2>. QED  BY <2>2 DEF l
<1>4. f = [i \in DOMAIN m.entries |-> counts(m, i, Len(g), h[Len(h)])]
    BY <1>2, UpdateUptimeCounts
<1>. HIDE DEF f
<1>5. l = [epoch |-> m.epoch, latest |-> h, entries |-> f]
    <2>. DEFINE k == [m EXCEPT !.entries = f]
    <2>1. l = [k EXCEPT !.latest = h]
        OBVIOUS
    <2>2. k = [epoch |-> m.epoch, latest |-> m.latest, entries |-> f]
        BY <1>1
    <2>. HIDE DEF k, l
    <2>. QED  BY <2>1, <2>2
<1>. HIDE DEF l
<1>6. l.epoch = m.epoch /\ l.latest = h /\ l.entries = f
    BY <1>5
<1>7. \A i \in DOMAIN m.entries :
          /\ counts(m, i, Len(g), h[Len(h)]) \in Entry
          /\ Counted(h, i, counts(m, i, Len(g), h[Len(h)]))
    BY <1>1, CountsGrow, Zenon
<1>8. DOMAIN f = DOMAIN m.entries /\ f \in [DOMAIN f -> Entry] /\ \A i \in DOMAIN f : Counted(h, i, f[i])
    BY <1>4, <1>7, Zenon
<1>9. Right(l)
    <2>1. l = [epoch |-> l.epoch, latest |-> l.latest, entries |-> l.entries]
        BY <1>5, <1>6
    <2>2. h # None
        BY <1>2, ElectionsAssumption
    <2>. QED  BY <1>1, <1>2, <1>6, <1>8, <2>1, <2>2, Zenon DEF Right
<1>. QED  BY <1>3, <1>6, <1>8, <1>9 DEF Succeeds, SameEntries

-----------------------------------------------------------------------------
(***************************************************************************)
(* The builder around the monitor.                                         *)
(***************************************************************************)

\* The last k blocks of the chain of h.
lastBlocks(h, k) == [i \in 1 .. k |-> SubSeq(h, 1, Len(h) - k + i)]

\* The blocks that end the chain of h, one by one.
LEMMA LastBlocks ==
    ASSUME NEW h \in Blocks, NEW k \in 1 .. Len(h)
    PROVE  /\ Len(h) \in Nat
           /\ lastBlocks(h, k) \in Seq(Blocks) /\ Len(lastBlocks(h, k)) = k
           /\ lastBlocks(h, k)[k] = h
           /\ \A i \in 1 .. k :
                 /\ lastBlocks(h, k)[i] = SubSeq(h, 1, Len(h) - k + i)
                 /\ Len(h) - k + i \in 0 .. Len(h)
                 /\ lastBlocks(h, k)[i] \in Blocks /\ Len(lastBlocks(h, k)[i]) = Len(h) - k + i
<1>. DEFINE s == lastBlocks(h, k)
<1>1. Len(h) \in Nat /\ k \in Nat
    BY DEF Blocks
<1>2. s = [i \in 1 .. k |-> SubSeq(h, 1, Len(h) - k + i)]
    BY DEF lastBlocks
<1>. HIDE DEF s
<1>3. ASSUME NEW i \in 1 .. k
      PROVE  /\ s[i] = SubSeq(h, 1, Len(h) - k + i)
             /\ Len(h) - k + i \in 0 .. Len(h)
             /\ s[i] \in Blocks /\ Len(s[i]) = Len(h) - k + i
    <2>1. s[i] = SubSeq(h, 1, Len(h) - k + i)
        BY <1>2
    <2>2. Len(h) - k + i \in 0 .. Len(h)
        BY <1>1
    <2>3. ASSUME NEW n \in 0 .. Len(h)
          PROVE  SubSeq(h, 1, n) \in Blocks /\ Len(SubSeq(h, 1, n)) = n
        BY UpToBlock
    <2>. QED  BY <2>1, <2>2, <2>3, Zenon
<1>4. s \in [1 .. k -> Blocks]
    BY <1>2, <1>3, Zenon
<1>5. s \in Seq(Blocks) /\ Len(s) = k
    BY <1>1, <1>4
<1>6. s[k] = h
    <2>1. s[k] = SubSeq(h, 1, Len(h) - k + k) /\ Len(h) - k + k = Len(h)
        BY <1>1, <1>3
    <2>. QED  BY <2>1, UpToEnd
<1>. QED  BY <1>1, <1>3, <1>5, <1>6, Zenon DEF s

\* GetEpochHeadersUpToLimit, of a block after the head.
LEMMA Headers ==
    ASSUME NEW h \in Blocks, NEW limit \in 1 .. GetNumberWithinEpoch(Len(h)), Len(h) >= 1
    PROVE  /\ limit \in 1 .. Len(h)
           /\ GetEpochHeadersUpToLimit(parent(h), h, limit) = lastBlocks(h, limit)
           /\ lastBlocks(h, limit) # None
<1>. DEFINE c == parent(h)
            within == GetNumberWithinEpoch(Len(h))
            amount == limit - 1
            e == GetEpochNumber(Len(h))
<1>1. Len(h) \in Nat
    BY DEF Blocks
<1>2. within \in Nat /\ limit \in Nat /\ limit >= 1 /\ limit <= within /\ within <= Len(h)
    <2>1. /\ within \in 1 .. EpochSize /\ within = Len(h) - (e - 1) * EpochSize
          /\ e \in Nat /\ e >= 1
        BY <1>1, EpochFacts
    <2>. HIDE DEF within, e
    <2>2. (e - 1) * EpochSize \in Int /\ (e - 1) * EpochSize >= 0
        BY <2>1, Multiples
    <2>3. limit \in 1 .. within
        BY DEF within
    <2>. QED  BY <1>1, <2>1, <2>2, <2>3, Constants
<1>. HIDE DEF within, e
<1>3. Min({within, limit}) = limit
    BY <1>2 DEF Min
<1>4. Len(h) - 1 \in 0 .. Len(h) /\ c = SubSeq(h, 1, Len(h) - 1)
    BY <1>1 DEF parent
<1>5. c \in Blocks /\ Len(c) = Len(h) - 1
    BY <1>4, UpToBlock, Zenon
<1>. HIDE DEF c
<1>6. GetHeaderByNumber(c, Len(h) - 1) # None
    <2>1. Len(c) \in 0 .. Len(c) /\ Len(h) - 1 <= Len(c)
        BY <1>1, <1>4, <1>5
    <2>2. SubSeq(c, 1, Len(c)) # None
        BY <1>5, <2>1, UpToBlock
    <2>. QED  BY <1>5, <2>1, <2>2 DEF GetHeaderByNumber
<1>. DEFINE before == [i \in 1 .. amount |-> SubSeq(c, 1, Len(h) - 1 - amount + i)]
            s == lastBlocks(h, limit)
<1>7. GetEpochHeadersUpToLimit(c, h, limit) = before \o <<h>>
    <2>1. within = GetNumberWithinEpoch(Len(h))
        BY DEF within
    <2>. QED  BY <1>3, <1>6, <2>1, Zenon DEF GetEpochHeadersUpToLimit
<1>8. limit \in 1 .. Len(h)
    BY <1>1, <1>2
<1>9. /\ s \in Seq(Blocks) /\ Len(s) = limit /\ s[limit] = h
      /\ \A i \in 1 .. limit : s[i] = SubSeq(h, 1, Len(h) - limit + i) /\ Len(h) - limit + i \in 0 .. Len(h)
    BY <1>8, LastBlocks
<1>. HIDE DEF s
<1>10. ASSUME NEW i \in 1 .. amount
       PROVE  before[i] = s[i]
    <2>. DEFINE n == Len(h) - limit + i
    <2>1. n = Len(h) - 1 - amount + i /\ n \in 0 .. Len(h) - 1 /\ i \in 1 .. limit
        BY <1>1, <1>2, <1>8
    <2>2. before[i] = SubSeq(c, 1, n)
        BY <2>1
    <2>3. s[i] = SubSeq(h, 1, n)
        BY <1>9, <2>1
    <2>. HIDE DEF n, before
    <2>4. SubSeq(SubSeq(h, 1, Len(h) - 1), 1, n) = SubSeq(h, 1, n)
        BY <1>4, <2>1, UpToUpTo, Zenon
    <2>. QED  BY <1>4, <2>2, <2>3, <2>4, Zenon
<1>11. before \in Seq(Blocks) /\ Len(before) = amount
    <2>1. amount \in Nat
        BY <1>2
    <2>2. \A i \in 1 .. amount : i \in 1 .. limit /\ s[i] \in Blocks
        BY <1>2, <1>9
    <2>3. before \in [1 .. amount -> Blocks]
        BY <1>10, <2>2, Zenon
    <2>. HIDE DEF before
    <2>. QED  BY <2>1, <2>3
<1>12. before \o <<h>> = s
    <2>. DEFINE t == before \o <<h>>
    <2>1. /\ t \in Seq(Blocks) /\ Len(t) = amount + 1
          /\ \A i \in 1 .. amount : t[i] = before[i]
          /\ t[amount + 1] = h
        <3>. HIDE DEF before
        <3>. QED  BY <1>2, <1>11
    <2>2. Len(t) = limit /\ \A i \in 1 .. limit : t[i] = s[i]
        <3>. HIDE DEF before, t
        <3>1. amount + 1 = limit /\ \A i \in 1 .. limit : i \in 1 .. amount \/ i = limit
            BY <1>2
        <3>. HIDE DEF amount
        <3>. QED  BY <1>9, <1>10, <2>1, <3>1, Zenon
    <2>. HIDE DEF t, before
    <2>3. t = s
        BY <1>9, <2>1, <2>2, SeqEqual, Zenon
    <2>. QED  BY <2>3 DEF t
<1>13. s # None
    BY <1>9, ElectionsAssumption, Zenon
<1>. QED  BY <1>7, <1>8, <1>12, <1>13, Zenon DEF c, s

\* Where a monitor may stand before block n of the chain of h.
Before(m, h, n) ==
    LET first == GetEpochFirstBlockNumber(m.epoch)
    IN  \/ m.latest = None /\ n = first
        \/ m.latest = SubSeq(h, 1, n - 1) /\ n - 1 >= first

\* Monitor.ProcessHeader takes block n of that chain.
LEMMA TakesBlock ==
    ASSUME NEW h \in Blocks, NEW m, Right(m), GetEpochNumber(Len(h)) = m.epoch,
           NEW n \in 1 .. Len(h), Before(m, h, n)
    PROVE  LET r == processNext(m, SubSeq(h, 1, n))
           IN  r.ok /\ Right(r.m) /\ r.m.latest = SubSeq(h, 1, n) /\ SameEntries(r.m, m)
<1>. DEFINE e == m.epoch
            P == (e - 1) * EpochSize
            x == SubSeq(h, 1, n)
            g == SubSeq(h, 1, n - 1)
<1>1. /\ Len(h) \in Nat /\ e \in Nat /\ e >= 1 /\ P \in Nat /\ e * EpochSize = P + EpochSize
      /\ GetEpochFirstBlockNumber(e) = P + 1 /\ Len(h) <= P + EpochSize
    BY EpochBounds DEF Right
<1>2. n \in Nat /\ n - 1 \in 0 .. Len(h) /\ n \in 0 .. Len(h)
    BY <1>1
<1>3. x \in Blocks /\ Len(x) = n /\ x # None /\ \A k \in 1 .. n : x[k] = h[k]
    BY <1>2, UpToBlock
<1>4. g \in Blocks /\ Len(g) = n - 1 /\ g # None /\ \A k \in 1 .. n - 1 : g[k] = h[k]
    BY <1>2, UpToBlock, Zenon
<1>5. n >= P + 1
    BY <1>1, <1>2 DEF Before
<1>. HIDE DEF P, x, g
<1>6. GetEpochNumber(n) = e
    <2>1. (e - 1) * EpochSize < n /\ n <= e * EpochSize
        <3>1. P < n /\ n <= e * EpochSize
            BY <1>1, <1>2, <1>5, Constants
        <3>. QED  BY <3>1 DEF P
    <2>. QED  BY <1>1, <1>2, <2>1, EpochOf
<1>7. CASE m.latest = None /\ n = GetEpochFirstBlockNumber(e)
    <2>1. GetEpochNumber(Len(x)) = m.epoch /\ Len(x) = GetEpochFirstBlockNumber(m.epoch)
        BY <1>3, <1>6, <1>7
    <2>. QED  BY <1>3, <1>7, <2>1, TakesFirst, Zenon DEF x
<1>8. CASE m.latest = g /\ n - 1 >= GetEpochFirstBlockNumber(e)
    <2>1. n - 1 >= P + 1
        BY <1>1, <1>8
    <2>2. GetEpochNumber(n - 1) = e
        <3>1. (e - 1) * EpochSize < n - 1 /\ n - 1 <= e * EpochSize /\ n - 1 \in Nat
            <4>1. P < n - 1 /\ n - 1 <= e * EpochSize /\ n - 1 \in Nat
                BY <1>1, <1>2, <2>1, Constants
            <4>. QED  BY <4>1 DEF P
        <3>. QED  BY <1>1, <3>1, EpochOf
    <2>3. Follows(x, g)
        <3>1. n = n - 1 + 1 /\ \A k \in 1 .. n - 1 : k \in 1 .. n
            BY <1>2
        <3>2. \A k \in 1 .. n - 1 : x[k] = g[k]
            BY <1>3, <1>4, <3>1, Zenon
        <3>. QED  BY <1>1, <1>3, <1>4, <1>6, <2>2, <3>1, <3>2, Zenon DEF Follows
    <2>4. parent(x) = g
        <3>1. n - 1 \in 0 .. n
            BY <1>2
        <3>2. SubSeq(SubSeq(h, 1, n), 1, n - 1) = SubSeq(h, 1, n - 1)
            BY <1>2, <3>1, UpToUpTo, Zenon
        <3>. QED  BY <1>3, <3>2 DEF parent, x, g
    <2>5. GetEpochNumber(Len(x)) = m.epoch /\ m.latest # None
        BY <1>3, <1>4, <1>6, <1>8, Zenon
    <2>. QED  BY <1>3, <1>8, <2>3, <2>4, <2>5, TakesNext, Zenon DEF x
<1>. QED  BY <1>7, <1>8, Zenon DEF Before, g

\* A set of numbers with 0 and the successor of each of its members has all.
LEMMA Induction ==
    ASSUME NEW T \in SUBSET Nat, 0 \in T, \A n \in T : n + 1 \in T
    PROVE  T = Nat
<1>. SUFFICES ASSUME Nat \ T # {} PROVE FALSE
    BY Zenon
<1>. DEFINE R == OpToRel(<, Nat)
<1>1. IsWellFoundedOn(R, Nat)
    BY NatLessThanWellFounded, Zenon
<1>2. \A x, y \in Nat : y < x => <<y, x>> \in R
    BY DEF OpToRel
<1>. HIDE DEF R
<1>3. PICK x \in Nat \ T : \A y \in Nat \ T : ~ (<<y, x>> \in R)
    BY <1>1, WFMin, Zenon
<1>4. x # 0 /\ x - 1 \in Nat /\ x - 1 < x
    OBVIOUS
<1>5. x - 1 \in T
    <2>1. <<x - 1, x>> \in R
        BY <1>2, <1>4
    <2>. QED  BY <2>1, <1>3, <1>4, Zenon
<1>. QED  BY <1>5, <1>4

\* The step of addAll for a header.
step(r, header) == IF r.ok THEN processNext(r.m, header) ELSE r

\* A function from the number of headers that are done to the result so far.
addsUp(after, m, headers) ==
    /\ addAll(m, headers) = after[Len(headers)]
    /\ after[0] = Succeeds(m)
    /\ \A i \in 1 .. Len(headers) : after[i] = step(after[i - 1], headers[i])

\* addAll is a loop: it has such a function.
LEMMA AddAllLoops ==
    ASSUME NEW m, NEW headers, Len(headers) \in Nat
    PROVE  \E after : addsUp(after, m, headers)
<1>. DEFINE Body(g, n) == [i \in 0 .. n |-> IF i = 0 THEN Succeeds(m) ELSE step(g[i - 1], headers[i])]
            Runs == {n \in Nat : \E g : g = Body(g, n)}
<1>1. Runs = Nat
    <2>1. 0 \in Runs
        <3>. DEFINE g == [i \in 0 .. 0 |-> Succeeds(m)]
        <3>1. g = Body(g, 0)
            OBVIOUS
        <3>. QED  BY <3>1, Zenon
    <2>2. ASSUME NEW n \in Runs
          PROVE  n + 1 \in Runs
        <3>1. PICK g : g = Body(g, n)
            OBVIOUS
        <3>. DEFINE h == [i \in 0 .. n + 1 |-> IF i <= n THEN g[i] ELSE step(g[n], headers[n + 1])]
        <3>2. /\ DOMAIN g = 0 .. n
              /\ \A i \in 0 .. n : g[i] = IF i = 0 THEN Succeeds(m) ELSE step(g[i - 1], headers[i])
            BY <3>1
        <3>3. \A i \in 0 .. n : h[i] = g[i]
            OBVIOUS
        <3>4. ASSUME NEW i \in 0 .. n + 1
              PROVE  h[i] = IF i = 0 THEN Succeeds(m) ELSE step(h[i - 1], headers[i])
            <4>1. CASE i = 0
                BY <4>1, <3>2, <3>3
            <4>2. CASE i # 0 /\ i <= n
                <5>1. i \in 0 .. n /\ i - 1 \in 0 .. n
                    BY <4>2
                <5>. HIDE DEF h
                <5>. QED  BY <4>2, <5>1, <3>2, <3>3, Zenon
            <4>3. CASE i = n + 1
                <5>1. h[i] = step(g[n], headers[n + 1]) /\ i - 1 = n /\ n \in 0 .. n /\ i # 0
                    BY <4>3
                <5>. HIDE DEF h
                <5>. QED  BY <4>3, <5>1, <3>3, Zenon
            <4>. QED  BY <4>1, <4>2, <4>3
        <3>5. h = Body(h, n + 1)
            <4>1. h = [i \in 0 .. n + 1 |-> h[i]]
                OBVIOUS
            <4>. HIDE DEF h
            <4>. QED  BY <3>4, <4>1, Zenon
        <3>6. n + 1 \in Nat
            OBVIOUS
        <3>. HIDE DEF h, Body
        <3>. QED  BY <3>5, <3>6
    <2>3. Runs \in SUBSET Nat
        OBVIOUS
    <2>. HIDE DEF Runs
    <2>. QED  BY <2>1, <2>2, <2>3, Induction, Zenon
<1>. DEFINE N == Len(headers)
            after == CHOOSE g : g = Body(g, N)
<1>2. after = Body(after, N)
    <2>1. \E g : g = Body(g, N)
        BY <1>1
    <2>. HIDE DEF Body, Runs
    <2>. QED  BY <2>1
<1>3. addAll(m, headers) = after[N]
    BY DEF addAll, step
<1>. HIDE DEF after
<1>4. after[0] = Succeeds(m) /\ \A i \in 1 .. N : after[i] = step(after[i - 1], headers[i])
    BY <1>2
<1>5. addsUp(after, m, headers)
    BY <1>3, <1>4, Zenon DEF addsUp
<1>. QED  BY <1>5

\* addAll: the last blocks of a chain, from where the monitor stands, are all
\* taken.
LEMMA AddAllTakes ==
    ASSUME NEW h \in Blocks, NEW m, Right(m), GetEpochNumber(Len(h)) = m.epoch,
           NEW k \in 1 .. Len(h), Before(m, h, Len(h) - k + 1)
    PROVE  LET r == addAll(m, lastBlocks(h, k))
           IN  r.ok /\ Right(r.m) /\ r.m.latest = h /\ SameEntries(r.m, m)
<1>a. \/ Len(h) - k + 1 = GetEpochFirstBlockNumber(m.epoch)
      \/ Len(h) - k + 1 - 1 >= GetEpochFirstBlockNumber(m.epoch)
    BY DEF Before
<1>b. GetEpochFirstBlockNumber(m.epoch) \in Int
    <2>1. m.epoch \in Nat
        BY DEF Right
    <2>. QED  BY <2>1, Constants DEF GetEpochFirstBlockNumber
<1>. DEFINE s == lastBlocks(h, k)
            n(i) == Len(h) - k + i
<1>1. /\ Len(h) \in Nat /\ s \in Seq(Blocks) /\ Len(s) = k /\ s[k] = h
      /\ \A i \in 1 .. k : s[i] = SubSeq(h, 1, n(i))
    BY LastBlocks, ZenonT(30)
<1>. HIDE DEF s
<1>2. k \in Nat /\ k >= 1
    BY <1>1
<1>c. Len(h) \in Nat
    BY <1>1, Zenon
<1>3. PICK after : /\ addAll(m, s) = after[k] /\ after[0] = Succeeds(m)
                   /\ \A i \in 1 .. k : after[i] = step(after[i - 1], s[i])
    <2>1. Len(s) \in Nat
        BY <1>1, <1>2
    <2>2. PICK after : addsUp(after, m, s)
        BY <2>1, AddAllLoops
    <2>. QED  BY <2>2, <1>1, Zenon DEF addsUp
<1>. DEFINE Taken(r, i) == r.ok /\ Right(r.m) /\ SameEntries(r.m, m) /\ r.m.latest = s[i]
            T == {j \in Nat : j + 1 <= k => Taken(after[j + 1], j + 1)}
<1>4. ASSUME NEW i \in 1 .. k, NEW r, r.ok, Right(r.m), SameEntries(r.m, m), Before(r.m, h, n(i))
      PROVE  Taken(step(r, s[i]), i)
    <2>1. n(i) \in 1 .. Len(h) /\ s[i] = SubSeq(h, 1, n(i))
        BY <1>1, <1>2
    <2>2. GetEpochNumber(Len(h)) = r.m.epoch
        BY <1>4, Zenon DEF SameEntries
    <2>3. step(r, s[i]) = processNext(r.m, s[i])
        BY <1>4, Zenon DEF step
    <2>. HIDE DEF n
    <2>4. LET q == processNext(r.m, SubSeq(h, 1, n(i)))
          IN  q.ok /\ Right(q.m) /\ q.m.latest = SubSeq(h, 1, n(i)) /\ SameEntries(q.m, r.m)
        BY <1>4, <2>1, <2>2, TakesBlock, Zenon
    <2>. QED  BY <1>4, <2>1, <2>3, <2>4 DEF SameEntries
<1>5. T = Nat
    <2>1. 0 \in T
        <3>1. after[1] = step(after[0], s[1]) /\ 1 \in 1 .. k /\ n(1) = Len(h) - k + 1
            BY <1>2, <1>3
        <3>2. after[0].ok /\ after[0].m = m
            BY <1>3 DEF Succeeds
        <3>3. SameEntries(after[0].m, m)
            BY <3>2, Zenon DEF SameEntries
        <3>. HIDE DEF n, Taken
        <3>4. Taken(after[1], 1)
            BY <1>4, <3>1, <3>2, <3>3, Zenon
        <3>. QED  BY <3>4
    <2>2. ASSUME NEW j \in T
          PROVE  j + 1 \in T
        <3>. SUFFICES ASSUME j + 1 + 1 <= k PROVE Taken(after[j + 1 + 1], j + 1 + 1)
            OBVIOUS
        <3>. DEFINE i == j + 1
        <3>1. j \in Nat /\ i \in 1 .. k /\ i + 1 \in 1 .. k /\ i + 1 - 1 = i
            BY <1>2
        <3>2. Taken(after[i], i)
            BY <3>1
        <3>3. after[i + 1] = step(after[i], s[i + 1])
            BY <1>3, <3>1
        <3>4. Before(after[i].m, h, n(i + 1))
            <4>1. after[i].m.latest = SubSeq(h, 1, n(i)) /\ n(i + 1) - 1 = n(i) /\ n(i) \in Int
                BY <1>1, <1>2, <3>1, <3>2
            <4>2. after[i].m.epoch = m.epoch
                BY <3>2, Zenon DEF SameEntries
            <4>3. n(i) >= GetEpochFirstBlockNumber(m.epoch)
                BY <1>a, <1>b, <1>c, <1>2, <3>1
            <4>. HIDE DEF n, i
            <4>. QED  BY <4>1, <4>2, <4>3, Zenon DEF Before
        <3>. HIDE DEF i, n
        <3>5. Taken(after[i + 1], i + 1)
            BY <1>4, <3>1, <3>2, <3>3, <3>4
        <3>. QED  BY <3>5, Zenon DEF i
    <2>3. T \in SUBSET Nat
        OBVIOUS
    <2>. HIDE DEF T
    <2>. QED  BY <2>1, <2>2, <2>3, Induction, Zenon
<1>6. Taken(after[k], k)
    <2>1. k - 1 \in Nat /\ k - 1 + 1 = k /\ k <= k
        BY <1>2
    <2>2. k - 1 + 1 <= k => Taken(after[k - 1 + 1], k - 1 + 1)
        <3>. HIDE DEF Taken
        <3>. QED  BY <1>5, <2>1, Zenon
    <2>. QED  BY <2>1, <2>2
<1>. QED  BY <1>1, <1>3, <1>6, Zenon DEF s

\* cleanBuild: a cleared monitor takes the blocks of its epoch up to h.
LEMMA CleanBuildTakes ==
    ASSUME NEW h \in Blocks, NEW m, Right(m), GetEpochNumber(Len(h)) = m.epoch, m.latest = None
    PROVE  LET r == cleanBuild(parent(h), m, h)
           IN  r.ok /\ Right(r.m) /\ r.m.latest = h /\ SameEntries(r.m, m)
<1>. DEFINE e == m.epoch
            P == (e - 1) * EpochSize
            within == GetNumberWithinEpoch(Len(h))
<1>1. /\ Len(h) \in Nat /\ e >= 1 /\ P \in Nat /\ GetEpochFirstBlockNumber(e) = P + 1
      /\ P + 1 <= Len(h)
    BY EpochBounds DEF Right
<1>2. within = Len(h) - P /\ within \in 1 .. EpochSize
    BY <1>1, EpochFacts, Zenon
<1>. HIDE DEF P
<1>3. within \in 1 .. GetNumberWithinEpoch(Len(h)) /\ Len(h) >= 1
    BY <1>1, <1>2, Constants
<1>. HIDE DEF within
<1>4. /\ within \in 1 .. Len(h) /\ lastBlocks(h, within) # None
      /\ GetEpochHeadersUpToLimit(parent(h), h, within) = lastBlocks(h, within)
    BY <1>3, Headers, Zenon
<1>5. cleanBuild(parent(h), m, h) = addAll(m, lastBlocks(h, within))
    BY <1>4 DEF cleanBuild, within
<1>6. Before(m, h, Len(h) - within + 1)
    <2>1. Len(h) - within + 1 = P + 1
        BY <1>1, <1>2
    <2>. QED  BY <1>1, <2>1 DEF Before
<1>. QED  BY <1>4, <1>5, <1>6, AddAllTakes

\* A monitor that was made for a set of validators.
Sized(m) == \E size \in Nat : DOMAIN m.entries = 0 .. size - 1

\* The result of autoFixBuilder.ProcessHeader for a block after the head.
Takes(r, m, h) ==
    /\ r.ok /\ Right(r.m) /\ r.m.latest = h /\ r.m.epoch = m.epoch
    /\ Sized(m) => SameEntries(r.m, m)

\* From a cleared monitor.
LEMMA BuildsAnew ==
    ASSUME NEW h \in Blocks, NEW m, Right(m), GetEpochNumber(Len(h)) = m.epoch
    PROVE  Takes(cleanBuild(parent(h), Clear(m), h), m, h)
<1>. DEFINE k == Clear(m)
            r == cleanBuild(parent(h), k, h)
<1>1. /\ Right(k) /\ k.latest = None /\ k.epoch = m.epoch
      /\ Sized(m) => SameEntries(k, m)
    BY ClearRight, Zenon DEF Sized
<1>. HIDE DEF k
<1>2. r.ok /\ Right(r.m) /\ r.m.latest = h /\ SameEntries(r.m, k)
    BY <1>1, CleanBuildTakes, Zenon
<1>. HIDE DEF r
<1>3. Takes(r, m, h)
    BY <1>1, <1>2 DEF Takes, SameEntries
<1>. QED  BY <1>3, Zenon DEF r, k

\* The blocks without the first of them.
LEMMA TailOfLast ==
    ASSUME NEW h \in Blocks, NEW k \in 1 .. Len(h), k >= 2
    PROVE  Tail(lastBlocks(h, k)) = lastBlocks(h, k - 1)
<1>. DEFINE s == lastBlocks(h, k)
            t == lastBlocks(h, k - 1)
<1>1. /\ Len(h) \in Nat /\ s \in Seq(Blocks) /\ Len(s) = k
      /\ \A i \in 1 .. k : s[i] = SubSeq(h, 1, Len(h) - k + i)
    BY LastBlocks
<1>2. k \in Nat /\ k - 1 \in 1 .. Len(h)
    BY <1>1
<1>3. /\ t \in Seq(Blocks) /\ Len(t) = k - 1
      /\ \A i \in 1 .. k - 1 : t[i] = SubSeq(h, 1, Len(h) - (k - 1) + i)
    BY <1>2, LastBlocks, Zenon
<1>. HIDE DEF s, t
<1>4. /\ Tail(s) \in Seq(Blocks) /\ Len(Tail(s)) = k - 1
      /\ \A i \in 1 .. k - 1 : Tail(s)[i] = s[i + 1]
    BY <1>1, <1>2
<1>5. \A i \in 1 .. k - 1 : i + 1 \in 1 .. k /\ Len(h) - k + (i + 1) = Len(h) - (k - 1) + i
    BY <1>1, <1>2
<1>6. ASSUME NEW i \in 1 .. k - 1
      PROVE  Tail(s)[i] = t[i]
    <2>1. Tail(s)[i] = SubSeq(h, 1, Len(h) - k + (i + 1))
        BY <1>1, <1>4, <1>5, Zenon
    <2>2. t[i] = SubSeq(h, 1, Len(h) - (k - 1) + i)
        BY <1>3, Zenon
    <2>. QED  BY <2>1, <2>2, <1>5, Zenon
<1>7. Tail(s) = t
    BY <1>3, <1>4, <1>6, SeqEqual, Zenon
<1>. QED  BY <1>7 DEF s, t

\* advance: the blocks after the last one of the monitor, or all of the epoch
\* if that one is not on the chain.
LEMMA AdvanceTakes ==
    ASSUME NEW h \in Blocks, NEW m, Right(m), GetEpochNumber(Len(h)) = m.epoch,
           m.latest # None, Len(h) > Len(m.latest) + 1
    PROVE  Takes(advance(parent(h), m, h), m, h)
<1>. DEFINE e == m.epoch
            P == (e - 1) * EpochSize
            g == m.latest
            limit == Len(h) - Len(g) + 1
            s == lastBlocks(h, limit)
<1>1. g \in Blocks /\ GetEpochNumber(Len(g)) = e /\ e >= 1
    BY DEF Right
<1>2. /\ Len(h) \in Nat /\ P \in Nat /\ GetEpochFirstBlockNumber(e) = P + 1 /\ P + 1 <= Len(h)
      /\ Len(g) \in Nat /\ P + 1 <= Len(g)
    BY <1>1, EpochBounds
<1>3. GetNumberWithinEpoch(Len(h)) = Len(h) - P
    BY <1>2, EpochFacts, Zenon
<1>. HIDE DEF P
<1>4. limit \in 1 .. GetNumberWithinEpoch(Len(h)) /\ Len(h) >= 1 /\ limit >= 2
    BY <1>2, <1>3
<1>5. /\ limit \in 1 .. Len(h) /\ s # None
      /\ GetEpochHeadersUpToLimit(parent(h), h, limit) = s
    <2>. HIDE DEF limit
    <2>. QED  BY <1>4, Headers
<1>6. s[1] = SubSeq(h, 1, Len(g))
    <2>1. 1 \in 1 .. limit /\ Len(h) - limit + 1 = Len(g)
        BY <1>2, <1>4
    <2>. HIDE DEF limit
    <2>2. \A i \in 1 .. limit : s[i] = SubSeq(h, 1, Len(h) - limit + i)
        BY <1>5, LastBlocks, Zenon
    <2>. HIDE DEF s
    <2>. QED  BY <2>1, <2>2
<1>7. advance(parent(h), m, h) =
          IF s[1] # g THEN cleanBuild(parent(h), Clear(m), h) ELSE addAll(m, Tail(s))
    <2>. HIDE DEF s
    <2>. QED  BY <1>5, Zenon DEF advance
<1>8. CASE s[1] # g
    BY <1>7, <1>8, BuildsAnew, Zenon
<1>9. CASE s[1] = g
    <2>1. Tail(s) = lastBlocks(h, limit - 1)
        <3>. HIDE DEF limit
        <3>. QED  BY <1>4, <1>5, TailOfLast, Zenon
    <2>2. limit - 1 \in 1 .. Len(h) /\ Len(h) - (limit - 1) + 1 = Len(g) + 1 /\ Len(g) + 1 - 1 = Len(g)
        <3>1. Len(g) \in Nat /\ Len(h) \in Nat /\ Len(g) >= 1
            BY <1>2
        <3>2. Len(h) > Len(g) + 1
            OBVIOUS
        <3>. HIDE DEF s, g
        <3>. QED  BY <3>1, <3>2
    <2>3. Before(m, h, Len(h) - (limit - 1) + 1)
        <3>. HIDE DEF limit, s
        <3>. QED  BY <1>2, <1>6, <1>9, <2>2 DEF Before
    <2>. DEFINE r == addAll(m, lastBlocks(h, limit - 1))
    <2>4. r.ok /\ Right(r.m) /\ r.m.latest = h /\ SameEntries(r.m, m)
        <3>. DEFINE k == limit - 1
        <3>1. k \in 1 .. Len(h) /\ Before(m, h, Len(h) - k + 1)
            BY <2>2, <2>3, Zenon
        <3>. HIDE DEF k
        <3>2. LET q == addAll(m, lastBlocks(h, k))
              IN  q.ok /\ Right(q.m) /\ q.m.latest = h /\ SameEntries(q.m, m)
            BY <3>1, AddAllTakes
        <3>. QED  BY <3>2, Zenon DEF k
    <2>5. advance(parent(h), m, h) = r
        <3>1. advance(parent(h), m, h) = addAll(m, Tail(s))
            <4>. HIDE DEF s
            <4>. QED  BY <1>7, <1>9, Zenon
        <3>. QED  BY <2>1, <3>1, Zenon
    <2>. HIDE DEF r
    <2>6. Takes(r, m, h)
        BY <2>4 DEF Takes, SameEntries
    <2>. QED  BY <2>5, <2>6, Zenon
<1>. QED  BY <1>8, <1>9, Zenon

\* autoFixBuilder.ProcessHeader: from any state of the monitor of its epoch,
\* the block after the head is taken, and the counts are those of its chain.
LEMMA ProcessHeaderTakes ==
    ASSUME NEW h \in Blocks, NEW m, Right(m), GetEpochNumber(Len(h)) = m.epoch
    PROVE  Takes(ProcessHeader(parent(h), m, h), m, h)
<1>. DEFINE r == ProcessHeader(parent(h), m, h)
<1>1. m.epoch \in Nat /\ m.epoch >= 1
    BY DEF Right
<1>2. CASE m.latest = None
    <2>1. r = cleanBuild(parent(h), m, h)
        BY <1>2, Zenon DEF ProcessHeader
    <2>2. r.ok /\ Right(r.m) /\ r.m.latest = h /\ SameEntries(r.m, m)
        BY <1>2, <2>1, CleanBuildTakes
    <2>. QED  BY <2>2 DEF Takes, SameEntries
<1>3. CASE m.latest # None /\ h = m.latest
    <2>1. r = Succeeds(m)
        BY <1>3 DEF ProcessHeader
    <2>. QED  BY <1>3, <2>1 DEF Succeeds, Takes, SameEntries
<1>4. CASE m.latest # None /\ h # m.latest /\ Len(h) > Len(m.latest) + 1
    <2>1. r = advance(parent(h), m, h)
        BY <1>4, Zenon DEF ProcessHeader
    <2>. QED  BY <1>4, <2>1, AdvanceTakes, Zenon
<1>5. CASE /\ m.latest # None /\ h # m.latest /\ ~(Len(h) > Len(m.latest) + 1)
           /\ Len(h) = Len(m.latest) + 1 /\ parent(h) = m.latest
    <2>1. r = processNext(m, h)
        BY <1>5, Zenon DEF ProcessHeader
    <2>2. m.latest \in Blocks /\ GetEpochNumber(Len(m.latest)) = m.epoch
        BY <1>5 DEF Right
    <2>3. Len(h) \in 1 .. Len(h) /\ Len(m.latest) = Len(h) - 1 /\ SubSeq(h, 1, Len(h)) = h
        BY <1>5, <2>2, UpToEnd
    <2>4. GetEpochFirstBlockNumber(m.epoch) <= Len(m.latest)
        BY <1>1, <2>2, EpochBounds, Zenon
    <2>5. Len(m.latest) >= GetEpochFirstBlockNumber(m.epoch)
        BY <1>1, <2>2, <2>4, EpochBounds, Zenon
    <2>6. Before(m, h, Len(h))
        BY <1>5, <2>3, <2>5, Zenon DEF Before, parent
    <2>7. r.ok /\ Right(r.m) /\ r.m.latest = h /\ SameEntries(r.m, m)
        <3>. DEFINE n == Len(h)
        <3>1. n \in 1 .. Len(h) /\ Before(m, h, n) /\ SubSeq(h, 1, n) = h
            BY <2>3, <2>6, Zenon
        <3>. HIDE DEF n
        <3>2. LET q == processNext(m, SubSeq(h, 1, n))
              IN  q.ok /\ Right(q.m) /\ q.m.latest = SubSeq(h, 1, n) /\ SameEntries(q.m, m)
            BY <3>1, TakesBlock, Zenon
        <3>. QED  BY <2>1, <3>1, <3>2, Zenon
    <2>. QED  BY <2>7 DEF Takes, SameEntries
<1>6. CASE /\ m.latest # None /\ h # m.latest /\ ~(Len(h) > Len(m.latest) + 1)
           /\ ~(Len(h) = Len(m.latest) + 1 /\ parent(h) = m.latest)
    <2>1. r = cleanBuild(parent(h), Clear(m), h)
        BY <1>6 DEF ProcessHeader
    <2>. QED  BY <2>1, BuildsAnew, Zenon
<1>. QED  BY <1>2, <1>3, <1>4, <1>5, <1>6, Zenon

=============================================================================
