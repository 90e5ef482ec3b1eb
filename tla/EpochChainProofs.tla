-------------------------- MODULE EpochChainProofs --------------------------
(***************************************************************************)
(* Proofs about EpochChain: its types, that the monitor counts what the    *)
(* chain of its last header says, that it takes every next block and       *)
(* scores every validator, and that a snapshot has the validators elected, *)
(* for any size of an epoch, any lookback window, any elections and        *)
(* chains of any length.                                                   *)
(*                                                                         *)
(* The monitor is right as EpochMonitorProofs says.  The store is right    *)
(* (StoreRight) when what it has of a block is what the elections make of  *)
(* it.  The loops of the code (the removal of validators, the headers      *)
(* applied to a snapshot) are covered by induction over their iterations.  *)
(***************************************************************************)
EXTENDS EpochMonitorProofs

-----------------------------------------------------------------------------
(***************************************************************************)
(* Validator sets.                                                         *)
(***************************************************************************)

\* The sequences of validators with different addresses.
Sets == {s \in Seq(Validators) : distinct(s)}

\* The states of a loop, by the number of iterations: from x, step i takes a
\* state in S to F[i] of it.
isRun(g, S, x, F, N) ==
    g \in [0 .. N -> S] /\ g[0] = x /\ \A i \in 1 .. N : g[i] = F[i][g[i - 1]]

\* Every loop has them.
LEMMA Recursion ==
    ASSUME NEW S, NEW x \in S, NEW F \in [Nat -> [S -> S]], NEW N \in Nat
    PROVE  \E g : isRun(g, S, x, F, N)
<1>. DEFINE Run(g, n) == g[0] = x /\ \A i \in 1 .. n : g[i] = F[i][g[i - 1]]
            Runs == {n \in Nat : \E g \in [0 .. n -> S] : Run(g, n)}
<1>1. 0 \in Runs
    <2>. DEFINE g == [i \in 0 .. 0 |-> x]
    <2>1. g \in [0 .. 0 -> S] /\ Run(g, 0)
        OBVIOUS
    <2>. QED  BY <2>1, Zenon
<1>2. ASSUME NEW n \in Runs
      PROVE  n + 1 \in Runs
    <2>1. n \in Nat /\ n + 1 \in Nat
        OBVIOUS
    <2>2. PICK g \in [0 .. n -> S] : Run(g, n)
        OBVIOUS
    <2>. DEFINE h == [i \in 0 .. n + 1 |-> IF i <= n THEN g[i] ELSE F[n + 1][g[n]]]
    <2>3. \A i \in 0 .. n : i \in 0 .. n + 1 /\ h[i] = g[i]
        BY <2>1
    <2>4. h[n + 1] = F[n + 1][g[n]] /\ n + 1 \in 0 .. n + 1
        BY <2>1
    <2>5. h \in [0 .. n + 1 -> S]
        <3>1. F[n + 1] \in [S -> S] /\ g[n] \in S
            BY <2>1
        <3>2. \A i \in 0 .. n + 1 : (IF i <= n THEN g[i] ELSE F[n + 1][g[n]]) \in S
            BY <2>1, <3>1
        <3>. QED  BY <3>2
    <2>. HIDE DEF h
    <2>6. \A i \in 1 .. n + 1 : h[i] = F[i][h[i - 1]]
        <3>1. ASSUME NEW i \in 1 .. n + 1, i # n + 1
              PROVE  h[i] = F[i][h[i - 1]]
            <4>1. i \in 1 .. n /\ i \in 0 .. n /\ i - 1 \in 0 .. n
                BY <2>1, <3>1
            <4>. QED  BY <2>2, <2>3, <4>1
        <3>2. h[n + 1] = F[n + 1][h[n + 1 - 1]]
            <4>1. n + 1 - 1 = n /\ n \in 0 .. n
                BY <2>1
            <4>. QED  BY <2>3, <2>4, <4>1
        <3>3. ASSUME NEW i \in 1 .. n + 1
              PROVE  h[i] = F[i][h[i - 1]]
            <4>. HIDE DEF Run, Runs
            <4>1. CASE i = n + 1
                BY <2>1, <4>1, <3>2
            <4>2. CASE i # n + 1
                BY <4>2, <3>1
            <4>. QED  BY <4>1, <4>2
        <3>. QED  BY <3>3
    <2>7. h[0] = x
        BY <2>1, <2>2, <2>3
    <2>. QED  BY <2>1, <2>5, <2>6, <2>7, Zenon
<1>3. Runs \in SUBSET Nat
    OBVIOUS
<1>. HIDE DEF Runs
<1>4. Runs = Nat
    BY <1>1, <1>2, <1>3, Induction, Zenon
<1>. QED  BY <1>4, Zenon DEF Runs, isRun

\* The loop of RemoveValidators and of the two differences.
LEMMA FilteredLoops ==
    ASSUME NEW set \in Seq(Validators), NEW positions
    PROVE  \E upTo :
              /\ filtered(set, positions) = upTo[Len(set)] /\ upTo[0] = <<>>
              /\ \A i \in 1 .. Len(set) :
                    upTo[i] = IF i \in positions THEN Append(upTo[i - 1], set[i]) ELSE upTo[i - 1]
<1>. DEFINE S == Seq(Validators)
            N == Len(set)
            F == [i \in Nat |-> [s \in S |-> IF i \in positions /\ i \in 1 .. N THEN Append(s, set[i]) ELSE s]]
            Body(g) == [n \in 0 .. N |->
                          IF n = 0 THEN <<>>
                          ELSE IF n \in positions THEN Append(g[n - 1], set[n]) ELSE g[n - 1]]
<1>1. N \in Nat /\ <<>> \in S /\ \A i \in 1 .. N : set[i] \in Validators
    OBVIOUS
<1>2. F \in [Nat -> [S -> S]]
    <2>1. ASSUME NEW i \in Nat, NEW s \in S
          PROVE  (IF i \in positions /\ i \in 1 .. N THEN Append(s, set[i]) ELSE s) \in S
        BY <1>1
    <2>. HIDE DEF S
    <2>. QED  BY <2>1
<1>3. ASSUME NEW i \in 1 .. N, NEW s \in S
      PROVE  F[i][s] = IF i \in positions THEN Append(s, set[i]) ELSE s
    <2>1. i \in Nat
        BY <1>1
    <2>. HIDE DEF S
    <2>. QED  BY <2>1
<1>. HIDE DEF F
<1>4. PICK g \in [0 .. N -> S] : g[0] = <<>> /\ \A i \in 1 .. N : g[i] = F[i][g[i - 1]]
    <2>. DEFINE x == <<>>
    <2>1. x \in S /\ N \in Nat
        BY <1>1
    <2>. HIDE DEF S, N, x
    <2>2. \E g : isRun(g, S, x, F, N)
        BY <1>2, <2>1, Recursion, Zenon
    <2>. QED  BY <2>2, Zenon DEF x, isRun
<1>5. ASSUME NEW i \in 1 .. N
      PROVE  g[i] = IF i \in positions THEN Append(g[i - 1], set[i]) ELSE g[i - 1]
    <2>1. i - 1 \in 0 .. N
        BY <1>1
    <2>2. g[i - 1] \in S
        BY <2>1
    <2>. HIDE DEF S
    <2>. QED  BY <1>3, <1>4, <2>2
<1>6. g = Body(g)
    <2>1. g = [n \in 0 .. N |-> g[n]]
        OBVIOUS
    <2>2. \A n \in 0 .. N : n = 0 \/ n \in 1 .. N
        BY <1>1
    <2>3. \A n \in 0 .. N : g[n] = IF n = 0 THEN <<>>
                                   ELSE IF n \in positions THEN Append(g[n - 1], set[n]) ELSE g[n - 1]
        <3>. HIDE DEF N
        <3>. QED  BY <1>1, <1>4, <1>5, <2>2, Zenon
    <2>. HIDE DEF N
    <2>. QED  BY <2>1, <2>3, Zenon
<1>. DEFINE upTo == CHOOSE f : f = Body(f)
<1>7. upTo = Body(upTo)
    <2>1. \E f : f = Body(f)
        BY <1>6, Zenon
    <2>. HIDE DEF Body
    <2>. QED  BY <2>1
<1>8. filtered(set, positions) = upTo[N]
    BY DEF filtered
<1>. HIDE DEF upTo
<1>9. /\ upTo[0] = <<>>
      /\ \A i \in 1 .. N : upTo[i] = IF i \in positions THEN Append(upTo[i - 1], set[i]) ELSE upTo[i - 1]
    <2>1. 0 \in 0 .. N /\ \A i \in 1 .. N : i \in 0 .. N /\ i # 0
        BY <1>1
    <2>. HIDE DEF N
    <2>. QED  BY <1>7, <2>1, Zenon
<1>. QED  BY <1>8, <1>9

\* The members of a sequence.
LEMMA Members ==
    ASSUME NEW S, NEW s \in Seq(S)
    PROVE  /\ Len(s) \in Nat /\ DOMAIN s = 1 .. Len(s)
           /\ Range(s) = {s[i] : i \in 1 .. Len(s)} /\ Range(s) \subseteq S
BY DEF Range

\* A set that grows by a validator with a new address.
LEMMA AppendToSet ==
    ASSUME NEW s \in Sets, NEW x \in Validators, \A y \in Range(s) : y.address # x.address
    PROVE  Append(s, x) \in Sets /\ Range(Append(s, x)) = Range(s) \cup {x}
<1>. DEFINE t == Append(s, x)
            n == Len(s)
<1>1. s \in Seq(Validators) /\ distinct(s)
    BY DEF Sets
<1>2. n \in Nat /\ DOMAIN s = 1 .. n /\ Range(s) = {s[i] : i \in 1 .. n}
    BY <1>1, Members
<1>3. /\ t \in Seq(Validators) /\ Len(t) = n + 1 /\ t[n + 1] = x
      /\ \A i \in 1 .. n : t[i] = s[i]
    BY <1>1, AppendProperties
<1>. HIDE DEF t, n
<1>4. DOMAIN t = 1 .. n + 1 /\ Range(t) = {t[i] : i \in 1 .. n + 1}
    BY <1>3, Members
<1>5. \A i \in 1 .. n + 1 : i \in 1 .. n \/ i = n + 1
    BY <1>2
<1>6. 1 .. n + 1 = (1 .. n) \cup {n + 1}
    BY <1>2
<1>7. Range(t) = Range(s) \cup {x}
    BY <1>2, <1>3, <1>4, <1>6
<1>8. distinct(t)
    <2>. SUFFICES ASSUME NEW i \in 1 .. n + 1, NEW j \in 1 .. n + 1, t[i].address = t[j].address
                  PROVE  i = j
        BY <1>4 DEF distinct
    <2>1. CASE i \in 1 .. n /\ j \in 1 .. n
        BY <2>1, <1>1, <1>2, <1>3, Zenon DEF distinct
    <2>2. CASE i \in 1 .. n /\ j = n + 1
        BY <2>2, <1>2, <1>3
    <2>3. CASE i = n + 1 /\ j \in 1 .. n
        BY <2>3, <1>2, <1>3, Zenon
    <2>. QED  BY <2>1, <2>2, <2>3, <1>5, Zenon
<1>9. t \in Sets
    BY <1>3, <1>8 DEF Sets
<1>. QED  BY <1>7, <1>9 DEF t

\* Two sets with no address in common, one after the other.
LEMMA ConcatenateSets ==
    ASSUME NEW s \in Sets, NEW r \in Sets, \A y \in Range(s), z \in Range(r) : y.address # z.address
    PROVE  s \o r \in Sets /\ Range(s \o r) = Range(s) \cup Range(r)
<1>. DEFINE t == s \o r
            n == Len(s)
            k == Len(r)
<1>1. s \in Seq(Validators) /\ distinct(s) /\ r \in Seq(Validators) /\ distinct(r)
    BY DEF Sets
<1>2. /\ n \in Nat /\ DOMAIN s = 1 .. n /\ Range(s) = {s[i] : i \in 1 .. n}
      /\ k \in Nat /\ DOMAIN r = 1 .. k /\ Range(r) = {r[i] : i \in 1 .. k}
    BY <1>1, Members
<1>3. /\ t \in Seq(Validators) /\ Len(t) = n + k
      /\ \A i \in 1 .. n + k : t[i] = IF i <= n THEN s[i] ELSE r[i - n]
    BY <1>1, ConcatProperties
<1>4. Range(t) = Range(s) \cup Range(r)
    BY <1>1, RangeConcatenation
<1>. HIDE DEF t, n, k
<1>5. DOMAIN t = 1 .. n + k
    BY <1>3, Members
<1>6. distinct(t)
    <2>. SUFFICES ASSUME NEW i \in 1 .. n + k, NEW j \in 1 .. n + k, t[i].address = t[j].address
                  PROVE  i = j
        BY <1>5 DEF distinct
    <2>1. CASE i <= n /\ j <= n
        <3>1. i \in 1 .. n /\ j \in 1 .. n
            BY <2>1, <1>2
        <3>. QED  BY <2>1, <3>1, <1>1, <1>2, <1>3, Zenon DEF distinct
    <2>2. CASE ~(i <= n) /\ ~(j <= n)
        <3>1. i - n \in 1 .. k /\ j - n \in 1 .. k
            BY <2>2, <1>2
        <3>2. t[i] = r[i - n] /\ t[j] = r[j - n]
            BY <2>2, <1>3
        <3>3. r[i - n].address = r[j - n].address
            BY <3>2
        <3>4. \A a, b \in 1 .. k : r[a].address = r[b].address => a = b
            BY <1>1, <1>2, Zenon DEF distinct
        <3>5. i - n = j - n
            BY <3>1, <3>3, <3>4
        <3>. QED  BY <3>5, <1>2
    <2>3. CASE i <= n /\ ~(j <= n)
        <3>1. i \in 1 .. n /\ j - n \in 1 .. k
            BY <2>3, <1>2
        <3>. QED  BY <2>3, <3>1, <1>2, <1>3, Zenon
    <2>4. CASE ~(i <= n) /\ j <= n
        <3>1. j \in 1 .. n /\ i - n \in 1 .. k
            BY <2>4, <1>2
        <3>. QED  BY <2>4, <3>1, <1>2, <1>3, Zenon
    <2>. QED  BY <2>1, <2>2, <2>3, <2>4, Zenon
<1>7. t \in Sets
    BY <1>3, <1>6 DEF Sets
<1>. QED  BY <1>4, <1>7 DEF t

\* What is left of a set at some of its positions.
LEMMA FilteredSet ==
    ASSUME NEW set \in Sets, NEW positions
    PROVE  /\ filtered(set, positions) \in Sets
           /\ Range(filtered(set, positions)) = {set[i] : i \in positions \cap (1 .. Len(set))}
<1>. DEFINE N == Len(set)
            kept(n) == {set[i] : i \in positions \cap (1 .. n)}
<1>1. set \in Seq(Validators) /\ distinct(set)
    BY DEF Sets
<1>2. N \in Nat /\ DOMAIN set = 1 .. N /\ \A i \in 1 .. N : set[i] \in Validators
    BY <1>1, Members
<1>3. PICK upTo :
          /\ filtered(set, positions) = upTo[N] /\ upTo[0] = <<>>
          /\ \A i \in 1 .. N :
                upTo[i] = IF i \in positions THEN Append(upTo[i - 1], set[i]) ELSE upTo[i - 1]
    BY <1>1, FilteredLoops
<1>. HIDE DEF N
<1>. DEFINE T == {n \in Nat : n <= N => upTo[n] \in Sets /\ Range(upTo[n]) = kept(n)}
<1>4. T = Nat
    <2>1. 0 \in T
        <3>1. <<>> \in Sets /\ Range(<<>>) = {}
            BY DEF Sets, distinct, Range
        <3>2. kept(0) = {}
            OBVIOUS
        <3>. QED  BY <1>3, <3>1, <3>2
    <2>2. ASSUME NEW n \in T
          PROVE  n + 1 \in T
        <3>. SUFFICES ASSUME n + 1 <= N PROVE upTo[n + 1] \in Sets /\ Range(upTo[n + 1]) = kept(n + 1)
            OBVIOUS
        <3>. DEFINE u == upTo[n]
                    x == set[n + 1]
        <3>1. n \in Nat /\ n + 1 \in 1 .. N /\ n + 1 - 1 = n /\ n <= N
            BY <1>2
        <3>2. u \in Sets /\ Range(u) = kept(n)
            BY <3>1
        <3>3. upTo[n + 1] = IF n + 1 \in positions THEN Append(u, x) ELSE u
            BY <1>3, <3>1
        <3>4. 1 .. n + 1 = (1 .. n) \cup {n + 1}
            BY <3>1
        <3>5. CASE n + 1 \in positions
            <4>1. kept(n + 1) = kept(n) \cup {x}
                <5>1. positions \cap (1 .. n + 1) = (positions \cap (1 .. n)) \cup {n + 1}
                    BY <3>4, <3>5
                <5>. QED  BY <5>1
            <4>2. \A y \in Range(u) : y.address # x.address
                <5>1. ASSUME NEW i \in positions \cap (1 .. n) PROVE set[i].address # x.address
                    <6>1. i \in 1 .. N /\ i # n + 1
                        BY <1>2, <3>1
                    <6>. QED  BY <6>1, <1>1, <1>2, <3>1, Zenon DEF distinct
                <5>. QED  BY <3>2, <5>1
            <4>3. x \in Validators
                BY <1>2, <3>1, Zenon
            <4>. HIDE DEF u, x, kept
            <4>4. Append(u, x) \in Sets /\ Range(Append(u, x)) = Range(u) \cup {x}
                BY <3>2, <4>2, <4>3, AppendToSet, Zenon
            <4>. QED  BY <3>2, <3>3, <3>5, <4>1, <4>4, Zenon
        <3>6. CASE n + 1 \notin positions
            <4>1. kept(n + 1) = kept(n)
                <5>1. positions \cap (1 .. n + 1) = positions \cap (1 .. n)
                    BY <3>4, <3>6, Zenon
                <5>. QED  BY <5>1
            <4>. HIDE DEF u, x, kept
            <4>. QED  BY <3>2, <3>3, <3>6, <4>1, Zenon
        <3>. QED  BY <3>5, <3>6
    <2>3. T \in SUBSET Nat
        OBVIOUS
    <2>. HIDE DEF T
    <2>. QED  BY <2>1, <2>2, <2>3, Induction, Zenon
<1>5. upTo[N] \in Sets /\ Range(upTo[N]) = kept(N)
    <2>1. N <= N
        BY <1>2
    <2>. HIDE DEF kept
    <2>. QED  BY <1>2, <1>4, <2>1, Zenon
<1>. QED  BY <1>3, <1>5 DEF N

\* As many positions as members.
LEMMA SetLength ==
    ASSUME NEW s \in Sets
    PROVE  Len(s) = Cardinality(Range(s)) /\ Len(s) <= Cardinality(Validators) /\ Len(s) \in Nat
<1>. DEFINE n == Len(s)
            R == Range(s)
<1>1. s \in Seq(Validators) /\ distinct(s)
    BY DEF Sets
<1>2. n \in Nat /\ DOMAIN s = 1 .. n /\ R = {s[i] : i \in 1 .. n} /\ R \subseteq Validators
    BY <1>1, Members
<1>3. s \in [1 .. n -> R] /\ \A y \in R : \E i \in 1 .. n : s[i] = y
    <2>1. s = [i \in 1 .. n |-> s[i]]
        BY <1>1, <1>2
    <2>2. \A i \in 1 .. n : s[i] \in R
        BY <1>2
    <2>. HIDE DEF n, R
    <2>. QED  BY <2>1, <2>2, <1>2, Zenon
<1>4. \A i, j \in 1 .. n : s[i] = s[j] => i = j
    BY <1>1, <1>2, Zenon DEF distinct
<1>. HIDE DEF n, R
<1>5. s \in Bijection(1 .. n, R)
    BY <1>3, <1>4, Zenon DEF Bijection, Injection, Surjection, IsInjective
<1>6. IsFiniteSet(1 .. n) /\ Cardinality(1 .. n) = n
    BY <1>2, FS_Interval
<1>7. ExistsBijection(1 .. n, R)
    BY <1>5 DEF ExistsBijection
<1>8. Cardinality(1 .. n) = Cardinality(R)
    BY <1>6, <1>7, FS_Bijection, Zenon
<1>9. Cardinality(R) <= Cardinality(Validators)
    BY <1>2, FS_Subset, ElectionsAssumption, Zenon
<1>. QED  BY <1>2, <1>6, <1>8, <1>9, Zenon DEF n, R

\* Snapshot.apply, with the difference to another set: who is in that one.
LEMMA ApplyDiff ==
    ASSUME NEW old \in Sets, NEW new \in Sets
    PROVE  /\ apply(old, ValidatorSetDiff(old, new)) \in Sets
           /\ Range(apply(old, ValidatorSetDiff(old, new))) = Range(new)
<1>. DEFINE diff == ValidatorSetDiff(old, new)
            gone == {i \in DOMAIN old : old[i] \notin Range(new)}
            come == {j \in DOMAIN new : new[j] \notin Range(old)}
            left == filtered(old, DOMAIN old \ gone)
            added == filtered(new, come)
<1>1. /\ old \in Seq(Validators) /\ new \in Seq(Validators) /\ distinct(new)
      /\ Len(old) \in Nat /\ DOMAIN old = 1 .. Len(old) /\ Range(old) = {old[i] : i \in 1 .. Len(old)}
      /\ Len(new) \in Nat /\ DOMAIN new = 1 .. Len(new) /\ Range(new) = {new[i] : i \in 1 .. Len(new)}
    BY Members DEF Sets
<1>2. diff.removed = gone /\ diff.added = added
    BY DEF ValidatorSetDiff
<1>3. left \in Sets /\ Range(left) = Range(old) \cap Range(new)
    <2>. DEFINE stay == DOMAIN old \ gone
    <2>1. left \in Sets /\ Range(left) = {old[i] : i \in stay \cap (1 .. Len(old))}
        <3>. HIDE DEF stay
        <3>. QED  BY FilteredSet DEF stay
    <2>2. stay \cap (1 .. Len(old)) = {i \in 1 .. Len(old) : old[i] \in Range(new)}
        BY <1>1
    <2>. HIDE DEF stay, left
    <2>. QED  BY <1>1, <2>1, <2>2
<1>4. added \in Sets /\ Range(added) = Range(new) \ Range(old)
    <2>1. added \in Sets /\ Range(added) = {new[i] : i \in come \cap (1 .. Len(new))}
        <3>. HIDE DEF come
        <3>. QED  BY FilteredSet DEF come
    <2>2. come \cap (1 .. Len(new)) = {j \in 1 .. Len(new) : new[j] \notin Range(old)}
        BY <1>1
    <2>. HIDE DEF come, added
    <2>. QED  BY <1>1, <2>1, <2>2
<1>5. ~\E i \in diff.removed : i > Len(old)
    BY <1>1, <1>2
<1>6. RemoveValidators(old, diff.removed) = left
    BY <1>2 DEF RemoveValidators
<1>. HIDE DEF left, added, diff, gone, come
<1>7. \A y, z \in Range(new) : y.address = z.address => y = z
    BY <1>1 DEF distinct
<1>8. \A y \in Range(left), z \in Range(added) : y.address # z.address
    BY <1>3, <1>4, <1>7, Zenon
<1>9. AddValidators(left, added) = left \o added
    <2>1. \A i \in DOMAIN left, j \in DOMAIN added : left[i].address # added[j].address
        BY <1>8 DEF Range
    <2>. QED  BY <2>1 DEF AddValidators
<1>10. apply(old, diff) = left \o added
    BY <1>2, <1>5, <1>6, <1>9, Zenon DEF apply
<1>11. left \o added \in Sets /\ Range(left \o added) = Range(left) \cup Range(added)
    BY <1>3, <1>4, <1>8, ConcatenateSets, Zenon
<1>. QED  BY <1>3, <1>4, <1>10, <1>11, Zenon DEF diff

\* Signers, for an election that need not be the one of the state.
SignersOf(l) ==
    CHOOSE g : g = [e \in Epochs |-> IF e = 1 THEN l[1]
                                     ELSE apply(g[e - 1], ValidatorSetDiff(g[e - 1], l[e]))]

LastEpoch == GetEpochNumber(MaxNumber) + 1

\* The epochs that blocks may be in, and the one after them.
LEMMA EpochsFacts ==
    /\ LastEpoch \in Nat /\ LastEpoch >= 1 /\ Epochs = 1 .. LastEpoch
    /\ \A l \in Elections, e \in Epochs : l[e] \in Sets
<1>1. GetEpochNumber(MaxNumber) \in Nat
    BY Constants, EpochFacts, Zenon
<1>. QED  BY <1>1, ElectionsAssumption DEF LastEpoch, Epochs, Sets

\* There are signers of each epoch, those elected for it.
LEMMA SignersFacts ==
    ASSUME NEW l \in Elections
    PROVE  /\ SignersOf(l)[1] = l[1]
           /\ \A e \in Epochs : SignersOf(l)[e] \in Sets /\ Range(SignersOf(l)[e]) = Range(l[e])
           /\ \A e \in Epochs : e # 1 =>
                 SignersOf(l)[e] = apply(SignersOf(l)[e - 1], ValidatorSetDiff(SignersOf(l)[e - 1], l[e]))
<1>. DEFINE K == LastEpoch
            next_(s, e) == apply(s, ValidatorSetDiff(s, l[e]))
            Body(g) == [e \in Epochs |-> IF e = 1 THEN l[1] ELSE next_(g[e - 1], e)]
            F == [i \in Nat |-> [s \in Sets |-> IF i + 1 \in Epochs THEN next_(s, i + 1) ELSE s]]
<1>1. K \in Nat /\ K >= 1 /\ K - 1 \in Nat /\ Epochs = 1 .. K /\ \A e \in Epochs : l[e] \in Sets
    BY EpochsFacts
<1>2. \A e \in Epochs : \A s \in Sets : next_(s, e) \in Sets /\ Range(next_(s, e)) = Range(l[e])
    BY <1>1, ApplyDiff
<1>3. l[1] \in Sets /\ 1 \in Epochs
    BY <1>1
<1>. HIDE DEF next_, K
<1>4. F \in [Nat -> [Sets -> Sets]]
    BY <1>2
<1>5. \A i \in Nat : i + 1 \in Epochs => \A s \in Sets : F[i][s] = next_(s, i + 1)
    OBVIOUS
<1>. HIDE DEF F
<1>6. \E g : isRun(g, Sets, l[1], F, K - 1)
    <2>. DEFINE x == l[1]
                N == K - 1
    <2>1. x \in Sets /\ N \in Nat
        BY <1>1, <1>3
    <2>. HIDE DEF x, N
    <2>2. \E g : isRun(g, Sets, x, F, N)
        BY <1>4, <2>1, Recursion, Zenon
    <2>. QED  BY <2>2 DEF x, N
<1>7. PICK g : isRun(g, Sets, l[1], F, K - 1)
    BY <1>6
<1>. DEFINE f == [e \in Epochs |-> g[e - 1]]
<1>8. f = Body(f)
    <2>1. ASSUME NEW e \in Epochs
          PROVE  g[e - 1] = IF e = 1 THEN l[1] ELSE next_(f[e - 1], e)
        <3>1. CASE e = 1
            <4>1. e - 1 = 0
                BY <3>1
            <4>. QED  BY <3>1, <4>1, <1>7, Zenon DEF isRun
        <3>2. CASE e # 1
            <4>. DEFINE i == e - 1
            <4>1. /\ i \in 1 .. K - 1 /\ i - 1 \in 0 .. K - 1 /\ e - 1 \in Epochs
                  /\ i \in Nat /\ i + 1 = e
                BY <1>1, <3>2
            <4>2. f[e - 1] = g[i - 1]
                BY <4>1, Zenon
            <4>. HIDE DEF i, f
            <4>3. g[i] = F[i][g[i - 1]] /\ g[i - 1] \in Sets
                BY <1>7, <4>1, Zenon DEF isRun
            <4>4. F[i][g[i - 1]] = next_(g[i - 1], e)
                BY <1>5, <4>1, <4>3, Zenon
            <4>. QED  BY <3>2, <4>2, <4>3, <4>4, Zenon DEF i
        <3>. QED  BY <3>1, <3>2, Zenon
    <2>2. f = [e \in Epochs |-> g[e - 1]]
        OBVIOUS
    <2>. HIDE DEF f
    <2>. QED  BY <2>1, <2>2, Zenon
<1>. DEFINE Sig == CHOOSE h : h = Body(h)
<1>9. Sig = Body(Sig)
    <2>1. \E h : h = Body(h)
        BY <1>8, Zenon
    <2>. HIDE DEF Body
    <2>. QED  BY <2>1
<1>10. SignersOf(l) = Sig
    BY DEF SignersOf, next_
<1>. HIDE DEF Sig, f
<1>11. \A e \in Epochs : Sig[e] = IF e = 1 THEN l[1] ELSE next_(Sig[e - 1], e)
    BY <1>9, Zenon
<1>. DEFINE good(e) == Sig[e] \in Sets /\ Range(Sig[e]) = Range(l[e])
            T == {n \in Nat : n + 1 \in Epochs => good(n + 1)}
<1>12. T = Nat
    <2>1. 0 \in T
        <3>1. Sig[1] = l[1]
            BY <1>3, <1>11, Zenon
        <3>. QED  BY <1>3, <3>1
    <2>2. ASSUME NEW n \in T
          PROVE  n + 1 \in T
        <3>. SUFFICES ASSUME n + 1 + 1 \in Epochs PROVE good(n + 1 + 1)
            OBVIOUS
        <3>. DEFINE e == n + 1 + 1
        <3>1. n \in Nat /\ e \in Epochs /\ e # 1 /\ e - 1 = n + 1 /\ e - 1 \in Epochs
            BY <1>1
        <3>2. good(e - 1)
            BY <3>1
        <3>. HIDE DEF e
        <3>3. Sig[e] = next_(Sig[e - 1], e)
            BY <1>11, <3>1, Zenon
        <3>4. good(e)
            BY <1>2, <3>1, <3>2, <3>3, Zenon
        <3>. QED  BY <3>4 DEF e
    <2>3. T \in SUBSET Nat
        OBVIOUS
    <2>. HIDE DEF T
    <2>. QED  BY <2>1, <2>2, <2>3, Induction, Zenon
<1>13. ASSUME NEW e \in Epochs PROVE good(e)
    <2>1. e - 1 \in Nat /\ e - 1 + 1 = e
        BY <1>1
    <2>2. e - 1 + 1 \in Epochs => good(e - 1 + 1)
        <3>. HIDE DEF good
        <3>. QED  BY <1>12, <2>1, Zenon
    <2>. QED  BY <2>1, <2>2, Zenon
<1>14. \A e \in Epochs : e # 1 => Sig[e] = apply(Sig[e - 1], ValidatorSetDiff(Sig[e - 1], l[e]))
    BY <1>11, Zenon DEF next_
<1>15. Sig[1] = l[1]
    BY <1>3, <1>11
<1>. QED  BY <1>10, <1>13, <1>14, <1>15, Zenon

\* Signers are those of the election.
LEMMA SignersAreOf == Signers = SignersOf(elected)
BY DEF Signers, SignersOf

-----------------------------------------------------------------------------
(***************************************************************************)
(* Snapshots.                                                              *)
(***************************************************************************)
signers == SignersOf(elected)

\* A snapshot in the cache or on disk is that of the last block of an epoch,
\* and has the validators that sign in the next one.
RecentRight(recent) ==
    \A k \in DOMAIN recent :
        k \in 0 .. MaxNumber /\ k % EpochSize = 0 /\ recent[k] = signers[k \div EpochSize + 1]

DiskRight(disk) ==
    \A h \in DOMAIN disk :
        /\ h \in Blocks /\ Len(h) <= MaxNumber /\ Len(h) % EpochSize = 0
        /\ disk[h] = signers[Len(h) \div EpochSize + 1]

StoreRight(st) ==
    /\ st = [monitor |-> st.monitor, recent |-> st.recent, disk |-> st.disk]
    /\ RecentRight(st.recent) /\ DiskRight(st.disk)

\* The epoch after a block.
LEMMA EpochAfter ==
    ASSUME NEW n \in 0 .. MaxNumber
    PROVE  n \in Nat /\ n \div EpochSize \in Nat /\ n \div EpochSize + 1 \in Epochs
<1>. DEFINE d == n \div EpochSize
            e == GetEpochNumber(MaxNumber)
<1>1. n \in Nat /\ n <= MaxNumber /\ MaxNumber \in Nat
    BY Constants
<1>2. d \in Nat /\ d * EpochSize <= n
    <2>1. d \in Nat /\ n % EpochSize \in 0 .. EpochSize - 1 /\ n = d * EpochSize + (n % EpochSize)
        BY <1>1, DivMod, Zenon
    <2>. HIDE DEF d
    <2>2. d * EpochSize \in Int
        BY <2>1, Multiples
    <2>. QED  BY <1>1, <2>1, <2>2, Constants
<1>3. e \in Nat /\ MaxNumber <= e * EpochSize
    BY <1>1, EpochFacts, Zenon
<1>. HIDE DEF d, e
<1>4. d <= e
    <2>1. e < d => e * EpochSize + EpochSize <= d * EpochSize
        BY <1>2, <1>3, Multiples
    <2>2. e * EpochSize \in Int /\ d * EpochSize \in Int
        BY <1>2, <1>3, Multiples
    <2>. QED  BY <1>1, <1>2, <1>3, <2>1, <2>2, Constants
<1>5. d + 1 \in 1 .. e + 1
    BY <1>2, <1>3, <1>4
<1>. QED  BY <1>1, <1>2, <1>5, Zenon DEF d, e, Epochs

\* A set of block numbers has a greatest one.
LEMMA MaxIn ==
    ASSUME NEW n \in Nat, NEW S \in SUBSET (0 .. n), S # {}
    PROVE  Max(S) \in S
<1>. DEFINE T == {k \in Nat : \E x \in S : n - x = k}
            R == OpToRel(<, Nat)
<1>1. IsWellFoundedOn(R, Nat)
    BY NatLessThanWellFounded, Zenon
<1>2. \A x, y \in Nat : y < x => <<y, x>> \in R
    BY DEF OpToRel
<1>3. T \subseteq Nat /\ T # {}
    <2>1. PICK x \in S : x \in 0 .. n
        BY Zenon
    <2>2. n - x \in Nat
        BY <2>1
    <2>3. n - x \in T
        BY <2>2
    <2>. QED  BY <2>3, Zenon
<1>. HIDE DEF R, T
<1>4. PICK k \in T : \A j \in T : ~ (<<j, k>> \in R)
    BY <1>1, <1>3, WFMin, Zenon
<1>5. PICK x \in S : n - x = k
    BY <1>4 DEF T
<1>6. \A y \in S : x >= y
    <2>. SUFFICES ASSUME NEW y \in S, ~(x >= y) PROVE FALSE
        OBVIOUS
    <2>1. n - y \in T /\ n - y < k /\ k \in Nat
        BY <1>3, <1>5 DEF T
    <2>. QED  BY <1>2, <1>3, <1>4, <2>1, Zenon
<1>. QED  BY <1>6, Zenon DEF Max

\* The block that a request for number n names, if it names one.
Named(hash, n) == hash # None => hash \in Blocks /\ Len(hash) = n

\* The block whose snapshot is looked for, if there is one.
LEMMA BlockHashAt ==
    ASSUME NEW c \in Blocks, NEW n \in Nat, NEW hash, Named(hash, n), NEW k \in 0 .. n
    PROVE  Named(blockHash(c, n, hash, k), k)
<1>1. Len(c) \in Nat
    BY DEF Blocks
<1>2. CASE k = n
    BY <1>2, Zenon DEF blockHash
<1>3. CASE k # n /\ k <= Len(c)
    <2>1. k \in 0 .. Len(c)
        BY <1>1, <1>3
    <2>2. blockHash(c, n, hash, k) = SubSeq(c, 1, k)
        BY <1>3, Zenon DEF blockHash, GetHeaderByNumber
    <2>. QED  BY <2>1, <2>2, UpToBlock, Zenon DEF Named
<1>4. CASE k # n /\ ~(k <= Len(c))
    BY <1>4, Zenon DEF blockHash, GetHeaderByNumber, Named
<1>. QED  BY <1>2, <1>3, <1>4, Zenon

\* A store with another snapshot in its cache, or on its disk.
LEMMA StoreGrows ==
    ASSUME NEW st, StoreRight(st)
    PROVE  /\ \A recent : RecentRight(recent) =>
                 LET new == [st EXCEPT !.recent = recent]
                 IN  StoreRight(new) /\ new.monitor = st.monitor
                        /\ new.recent = recent /\ new.disk = st.disk
           /\ \A disk : DiskRight(disk) =>
                 LET new == [st EXCEPT !.disk = disk]
                 IN  StoreRight(new) /\ new.monitor = st.monitor
                        /\ new.recent = st.recent /\ new.disk = disk
<1>1. st = [monitor |-> st.monitor, recent |-> st.recent, disk |-> st.disk]
    BY DEF StoreRight
<1>2. ASSUME NEW recent, RecentRight(recent)
      PROVE  LET new == [st EXCEPT !.recent = recent]
             IN  StoreRight(new) /\ new.monitor = st.monitor
                    /\ new.recent = recent /\ new.disk = st.disk
    <2>. DEFINE new == [st EXCEPT !.recent = recent]
    <2>1. new = [monitor |-> st.monitor, recent |-> recent, disk |-> st.disk]
        BY <1>1
    <2>. HIDE DEF new
    <2>2. new.monitor = st.monitor /\ new.recent = recent /\ new.disk = st.disk
        BY <2>1
    <2>3. StoreRight(new)
        BY <1>2, <2>1, <2>2, Zenon DEF StoreRight
    <2>. QED  BY <2>2, <2>3 DEF new
<1>3. ASSUME NEW disk, DiskRight(disk)
      PROVE  LET new == [st EXCEPT !.disk = disk]
             IN  StoreRight(new) /\ new.monitor = st.monitor
                    /\ new.recent = st.recent /\ new.disk = disk
    <2>. DEFINE new == [st EXCEPT !.disk = disk]
    <2>1. new = [monitor |-> st.monitor, recent |-> st.recent, disk |-> disk]
        BY <1>1
    <2>. HIDE DEF new
    <2>2. new.monitor = st.monitor /\ new.recent = st.recent /\ new.disk = disk
        BY <2>1
    <2>3. StoreRight(new)
        BY <1>3, <2>1, <2>2, Zenon DEF StoreRight
    <2>. QED  BY <2>2, <2>3, Zenon DEF new
<1>. QED  BY <1>2, <1>3, Zenon

\* Another snapshot in the cache.
LEMMA PutRecent ==
    ASSUME NEW recent, RecentRight(recent), NEW k \in 0 .. MaxNumber, k % EpochSize = 0,
           NEW v, v = signers[k \div EpochSize + 1]
    PROVE  RecentRight(put(recent, [j \in {k} |-> v]))
<1>. DEFINE new == put(recent, [j \in {k} |-> v])
<1>1. /\ DOMAIN new = DOMAIN recent \cup {k} /\ new[k] = v
      /\ \A j \in DOMAIN recent : j # k => new[j] = recent[j]
    BY DEF put
<1>. HIDE DEF new
<1>2. ASSUME NEW j \in DOMAIN new
      PROVE  j \in 0 .. MaxNumber /\ j % EpochSize = 0 /\ new[j] = signers[j \div EpochSize + 1]
    <2>1. CASE j = k
        BY <1>1, <2>1, Zenon
    <2>2. CASE j # k
        BY <1>1, <2>2, Zenon DEF RecentRight
    <2>. QED  BY <2>1, <2>2, Zenon
<1>3. RecentRight(new)
    BY <1>2 DEF RecentRight
<1>. QED  BY <1>3 DEF new

\* More snapshots on disk.
LEMMA PutDisk ==
    ASSUME NEW disk, DiskRight(disk), NEW more, DiskRight(more)
    PROVE  DiskRight(put(disk, more))
<1>. DEFINE new == put(disk, more)
<1>1. DOMAIN new = DOMAIN disk \cup DOMAIN more
    BY DEF put
<1>2. \A h \in DOMAIN new : new[h] = IF h \in DOMAIN more THEN more[h] ELSE disk[h]
    BY DEF put
<1>. HIDE DEF new
<1>3. ASSUME NEW h \in DOMAIN new
      PROVE  /\ h \in Blocks /\ Len(h) <= MaxNumber /\ Len(h) % EpochSize = 0
             /\ new[h] = signers[Len(h) \div EpochSize + 1]
    <2>1. CASE h \in DOMAIN more
        BY <1>2, <2>1, Zenon DEF DiskRight
    <2>2. CASE h \notin DOMAIN more
        BY <1>1, <1>2, <2>2, Zenon DEF DiskRight
    <2>. QED  BY <2>1, <2>2, Zenon
<1>4. DiskRight(new)
    BY <1>3, Zenon DEF DiskRight
<1>. QED  BY <1>4 DEF new

\* Backend.snapshot finds a snapshot of the last block of an epoch to start
\* from.
LEMMA LatestRight ==
    ASSUME elected \in Elections, NEW c \in Blocks, NEW st, StoreRight(st),
           NEW n \in 0 .. MaxNumber, NEW hash, Named(hash, n)
    PROVE  LET s == latestSnapshot(c, st, n, hash)
           IN  /\ s.number \in 0 .. lastOfEpochBefore(n) /\ s.number % EpochSize = 0
               /\ s.set = signers[s.number \div EpochSize + 1]
               /\ StoreRight(s.st) /\ s.st.monitor = st.monitor
<1>. DEFINE s == latestSnapshot(c, st, n, hash)
            onDisk(k) == blockHash(c, n, hash, k) \in DOMAIN st.disk
            found == {k \in 0 .. lastOfEpochBefore(n) :
                        k % EpochSize = 0 /\ (k \in DOMAIN st.recent \/ onDisk(k))}
            load(k) == IF k \in DOMAIN st.recent THEN st.recent[k]
                       ELSE st.disk[blockHash(c, n, hash, k)]
<1>1. n \in Nat /\ n <= MaxNumber /\ lastOfEpochBefore(n) \in 0 .. n /\ MaxNumber \in Nat
    BY LastOfEpochBefore, Constants
<1>2. RecentRight(st.recent) /\ DiskRight(st.disk)
    BY DEF StoreRight
<1>3. CASE found # {}
    <2>. DEFINE k == Max(found)
    <2>1. k \in found
        <3>1. found \in SUBSET (0 .. n)
            BY <1>1
        <3>. HIDE DEF found
        <3>. QED  BY <1>1, <1>3, <3>1, MaxIn, Zenon
    <2>2. s = [number |-> k, set |-> load(k),
               st |-> [st EXCEPT !.recent = put(st.recent, [j \in {k} |-> load(k)])]]
        BY <1>3 DEF latestSnapshot
    <2>3. /\ k \in 0 .. lastOfEpochBefore(n) /\ k % EpochSize = 0
          /\ k \in DOMAIN st.recent \/ onDisk(k)
        <3>. HIDE DEF k
        <3>. QED  BY <2>1
    <2>. HIDE DEF k, found
    <2>4. k \in 0 .. n /\ k \in 0 .. MaxNumber
        BY <1>1, <2>3
    <2>5. load(k) = signers[k \div EpochSize + 1]
        <3>1. CASE k \in DOMAIN st.recent
            BY <1>2, <3>1, Zenon DEF RecentRight
        <3>2. CASE k \notin DOMAIN st.recent
            <4>. DEFINE h == blockHash(c, n, hash, k)
            <4>1. h \in DOMAIN st.disk
                BY <2>3, <3>2, Zenon
            <4>2. Len(h) = k
                <5>1. h # None
                    BY <1>2, <4>1, ElectionsAssumption, Zenon DEF DiskRight
                <5>2. Named(h, k)
                    BY <1>1, <2>4, BlockHashAt, Zenon
                <5>. QED  BY <5>1, <5>2, Zenon DEF Named
            <4>3. load(k) = st.disk[h]
                BY <3>2, Zenon
            <4>. HIDE DEF h
            <4>. QED  BY <1>2, <4>1, <4>2, <4>3, Zenon DEF DiskRight
        <3>. QED  BY <3>1, <3>2, Zenon
    <2>. DEFINE v == load(k)
                recent == put(st.recent, [j \in {k} |-> v])
    <2>6. RecentRight(recent)
        <3>. HIDE DEF v
        <3>1. v = signers[k \div EpochSize + 1]
            BY <2>5 DEF v
        <3>. QED  BY <1>2, <2>3, <2>4, <3>1, PutRecent, Zenon
    <2>7. s = [number |-> k, set |-> v, st |-> [st EXCEPT !.recent = recent]]
        BY <2>2
    <2>8. v = signers[k \div EpochSize + 1]
        BY <2>5
    <2>. HIDE DEF v, recent, s
    <2>. DEFINE new == [st EXCEPT !.recent = recent]
    <2>9. StoreRight(new) /\ new.monitor = st.monitor
        BY <2>6, StoreGrows, Zenon
    <2>. HIDE DEF new
    <2>10. s.number = k /\ s.set = v /\ s.st = new
        BY <2>7, Zenon DEF new
    <2>. QED  BY <2>3, <2>8, <2>9, <2>10, Zenon DEF s
<1>4. CASE found = {}
    <2>. DEFINE more == [genesis \in {<<>>} |-> elected[1]]
                disk == put(st.disk, more)
                new == [st EXCEPT !.disk = disk]
    <2>1. s = [number |-> 0, set |-> elected[1], st |-> new]
        BY <1>4, Zenon DEF latestSnapshot
    <2>2. elected[1] = signers[1]
        BY SignersFacts DEF signers
    <2>3. 0 \div EpochSize = 0 /\ 0 % EpochSize = 0
        <3>1. 0 \in Nat /\ 0 \in 0 .. EpochSize - 1 /\ 0 \in Int /\ 0 = 0 * EpochSize + 0
            BY Constants
        <3>. QED  BY <3>1, DivModUnique, Zenon
    <2>4. DiskRight(more)
        <3>1. <<>> \in Blocks /\ Len(<<>>) = 0
            BY DEF Blocks
        <3>2. DOMAIN more = {<<>>} /\ more[<<>>] = signers[0 \div EpochSize + 1]
            BY <2>2, <2>3
        <3>. HIDE DEF more
        <3>. QED  BY <1>1, <2>3, <3>1, <3>2 DEF DiskRight
    <2>. HIDE DEF more
    <2>5. DiskRight(disk)
        BY <1>2, <2>4, PutDisk, Zenon
    <2>. HIDE DEF disk
    <2>6. StoreRight(new) /\ new.monitor = st.monitor
        BY <2>5, StoreGrows, Zenon
    <2>. HIDE DEF new, s
    <2>7. s.number = 0 /\ s.set = elected[1] /\ s.st = new
        BY <2>1
    <2>8. 0 \in 0 .. lastOfEpochBefore(n) /\ elected[1] = signers[0 \div EpochSize + 1]
        BY <1>1, <2>2, <2>3
    <2>. QED  BY <2>3, <2>6, <2>7, <2>8, Zenon DEF s
<1>. QED  BY <1>3, <1>4, Zenon

\* The sets that applying headers goes through, from that of a block on.
setsFrom(set, number, steps) ==
    LET sets[i \in 0 .. steps] ==
            IF i = 0 \/ sets[i - 1] = None THEN set
            ELSE apply(sets[i - 1], diffOf(number + i * EpochSize))
    IN  sets

\* They are those of the next epochs.
LEMMA SetsAreSigners ==
    ASSUME elected \in Elections, NEW q \in Nat, NEW steps \in Nat,
           \A i \in 0 .. steps : q + i + 1 \in Epochs
    PROVE  LET sets == setsFrom(signers[q + 1], q * EpochSize, steps)
           IN  \A i \in 0 .. steps : sets[i] = signers[q + i + 1] /\ sets[i] # None
<1>. DEFINE number(i) == q * EpochSize + i * EpochSize
            Body(g) == [i \in 0 .. steps |->
                          IF i = 0 \/ g[i - 1] = None THEN signers[q + 1]
                          ELSE apply(g[i - 1], diffOf(number(i)))]
<1>1. \A e \in Epochs : signers[e] \in Sets /\ signers[e] # None
    <2>1. \A e \in Epochs : signers[e] \in Sets
        BY SignersFacts DEF signers
    <2>. QED  BY <2>1, ElectionsAssumption, Zenon DEF Sets
<1>2. ASSUME NEW i \in 1 .. steps
      PROVE  apply(signers[q + i], diffOf(number(i))) = signers[q + i + 1]
    <2>. DEFINE e == q + i
    <2>1. e \in Nat /\ e + 1 \in Epochs /\ e \in Epochs /\ e + 1 # 1 /\ e + 1 - 1 = e
        <3>1. e \in Nat /\ e = q + (i - 1) + 1 /\ i \in 0 .. steps /\ i - 1 \in 0 .. steps /\ e >= 1
            OBVIOUS
        <3>. QED  BY <3>1
    <2>2. number(i) = e * EpochSize /\ number(i) \in Nat
        <3>1. \A x \in Nat : q * x + i * x = (q + i) * x
            OBVIOUS
        <3>2. q * EpochSize + i * EpochSize = e * EpochSize
            BY <3>1, Constants, Zenon
        <3>. HIDE DEF e
        <3>3. e * EpochSize \in Int /\ e * EpochSize >= 0
            BY <2>1, Multiples
        <3>. QED  BY <3>2, <3>3
    <2>. HIDE DEF e, number
    <2>3. GetEpochNumber(number(i)) = e
        <3>1. (e - 1) * EpochSize = e * EpochSize - EpochSize /\ e * EpochSize \in Int
            BY <2>1, Multiples
        <3>2. (e - 1) * EpochSize < number(i) /\ number(i) <= e * EpochSize
            BY <2>2, <3>1, Constants
        <3>. QED  BY <2>1, <2>2, <3>2, EpochOf
    <2>4. diffOf(number(i)) = ValidatorSetDiff(signers[e], elected[e + 1])
        BY <2>3, SignersAreOf, Zenon DEF diffOf, signers
    <2>5. signers[e + 1] = apply(signers[e], ValidatorSetDiff(signers[e], elected[e + 1]))
        BY <2>1, SignersFacts DEF signers
    <2>. QED  BY <2>4, <2>5 DEF e
<1>. HIDE DEF number
<1>. DEFINE f == [i \in 0 .. steps |-> signers[q + i + 1]]
<1>3. f = Body(f)
    <2>1. ASSUME NEW i \in 0 .. steps
          PROVE  signers[q + i + 1] = IF i = 0 \/ f[i - 1] = None THEN signers[q + 1]
                                      ELSE apply(f[i - 1], diffOf(number(i)))
        <3>1. CASE i = 0
            <4>1. q + i + 1 = q + 1
                BY <3>1
            <4>. QED  BY <3>1, <4>1, Zenon
        <3>2. CASE i # 0
            <4>1. i \in 1 .. steps /\ i - 1 \in 0 .. steps /\ q + (i - 1) + 1 = q + i
                BY <3>2
            <4>2. f[i - 1] = signers[q + i] /\ q + i \in Epochs
                BY <4>1
            <4>. HIDE DEF f
            <4>. QED  BY <1>1, <1>2, <3>2, <4>1, <4>2, Zenon
        <3>. QED  BY <3>1, <3>2, Zenon
    <2>2. f = [i \in 0 .. steps |-> signers[q + i + 1]]
        OBVIOUS
    <2>. HIDE DEF f
    <2>. QED  BY <2>1, <2>2, Zenon
<1>. DEFINE sets == CHOOSE g : g = Body(g)
<1>4. sets = Body(sets)
    <2>1. \E g : g = Body(g)
        BY <1>3, Zenon
    <2>. HIDE DEF Body
    <2>. QED  BY <2>1
<1>. HIDE DEF sets, f
<1>5. \A i \in 0 .. steps : sets[i] = IF i = 0 \/ sets[i - 1] = None THEN signers[q + 1]
                                      ELSE apply(sets[i - 1], diffOf(number(i)))
    BY <1>4
<1>. DEFINE T == {i \in Nat : i <= steps => sets[i] = signers[q + i + 1]}
<1>6. T = Nat
    <2>1. 0 \in T
        <3>1. sets[0] = signers[q + 1] /\ q + 0 + 1 = q + 1
            BY <1>5
        <3>. QED  BY <3>1
    <2>2. ASSUME NEW j \in T
          PROVE  j + 1 \in T
        <3>. SUFFICES ASSUME j + 1 <= steps PROVE sets[j + 1] = signers[q + (j + 1) + 1]
            OBVIOUS
        <3>. DEFINE i == j + 1
        <3>1. /\ j \in Nat /\ i \in 1 .. steps /\ i \in 0 .. steps /\ i # 0 /\ i - 1 = j
              /\ j \in 0 .. steps /\ q + j + 1 = q + i
            OBVIOUS
        <3>2. sets[j] = signers[q + i]
            BY <3>1
        <3>3. q + i \in Epochs
            BY <3>1
        <3>. HIDE DEF i
        <3>4. sets[j] # None
            BY <1>1, <3>2, <3>3, Zenon
        <3>5. sets[i] = apply(sets[j], diffOf(number(i)))
            BY <1>5, <3>1, <3>4, Zenon
        <3>6. sets[i] = signers[q + i + 1]
            BY <1>2, <3>1, <3>2, <3>5, Zenon
        <3>. QED  BY <3>6 DEF i
    <2>3. T \in SUBSET Nat
        OBVIOUS
    <2>. HIDE DEF T
    <2>. QED  BY <2>1, <2>2, <2>3, Induction, Zenon
<1>7. \A i \in 0 .. steps : sets[i] = signers[q + i + 1] /\ sets[i] # None
    <2>1. \A i \in 0 .. steps : i \in T
        BY <1>6
    <2>2. \A i \in 0 .. steps : sets[i] = signers[q + i + 1]
        BY <2>1
    <2>. QED  BY <1>1, <2>2, Zenon
<1>. QED  BY <1>7 DEF sets, number, setsFrom

\* The blocks that end epochs.
LEMMA EpochEnds ==
    ASSUME NEW a \in Nat
    PROVE  a * EpochSize \in Nat /\ (a * EpochSize) \div EpochSize = a /\ (a * EpochSize) % EpochSize = 0
<1>. DEFINE n == a * EpochSize
<1>1. n \in Int /\ n >= 0
    BY Multiples
<1>2. n \in Nat /\ n = a * EpochSize + 0 /\ 0 \in 0 .. EpochSize - 1
    BY <1>1, Constants
<1>. HIDE DEF n
<1>3. n \div EpochSize = a /\ n % EpochSize = 0
    BY <1>2, DivModUnique
<1>. QED  BY <1>2, <1>3, Zenon DEF n

\* The headers that lead from the snapshot of block q * EpochSize to block n.
LEMMA StepsFrom ==
    ASSUME NEW n \in 0 .. MaxNumber, NEW q \in Nat, q * EpochSize <= (n \div EpochSize) * EpochSize
    PROVE  LET d == n \div EpochSize
               steps == (n - q * EpochSize) \div EpochSize
           IN  /\ steps \in Nat /\ steps = d - q /\ d \in Nat /\ d * EpochSize <= n
               /\ \A i \in 0 .. steps :
                     /\ q + i + 1 \in Epochs
                     /\ q * EpochSize + i * EpochSize = (q + i) * EpochSize
                     /\ (q + i) * EpochSize \in Nat /\ (q + i) * EpochSize <= d * EpochSize
<1>. DEFINE d == n \div EpochSize
            r == n % EpochSize
            k == n - q * EpochSize
<1>1. n \in Nat /\ d \in Nat /\ d + 1 \in Epochs
    BY EpochAfter, Zenon
<1>2. r \in 0 .. EpochSize - 1 /\ n = d * EpochSize + r
    BY <1>1, DivMod, Zenon
<1>3. q * EpochSize <= d * EpochSize
    OBVIOUS
<1>. HIDE DEF d, r
<1>4. d * EpochSize \in Int /\ q * EpochSize \in Int
    BY <1>1, Multiples
<1>5. q <= d
    <2>1. d < q => d * EpochSize + EpochSize <= q * EpochSize
        BY <1>1, Multiples
    <2>. QED  BY <1>1, <1>3, <1>4, <2>1, Constants
<1>6. \A x \in Nat : (d - q) * x = d * x - q * x
    BY <1>1
<1>7. k \in Nat /\ k = (d - q) * EpochSize + r /\ d - q \in Nat
    <2>1. (d - q) * EpochSize = d * EpochSize - q * EpochSize
        BY <1>6, Constants, Zenon
    <2>. QED  BY <1>1, <1>2, <1>3, <1>4, <1>5, <2>1, Constants
<1>8. k \div EpochSize = d - q
    <2>. HIDE DEF k
    <2>. QED  BY <1>2, <1>7, DivModUnique
<1>9. d * EpochSize <= n
    BY <1>2, <1>4, Constants
<1>10. ASSUME NEW i \in 0 .. d - q
       PROVE  /\ q + i + 1 \in Epochs
              /\ q * EpochSize + i * EpochSize = (q + i) * EpochSize
              /\ (q + i) * EpochSize \in Nat /\ (q + i) * EpochSize <= d * EpochSize
    <2>. DEFINE a == q + i
    <2>1. a \in Nat /\ a <= d
        BY <1>1, <1>5
    <2>2. a + 1 \in Epochs
        BY <1>1, <2>1, EpochsFacts
    <2>3. \A x \in Nat : q * x + i * x = (q + i) * x
        BY <1>1
    <2>4. q * EpochSize + i * EpochSize = a * EpochSize
        BY <2>3, Constants, Zenon
    <2>. HIDE DEF a
    <2>5. a * EpochSize \in Nat
        BY <2>1, EpochEnds, Zenon
    <2>6. a < d => a * EpochSize + EpochSize <= d * EpochSize
        BY <1>1, <2>1, Multiples
    <2>7. a * EpochSize <= d * EpochSize
        BY <1>1, <1>4, <2>1, <2>5, <2>6, Constants
    <2>. QED  BY <2>2, <2>4, <2>5, <2>7, Zenon DEF a
<1>. QED  BY <1>1, <1>7, <1>8, <1>9, <1>10, Zenon DEF d

\* Backend.snapshot: who signs after a block, or an error.  The blocks up to
\* the head, or the last of the parents, are never an error.
LEMMA SnapshotRight ==
    ASSUME elected \in Elections, NEW c \in Blocks, NEW p \in Blocks, NEW st, StoreRight(st),
           NEW n \in 0 .. MaxNumber, NEW hash, Named(hash, n)
    PROVE  LET s == snapshot(c, p, st, n, hash)
           IN  /\ StoreRight(s.st) /\ s.st.monitor = st.monitor
               /\ n <= Len(p) => s.ok
               /\ s.ok => s.set = signers[n \div EpochSize + 1]
               /\ ~s.ok => s.set = <<>>
<1>. DEFINE snap == latestSnapshot(c, st, n, hash)
            q == snap.number \div EpochSize
            d == n \div EpochSize
            steps == (n - snap.number) \div EpochSize
            sets == setsFrom(snap.set, snap.number, steps)
            number(i) == snap.number + i * EpochSize
            onDisk == [h \in {GetHeaderByNumber(p, number(i)) : i \in 1 .. steps} |->
                          sets[(Len(h) - snap.number) \div EpochSize]]
            missing == steps > 0 /\ number(steps) > Len(p)
<1>1. /\ snap.number \in 0 .. lastOfEpochBefore(n) /\ snap.number % EpochSize = 0
      /\ snap.set = signers[q + 1]
      /\ StoreRight(snap.st) /\ snap.st.monitor = st.monitor
    BY LatestRight, SMTT(20)
<1>2. /\ n \in Nat /\ n <= MaxNumber /\ MaxNumber \in Nat /\ Len(p) \in Nat /\ d \in Nat
      /\ lastOfEpochBefore(n) = d * EpochSize
    BY LastOfEpochBefore, EpochAfter, Constants DEF Blocks
<1>3. snapshot(c, p, st, n, hash) =
          IF missing \/ \E i \in 1 .. steps : sets[i] = None
          THEN [ok |-> FALSE, set |-> <<>>, st |-> snap.st]
          ELSE [ok |-> TRUE, set |-> sets[steps],
                st |-> IF steps = 0 THEN snap.st
                       ELSE [snap.st EXCEPT
                                !.recent = put(snap.st.recent, [k \in {number(steps)} |-> sets[steps]]),
                                !.disk = put(snap.st.disk, onDisk)]]
    BY DEF snapshot, applyHeaders, setsFrom
<1>. HIDE DEF snap, d
<1>4. q \in Nat /\ snap.number = q * EpochSize
    <2>1. snap.number \in Nat
        BY <1>1, <1>2
    <2>2. q \in Nat /\ snap.number = q * EpochSize + (snap.number % EpochSize)
        BY <2>1, DivMod, Zenon
    <2>. HIDE DEF q
    <2>3. q * EpochSize \in Int
        BY <2>2, Multiples
    <2>. QED  BY <1>1, <2>2, <2>3
<1>5. q * EpochSize <= d * EpochSize
    <2>. HIDE DEF q
    <2>. QED  BY <1>1, <1>2, <1>4
<1>. HIDE DEF q
<1>6. /\ steps \in Nat /\ steps = d - q /\ d * EpochSize <= n
      /\ \A i \in 0 .. steps :
            /\ q + i + 1 \in Epochs
            /\ number(i) = (q + i) * EpochSize
            /\ number(i) \in Nat /\ number(i) <= d * EpochSize
    BY <1>4, <1>5, StepsFrom DEF d
<1>. HIDE DEF number, steps
<1>7. \A i \in 0 .. steps : sets[i] = signers[q + i + 1] /\ sets[i] # None
    <2>1. q \in Nat /\ steps \in Nat /\ \A i \in 0 .. steps : q + i + 1 \in Epochs
        BY <1>4, <1>6, Zenon
    <2>2. sets = setsFrom(signers[q + 1], q * EpochSize, steps)
        BY <1>1, <1>4, Zenon
    <2>3. LET all == setsFrom(signers[q + 1], q * EpochSize, steps)
          IN  \A i \in 0 .. steps : all[i] = signers[q + i + 1] /\ all[i] # None
        BY <2>1, SetsAreSigners, Zenon
    <2>. HIDE DEF sets
    <2>. QED  BY <2>2, <2>3, Zenon
<1>. HIDE DEF sets
<1>8. ~\E i \in 1 .. steps : sets[i] = None
    <2>1. \A i \in 1 .. steps : i \in 0 .. steps
        BY <1>6
    <2>. QED  BY <1>7, <2>1
<1>9. number(steps) = d * EpochSize /\ steps \in 0 .. steps /\ q + steps = d /\ d * EpochSize \in Nat
    <2>1. steps \in 0 .. steps /\ q + steps = d
        BY <1>2, <1>4, <1>6
    <2>. QED  BY <1>6, <2>1, Zenon
<1>10. sets[steps] = signers[d + 1]
    BY <1>7, <1>9, Zenon
<1>. DEFINE s == snapshot(c, p, st, n, hash)
<1>11. CASE missing
    <2>1. s = [ok |-> FALSE, set |-> <<>>, st |-> snap.st]
        BY <1>3, <1>11, Zenon
    <2>. HIDE DEF s
    <2>2. s.ok = FALSE /\ s.set = <<>> /\ s.st = snap.st
        BY <2>1, Zenon
    <2>3. ~(n <= Len(p))
        BY <1>2, <1>6, <1>9, <1>11
    <2>. QED  BY <1>1, <2>2, <2>3, Zenon DEF s
<1>12. CASE ~missing /\ steps = 0
    <2>1. s = [ok |-> TRUE, set |-> sets[steps], st |-> snap.st]
        BY <1>3, <1>8, <1>12, Zenon
    <2>. HIDE DEF s
    <2>2. s.ok = TRUE /\ s.set = sets[steps] /\ s.st = snap.st
        BY <2>1, Zenon
    <2>. QED  BY <1>1, <1>10, <2>2, Zenon DEF s, d
<1>13. CASE ~missing /\ steps # 0
    <2>. DEFINE recent == put(snap.st.recent, [k \in {number(steps)} |-> sets[steps]])
                disk == put(snap.st.disk, onDisk)
                mid == [snap.st EXCEPT !.recent = recent]
                new == [mid EXCEPT !.disk = disk]
    <2>1. number(steps) <= Len(p)
        BY <1>2, <1>6, <1>9, <1>13
    <2>2. s = [ok |-> TRUE, set |-> sets[steps], st |-> new]
        <3>1. s = [ok |-> TRUE, set |-> sets[steps],
                   st |-> [snap.st EXCEPT
                              !.recent = put(snap.st.recent, [k \in {number(steps)} |-> sets[steps]]),
                              !.disk = put(snap.st.disk, onDisk)]]
            <4>. HIDE DEF s, onDisk
            <4>. QED  BY <1>3, <1>8, <1>13, Zenon DEF s
        <3>. HIDE DEF s, onDisk
        <3>. QED  BY <3>1, Zenon
    <2>3. RecentRight(recent)
        <3>. DEFINE k == number(steps)
                    v == sets[steps]
        <3>1. RecentRight(snap.st.recent)
            BY <1>1, Zenon DEF StoreRight
        <3>2. k \in 0 .. MaxNumber /\ k % EpochSize = 0 /\ k \div EpochSize = d
            <4>1. d * EpochSize \in 0 .. MaxNumber
                BY <1>2, <1>6, <1>9
            <4>. QED  BY <1>2, <1>9, <4>1, EpochEnds, Zenon
        <3>3. v = signers[k \div EpochSize + 1]
            BY <1>10, <3>2, Zenon
        <3>. HIDE DEF k, v
        <3>4. RecentRight(put(snap.st.recent, [j \in {k} |-> v]))
            BY <3>1, <3>2, <3>3, PutRecent, Zenon
        <3>. QED  BY <3>4, Zenon DEF k, v
    <2>4. DiskRight(onDisk)
        <3>. SUFFICES ASSUME NEW h \in DOMAIN onDisk
                      PROVE  /\ h \in Blocks /\ Len(h) <= MaxNumber /\ Len(h) % EpochSize = 0
                             /\ onDisk[h] = signers[Len(h) \div EpochSize + 1]
            BY Zenon DEF DiskRight
        <3>1. PICK i \in 1 .. steps : h = GetHeaderByNumber(p, number(i))
            OBVIOUS
        <3>2. onDisk[h] = sets[(Len(h) - snap.number) \div EpochSize]
            OBVIOUS
        <3>. HIDE DEF onDisk
        <3>3. i \in 0 .. steps /\ i \in Nat /\ q + i \in Nat
            BY <1>4, <1>6
        <3>4. /\ number(i) = (q + i) * EpochSize /\ number(i) \in Nat
              /\ number(i) <= MaxNumber /\ number(i) <= Len(p)
            BY <1>2, <1>6, <1>9, <2>1, <3>3
        <3>5. h = SubSeq(p, 1, number(i))
            BY <3>1, <3>4, Zenon DEF GetHeaderByNumber
        <3>6. number(i) \in 0 .. Len(p)
            BY <1>2, <3>4
        <3>7. h \in Blocks /\ Len(h) = number(i)
            BY <3>5, <3>6, UpToBlock, Zenon
        <3>8. number(i) \div EpochSize = q + i /\ number(i) % EpochSize = 0
            BY <3>3, <3>4, EpochEnds, Zenon
        <3>9. (number(i) - snap.number) \div EpochSize = i
            <4>1. number(i) - snap.number = i * EpochSize
                <5>1. i * EpochSize \in Nat
                    BY <3>3, EpochEnds, Zenon
                <5>2. snap.number \in Int
                    BY <1>1, <1>2
                <5>. QED  BY <5>1, <5>2 DEF number
            <4>. QED  BY <3>3, <4>1, EpochEnds, Zenon
        <3>10. onDisk[h] = signers[q + i + 1]
            BY <1>7, <3>2, <3>3, <3>7, <3>9, Zenon
        <3>. QED  BY <3>4, <3>7, <3>8, <3>10, Zenon
    <2>. HIDE DEF onDisk, recent
    <2>5. DiskRight(disk)
        <3>1. DiskRight(snap.st.disk)
            BY <1>1, Zenon DEF StoreRight
        <3>. QED  BY <2>4, <3>1, PutDisk, Zenon
    <2>. HIDE DEF disk
    <2>6. StoreRight(mid) /\ mid.monitor = snap.st.monitor
        BY <1>1, <2>3, StoreGrows, Zenon
    <2>. HIDE DEF mid
    <2>7. StoreRight(new) /\ new.monitor = mid.monitor
        BY <2>5, <2>6, StoreGrows, Zenon
    <2>. HIDE DEF new, s
    <2>8. s.ok = TRUE /\ s.set = sets[steps] /\ s.st = new
        BY <2>2
    <2>. QED  BY <1>1, <1>10, <2>6, <2>7, <2>8, Zenon DEF s, d
<1>. QED  BY <1>11, <1>12, <1>13, Zenon

-----------------------------------------------------------------------------
(***************************************************************************)
(* The invariant.                                                          *)
(***************************************************************************)
MonitorRight(m) ==
    /\ Right(m) /\ m.epoch \in 1 .. GetEpochNumber(MaxNumber)
    /\ \E size \in 0 .. Cardinality(Validators) : DOMAIN m.entries = 0 .. size - 1

\* What is kept between two steps: snapshots that are those of the signers,
\* and a monitor that counts what is on the chain of its last header.
IInv ==
    /\ elected \in Elections
    /\ chain \in Blocks /\ Len(chain) <= MaxNumber
    /\ RecentRight(recentSnapshots) /\ DiskRight(db)
    /\ uptimeMonitor # None => MonitorRight(uptimeMonitor)

\* The epoch of a block that there may be.
LEMMA EpochInRange ==
    ASSUME NEW n \in 1 .. MaxNumber
    PROVE  GetEpochNumber(n) \in 1 .. GetEpochNumber(MaxNumber)
<1>. DEFINE e == GetEpochNumber(n)
            f == GetEpochNumber(MaxNumber)
<1>1. n \in Nat /\ n >= 1 /\ n <= MaxNumber /\ MaxNumber \in Nat
    BY Constants
<1>2. e \in Nat /\ e >= 1 /\ (e - 1) * EpochSize < n
    BY <1>1, EpochFacts, Zenon
<1>3. f \in Nat /\ MaxNumber <= f * EpochSize
    BY <1>1, EpochFacts, Zenon
<1>. HIDE DEF e, f
<1>4. f < e => f * EpochSize + EpochSize <= e * EpochSize
    BY <1>2, <1>3, Multiples
<1>5. /\ (e - 1) * EpochSize = e * EpochSize - EpochSize
      /\ e * EpochSize \in Int /\ f * EpochSize \in Int
    BY <1>2, <1>3, Multiples
<1>6. e <= f
    BY <1>1, <1>2, <1>3, <1>4, <1>5, Constants
<1>. QED  BY <1>2, <1>3, <1>6 DEF e, f

\* The block after the head.
LEMMA NextFacts ==
    ASSUME IInv, NEW b \in Bitmaps, Len(chain) < MaxNumber
    PROVE  /\ Len(chain) \in Nat /\ next(b) \in Blocks /\ Len(next(b)) = Len(chain) + 1
           /\ parent(next(b)) = chain /\ Len(next(b)) - 1 = Len(chain)
           /\ Len(next(b)) \in 0 .. MaxNumber /\ Len(chain) \in 0 .. MaxNumber
           /\ GetEpochNumber(Len(next(b))) \in 1 .. GetEpochNumber(MaxNumber)
           /\ GetEpochNumber(Len(next(b))) \in Nat
<1>1. chain \in Blocks
    BY DEF IInv
<1>2. /\ Len(chain) \in Nat /\ next(b) \in Blocks /\ Len(next(b)) = Len(chain) + 1
      /\ parent(next(b)) = chain
    BY <1>1, NextBlock DEF next, Blocks
<1>3. Len(next(b)) \in 1 .. MaxNumber
    BY <1>2, Constants
<1>4. GetEpochNumber(Len(next(b))) \in 1 .. GetEpochNumber(MaxNumber)
    BY <1>3, EpochInRange, Zenon
<1>5. GetEpochNumber(Len(next(b))) \in Nat
    BY <1>2, EpochFacts
<1>. QED  BY <1>2, <1>3, <1>4, <1>5, Constants

\* getValidators for the block before the next one.
LEMMA ParentSnapshot ==
    ASSUME IInv, NEW st, StoreRight(st)
    PROVE  LET v == snapshot(chain, chain, st, Len(chain), chain)
           IN  v.ok /\ StoreRight(v.st) /\ v.st.monitor = st.monitor
<1>. DEFINE n == Len(chain)
<1>1. elected \in Elections /\ chain \in Blocks /\ n \in 0 .. MaxNumber /\ n <= Len(chain)
    BY Constants DEF IInv, Blocks
<1>2. Named(chain, n)
    BY <1>1, Zenon DEF Named
<1>. HIDE DEF n
<1>3. LET v == snapshot(chain, chain, st, n, chain)
      IN  v.ok /\ StoreRight(v.st) /\ v.st.monitor = st.monitor
    BY <1>1, <1>2, SnapshotRight, SMTT(20)
<1>. QED  BY <1>3, Zenon DEF n

\* A header is verified: the snapshots stay right, the monitor is not touched,
\* and the header after the head is never refused for want of a snapshot.
LEMMA HeaderVerified ==
    ASSUME IInv, NEW st, StoreRight(st), NEW h \in Blocks, Len(h) \in 1 .. MaxNumber
    PROVE  LET v == verifyHeader(chain, st, h)
           IN  /\ StoreRight(v.st) /\ v.st.monitor = st.monitor
               /\ Len(h) <= Len(chain) + 1 => v.ok
<1>. DEFINE m == Len(h) - 1
            n == Len(h) - 2
            p == parent(h)
            hash == GetHeaderByNumber(chain, n)
            v == snapshot(chain, p, st, m, p)
            w == snapshot(chain, chain, v.st, n, hash)
            again == v.ok /\ Len(h) > 1 /\ Len(h) % EpochSize = 1
            r == verifyHeader(chain, st, h)
<1>1. elected \in Elections /\ chain \in Blocks /\ Len(chain) \in Nat
    BY DEF IInv, Blocks
<1>2. m \in 0 .. MaxNumber /\ m \in 0 .. Len(h) /\ (Len(h) > 1 => n \in 0 .. MaxNumber)
    BY Constants
<1>3. p \in Blocks /\ Len(p) = m
    BY <1>2, UpToBlock, Zenon DEF parent
<1>4. r = IF again THEN w ELSE v
    BY DEF verifyHeader
<1>. HIDE DEF m, p, r
<1>5. StoreRight(v.st) /\ v.st.monitor = st.monitor /\ v.ok
    <2>1. Named(p, m) /\ m <= Len(p)
        BY <1>2, <1>3 DEF Named
    <2>. QED  BY <1>1, <1>2, <1>3, <2>1, SnapshotRight, SMTT(20)
<1>. HIDE DEF v
<1>6. CASE again
    <2>1. n \in 0 .. MaxNumber
        BY <1>2, <1>6
    <2>2. Named(hash, n)
        <3>1. CASE n <= Len(chain)
            <4>1. n \in 0 .. Len(chain)
                BY <1>1, <2>1, <3>1
            <4>2. hash = SubSeq(chain, 1, n)
                BY <3>1, Zenon DEF GetHeaderByNumber
            <4>. QED  BY <1>1, <4>1, <4>2, UpToBlock, Zenon DEF Named
        <3>2. CASE ~(n <= Len(chain))
            BY <3>2, Zenon DEF GetHeaderByNumber, Named
        <3>. QED  BY <3>1, <3>2, Zenon
    <2>3. Len(h) <= Len(chain) + 1 => n <= Len(chain)
        BY <1>1
    <2>4. r = w
        BY <1>4, <1>6, Zenon
    <2>. HIDE DEF n, hash
    <2>5. StoreRight(w.st) /\ w.st.monitor = v.st.monitor /\ (n <= Len(chain) => w.ok)
        BY <1>1, <1>5, <2>1, <2>2, SnapshotRight, SMTT(20)
    <2>. HIDE DEF w
    <2>. QED  BY <1>5, <2>3, <2>4, <2>5, Zenon DEF r
<1>7. CASE ~again
    <2>1. r = v
        BY <1>4, <1>7, Zenon
    <2>. QED  BY <1>5, <2>1, Zenon DEF r
<1>. QED  BY <1>6, <1>7, Zenon

\* A store with another monitor.
LEMMA OtherMonitor ==
    ASSUME NEW st, StoreRight(st), NEW m
    PROVE  StoreRight([st EXCEPT !.monitor = m]) /\ [st EXCEPT !.monitor = m].monitor = m
<1>. DEFINE new == [st EXCEPT !.monitor = m]
<1>1. st = [monitor |-> st.monitor, recent |-> st.recent, disk |-> st.disk]
    BY DEF StoreRight
<1>2. new = [monitor |-> m, recent |-> st.recent, disk |-> st.disk]
    BY <1>1
<1>. HIDE DEF new
<1>3. new.monitor = m /\ new.recent = st.recent /\ new.disk = st.disk
    BY <1>2, Zenon
<1>4. StoreRight(new)
    BY <1>2, <1>3, Zenon DEF StoreRight
<1>. QED  BY <1>3, <1>4, Zenon DEF new

\* retrieveUptimeScoreBuilder: the monitor of the epoch of the next block.
LEMMA RetrieveRight ==
    ASSUME IInv, NEW b \in Bitmaps, Len(chain) < MaxNumber, NEW st, StoreRight(st),
           st.monitor # None => MonitorRight(st.monitor)
    PROVE  LET s == retrieveUptimeScoreBuilder(chain, st, next(b))
               e == GetEpochNumber(Len(next(b)))
           IN  /\ StoreRight(s) /\ MonitorRight(s.monitor) /\ s.monitor.epoch = e
               /\ st.monitor # None /\ st.monitor.epoch = e => s.monitor = st.monitor
<1>. DEFINE h == next(b)
            e == GetEpochNumber(Len(h))
            s == retrieveUptimeScoreBuilder(chain, st, h)
            v == snapshot(chain, chain, st, Len(h), h)
            m == NewMonitor(e, Len(v.set))
<1>1. /\ h \in Blocks /\ Len(h) \in 0 .. MaxNumber /\ Len(h) = Len(chain) + 1 /\ Len(chain) \in Nat
      /\ e \in Nat /\ e \in 1 .. GetEpochNumber(MaxNumber)
    BY NextFacts
<1>2. elected \in Elections /\ chain \in Blocks
    BY DEF IInv
<1>. HIDE DEF h, e
<1>3. s = IF st.monitor # None /\ st.monitor.epoch = e THEN st ELSE [v.st EXCEPT !.monitor = m]
    BY DEF retrieveUptimeScoreBuilder, getValidators, e
<1>4. CASE st.monitor # None /\ st.monitor.epoch = e
    <2>1. s = st
        BY <1>3, <1>4, Zenon
    <2>. HIDE DEF s
    <2>. QED  BY <1>4, <2>1, Zenon DEF h, e, s
<1>5. CASE ~(st.monitor # None /\ st.monitor.epoch = e)
    <2>1. StoreRight(v.st) /\ (v.ok => v.set = signers[Len(h) \div EpochSize + 1]) /\ (~v.ok => v.set = <<>>)
        <3>. DEFINE n == Len(h)
        <3>1. n \in 0 .. MaxNumber /\ Named(h, n)
            BY <1>1, Zenon DEF Named
        <3>. HIDE DEF n
        <3>2. LET w == snapshot(chain, chain, st, n, h)
              IN  /\ StoreRight(w.st) /\ (w.ok => w.set = signers[n \div EpochSize + 1])
                  /\ (~w.ok => w.set = <<>>)
            BY <1>1, <1>2, <3>1, SnapshotRight, Zenon
        <3>. QED  BY <3>2, Zenon DEF n
    <2>. HIDE DEF v
    <2>2. Len(v.set) \in 0 .. Cardinality(Validators)
        <3>1. CASE v.ok
            <4>1. Len(h) \div EpochSize + 1 \in Epochs
                BY <1>1, EpochAfter, Zenon
            <4>2. v.set \in Sets
                BY <1>2, <2>1, <3>1, <4>1, SignersFacts, Zenon DEF signers
            <4>3. Len(v.set) <= Cardinality(Validators) /\ Len(v.set) \in Nat
                BY <4>2, SetLength, Zenon
            <4>4. Cardinality(Validators) \in Nat
                BY ElectionsAssumption, FS_CardinalityType, Zenon
            <4>. QED  BY <4>3, <4>4
        <3>2. CASE ~v.ok
            <4>1. Len(v.set) = 0
                BY <2>1, <3>2
            <4>2. Cardinality(Validators) \in Nat
                BY ElectionsAssumption, FS_CardinalityType
            <4>. QED  BY <4>1, <4>2
        <3>. QED  BY <3>1, <3>2, Zenon
    <2>. DEFINE size == Len(v.set)
    <2>3. size \in 0 .. Cardinality(Validators)
        BY <2>2
    <2>. HIDE DEF size
    <2>4. m = NewMonitor(e, size)
        BY DEF size
    <2>. HIDE DEF m
    <2>5. e >= 1
        BY <1>1
    <2>6. Right(m) /\ m.epoch = e /\ DOMAIN m.entries = 0 .. size - 1
        BY <1>1, <2>4, <2>5, NewMonitorRight, Zenon
    <2>7. MonitorRight(m)
        BY <1>1, <2>3, <2>6, Zenon DEF MonitorRight
    <2>8. s = [v.st EXCEPT !.monitor = m]
        BY <1>3, <1>5, Zenon
    <2>9. StoreRight(s) /\ s.monitor = m
        BY <2>1, <2>8, OtherMonitor
    <2>. HIDE DEF s
    <2>. QED  BY <1>5, <2>6, <2>7, <2>9, Zenon DEF h, e, s
<1>. QED  BY <1>4, <1>5, Zenon

\* The store that processing the next block leaves.
LEMMA ProcessRight ==
    ASSUME IInv, NEW b \in Bitmaps, Len(chain) < MaxNumber, NEW skipped \in BOOLEAN
    PROVE  LET v == verifyHeader(chain, store, next(b))
               st == process(b, skipped).st
               e == GetEpochNumber(Len(next(b)))
           IN  /\ v.ok /\ StoreRight(v.st) /\ v.st.monitor = uptimeMonitor
               /\ StoreRight(st) /\ (st.monitor # None => MonitorRight(st.monitor))
               /\ uptimeMonitor # None /\ uptimeMonitor.epoch = e => st.monitor = uptimeMonitor
<1>. DEFINE h == next(b)
            e == GetEpochNumber(Len(h))
            v == verifyHeader(chain, store, h)
            w == snapshot(chain, chain, v.st, Len(chain), chain)
            s == retrieveUptimeScoreBuilder(chain, w.st, h)
            st == process(b, skipped).st
<1>1. /\ parent(h) = chain /\ Len(h) - 1 = Len(chain)
      /\ h \in Blocks /\ Len(h) \in 1 .. MaxNumber /\ Len(h) <= Len(chain) + 1
    BY NextFacts
<1>2. StoreRight(store) /\ store.monitor = uptimeMonitor
    BY DEF store, StoreRight, IInv
<1>4. v.ok /\ StoreRight(v.st) /\ v.st.monitor = uptimeMonitor
    <2>. HIDE DEF h
    <2>. QED  BY <1>1, <1>2, HeaderVerified, Zenon
<1>5. StoreRight(w.st) /\ w.st.monitor = uptimeMonitor
    <2>. HIDE DEF v
    <2>. QED  BY <1>4, ParentSnapshot, Zenon
<1>6. /\ StoreRight(s) /\ MonitorRight(s.monitor)
      /\ uptimeMonitor # None /\ uptimeMonitor.epoch = e => s.monitor = uptimeMonitor
    <2>. HIDE DEF w
    <2>1. w.st.monitor # None => MonitorRight(w.st.monitor)
        BY <1>5, Zenon DEF IInv
    <2>. QED  BY <1>5, <2>1, RetrieveRight, Zenon
<1>7. st = v.st \/ st = w.st \/ st = s
    <2>. DEFINE f == Finalize(chain, v.st, h, skipped)
                u == updateValidatorScores(chain, w.st, h, w.set)
    <2>1. process(b, skipped) = f
        BY DEF process
    <2>2. \/ f = [panics |-> FALSE, st |-> v.st]
          \/ f = [panics |-> FALSE, st |-> w.st]
          \/ f = u
        <3>. HIDE DEF v, h, u
        <3>. QED  BY <1>1, Zenon DEF Finalize, distributeEpochRewards, getValidators, u
    <2>. HIDE DEF f, w, v, h
    <2>3. u.st = s
        BY DEF updateValidatorScores
    <2>. HIDE DEF s, u
    <2>. QED  BY <2>1, <2>2, <2>3
<1>. HIDE DEF v, w, s, st, h, e
<1>8. uptimeMonitor # None => MonitorRight(uptimeMonitor)
    BY DEF IInv
<1>9. /\ StoreRight(st) /\ (st.monitor # None => MonitorRight(st.monitor))
      /\ uptimeMonitor # None /\ uptimeMonitor.epoch = e => st.monitor = uptimeMonitor
    BY <1>4, <1>5, <1>6, <1>7, <1>8, Zenon
<1>. QED  BY <1>4, <1>9, Zenon DEF v, st, h, e

\* The monitor that takes the next block is right again, and of the same
\* validators.
LEMMA MonitorTakes ==
    ASSUME IInv, NEW b \in Bitmaps, Len(chain) < MaxNumber, NEW m, MonitorRight(m),
           m.epoch = GetEpochNumber(Len(next(b)))
    PROVE  LET r == ProcessHeader(chain, m, next(b))
           IN  /\ r.ok /\ MonitorRight(r.m) /\ r.m.latest = next(b)
               /\ DOMAIN r.m.entries = DOMAIN m.entries
<1>. DEFINE r == ProcessHeader(chain, m, next(b))
            h == next(b)
<1>1. h \in Blocks /\ parent(h) = chain
    BY NextFacts, Zenon
<1>2. Right(m) /\ m.epoch \in 1 .. GetEpochNumber(MaxNumber)
    BY DEF MonitorRight
<1>3. Takes(r, m, h)
    <2>1. Takes(ProcessHeader(parent(h), m, h), m, h)
        <3>. HIDE DEF h
        <3>. QED  BY <1>1, <1>2, ProcessHeaderTakes, Zenon DEF h
    <2>. QED  BY <1>1, <2>1, Zenon
<1>. HIDE DEF r, h
<1>4. PICK size \in 0 .. Cardinality(Validators) : DOMAIN m.entries = 0 .. size - 1
    BY DEF MonitorRight
<1>5. Sized(m)
    <2>1. Cardinality(Validators) \in Nat
        BY ElectionsAssumption, FS_CardinalityType, Zenon
    <2>2. size \in Nat
        BY <2>1
    <2>. QED  BY <1>4, <2>2, Zenon DEF Sized
<1>6. r.ok /\ Right(r.m) /\ r.m.latest = h /\ r.m.epoch = m.epoch /\ DOMAIN r.m.entries = DOMAIN m.entries
    BY <1>3, <1>5, Zenon DEF Takes, SameEntries
<1>7. MonitorRight(r.m)
    BY <1>2, <1>4, <1>6, Zenon DEF MonitorRight
<1>. QED  BY <1>6, <1>7, Zenon DEF r, h

\* OnBlockInsertion, after the next block was processed.
LEMMA InsertionRight ==
    ASSUME IInv, NEW b \in Bitmaps, Len(chain) < MaxNumber, NEW skipped \in BOOLEAN
    PROVE  LET r == OnBlockInsertion(chain, process(b, skipped).st, next(b))
           IN  /\ r.ok /\ StoreRight(r.st) /\ MonitorRight(r.st.monitor)
               /\ r.st.monitor.latest = next(b)
<1>. DEFINE st == process(b, skipped).st
            s == retrieveUptimeScoreBuilder(chain, st, next(b))
            q == ProcessHeader(chain, s.monitor, next(b))
            r == OnBlockInsertion(chain, st, next(b))
<1>1. StoreRight(st) /\ (st.monitor # None => MonitorRight(st.monitor))
    BY ProcessRight, Zenon
<1>2. StoreRight(s) /\ MonitorRight(s.monitor) /\ s.monitor.epoch = GetEpochNumber(Len(next(b)))
    <2>. HIDE DEF st
    <2>. QED  BY <1>1, RetrieveRight, Zenon
<1>3. r = [ok |-> q.ok, st |-> [s EXCEPT !.monitor = q.m]]
    BY Zenon DEF OnBlockInsertion
<1>. HIDE DEF s, r, st
<1>4. q.ok /\ MonitorRight(q.m) /\ q.m.latest = next(b)
    BY <1>2, MonitorTakes, Zenon
<1>. HIDE DEF q
<1>. DEFINE new == [s EXCEPT !.monitor = q.m]
<1>5. StoreRight(new) /\ new.monitor = q.m
    BY <1>2, OtherMonitor, Zenon
<1>6. r.ok = q.ok /\ r.st = new
    BY <1>3, Zenon
<1>. HIDE DEF new
<1>7. r.ok /\ StoreRight(r.st) /\ MonitorRight(r.st.monitor) /\ r.st.monitor.latest = next(b)
    BY <1>4, <1>5, <1>6, Zenon
<1>. QED  BY <1>7, Zenon DEF r, st

\* What is kept of a store that is right.
LEMMA KeepKeeps ==
    ASSUME IInv, NEW st, StoreRight(st), st.monitor # None => MonitorRight(st.monitor), Keep(st),
           chain' \in Blocks, Len(chain') <= MaxNumber
    PROVE  IInv'
<1>1. elected' = elected /\ uptimeMonitor' = st.monitor /\ recentSnapshots' = st.recent /\ db' = st.disk
    BY DEF Keep
<1>2. elected \in Elections
    BY DEF IInv
<1>3. (elected \in Elections)' /\ signers' = signers
    BY <1>1, <1>2, Zenon DEF signers
<1>4. RecentRight(recentSnapshots)' /\ DiskRight(db)'
    BY <1>1, <1>3, Zenon DEF StoreRight, RecentRight, DiskRight
<1>5. (uptimeMonitor # None => MonitorRight(uptimeMonitor))'
    BY <1>1, Zenon
<1>. QED  BY <1>3, <1>4, <1>5, Zenon DEF IInv

\* The node starts with nothing.
LEMMA InitHolds == Init => IInv
<1>. SUFFICES ASSUME Init PROVE IInv
    OBVIOUS
<1>1. <<>> \in Blocks /\ Len(<<>>) = 0 /\ DOMAIN <<>> = {}
    BY DEF Blocks
<1>2. RecentRight(<<>>) /\ DiskRight(<<>>)
    BY <1>1, Zenon DEF RecentRight, DiskRight
<1>. QED  BY <1>1, <1>2, Constants DEF Init, IInv

\* A block is processed, and may be inserted.
LEMMA ProcessBlockKeeps ==
    ASSUME IInv, NEW b \in Bitmaps, processBlock(b)
    PROVE  IInv'
<1>1. Len(chain) < MaxNumber
    BY DEF processBlock, canProcess
<1>2. chain \in Blocks /\ Len(chain) <= MaxNumber /\ next(b) \in Blocks /\ Len(next(b)) <= MaxNumber
    BY <1>1, NextFacts, Constants DEF IInv
<1>3. PICK skipped \in BOOLEAN :
          LET p == process(b, skipped)
          IN  panic(p) \/ (Keep(p.st) /\ UNCHANGED chain) \/ insertBlock(p, next(b))
    BY Zenon DEF processBlock
<1>. DEFINE p == process(b, skipped)
<1>4. StoreRight(p.st) /\ (p.st.monitor # None => MonitorRight(p.st.monitor))
    BY <1>1, ProcessRight, Zenon
<1>5. CASE panic(p)
    <2>. DEFINE st == [monitor |-> None, recent |-> <<>>, disk |-> p.st.disk]
    <2>1. Keep(st) /\ chain' = chain
        BY <1>5, Zenon DEF panic
    <2>2. st.monitor = None /\ st.recent = <<>> /\ st.disk = p.st.disk
        OBVIOUS
    <2>3. RecentRight(<<>>)
        BY DEF RecentRight
    <2>4. StoreRight(st)
        BY <1>4, <2>2, <2>3, Zenon DEF StoreRight
    <2>. HIDE DEF st
    <2>. QED  BY <1>2, <2>1, <2>2, <2>4, KeepKeeps, Zenon
<1>6. CASE Keep(p.st) /\ UNCHANGED chain
    <2>. HIDE DEF p
    <2>. QED  BY <1>2, <1>4, <1>6, KeepKeeps, Zenon
<1>7. CASE insertBlock(p, next(b))
    <2>. DEFINE r == OnBlockInsertion(chain, p.st, next(b))
    <2>1. Keep(r.st) /\ (chain' = chain \/ chain' = next(b))
        BY <1>7, Zenon DEF insertBlock
    <2>2. StoreRight(r.st) /\ MonitorRight(r.st.monitor)
        BY <1>1, InsertionRight, Zenon
    <2>. HIDE DEF r
    <2>. QED  BY <1>2, <2>1, <2>2, KeepKeeps, Zenon
<1>. QED  BY <1>3, <1>5, <1>6, <1>7, Zenon

\* A known block becomes the head.
LEMMA WriteKnownBlockKeeps ==
    ASSUME IInv, NEW b \in Bitmaps, writeKnownBlock(b)
    PROVE  IInv'
<1>. DEFINE v == verifyHeader(chain, store, next(b))
<1>1. Len(chain) < MaxNumber /\ Keep(v.st) /\ chain' = next(b)
    BY DEF writeKnownBlock, canProcess
<1>2. next(b) \in Blocks /\ Len(next(b)) <= MaxNumber
    BY <1>1, NextFacts, Constants
<1>3. StoreRight(v.st) /\ v.st.monitor = uptimeMonitor
    BY <1>1, ProcessRight, Zenon
<1>4. uptimeMonitor # None => MonitorRight(uptimeMonitor)
    BY DEF IInv
<1>. HIDE DEF v
<1>. QED  BY <1>1, <1>2, <1>3, <1>4, KeepKeeps, Zenon

\* A header is verified ahead of the chain.
LEMMA VerifyAheadKeeps ==
    ASSUME IInv, NEW batch \in Batches, verifyAhead(batch)
    PROVE  IInv'
<1>. DEFINE h == chain \o batch
            v == verifyHeader(chain, store, h)
<1>1. Keep(v.st) /\ chain' = chain /\ Len(chain) + Len(batch) <= MaxNumber
    BY Zenon DEF verifyAhead
<1>2. chain \in Blocks /\ Len(chain) <= MaxNumber /\ batch \in Blocks /\ batch # <<>>
    BY ConstantsAssumption DEF IInv, Blocks
<1>3. StoreRight(store) /\ store.monitor = uptimeMonitor
    BY DEF store, StoreRight, IInv
<1>4. h \in Blocks /\ Len(h) \in 1 .. MaxNumber
    BY <1>1, <1>2, Constants DEF Blocks
<1>. HIDE DEF h
<1>5. StoreRight(v.st) /\ v.st.monitor = uptimeMonitor
    BY <1>3, <1>4, HeaderVerified, Zenon
<1>6. uptimeMonitor # None => MonitorRight(uptimeMonitor)
    BY DEF IInv
<1>. HIDE DEF v
<1>. QED  BY <1>1, <1>2, <1>5, <1>6, KeepKeeps, Zenon

\* The chain is set back, the node restarts, or the cache drops a snapshot:
\* what is left is right.
LEMMA OthersKeep ==
    ASSUME IInv, (\E n \in 0 .. MaxNumber : SetHead(n) \/ evict(n)) \/ Restart
    PROVE  IInv'
<1>1. /\ elected \in Elections /\ chain \in Blocks /\ Len(chain) \in Nat /\ Len(chain) <= MaxNumber
      /\ RecentRight(recentSnapshots) /\ DiskRight(db)
      /\ uptimeMonitor # None => MonitorRight(uptimeMonitor)
    BY DEF IInv, Blocks
<1>2. elected' = elected
    BY Zenon DEF SetHead, evict, Restart
<1>3. signers' = signers
    BY <1>2 DEF signers
<1>4. chain' \in Blocks /\ Len(chain') <= MaxNumber
    <2>1. CASE chain' = chain
        BY <1>1, <2>1, Zenon
    <2>2. ASSUME NEW n \in 0 .. MaxNumber, SetHead(n)
          PROVE  chain' \in Blocks /\ Len(chain') <= MaxNumber
        <3>1. n \in 0 .. Len(chain) /\ n <= MaxNumber /\ chain' = SubSeq(chain, 1, n)
            BY <1>1, <2>2, Constants DEF SetHead
        <3>2. SubSeq(chain, 1, n) \in Blocks /\ Len(SubSeq(chain, 1, n)) = n
            BY <1>1, <3>1, UpToBlock, Zenon
        <3>. QED  BY <3>1, <3>2, Zenon
    <2>. QED  BY <2>1, <2>2, Zenon DEF evict, Restart
<1>5. RecentRight(recentSnapshots)'
    <2>1. CASE recentSnapshots' = recentSnapshots
        BY <1>1, <1>3, <2>1, Zenon DEF RecentRight
    <2>2. CASE recentSnapshots' = <<>>
        BY <2>2 DEF RecentRight
    <2>3. ASSUME NEW n \in 0 .. MaxNumber, evict(n)
          PROVE  RecentRight(recentSnapshots)'
        <3>1. /\ DOMAIN recentSnapshots' \subseteq DOMAIN recentSnapshots
              /\ \A k \in DOMAIN recentSnapshots' : recentSnapshots'[k] = recentSnapshots[k]
            BY <2>3, Zenon DEF evict
        <3>. QED  BY <1>1, <1>3, <3>1, Zenon DEF RecentRight
    <2>. QED  BY <2>1, <2>2, <2>3, Zenon DEF SetHead, Restart
<1>6. DiskRight(db)'
    <2>1. db' = db
        BY Zenon DEF SetHead, evict, Restart
    <2>. QED  BY <1>1, <1>3, <2>1, Zenon DEF DiskRight
<1>7. (uptimeMonitor # None => MonitorRight(uptimeMonitor))'
    <2>1. uptimeMonitor' = uptimeMonitor \/ uptimeMonitor' = None
        BY Zenon DEF SetHead, evict, Restart
    <2>. QED  BY <1>1, <2>1, Zenon
<1>. QED  BY <1>1, <1>2, <1>4, <1>5, <1>6, <1>7, Zenon DEF IInv

\* The invariant is inductive.
LEMMA NextKeeps == IInv /\ [Next]_vars => IInv'
<1>. SUFFICES ASSUME IInv, [Next]_vars PROVE IInv'
    OBVIOUS
<1>1. CASE Next
    BY <1>1, ProcessBlockKeeps, WriteKnownBlockKeeps, VerifyAheadKeeps, OthersKeep, Zenon DEF Next
<1>2. CASE UNCHANGED vars
    <2>1. /\ elected' = elected /\ chain' = chain /\ uptimeMonitor' = uptimeMonitor
          /\ recentSnapshots' = recentSnapshots /\ db' = db
        BY <1>2, Zenon DEF vars
    <2>2. signers' = signers
        BY <2>1 DEF signers
    <2>. QED  BY <2>1, <2>2, Zenon DEF IInv, RecentRight, DiskRight
<1>. QED  BY <1>1, <1>2, Zenon

\* So it always holds.
LEMMA Invariance == Spec => []IInv
BY InitHolds, NextKeeps, PTL DEF Spec

-----------------------------------------------------------------------------
(***************************************************************************)
(* The theorems.                                                           *)
(***************************************************************************)

\* The monitor is of an epoch there is and of at most all validators, its last
\* header is in its epoch, and snapshots are those of blocks that end epochs.
THEOREM TypeCorrect == Spec => []TypeOK
<1>1. IInv => TypeOK
    <2>. SUFFICES ASSUME IInv PROVE TypeOK
        BY Zenon
    <2>1. Range(chain) \subseteq Bitmaps
        BY Members, Zenon DEF IInv, Blocks
    <2>2. DOMAIN recentSnapshots \subseteq {n \in 0 .. MaxNumber : n % EpochSize = 0}
        BY DEF IInv, RecentRight
    <2>3. \A h \in DOMAIN db : Len(h) % EpochSize = 0
        BY Zenon DEF IInv, DiskRight
    <2>4. uptimeMonitor # None =>
              /\ uptimeMonitor.epoch \in 1 .. GetEpochNumber(MaxNumber)
              /\ uptimeMonitor.latest # None =>
                    GetEpochNumber(Len(uptimeMonitor.latest)) = uptimeMonitor.epoch
              /\ \E size \in 0 .. Cardinality(Validators) :
                    DOMAIN uptimeMonitor.entries = 0 .. size - 1
        BY Zenon DEF IInv, MonitorRight, Right
    <2>. QED  BY <2>1, <2>2, <2>3, <2>4, Zenon DEF IInv, TypeOK
<1>. QED  BY <1>1, Invariance, PTL

\* Whatever gaps, rewinds, forks and restarts the monitor went through, its
\* counts are those of the chain of its last header.
THEOREM TallyStaysRight == Spec => []TallyRight
<1>1. IInv => TallyRight
    BY Zenon DEF IInv, MonitorRight, Right, Counted, TallyRight
<1>. QED  BY <1>1, Invariance, PTL

\* The scores at the last block of an epoch are what the chain says of each
\* validator that signs in it.
THEOREM EveryoneIsScored == Spec => []EveryoneScored
<1>1. IInv => EveryoneScored
    <2>. DEFINE e == GetEpochNumber(Len(chain) + 1)
                size == Len(elected[e])
    <2>. SUFFICES ASSUME IInv, endsEpoch, uptimeMonitor # None, uptimeMonitor.epoch = e,
                         DOMAIN uptimeMonitor.entries = 0 .. size - 1, NEW b \in Bitmaps
                  PROVE  scored(b) = [i \in 0 .. size - 1 |-> Cardinality(upBlocks(next(b), i))]
        BY Zenon DEF EveryoneScored
    <2>. DEFINE m == uptimeMonitor
                r == ProcessHeader(chain, m, next(b))
    <2>1. Len(chain) < MaxNumber
        BY Zenon DEF endsEpoch
    <2>2. Len(next(b)) = Len(chain) + 1 /\ m.epoch = GetEpochNumber(Len(next(b))) /\ next(b) # None
        BY <2>1, NextFacts, ElectionsAssumption, Zenon
    <2>3. process(b, FALSE).st.monitor = m
        BY <2>1, <2>2, ProcessRight, Zenon
    <2>4. r.ok /\ MonitorRight(r.m) /\ r.m.latest = next(b) /\ DOMAIN r.m.entries = 0 .. size - 1
        BY <2>1, <2>2, MonitorTakes, Zenon DEF IInv
    <2>5. scored(b) = [i \in DOMAIN r.m.entries |-> r.m.entries[i].upBlocks]
        BY <2>3, <2>4, Zenon DEF scored, ComputeUptime
    <2>. HIDE DEF r, size
    <2>6. \A i \in DOMAIN r.m.entries : r.m.entries[i].upBlocks = Cardinality(upBlocks(next(b), i))
        BY <2>2, <2>4, Zenon DEF MonitorRight, Right, Counted
    <2>. QED  BY <2>4, <2>5, <2>6, Zenon
<1>. QED  BY <1>1, Invariance, PTL

\* The monitor takes every next block, from wherever it stands, and then
\* stands there.
THEOREM NextBlockIsAccepted == Spec => []NextBlockAccepted
<1>1. IInv => NextBlockAccepted
    BY InsertionRight, Zenon DEF NextBlockAccepted
<1>. QED  BY <1>1, Invariance, PTL

\* The validators that sign after a block of the chain are those elected, with
\* their current keys, whatever is in the cache and on disk.
THEOREM SnapshotsStayRight == Spec => []SnapshotsRight
<1>1. IInv => SnapshotsRight
    <2>. DEFINE s(n) == snapshot(chain, chain, store, n, SubSeq(chain, 1, n))
                e(n) == GetEpochNumber(n + 1)
    <2>. SUFFICES ASSUME IInv, NEW n \in 0 .. Len(chain)
                  PROVE  s(n).ok /\ Range(s(n).set) = Range(elected[e(n)]) /\ Len(s(n).set) = Len(elected[e(n)])
        BY Zenon DEF SnapshotsRight
    <2>1. /\ elected \in Elections /\ chain \in Blocks /\ Len(chain) \in Nat /\ Len(chain) <= MaxNumber
          /\ StoreRight(store)
        BY DEF IInv, Blocks, store, StoreRight
    <2>2. n \in 0 .. MaxNumber /\ n <= Len(chain) /\ n \in Nat
        BY <2>1, Constants
    <2>3. Named(SubSeq(chain, 1, n), n)
        BY <2>1, UpToBlock, Zenon DEF Named
    <2>4. s(n).ok /\ s(n).set = signers[n \div EpochSize + 1]
        BY <2>1, <2>2, <2>3, SnapshotRight, Zenon
    <2>5. e(n) = n \div EpochSize + 1 /\ e(n) \in Epochs
        BY <2>2, LastOfEpochBefore, EpochAfter, Zenon
    <2>. HIDE DEF s, e
    <2>6. s(n).set \in Sets /\ Range(s(n).set) = Range(elected[e(n)]) /\ elected[e(n)] \in Sets
        BY <2>1, <2>4, <2>5, SignersFacts, EpochsFacts DEF signers
    <2>7. Len(s(n).set) = Cardinality(Range(s(n).set)) /\ Len(elected[e(n)]) = Cardinality(Range(elected[e(n)]))
        BY <2>6, SetLength
    <2>. QED  BY <2>4, <2>6, <2>7, Zenon
<1>. QED  BY <1>1, Invariance, PTL

=============================================================================
