------------------------- MODULE IstanbulCoreProofs -------------------------
(***************************************************************************)
(* Proofs about IstanbulCore, for every validator set, every set of at     *)
(* most F faulty validators and whatever they sign, and any number of      *)
(* rounds and crashes: the inductive invariant, what the transitions of a  *)
(* round state do to the parts of it that are about one round state, the   *)
(* two kinds of step that keep it, every handler as a step of one of these *)
(* kinds, and the theorems that follow.                                    *)
(***************************************************************************)
EXTENDS IstanbulCore, FiniteSetTheorems, TLAPS

(***************************************************************************)
(* The inductive invariant, conjunct by conjunct.                          *)
(***************************************************************************)

\* What the transitions of roundStateImpl keep true of a round state.
WellFormed(rs) ==
    /\ rs.round <= rs.desiredRound
    /\ rs.round < rs.desiredRound <=> rs.state = StateWaitingForNewRound
    /\ rs.state = StateAcceptRequest => rs.preprepare = NoBlock
    /\ rs.state \in {StatePreprepared, StatePrepared, StateCommitted} =>
          rs.preprepare # NoBlock
    /\ rs.preprepare = NoBlock => rs.prepares = {} /\ rs.commits = {}
    /\ rs.preparedCertificate.round <= rs.round

\* Every recorded vote was signed, for the proposal of the current round.
VotesSigned(rs) ==
    /\ \A s \in rs.prepares : SignedPrepare(s, rs.round, rs.preprepare)
    /\ \A s \in rs.commits : SignedCommit(s, rs.round, rs.preprepare)

\* A round state holds nothing that was not signed.
Backed(rs) == VotesSigned(rs) /\ emptyOrVerified(rs.preparedCertificate)

RoundStatesGood ==
    \A v \in Honest : WellFormed(current[v]) /\ Backed(current[v])

\* What a validator has voted for in its current round is its preprepare.
VotesRemembered ==
    \A m \in sentPrepare \cup sentCommit : ~final[m.src] =>
        /\ m.round <= current[m.src].round
        /\ m.round = current[m.src].round => m.digest = current[m.src].preprepare

\* A commit was preceded by a prepared certificate, which is kept.
CommitsRemembered ==
    \A m \in sentCommit : ~final[m.src] =>
        m.round <= current[m.src].preparedCertificate.round

SentCertificatesVerify ==
    \A m \in sentRoundChange :
        emptyOrVerified(m.req.pc) /\ m.req.pc.round <= m.req.round

HeadsCommitted ==
    \A v \in Honest : head[v] # NoBlock =>
        \E r \in Rounds : Cardinality(Committers(r, head[v])) >= Quorum

Safe ==
    /\ rsdb = current
    /\ RoundStatesGood
    /\ VotesRemembered
    /\ CommitsRemembered
    /\ OneVotePerRound
    /\ SentCertificatesVerify
    /\ HeadsCommitted

IInv == TypeOK /\ Safe

-----------------------------------------------------------------------------
(***************************************************************************)
(* Quorums.                                                                *)
(***************************************************************************)

\* The arithmetic of F and MinQuorumSize: two quorums have more than F
\* validators in common.
LEMMA QuorumArithmetic ==
    ASSUME NEW n \in Nat
    PROVE  /\ F(n) \in Int /\ MinQuorumSize(n) \in Nat
           /\ 2 * MinQuorumSize(n) - n > F(n)
  BY DEF F, MinQuorumSize

\* The sets and numbers of the instance.
LEMMA ConstantTypes ==
    /\ IsFiniteSet(Validators) /\ Cardinality(Validators) \in Nat
    /\ IsFiniteSet(Faulty) /\ Cardinality(Faulty) \in Nat
    /\ Quorum \in Nat
    /\ Faulty \subseteq Validators /\ Honest \subseteq Validators
    /\ Rounds \subseteq Nat
  <1>1. IsFiniteSet(Validators) /\ Cardinality(Validators) \in Nat
    BY ValidatorsAssumption, FS_CardinalityType
  <1>2. IsFiniteSet(Faulty) /\ Cardinality(Faulty) \in Nat
    BY ValidatorsAssumption, FS_Subset, FS_CardinalityType
  <1>3. Quorum \in Nat
    BY <1>1, QuorumArithmetic DEF Quorum
  <1>4. Rounds \subseteq Nat
    BY BoundsAssumption DEF Rounds
  <1>. QED  BY <1>1, <1>2, <1>3, <1>4, ValidatorsAssumption DEF Honest

\* Any two quorums share an honest validator.
LEMMA QuorumIntersection ==
    ASSUME NEW S \in SUBSET Validators, NEW T \in SUBSET Validators,
           Cardinality(S) >= Quorum, Cardinality(T) >= Quorum
    PROVE  \E s \in Honest : s \in S /\ s \in T
  <1>1. /\ IsFiniteSet(S) /\ IsFiniteSet(T) /\ IsFiniteSet(S \cap T)
        /\ IsFiniteSet(S \cup T)
    BY ConstantTypes, FS_Subset, FS_Union, FS_Intersection
  <1>2. /\ Cardinality(S) \in Nat /\ Cardinality(T) \in Nat
        /\ Cardinality(S \cap T) \in Nat /\ Cardinality(S \cup T) \in Nat
    BY <1>1, FS_CardinalityType
  <1>3. Cardinality(S \cup T) = Cardinality(S) + Cardinality(T) - Cardinality(S \cap T)
    BY <1>1, FS_Union
  <1>4. Cardinality(S \cup T) <= Cardinality(Validators)
    BY ConstantTypes, FS_Subset
  <1>5. Cardinality(S \cap T) > Cardinality(Faulty)
    BY <1>2, <1>3, <1>4, ConstantTypes, QuorumArithmetic, ValidatorsAssumption
       DEF Quorum
  <1>6. ~(S \cap T \subseteq Faulty)
    BY <1>2, <1>5, ConstantTypes, FS_Subset
  <1>. QED  BY <1>6 DEF Honest

\* Signatures are never withdrawn: the signers of a vote only increase.
LEMMA SignersGrow ==
    ASSUME sentPrepare \subseteq sentPrepare', sentCommit \subseteq sentCommit',
           NEW r, NEW p
    PROVE  /\ Cardinality(Voters(r, p)) \in Nat
           /\ Cardinality(Voters(r, p)') \in Nat
           /\ Cardinality(Voters(r, p)) <= Cardinality(Voters(r, p)')
           /\ Cardinality(Committers(r, p)) \in Nat
           /\ Cardinality(Committers(r, p)') \in Nat
           /\ Cardinality(Committers(r, p)) <= Cardinality(Committers(r, p)')
  <1>1. /\ Voters(r, p) \subseteq Voters(r, p)'
        /\ Voters(r, p)' \subseteq Validators
        /\ Committers(r, p) \subseteq Committers(r, p)'
        /\ Committers(r, p)' \subseteq Validators
    BY DEF Voters, Committers, SignedPrepare, SignedCommit
  <1>. QED  BY <1>1, ConstantTypes, FS_Subset, FS_CardinalityType, Zenon

-----------------------------------------------------------------------------
(***************************************************************************)
(* Proposers.                                                              *)
(***************************************************************************)

\* Quotient and rest by n are the only ones.
LEMMA RestUnique ==
    ASSUME NEW n \in Nat \ {0}, NEW a \in Nat, NEW q \in Int, NEW t \in 0 .. n - 1, a = n * q + t
    PROVE  a % n = t
  <1>. DEFINE d == a \div n
              m == a % n
  <1>1. d \in Nat /\ m \in 0 .. n - 1 /\ a = n * d + m
    OBVIOUS
  <1>. HIDE DEF d, m
  <1>2. \A x \in Int : n * x \in Int /\ n * (x + 1) = n * x + n
    OBVIOUS
  <1>3. \A x, y \in Int : x < y => n * (x + 1) <= n * y
    <2>1. \A z \in Nat : n * z >= 0
      OBVIOUS
    <2>. SUFFICES ASSUME NEW x \in Int, NEW y \in Int, x < y PROVE n * (x + 1) <= n * y
      OBVIOUS
    <2>2. n * (y - (x + 1)) >= 0
      BY <2>1
    <2>3. n * (y - (x + 1)) = n * y - n * (x + 1)
      OBVIOUS
    <2>4. n * y \in Int /\ n * (x + 1) \in Int
      OBVIOUS
    <2>. QED  BY <2>2, <2>3, <2>4
  <1>4. n * d \in Int /\ n * q \in Int
    BY <1>1, <1>2
  <1>5. d < q => n * d + n <= n * q
    BY <1>1, <1>2, <1>3
  <1>6. q < d => n * q + n <= n * d
    BY <1>1, <1>2, <1>3
  <1>7. d = q
    BY <1>1, <1>4, <1>5, <1>6
  <1>8. m = t
    BY <1>1, <1>4, <1>7
  <1>. QED  BY <1>8 DEF m

\* Among n numbers in a row there is one of each rest.
LEMMA EveryRest ==
    ASSUME NEW n \in Nat \ {0}, NEW a \in Nat, NEW t \in 0 .. n - 1
    PROVE  \E k \in 0 .. n - 1 : (a + k) % n = t
  <1>. DEFINE d == a \div n
              m == a % n
  <1>1. d \in Nat /\ m \in 0 .. n - 1 /\ a = n * d + m
    OBVIOUS
  <1>. HIDE DEF d, m
  <1>2. n * d \in Int /\ n * (d + 1) = n * d + n
    BY <1>1
  <1>3. CASE m <= t
    <2>1. t - m \in 0 .. n - 1 /\ a + (t - m) \in Nat /\ a + (t - m) = n * d + t
      BY <1>1, <1>2, <1>3
    <2>2. (a + (t - m)) % n = t
      BY <1>1, <2>1, RestUnique
    <2>. QED  BY <2>1, <2>2, Zenon
  <1>4. CASE m > t
    <2>1. t - m + n \in 0 .. n - 1 /\ a + (t - m + n) \in Nat /\ a + (t - m + n) = n * (d + 1) + t
      BY <1>1, <1>2, <1>4
    <2>2. (a + (t - m + n)) % n = t
      BY <1>1, <2>1, RestUnique
    <2>. QED  BY <2>1, <2>2, Zenon
  <1>. QED  BY <1>1, <1>3, <1>4

\* And no two of the same.
LEMMA NoRestTwice ==
    ASSUME NEW n \in Nat \ {0}, NEW a \in Nat, NEW b \in Nat, a <= b, b - a < n, a % n = b % n
    PROVE  a = b
  <1>a. \A c \in Nat, q \in Int, u \in 0 .. n - 1 : c = n * q + u => c % n = u
    BY RestUnique
  <1>. DEFINE d == a \div n
              m == a % n
  <1>1. d \in Nat /\ m \in 0 .. n - 1 /\ a = n * d + m
    OBVIOUS
  <1>2. b % n = m
    OBVIOUS
  <1>. HIDE DEF d, m
  <1>3. n * d \in Int /\ n * (d + 1) = n * d + n
    BY <1>1
  <1>. DEFINE t == m + (b - a)
  <1>4. CASE t < n
    <2>1. t \in 0 .. n - 1 /\ b = n * d + t
      BY <1>1, <1>3, <1>4
    <2>. HIDE DEF t
    <2>2. b % n = t
      BY <1>a, <1>1, <2>1
    <2>. USE DEF t
    <2>. QED  BY <1>1, <1>2, <2>2
  <1>5. CASE t >= n
    <2>. DEFINE u == t - n
    <2>1. u \in 0 .. n - 1 /\ d + 1 \in Int /\ b = n * (d + 1) + u
      BY <1>1, <1>3, <1>5
    <2>. HIDE DEF u
    <2>2. b % n = u
      BY <1>a, <2>1, Zenon
    <2>. USE DEF u
    <2>. QED  BY <1>1, <1>2, <2>2
  <1>. QED  BY <1>1, <1>4, <1>5

\* A validator set of n, and a permutation of its positions.
isOrder(valSet, n) == Len(valSet) = n /\ \A i, j \in 1 .. n : valSet[i] = valSet[j] => i = j

isPermutation(shuffle, n) ==
    /\ shuffle \in [1 .. n -> 0 .. n - 1]
    /\ \A p \in 0 .. n - 1 : \E j \in 1 .. n : shuffle[j] = p
    /\ \A i, j \in 1 .. n : shuffle[i] = shuffle[j] => i = j

\* From a place ahead, the proposers are those at the shuffled positions.
takeTurns(valSet, shuffle, zero, author, n, ahead) ==
    \A round \in Nat : ShuffledRoundRobinProposer(valSet, shuffle, zero, author, round)
                          = valSet[shuffle[((round + ahead) % n) + 1] + 1]

\* ShuffledRoundRobinProposer goes through the shuffled positions one by one,
\* from a place that depends on the author of the parent.
LEMMA Turns ==
    ASSUME NEW V, NEW valSet \in Seq(V), NEW n \in Nat \ {0}, Len(valSet) = n,
           NEW shuffle, isPermutation(shuffle, n), NEW zero, NEW author
    PROVE  \E ahead \in Nat : takeTurns(valSet, shuffle, zero, author, n, ahead)
  <1>1. DOMAIN valSet = 1 .. n /\ DOMAIN shuffle = 1 .. n
    BY DEF isPermutation
  <1>. DEFINE index == proposerIndex(valSet, author)
              reverse == (CHOOSE j \in DOMAIN shuffle : shuffle[j] = index) - 1
              ahead == IF author = zero THEN 0 ELSE reverse + 1
  <1>2. index \in 0 .. n - 1
    <2>1. CASE \E j \in DOMAIN valSet : valSet[j] = author
      <3>. DEFINE at == CHOOSE j \in DOMAIN valSet : valSet[j] = author
      <3>1. at \in 1 .. n
        BY <1>1, <2>1
      <3>2. index = at - 1
        BY <2>1, Zenon DEF proposerIndex
      <3>. HIDE DEF at, index
      <3>. QED  BY <3>1, <3>2
    <2>2. CASE ~ \E j \in DOMAIN valSet : valSet[j] = author
      BY <2>2 DEF proposerIndex
    <2>. QED  BY <2>1, <2>2
  <1>. HIDE DEF index
  <1>3. (CHOOSE j \in DOMAIN shuffle : shuffle[j] = index) \in 1 .. n
    BY <1>1, <1>2, Zenon DEF isPermutation
  <1>4. ahead \in Nat
    BY <1>3
  <1>5. \A round \in Nat : ShuffledRoundRobinProposer(valSet, shuffle, zero, author, round)
                             = valSet[shuffle[((round + ahead) % n) + 1] + 1]
    <2>. SUFFICES ASSUME NEW round \in Nat
                  PROVE  ShuffledRoundRobinProposer(valSet, shuffle, zero, author, round)
                           = valSet[shuffle[((round + ahead) % n) + 1] + 1]
      BY Zenon
    <2>1. CASE author = zero
      <3>1. round + ahead = round
        BY <2>1
      <3>. QED  BY <2>1, <3>1 DEF ShuffledRoundRobinProposer
    <2>2. CASE author # zero
      <3>1. round + ahead = round + reverse + 1
        BY <2>2, <1>3
      <3>. QED  BY <2>2, <3>1 DEF ShuffledRoundRobinProposer, index
    <2>. QED  BY <2>1, <2>2
  <1>. HIDE DEF ahead
  <1>. QED  BY <1>4, <1>5, Zenon DEF takeTurns

\* For every order of the validators and every shuffle of it, whoever made the
\* parent block, each validator is the proposer of one of any n rounds in a row.
THEOREM EveryoneProposes ==
    ASSUME NEW V, NEW valSet \in Seq(V), NEW n \in Nat \ {0}, Len(valSet) = n,
           NEW shuffle, isPermutation(shuffle, n), NEW zero, NEW author,
           NEW first \in Nat, NEW i \in 1 .. n
    PROVE  \E round \in first .. first + n - 1 :
              ShuffledRoundRobinProposer(valSet, shuffle, zero, author, round) = valSet[i]
  <1>1. \A a \in Nat, t \in 0 .. n - 1 : \E k \in 0 .. n - 1 : (a + k) % n = t
    BY EveryRest, Zenon
  <1>2. PICK ahead \in Nat : takeTurns(valSet, shuffle, zero, author, n, ahead)
    BY Turns
  <1>3. PICK j \in 1 .. n : shuffle[j] = i - 1
    BY DEF isPermutation
  <1>4. PICK k \in 0 .. n - 1 : ((first + ahead) + k) % n = j - 1
    <2>. DEFINE a == first + ahead
                t == j - 1
    <2>1. a \in Nat /\ t \in 0 .. n - 1
      OBVIOUS
    <2>. HIDE DEF a, t
    <2>2. \E k \in 0 .. n - 1 : (a + k) % n = t
      BY <1>1, <2>1, Zenon
    <2>. QED  BY <2>2, Zenon DEF a, t
  <1>5. /\ first + k \in Nat /\ first + k \in first .. first + n - 1
        /\ (first + k) + ahead = (first + ahead) + k
    OBVIOUS
  <1>6. ShuffledRoundRobinProposer(valSet, shuffle, zero, author, first + k)
          = valSet[shuffle[(((first + k) + ahead) % n) + 1] + 1]
    BY <1>2, <1>5, Zenon DEF takeTurns
  <1>7. valSet[shuffle[(((first + k) + ahead) % n) + 1] + 1] = valSet[i]
    BY <1>3, <1>4, <1>5
  <1>. QED  BY <1>5, <1>6, <1>7

\* No validator has two turns in n rounds in a row, so of any F + 1 rounds in a
\* row one has a proposer that is not faulty, for every set of at most F faulty
\* ones: no more than F rounds in a row are lost to faulty proposers.
THEOREM HonestProposes ==
    ASSUME NEW V, NEW valSet \in Seq(V), NEW n \in Nat \ {0}, isOrder(valSet, n),
           NEW shuffle, isPermutation(shuffle, n), NEW zero, NEW author,
           NEW faulty, IsFiniteSet(faulty), Cardinality(faulty) <= F(n),
           NEW first \in Nat
    PROVE  \E round \in first .. first + F(n) :
              ShuffledRoundRobinProposer(valSet, shuffle, zero, author, round) \notin faulty
  <1>. DEFINE proposer(round) == ShuffledRoundRobinProposer(valSet, shuffle, zero, author, round)
              rounds == first .. first + F(n)
              turn == [round \in rounds |-> proposer(round)]
  <1>1. F(n) \in Nat /\ F(n) < n
    BY DEF F
  <1>2. PICK ahead \in Nat : takeTurns(valSet, shuffle, zero, author, n, ahead)
    <2>1. Len(valSet) = n
      BY DEF isOrder
    <2>. QED  BY <2>1, Turns
  <1>a. shuffle \in [1 .. n -> 0 .. n - 1] /\ \A i, j \in 1 .. n : shuffle[i] = shuffle[j] => i = j
    BY DEF isPermutation
  <1>. HIDE DEF proposer
  <1>3. ASSUME NEW r \in rounds, NEW s \in rounds, proposer(r) = proposer(s), r <= s
        PROVE  r = s
    <2>1. /\ r \in Nat /\ s \in Nat /\ s - r < n
          /\ r + ahead \in Nat /\ s + ahead \in Nat /\ r + ahead <= s + ahead
          /\ (s + ahead) - (r + ahead) < n
      BY <1>1, <1>3
    <2>. DEFINE x == ((r + ahead) % n) + 1
                y == ((s + ahead) % n) + 1
    <2>2. x \in 1 .. n /\ y \in 1 .. n
      BY <2>1
    <2>3. proposer(r) = valSet[shuffle[x] + 1] /\ proposer(s) = valSet[shuffle[y] + 1]
      BY <1>2, <2>1, Zenon DEF takeTurns, proposer
    <2>4. x = y => (r + ahead) % n = (s + ahead) % n
      BY <2>1
    <2>. HIDE DEF x, y
    <2>5. shuffle[x] \in 0 .. n - 1 /\ shuffle[y] \in 0 .. n - 1
      BY <1>a, <2>2
    <2>6. shuffle[x] = shuffle[y]
      <3>. DEFINE p == shuffle[x]
                  q == shuffle[y]
      <3>. HIDE DEF p, q
      <3>1. p \in 0 .. n - 1 /\ q \in 0 .. n - 1 /\ valSet[p + 1] = valSet[q + 1]
        BY <1>3, <2>3, <2>5, Zenon DEF p, q
      <3>2. p + 1 \in 1 .. n /\ q + 1 \in 1 .. n
        BY <3>1
      <3>3. p + 1 = q + 1
        BY <3>1, <3>2 DEF isOrder
      <3>. QED  BY <3>1, <3>3 DEF p, q
    <2>7. x = y
      BY <1>a, <2>2, <2>6
    <2>8. r + ahead = s + ahead
      BY <2>1, <2>4, <2>7, NoRestTwice, Zenon
    <2>. QED  BY <2>1, <2>8
  <1>4. \A r, s \in rounds : turn[r] = turn[s] => r = s
    <2>. SUFFICES ASSUME NEW r \in rounds, NEW s \in rounds, turn[r] = turn[s] PROVE r = s
      OBVIOUS
    <2>1. proposer(r) = proposer(s)
      OBVIOUS
    <2>2. r <= s \/ s <= r
      BY <1>1
    <2>. QED  BY <1>3, <2>1, <2>2
  <1>5. IsFiniteSet(rounds) /\ Cardinality(rounds) = F(n) + 1
    <2>1. first \in Int /\ first + F(n) \in Int /\ ~(first > first + F(n))
      BY <1>1
    <2>2. Cardinality(rounds) = (first + F(n)) - first + 1 /\ IsFiniteSet(rounds)
      BY <2>1, FS_Interval
    <2>. QED  BY <1>1, <2>2
  <1>. SUFFICES ASSUME \A round \in rounds : proposer(round) \in faulty
                PROVE  FALSE
    BY DEF proposer
  <1>6. turn \in [rounds -> faulty]
    OBVIOUS
  <1>7. Cardinality(faulty) < Cardinality(rounds)
    BY <1>1, <1>5, FS_CardinalityType
  <1>. HIDE DEF turn, rounds
  <1>. QED  BY <1>4, <1>5, <1>6, <1>7, FS_PigeonHole

-----------------------------------------------------------------------------
(***************************************************************************)
(* The transitions of a round state.                                       *)
(***************************************************************************)

\* How a round state may change while its validator stays at the sequence:
\* views and the prepared certificate only go up, and a round has one
\* preprepare.
Advances(old, new) ==
    /\ old.round <= new.round
    /\ old.desiredRound <= new.desiredRound
    /\ old.preparedCertificate.round <= new.preparedCertificate.round
    /\ old.round = new.round /\ old.preprepare # NoBlock =>
          new.preprepare = old.preprepare

Progress(old, new) == new \in RoundState /\ WellFormed(new) /\ Advances(old, new)

\* The proposal of the round is kept, or given up with the round.
SameProposal(old, new) ==
    new.preprepare = NoBlock \/ (new.round = old.round /\ new.preprepare = old.preprepare)

Reaches(old, new) == Progress(old, new) /\ SameProposal(old, new)

\* The fields of a round state that are compared as numbers.
LEMMA RoundStateNumbers ==
    ASSUME NEW rs \in RoundState
    PROVE  /\ rs.round \in Rounds /\ rs.round \in Int
           /\ rs.desiredRound \in Rounds /\ rs.desiredRound \in Int
           /\ rs.state \in 0 .. 4
           /\ rs.preparedCertificate.round \in Int
           /\ -1 <= rs.preparedCertificate.round
  <1>1. /\ rs.round \in Rounds /\ rs.round \in Int
        /\ rs.desiredRound \in Rounds /\ rs.desiredRound \in Int
        /\ rs.state \in 0 .. 4
    BY BoundsAssumption DEF RoundState, Rounds, StateAcceptRequest,
       StateWaitingForNewRound
  <1>2. CASE rs.preparedCertificate \in PreparedCertificate
    BY <1>1, <1>2, BoundsAssumption DEF PreparedCertificate, Rounds
  <1>3. CASE rs.preparedCertificate = EmptyPreparedCertificate
    <2>1. rs.preparedCertificate.round = -1
      BY <1>3 DEF EmptyPreparedCertificate
    <2>. QED  BY <1>1, <2>1
  <1>. QED  BY <1>2, <1>3 DEF RoundState

\* A round state reaches itself.
LEMMA ReachesSelf ==
    ASSUME NEW rs \in RoundState, WellFormed(rs)
    PROVE  Reaches(rs, rs)
  BY RoundStateNumbers DEF Reaches, Progress, SameProposal, Advances

\* Reaching is transitive.
LEMMA ReachesTransitive ==
    ASSUME NEW rs1 \in RoundState, NEW rs2, NEW rs3,
           Reaches(rs1, rs2), Reaches(rs2, rs3)
    PROVE  Reaches(rs1, rs3)
  <1>1. rs2 \in RoundState /\ rs3 \in RoundState
    BY DEF Reaches, Progress
  <1>. QED  BY <1>1, RoundStateNumbers DEF Reaches, Progress, SameProposal, Advances

\* So is progress.
LEMMA ProgressTransitive ==
    ASSUME NEW rs1 \in RoundState, NEW rs2, NEW rs3,
           Progress(rs1, rs2), Progress(rs2, rs3)
    PROVE  Progress(rs1, rs3)
  <1>1. rs2 \in RoundState /\ rs3 \in RoundState
    BY Zenon DEF Progress
  <1>. QED  BY <1>1, RoundStateNumbers DEF Progress, Advances

\* The first round state is well formed.
LEMMA NewRoundStateGood ==
    newRoundState \in RoundState /\ WellFormed(newRoundState)
  BY BoundsAssumption DEF newRoundState, RoundState, WellFormed, Rounds,
     StateAcceptRequest, StatePreprepared, StatePrepared, StateCommitted,
     StateWaitingForNewRound, EmptyPreparedCertificate

\* StartNewRound forgets the proposal of a round that is over, and keeps the
\* certificate.
LEMMA StartNewRoundReaches ==
    ASSUME NEW rs \in RoundState, WellFormed(rs), NEW r \in Rounds, rs.round < r,
           rs.desiredRound <= r
    PROVE  Reaches(rs, StartNewRound(rs, r))
  <1>. DEFINE t1 == [rs EXCEPT !.state = StateAcceptRequest]
              t2 == [t1 EXCEPT !.round = r]
              t3 == [t2 EXCEPT !.desiredRound = r]
              t4 == [t3 EXCEPT !.prepares = {}]
              t5 == [t4 EXCEPT !.commits = {}]
              t6 == [t5 EXCEPT !.preprepare = NoBlock]
  <1>1. t1 \in RoundState
    BY DEF RoundState, StateAcceptRequest, StateWaitingForNewRound
  <1>. HIDE DEF t1
  <1>2. t2 \in RoundState  BY <1>1 DEF RoundState
  <1>. HIDE DEF t2
  <1>3. t3 \in RoundState  BY <1>2 DEF RoundState
  <1>. HIDE DEF t3
  <1>4. t4 \in RoundState  BY <1>3 DEF RoundState
  <1>. HIDE DEF t4
  <1>5. t5 \in RoundState  BY <1>4 DEF RoundState
  <1>. HIDE DEF t5
  <1>6. t6 \in RoundState  BY <1>5 DEF RoundState
  <1>7. StartNewRound(rs, r) \in RoundState
    BY <1>6, Zenon DEF t1, t2, t3, t4, t5, StartNewRound
  <1>8. /\ StartNewRound(rs, r).state = StateAcceptRequest
        /\ StartNewRound(rs, r).round = r
        /\ StartNewRound(rs, r).desiredRound = r
        /\ StartNewRound(rs, r).prepares = {}
        /\ StartNewRound(rs, r).commits = {}
        /\ StartNewRound(rs, r).preprepare = NoBlock
        /\ StartNewRound(rs, r).preparedCertificate = rs.preparedCertificate
    BY DEF StartNewRound, RoundState
  <1>. QED
    BY <1>7, <1>8, RoundStateNumbers, BoundsAssumption
       DEF Reaches, Progress, SameProposal, Advances, WellFormed, Rounds, StateAcceptRequest,
       StatePreprepared, StatePrepared, StateCommitted, StateWaitingForNewRound

\* TransitionToPrepreparedV2 accepts a proposal where there was none.
LEMMA PreprepareProgress ==
    ASSUME NEW rs \in RoundState, WellFormed(rs), NEW p \in Proposals,
           rs.state = StateAcceptRequest
    PROVE  Progress(rs, TransitionToPrepreparedV2(rs, p))
  <1>. DEFINE t == [rs EXCEPT !.preprepare = p]
              u == TransitionToPrepreparedV2(rs, p)
  <1>1. t \in RoundState  BY DEF RoundState
  <1>. HIDE DEF t
  <1>2. [t EXCEPT !.state = StatePreprepared] \in RoundState
    BY <1>1 DEF RoundState, StatePreprepared, StateAcceptRequest,
       StateWaitingForNewRound
  <1>3. u \in RoundState
    BY <1>2, Zenon DEF t, TransitionToPrepreparedV2
  <1>4. /\ u.state = StatePreprepared /\ u.preprepare = p
        /\ u.round = rs.round /\ u.desiredRound = rs.desiredRound
        /\ u.prepares = rs.prepares /\ u.commits = rs.commits
        /\ u.preparedCertificate = rs.preparedCertificate
    BY DEF TransitionToPrepreparedV2, RoundState
  <1>. HIDE DEF u
  <1>5. WellFormed(u) /\ Advances(rs, u)
    BY <1>4, RoundStateNumbers, ProposerAssumption
       DEF Advances, WellFormed, StateAcceptRequest,
       StatePreprepared, StatePrepared, StateCommitted, StateWaitingForNewRound
  <1>. QED  BY <1>3, <1>5 DEF Progress, u

\* A recorded vote leaves what was voted for.
LEMMA AddVoteReaches ==
    ASSUME NEW rs \in RoundState, WellFormed(rs), NEW s \in Validators,
           rs.preprepare # NoBlock
    PROVE  Reaches(rs, AddPrepare(rs, s)) /\ Reaches(rs, AddCommit(rs, s))
  <1>1. AddPrepare(rs, s) \in RoundState /\ AddCommit(rs, s) \in RoundState
    BY DEF RoundState, AddPrepare, AddCommit
  <1>. QED
    BY <1>1, RoundStateNumbers
       DEF Reaches, Progress, SameProposal, Advances, WellFormed, AddPrepare, AddCommit, RoundState,
       StateAcceptRequest, StatePreprepared, StatePrepared, StateCommitted,
       StateWaitingForNewRound

\* TransitionToPrepared keeps the proposal.
LEMMA PreparedReaches ==
    ASSUME NEW rs \in RoundState, WellFormed(rs), rs.state = StatePreprepared
    PROVE  Reaches(rs, TransitionToPrepared(rs))
  <1>. DEFINE pc == [round |-> rs.round, proposal |-> rs.preprepare]
              t == [rs EXCEPT !.preparedCertificate = pc]
              u == TransitionToPrepared(rs)
  <1>1. pc \in PreparedCertificate
    BY DEF PreparedCertificate, RoundState, WellFormed
  <1>2. t \in RoundState  BY <1>1 DEF RoundState
  <1>. HIDE DEF t
  <1>3. [t EXCEPT !.state = StatePrepared] \in RoundState
    BY <1>2 DEF RoundState, StatePrepared, StateAcceptRequest,
       StateWaitingForNewRound
  <1>4. u \in RoundState
    BY <1>3, Zenon DEF t, TransitionToPrepared
  <1>5. /\ u.state = StatePrepared /\ u.preprepare = rs.preprepare
        /\ u.round = rs.round /\ u.desiredRound = rs.desiredRound
        /\ u.prepares = rs.prepares /\ u.commits = rs.commits
        /\ u.preparedCertificate.round = rs.round
    BY DEF TransitionToPrepared, RoundState
  <1>. HIDE DEF u
  <1>6. WellFormed(u) /\ Advances(rs, u) /\ SameProposal(rs, u)
    BY <1>5, RoundStateNumbers
       DEF Advances, SameProposal, WellFormed, StateAcceptRequest,
       StatePreprepared, StatePrepared, StateCommitted, StateWaitingForNewRound
  <1>. QED  BY <1>4, <1>6 DEF Reaches, Progress, u

\* So does TransitionToCommitted.
LEMMA CommittedReaches ==
    ASSUME NEW rs \in RoundState, WellFormed(rs),
           rs.state \in {StatePreprepared, StatePrepared}
    PROVE  Reaches(rs, TransitionToCommitted(rs))
  BY RoundStateNumbers
     DEF Reaches, Progress, SameProposal, Advances, WellFormed, TransitionToCommitted, RoundState,
     StateAcceptRequest, StatePreprepared, StatePrepared, StateCommitted,
     StateWaitingForNewRound

\* TransitionToWaitingForNewRound keeps the proposal and the certificate.
LEMMA WaitingReaches ==
    ASSUME NEW rs \in RoundState, WellFormed(rs), NEW r \in Rounds,
           rs.desiredRound < r
    PROVE  Reaches(rs, TransitionToWaitingForNewRound(rs, r))
  <1>. DEFINE t == [rs EXCEPT !.desiredRound = r]
              u == TransitionToWaitingForNewRound(rs, r)
  <1>1. t \in RoundState  BY DEF RoundState
  <1>. HIDE DEF t
  <1>2. [t EXCEPT !.state = StateWaitingForNewRound] \in RoundState
    BY <1>1 DEF RoundState, StateAcceptRequest, StateWaitingForNewRound
  <1>3. u \in RoundState
    BY <1>2, Zenon DEF t, TransitionToWaitingForNewRound
  <1>4. /\ u.state = StateWaitingForNewRound /\ u.preprepare = rs.preprepare
        /\ u.round = rs.round /\ u.desiredRound = r
        /\ u.prepares = rs.prepares /\ u.commits = rs.commits
        /\ u.preparedCertificate = rs.preparedCertificate
    BY DEF TransitionToWaitingForNewRound, RoundState
  <1>. HIDE DEF u
  <1>5. WellFormed(u) /\ Advances(rs, u) /\ SameProposal(rs, u)
    BY <1>4, RoundStateNumbers, BoundsAssumption
       DEF Advances, SameProposal, WellFormed, Rounds, StateAcceptRequest,
       StatePreprepared, StatePrepared, StateCommitted, StateWaitingForNewRound
  <1>. QED  BY <1>3, <1>5 DEF Reaches, Progress, u

-----------------------------------------------------------------------------
(***************************************************************************)
(* What a round state holds stays backed by signatures.                    *)
(***************************************************************************)
LEMMA StartNewRoundBacked ==
    ASSUME NEW rs \in RoundState, Backed(rs), NEW r
    PROVE  Backed(StartNewRound(rs, r))
  <1>1. /\ StartNewRound(rs, r).prepares = {}
        /\ StartNewRound(rs, r).commits = {}
        /\ StartNewRound(rs, r).preparedCertificate = rs.preparedCertificate
    BY DEF StartNewRound, RoundState
  <1>. QED  BY <1>1 DEF Backed, VotesSigned

\* A new proposal has no recorded votes to back.
LEMMA PreprepareBacked ==
    ASSUME NEW rs \in RoundState, WellFormed(rs), Backed(rs), NEW p,
           rs.state = StateAcceptRequest
    PROVE  Backed(TransitionToPrepreparedV2(rs, p))
  <1>1. /\ TransitionToPrepreparedV2(rs, p).prepares = {}
        /\ TransitionToPrepreparedV2(rs, p).commits = {}
        /\ TransitionToPrepreparedV2(rs, p).preparedCertificate = rs.preparedCertificate
    BY DEF TransitionToPrepreparedV2, RoundState, WellFormed
  <1>. QED  BY <1>1 DEF Backed, VotesSigned

\* A recorded prepare was signed.
LEMMA AddPrepareBacked ==
    ASSUME NEW rs \in RoundState, Backed(rs), NEW s,
           SignedPrepare(s, rs.round, rs.preprepare)
    PROVE  Backed(AddPrepare(rs, s))
  <1>1. /\ AddPrepare(rs, s).prepares = rs.prepares \cup {s}
        /\ AddPrepare(rs, s).commits = rs.commits
        /\ AddPrepare(rs, s).round = rs.round
        /\ AddPrepare(rs, s).preprepare = rs.preprepare
        /\ AddPrepare(rs, s).preparedCertificate = rs.preparedCertificate
    BY DEF AddPrepare, RoundState
  <1>. QED  BY <1>1 DEF Backed, VotesSigned

\* A recorded commit was signed.
LEMMA AddCommitBacked ==
    ASSUME NEW rs \in RoundState, Backed(rs), NEW s,
           SignedCommit(s, rs.round, rs.preprepare)
    PROVE  Backed(AddCommit(rs, s))
  <1>1. /\ AddCommit(rs, s).prepares = rs.prepares
        /\ AddCommit(rs, s).commits = rs.commits \cup {s}
        /\ AddCommit(rs, s).round = rs.round
        /\ AddCommit(rs, s).preprepare = rs.preprepare
        /\ AddCommit(rs, s).preparedCertificate = rs.preparedCertificate
    BY DEF AddCommit, RoundState
  <1>. QED  BY <1>1 DEF Backed, VotesSigned

\* A quorum of recorded votes is a certificate that verifies.
LEMMA PreparedBacked ==
    ASSUME NEW rs \in RoundState, Backed(rs), HasPrepareOrCommitQuorum(rs)
    PROVE  Backed(TransitionToPrepared(rs))
  <1>. DEFINE u == TransitionToPrepared(rs)
  <1>1. /\ u.prepares = rs.prepares /\ u.commits = rs.commits
        /\ u.round = rs.round /\ u.preprepare = rs.preprepare
        /\ u.preparedCertificate = [round |-> rs.round, proposal |-> rs.preprepare]
    BY DEF TransitionToPrepared, RoundState
  <1>. HIDE DEF u
  <1>2. rs.prepares \cup rs.commits \subseteq Voters(rs.round, rs.preprepare)
    BY DEF Backed, VotesSigned, Voters, RoundState
  <1>3. /\ Voters(rs.round, rs.preprepare) \subseteq Validators
        /\ IsFiniteSet(Voters(rs.round, rs.preprepare))
    BY ConstantTypes, FS_Subset DEF Voters
  <1>4. /\ Cardinality(rs.prepares \cup rs.commits)
              <= Cardinality(Voters(rs.round, rs.preprepare))
        /\ Cardinality(rs.prepares \cup rs.commits) \in Nat
        /\ Cardinality(Voters(rs.round, rs.preprepare)) \in Nat
    BY <1>2, <1>3, FS_Subset, FS_CardinalityType, Zenon
  <1>5. verifyPC(u.preparedCertificate)
    BY <1>1, <1>4, ConstantTypes DEF verifyPC, HasPrepareOrCommitQuorum
  <1>. QED  BY <1>1, <1>5 DEF Backed, VotesSigned, emptyOrVerified, u

\* TransitionToCommitted records no vote.
LEMMA CommittedBacked ==
    ASSUME NEW rs \in RoundState, Backed(rs)
    PROVE  Backed(TransitionToCommitted(rs))
  <1>. DEFINE u == TransitionToCommitted(rs)
  <1>1. /\ u.prepares = rs.prepares /\ u.commits = rs.commits
        /\ u.round = rs.round /\ u.preprepare = rs.preprepare
        /\ u.preparedCertificate = rs.preparedCertificate
    BY DEF TransitionToCommitted, RoundState
  <1>. QED  BY <1>1 DEF Backed, VotesSigned

\* Nor does TransitionToWaitingForNewRound.
LEMMA WaitingBacked ==
    ASSUME NEW rs \in RoundState, Backed(rs), NEW r
    PROVE  Backed(TransitionToWaitingForNewRound(rs, r))
  <1>. DEFINE u == TransitionToWaitingForNewRound(rs, r)
  <1>1. /\ u.prepares = rs.prepares /\ u.commits = rs.commits
        /\ u.round = rs.round /\ u.preprepare = rs.preprepare
        /\ u.preparedCertificate = rs.preparedCertificate
    BY DEF TransitionToWaitingForNewRound, RoundState
  <1>. QED  BY <1>1 DEF Backed, VotesSigned

\* A quorum of recorded commits is a quorum of committers.
LEMMA CommitQuorum ==
    ASSUME NEW rs \in RoundState, Backed(rs), Cardinality(rs.commits) >= Quorum
    PROVE  Cardinality(Committers(rs.round, rs.preprepare)) >= Quorum
  <1>1. rs.commits \subseteq Committers(rs.round, rs.preprepare)
    BY DEF Backed, VotesSigned, Committers, RoundState
  <1>2. /\ Committers(rs.round, rs.preprepare) \subseteq Validators
        /\ IsFiniteSet(Committers(rs.round, rs.preprepare))
    BY ConstantTypes, FS_Subset, Zenon DEF Committers
  <1>3. /\ Cardinality(rs.commits) <= Cardinality(Committers(rs.round, rs.preprepare))
        /\ Cardinality(rs.commits) \in Nat
        /\ Cardinality(Committers(rs.round, rs.preprepare)) \in Nat
    BY <1>1, <1>2, FS_Subset, FS_CardinalityType
  <1>. QED  BY <1>3, ConstantTypes

-----------------------------------------------------------------------------
(***************************************************************************)
(* Two kinds of step: in LocalStep validator v stays at the sequence, its  *)
(* round state becomes rs, and it signs only what rs says; in LeaveStep it *)
(* goes on to the next sequence.                                           *)
(***************************************************************************)
voteOf(v, rs) == [src |-> v, round |-> rs.round, digest |-> rs.preprepare]

CommittedHeads ==
    \A w \in Honest : head'[w] # NoBlock =>
        \E r \in Rounds : Cardinality(Committers(r, head'[w])) >= Quorum

LocalStep(v, rs) ==
    /\ final' = final
    /\ Save(v, rs)
    /\ Progress(current[v], rs) /\ Backed(rs)
    /\ \/ sentPrepare' = sentPrepare /\ SameProposal(current[v], rs)
       \/ /\ sentPrepare' = sentPrepare \cup {voteOf(v, rs)}
          /\ rs.preprepare # NoBlock
    /\ \/ sentCommit' = sentCommit
       \/ /\ sentCommit' = sentCommit \cup {voteOf(v, rs)}
          /\ rs.preprepare # NoBlock
          /\ rs.preparedCertificate.round = rs.round
          /\ rs.state = StatePrepared
    /\ \/ sentRoundChange' = sentRoundChange
       \/ \E dst \in SUBSET Validators :
             sentRoundChange' = sentRoundChange \cup {roundChangeMsg(v, rs, dst)}
    /\ CommittedHeads
    /\ \/ head' = head
       \/ /\ \E b \in Proposals : head' = [head EXCEPT ![v] = b]
          /\ sentCommit' = sentCommit

LeaveStep(v) ==
    /\ final' = [final EXCEPT ![v] = TRUE]
    /\ Save(v, newRoundState)
    /\ UNCHANGED <<head, sentPrepare, sentCommit, sentRoundChange>>

\* What was verified before a step still verifies after it.
LEMMA VerifiedKept ==
    ASSUME sentPrepare \subseteq sentPrepare', sentCommit \subseteq sentCommit',
           NEW pc, emptyOrVerified(pc)
    PROVE  emptyOrVerified(pc)'
  <1>1. CASE pc = EmptyPreparedCertificate
    BY <1>1 DEF emptyOrVerified
  <1>2. CASE verifyPC(pc)
    <2>1. Cardinality(Voters(pc.round, pc.proposal)') >= Quorum
      BY <1>2, SignersGrow, ConstantTypes DEF verifyPC
    <2>. QED  BY <2>1 DEF verifyPC, emptyOrVerified
  <1>. QED  BY <1>1, <1>2 DEF emptyOrVerified

\* What was signed stays signed.
LEMMA BackedKept ==
    ASSUME sentPrepare \subseteq sentPrepare', sentCommit \subseteq sentCommit',
           NEW rs, Backed(rs)
    PROVE  Backed(rs)'
  <1>1. VotesSigned(rs)'
    BY DEF Backed, VotesSigned, SignedPrepare, SignedCommit
  <1>2. emptyOrVerified(rs.preparedCertificate)'
    BY VerifiedKept DEF Backed
  <1>. QED  BY <1>1, <1>2, Zenon DEF Backed

\* The round states stay good, as those of all honest validators do.
LEMMA RoundStatesKept ==
    ASSUME sentPrepare \subseteq sentPrepare', sentCommit \subseteq sentCommit',
           \A w \in Honest : WellFormed(current'[w]) /\ Backed(current'[w])
    PROVE  RoundStatesGood'
  <1>1. ASSUME NEW w \in Honest
        PROVE  (WellFormed(current[w]) /\ Backed(current[w]))'
    <2>1. PICK u : u = current'[w]
      OBVIOUS
    <2>2. WellFormed(u) /\ Backed(u)
      BY <2>1
    <2>3. Backed(u)'
      BY <2>2, BackedKept
    <2>. QED  BY <2>1, <2>2, <2>3 DEF WellFormed, Backed, VotesSigned,
         emptyOrVerified, verifyPC
  <1>. QED  BY <1>1 DEF RoundStatesGood

\* Votes are typed, by TypeOK.
LEMMA SentVoteTypes ==
    ASSUME TypeOK, NEW m \in sentPrepare \cup sentCommit
    PROVE  /\ m.src \in Honest /\ m.round \in Rounds /\ m.digest \in Proposals
           /\ m.round \in Int /\ m.digest # NoBlock
           /\ m = [src |-> m.src, round |-> m.round, digest |-> m.digest]
  <1>1. m \in Vote /\ m.src \in Honest
    BY DEF TypeOK
  <1>. QED  BY <1>1, ProposerAssumption, BoundsAssumption DEF Vote, Rounds

\* A step of one validator that signs only what its round state remembers is
\* safe.
LEMMA LocalStepSafe ==
    ASSUME IInv, NEW v \in Honest, NEW rs, LocalStep(v, rs), ~final[v]
    PROVE  Safe'
  <1>. DEFINE vote == voteOf(v, rs)
  <1>1. /\ rs \in RoundState /\ WellFormed(rs) /\ Backed(rs)
        /\ Advances(current[v], rs)
        /\ current \in [Honest -> RoundState]
        /\ current[v] \in RoundState
        /\ current' = [current EXCEPT ![v] = rs]
        /\ current'[v] = rs
        /\ \A w \in Honest : w # v => current'[w] = current[w]
    BY Zenon DEF IInv, TypeOK, LocalStep, Progress, Save
  <1>2. sentPrepare \subseteq sentPrepare' /\ sentCommit \subseteq sentCommit'
    BY Zenon DEF LocalStep
  <1>3. (rsdb = current)'
    BY DEF IInv, Safe, LocalStep, Save
  <1>4. RoundStatesGood'
    <2>1. ASSUME NEW w \in Honest
          PROVE  WellFormed(current'[w]) /\ Backed(current'[w])
      BY <1>1, <2>1, Zenon DEF IInv, Safe, RoundStatesGood
    <2>. QED  BY <1>2, <2>1, RoundStatesKept
  <1>5. \A m \in (sentPrepare \cup sentCommit)' :
           m \in sentPrepare \cup sentCommit \/ m = vote
    BY DEF LocalStep
  <1>6. \A m \in sentPrepare \cup sentCommit : ~final[m.src] =>
           /\ m.round <= current'[m.src].round
           /\ m.round = current'[m.src].round => m.digest = current'[m.src].preprepare
    <2>. SUFFICES ASSUME NEW m \in sentPrepare \cup sentCommit, ~final[m.src]
                  PROVE  /\ m.round <= current'[m.src].round
                         /\ m.round = current'[m.src].round =>
                               m.digest = current'[m.src].preprepare
      OBVIOUS
    <2>1. /\ m.round <= current[m.src].round
          /\ m.round = current[m.src].round => m.digest = current[m.src].preprepare
      BY DEF IInv, Safe, VotesRemembered
    <2>2. m.src \in Honest /\ m.round \in Int /\ m.digest # NoBlock
      BY SentVoteTypes, Zenon DEF IInv
    <2>3. CASE m.src = v
      BY <1>1, <2>1, <2>2, <2>3, RoundStateNumbers DEF Advances
    <2>4. CASE m.src # v
      BY <1>1, <2>1, <2>2, <2>4, Zenon
    <2>. QED  BY <2>3, <2>4, Zenon
  <1>7. VotesRemembered'
    <2>. SUFFICES ASSUME NEW m \in (sentPrepare \cup sentCommit)', ~final'[m.src]
                  PROVE  /\ m.round <= current'[m.src].round
                         /\ m.round = current'[m.src].round =>
                               m.digest = current'[m.src].preprepare
      BY Zenon DEF VotesRemembered
    <2>1. CASE m \in sentPrepare \cup sentCommit
      BY <1>6, <2>1, Zenon DEF LocalStep
    <2>2. CASE m = vote
      <3>1. m.src = v /\ m.round = rs.round /\ m.digest = rs.preprepare
        BY <2>2, Zenon DEF voteOf
      <3>. QED  BY <1>1, <3>1, RoundStateNumbers
    <2>. QED  BY <1>5, <2>1, <2>2, Zenon
  <1>8. CommitsRemembered'
    <2>. SUFFICES ASSUME NEW m \in sentCommit', ~final'[m.src]
                  PROVE  m.round <= current'[m.src].preparedCertificate.round
      BY DEF CommitsRemembered
    <2>1. CASE m \in sentCommit
      <3>1. m.round <= current[m.src].preparedCertificate.round
        BY <2>1 DEF IInv, Safe, CommitsRemembered, LocalStep
      <3>2. m.src \in Honest /\ m.round \in Int
        BY <2>1, SentVoteTypes, Zenon DEF IInv
      <3>3. CASE m.src = v
        BY <1>1, <3>1, <3>2, <3>3, RoundStateNumbers DEF Advances
      <3>4. CASE m.src # v
        BY <1>1, <3>1, <3>2, <3>4, Zenon
      <3>. QED  BY <3>3, <3>4, Zenon
    <2>2. CASE m \notin sentCommit
      <3>1. m = vote /\ rs.preparedCertificate.round = rs.round
        BY <2>2, Zenon DEF LocalStep
      <3>2. m.src = v /\ m.round = rs.round
        BY <3>1 DEF voteOf
      <3>. QED  BY <1>1, <3>1, <3>2, RoundStateNumbers
    <2>. QED  BY <2>1, <2>2
  <1>9. OneVotePerRound'
    <2>1. ASSUME NEW m \in sentPrepare \cup sentCommit, m.src = v, m.round = rs.round
          PROVE  m.digest = rs.preprepare
      BY <1>1, <1>6, <2>1, Zenon
    <2>2. vote.src = v /\ vote.round = rs.round /\ vote.digest = rs.preprepare
      BY DEF voteOf
    <2>. HIDE DEF vote
    <2>. SUFFICES ASSUME NEW m1 \in (sentPrepare \cup sentCommit)',
                         NEW m2 \in (sentPrepare \cup sentCommit)',
                         m1.src = m2.src, m1.round = m2.round
                  PROVE  m1.digest = m2.digest
      BY DEF OneVotePerRound
    <2>. QED  BY <1>5, <2>1, <2>2, Zenon DEF IInv, Safe, OneVotePerRound
  <1>10. SentCertificatesVerify'
    <2>. SUFFICES ASSUME NEW m \in sentRoundChange'
                  PROVE  emptyOrVerified(m.req.pc)' /\ m.req.pc.round <= m.req.round
      BY DEF SentCertificatesVerify
    <2>1. CASE m \in sentRoundChange
      BY <1>2, <2>1, VerifiedKept, Zenon DEF IInv, Safe, SentCertificatesVerify
    <2>2. CASE m \notin sentRoundChange
      <3>1. PICK dst : m = roundChangeMsg(v, rs, dst)
        BY <2>2, Zenon DEF LocalStep
      <3>2. m.req.pc = rs.preparedCertificate /\ m.req.round = rs.desiredRound
        BY <3>1, Zenon DEF roundChangeMsg
      <3>3. emptyOrVerified(m.req.pc)
        BY <1>1, <3>2 DEF Backed
      <3>4. emptyOrVerified(m.req.pc)'
        BY <1>2, <3>3, VerifiedKept, Zenon
      <3>5. m.req.pc.round <= m.req.round
        BY <1>1, <3>2, RoundStateNumbers DEF WellFormed
      <3>. QED  BY <3>4, <3>5, Zenon
    <2>. QED  BY <2>1, <2>2
  <1>11. HeadsCommitted'
    <2>. SUFFICES ASSUME NEW w \in Honest, head'[w] # NoBlock
                  PROVE  \E r \in Rounds : (Cardinality(Committers(r, head[w])) >= Quorum)'
      BY DEF HeadsCommitted
    <2>1. PICK p : p = head'[w]
      OBVIOUS
    <2>2. PICK r \in Rounds : Cardinality(Committers(r, p)) >= Quorum
      BY <2>1 DEF LocalStep, CommittedHeads
    <2>3. Cardinality(Committers(r, p)') >= Quorum
      BY <1>2, <2>2, SignersGrow, ConstantTypes
    <2>. QED  BY <2>1, <2>3, Zenon DEF Committers, SignedCommit
  <1>. QED  BY <1>3, <1>4, <1>7, <1>8, <1>9, <1>10, <1>11, Zenon DEF Safe

\* So is the step with which it leaves the sequence.
LEMMA LeaveStepSafe ==
    ASSUME IInv, NEW v \in Honest, LeaveStep(v)
    PROVE  Safe'
  <1>1. /\ current' = [current EXCEPT ![v] = newRoundState]
        /\ current'[v] = newRoundState
        /\ \A w \in Honest : w # v => current'[w] = current[w]
        /\ final'[v] = TRUE
        /\ \A w \in Honest : w # v => final'[w] = final[w]
        /\ UNCHANGED <<head, sentPrepare, sentCommit, sentRoundChange>>
    BY DEF IInv, TypeOK, LeaveStep, Save
  <1>2. (rsdb = current)'
    BY DEF IInv, Safe, LeaveStep, Save
  <1>3. RoundStatesGood'
    <2>1. Backed(newRoundState)
      BY Zenon DEF Backed, VotesSigned, newRoundState, emptyOrVerified
    <2>2. ASSUME NEW w \in Honest
          PROVE  WellFormed(current'[w]) /\ Backed(current'[w])
      BY <1>1, <2>1, NewRoundStateGood, Zenon DEF IInv, Safe, RoundStatesGood
    <2>. QED  BY <1>1, <2>2, RoundStatesKept, Zenon
  <1>4. VotesRemembered' /\ CommitsRemembered'
    <2>1. \A m \in sentPrepare \cup sentCommit : m.src \in Honest
      BY SentVoteTypes, Zenon DEF IInv
    <2>. QED  BY <1>1, <2>1 DEF IInv, Safe, VotesRemembered, CommitsRemembered
  <1>5. OneVotePerRound' /\ SentCertificatesVerify' /\ HeadsCommitted'
    BY <1>1, Zenon DEF IInv, Safe, OneVotePerRound, SentCertificatesVerify,
       HeadsCommitted, emptyOrVerified, verifyPC, Voters, Committers,
       SignedPrepare, SignedCommit
  <1>. QED  BY <1>2, <1>3, <1>4, <1>5, Zenon DEF Safe

(***************************************************************************)
(* Types: a LocalStep preserves those of the variables it is about, the    *)
(* others are OtherTypes.                                                  *)
(***************************************************************************)
OtherTypes ==
    /\ roundChangeSet \in [Honest -> [Validators -> StoredRequest \cup {NoRequest}]]
    /\ head \in [Honest -> Proposals \cup {NoBlock}]
    /\ sentPreprepare \subseteq {m \in Preprepare : m.src \in Honest}
    /\ crashes \in 0 .. MaxCrashes

\* Such a step keeps the types.
LEMMA LocalStepTypes ==
    ASSUME IInv, NEW v \in Honest, NEW rs, LocalStep(v, rs), OtherTypes'
    PROVE  TypeOK'
  <1>1. rs \in RoundState /\ WellFormed(rs) /\ v \in Validators
    BY ConstantTypes, Zenon DEF LocalStep, Progress
  <1>2. (/\ current \in [Honest -> RoundState] /\ rsdb \in [Honest -> RoundState]
         /\ final \in [Honest -> BOOLEAN])'
    BY <1>1 DEF IInv, TypeOK, LocalStep, Save
  <1>3. rs.preprepare # NoBlock =>
          voteOf(v, rs) \in {m \in Vote : m.src \in Honest}
    BY <1>1, Zenon DEF voteOf, Vote, RoundState
  <1>4. (/\ sentPrepare \subseteq {m \in Vote : m.src \in Honest}
         /\ sentCommit \subseteq {m \in Vote : m.src \in Honest})'
    BY <1>3 DEF IInv, TypeOK, LocalStep
  <1>5. ASSUME NEW dst \in SUBSET Validators
        PROVE  roundChangeMsg(v, rs, dst) \in {m \in RoundChange : m.req.src \in Honest}
    <2>1. [src |-> v, round |-> rs.desiredRound, pc |-> rs.preparedCertificate]
             \in RoundChangeRequest
      BY <1>1, Zenon DEF RoundChangeRequest, RoundState
    <2>. QED  BY <2>1 DEF roundChangeMsg, RoundChange
  <1>6. (sentRoundChange \subseteq {m \in RoundChange : m.req.src \in Honest})'
    BY <1>5 DEF IInv, TypeOK, LocalStep
  <1>. QED  BY <1>2, <1>4, <1>6, Zenon DEF TypeOK, OtherTypes

\* So does the step that leaves the sequence.
LEMMA LeaveStepTypes ==
    ASSUME IInv, NEW v \in Honest, LeaveStep(v), OtherTypes'
    PROVE  TypeOK'
  BY NewRoundStateGood, Zenon DEF IInv, TypeOK, LeaveStep, Save, OtherTypes

-----------------------------------------------------------------------------
(***************************************************************************)
(* Every handler makes one of these steps.                                 *)
(***************************************************************************)
LEMMA CurrentGood ==
    ASSUME IInv, NEW v \in Honest
    PROVE  /\ current[v] \in RoundState /\ rsdb[v] = current[v]
           /\ WellFormed(current[v]) /\ Backed(current[v])
           /\ Reaches(current[v], current[v])
           /\ v \in Validators
           /\ UNCHANGED <<current, rsdb>> => Save(v, current[v])
           /\ UNCHANGED head => CommittedHeads
           /\ OtherTypes
  <1>1. /\ current[v] \in RoundState /\ rsdb[v] = current[v]
        /\ WellFormed(current[v]) /\ Backed(current[v])
        /\ v \in Validators
    BY ConstantTypes DEF IInv, TypeOK, Safe, RoundStatesGood
  <1>2. Reaches(current[v], current[v])
    BY <1>1, ReachesSelf
  <1>3. UNCHANGED <<current, rsdb>> => Save(v, current[v])
    BY DEF IInv, TypeOK, Safe, Save
  <1>4. UNCHANGED head => CommittedHeads
    BY DEF IInv, Safe, HeadsCommitted, CommittedHeads
  <1>. QED  BY <1>1, <1>2, <1>3, <1>4 DEF IInv, TypeOK, OtherTypes

\* handleRequest is such a step.
LEMMA RequestStep ==
    ASSUME IInv, NEW v \in Honest, NEW p \in Proposals, handleRequest(v, p)
    PROVE  (\E rs : LocalStep(v, rs)) /\ OtherTypes'
  <1>. DEFINE rs == [current[v] EXCEPT !.pendingRequest = p]
  <1>1. /\ rs \in RoundState
        /\ rs.state = current[v].state /\ rs.round = current[v].round
        /\ rs.desiredRound = current[v].desiredRound
        /\ rs.preprepare = current[v].preprepare
        /\ rs.prepares = current[v].prepares /\ rs.commits = current[v].commits
        /\ rs.preparedCertificate = current[v].preparedCertificate
    BY CurrentGood DEF RoundState
  <1>2. Save(v, rs)
    BY Zenon DEF handleRequest
  <1>. HIDE DEF rs
  <1>3. WellFormed(rs) /\ Backed(rs)
    BY <1>1, CurrentGood, Zenon DEF WellFormed, Backed, VotesSigned
  <1>4. Advances(current[v], rs)
    BY <1>1, CurrentGood DEF Reaches, Progress, Advances
  <1>5. LocalStep(v, rs)
    BY <1>1, <1>2, <1>3, <1>4, CurrentGood, Zenon
       DEF LocalStep, Progress, SameProposal, handleRequest
  <1>6. [src |-> v, round |-> 0, proposal |-> p, rcc |-> {}]
           \in {m \in Preprepare : m.src \in Honest}
    BY CurrentGood, BoundsAssumption DEF Preprepare, Rounds
  <1>7. OtherTypes'
    BY <1>6, CurrentGood, Zenon DEF OtherTypes, handleRequest
  <1>. QED  BY <1>5, <1>7

\* So is handlePreprepareV2.
LEMMA PreprepareStep ==
    ASSUME IInv, NEW v \in Honest, NEW m \in sentPreprepare \cup FaultyPreprepares,
           NEW verified \in BOOLEAN, handlePreprepareV2(v, m, verified)
    PROVE  (\E rs : LocalStep(v, rs)) /\ OtherTypes'
  <1>1. m.round \in Rounds /\ m.proposal \in Proposals
    <2>1. m \in Preprepare
      BY FaultyAssumption DEF IInv, TypeOK
    <2>. QED  BY <2>1 DEF Preprepare
  <1>. DEFINE rs1 == IF m.round > current[v].round
                     THEN StartNewRound(current[v], m.round) ELSE current[v]
              accept == verified /\ rs1.state = StateAcceptRequest
              rs == IF accept THEN TransitionToPrepreparedV2(rs1, m.proposal) ELSE rs1
  <1>2. Reaches(current[v], rs1) /\ Backed(rs1)
    <2>1. CASE m.round > current[v].round
      <3>1. current[v].round < m.round /\ current[v].desiredRound <= m.round
        <4>1. current[v].round \in Int /\ current[v].desiredRound \in Int
          BY CurrentGood, RoundStateNumbers
        <4>2. m.round \in Int
          BY <1>1, BoundsAssumption DEF Rounds
        <4>3. m.round = current[v].desiredRound
          BY Zenon DEF handlePreprepareV2, acceptsPreprepare
        <4>. QED  BY <2>1, <4>1, <4>2, <4>3
      <3>. QED  BY <1>1, <2>1, <3>1, CurrentGood, StartNewRoundReaches,
                StartNewRoundBacked, Zenon
    <2>2. CASE ~(m.round > current[v].round)
      BY <2>2, CurrentGood, Zenon
    <2>. QED  BY <2>1, <2>2
  <1>3. /\ Save(v, rs)
        /\ sentPrepare' = IF accept
             THEN sentPrepare \cup {[src |-> v, round |-> rs1.round, digest |-> m.proposal]}
             ELSE sentPrepare
        /\ UNCHANGED <<roundChangeSet, head, final, sentPreprepare, sentCommit,
                       sentRoundChange, crashes>>
    BY Zenon DEF handlePreprepareV2
  <1>. HIDE DEF rs1
  <1>4. CASE ~accept
    BY <1>2, <1>3, <1>4, CurrentGood, Zenon DEF LocalStep, Reaches, OtherTypes
  <1>5. CASE accept
    <2>. DEFINE rs2 == TransitionToPrepreparedV2(rs1, m.proposal)
    <2>1. rs1 \in RoundState /\ WellFormed(rs1)
      BY <1>2 DEF Reaches, Progress
    <2>2. Progress(rs1, rs2) /\ Backed(rs2)
      BY <1>1, <1>2, <1>5, <2>1, PreprepareProgress, PreprepareBacked, Zenon
    <2>3. rs2.round = rs1.round /\ rs2.preprepare = m.proposal
      BY <2>1, Zenon DEF TransitionToPrepreparedV2, RoundState
    <2>4. Save(v, rs2)
      BY <1>3, <1>5, Zenon
    <2>. HIDE DEF rs2
    <2>5. Progress(current[v], rs2)
      BY <1>2, <2>2, CurrentGood, ProgressTransitive, Zenon DEF Reaches
    <2>6. LocalStep(v, rs2)
      BY <1>1, <1>3, <1>5, <2>2, <2>3, <2>4, <2>5, CurrentGood, ProposerAssumption, Zenon
         DEF LocalStep, voteOf
    <2>. QED  BY <1>3, <2>6, CurrentGood DEF OtherTypes
  <1>. QED  BY <1>4, <1>5

\* Votes are taken only in a round that has a preprepare.
LEMMA AcceptedVote ==
    ASSUME NEW rs \in RoundState, WellFormed(rs), NEW r, acceptsVote(rs, r)
    PROVE  /\ rs.preprepare # NoBlock
           /\ rs.state \in {StatePreprepared, StatePrepared, StateCommitted}
  <1>1. rs.state \in 0 .. 4
    BY RoundStateNumbers, Zenon
  <1>2. rs.state \notin {StateAcceptRequest, StateWaitingForNewRound}
    BY Zenon DEF acceptsVote
  <1>3. rs.state \in {StatePreprepared, StatePrepared, StateCommitted}
    BY <1>1, <1>2 DEF StateAcceptRequest, StatePreprepared, StatePrepared, StateCommitted,
       StateWaitingForNewRound
  <1>. QED  BY <1>3, Zenon DEF WellFormed

\* What handlePrepare and handleCommit have in common: with one more vote,
\* the round may become prepared.
LEMMA AfterVote ==
    ASSUME IInv, NEW v \in Honest, NEW rs, Reaches(current[v], rs), Backed(rs),
           rs.state = current[v].state, rs.preprepare # NoBlock,
           rs.state \in {StatePreprepared, StatePrepared, StateCommitted},
           IF becomesPrepared(rs)
           THEN Save(v, TransitionToPrepared(rs)) /\ sendCommit(v, rs)
           ELSE Save(v, rs) /\ UNCHANGED sentCommit,
           UNCHANGED <<head, final, sentPrepare, sentRoundChange>>
    PROVE  \E rs2 : LocalStep(v, rs2)
  <1>1. rs \in RoundState /\ WellFormed(rs)
    BY Zenon DEF Reaches, Progress
  <1>2. CASE ~becomesPrepared(rs)
    BY <1>2, CurrentGood, Zenon DEF LocalStep, Reaches
  <1>3. CASE becomesPrepared(rs)
    <2>. DEFINE rs2 == TransitionToPrepared(rs)
    <2>1. rs.state = StatePreprepared /\ HasPrepareOrCommitQuorum(rs)
      BY <1>3 DEF becomesPrepared, StatePreprepared, StatePrepared, StateCommitted
    <2>2. Reaches(rs, rs2) /\ Backed(rs2)
      BY <1>1, <2>1, PreparedReaches, PreparedBacked, Zenon
    <2>3. /\ rs2.round = rs.round /\ rs2.preprepare = rs.preprepare
          /\ rs2.preparedCertificate.round = rs.round /\ rs2.state = StatePrepared
      BY <1>1, Zenon DEF TransitionToPrepared, RoundState
    <2>4. Save(v, rs2) /\ sendCommit(v, rs)
      BY <1>3, Zenon
    <2>. HIDE DEF rs2
    <2>5. Reaches(current[v], rs2)
      BY <2>2, CurrentGood, ReachesTransitive, Zenon
    <2>6. LocalStep(v, rs2)
      BY <2>2, <2>3, <2>4, <2>5, CurrentGood, Zenon DEF LocalStep, Reaches, voteOf, sendCommit
    <2>. QED  BY <2>6, Zenon
  <1>. QED  BY <1>2, <1>3, Zenon

\* So is handlePrepare.
LEMMA PrepareStep ==
    ASSUME IInv, NEW v \in Honest, NEW s \in Validators, NEW r \in Rounds,
           NEW p \in Proposals, handlePrepare(v, s, r, p)
    PROVE  (\E rs : LocalStep(v, rs)) /\ OtherTypes'
  <1>. DEFINE rs == AddPrepare(current[v], s)
  <1>1. /\ acceptsVote(current[v], r)
        /\ SignedPrepare(s, current[v].round, current[v].preprepare)
        /\ IF becomesPrepared(rs)
           THEN Save(v, TransitionToPrepared(rs)) /\ sendCommit(v, rs)
           ELSE Save(v, rs) /\ UNCHANGED sentCommit
        /\ UNCHANGED <<roundChangeSet, head, final, sentPreprepare, sentPrepare,
                       sentRoundChange, crashes>>
    BY Zenon DEF handlePrepare, matchesSubject
  <1>2. /\ current[v].preprepare # NoBlock
        /\ current[v].state \in {StatePreprepared, StatePrepared, StateCommitted}
    BY <1>1, CurrentGood, AcceptedVote, Zenon
  <1>3. Reaches(current[v], rs) /\ Backed(rs)
    BY <1>1, <1>2, CurrentGood, AddVoteReaches, AddPrepareBacked, Zenon
  <1>4. rs.state = current[v].state /\ rs.preprepare = current[v].preprepare
    BY CurrentGood, Zenon DEF AddPrepare, RoundState
  <1>. HIDE DEF rs
  <1>5. \E rs2 : LocalStep(v, rs2)
    BY <1>1, <1>2, <1>3, <1>4, AfterVote, Zenon
  <1>6. OtherTypes'
    BY <1>1, CurrentGood, Zenon DEF OtherTypes
  <1>. QED  BY <1>5, <1>6, Zenon

\* waitForDesiredRound, from the round state rs a handler has reached.
LEMMA WaitStep ==
    ASSUME IInv, NEW v \in Honest, NEW rs, Reaches(current[v], rs), Backed(rs),
           NEW r \in Rounds, waitForDesiredRound(v, rs, r),
           UNCHANGED <<head, final, sentPrepare, sentCommit>>
    PROVE  \E rs2 : LocalStep(v, rs2)
  <1>1. rs \in RoundState /\ WellFormed(rs)
    BY Zenon DEF Reaches, Progress
  <1>2. CASE rs.desiredRound >= r
    BY <1>2, CurrentGood, Zenon DEF LocalStep, Reaches, waitForDesiredRound
  <1>3. CASE ~(rs.desiredRound >= r)
    <2>. DEFINE rs2 == TransitionToWaitingForNewRound(rs, r)
    <2>1. rs.desiredRound < r
      BY <1>1, <1>3, RoundStateNumbers, BoundsAssumption DEF Rounds
    <2>2. Reaches(rs, rs2) /\ Backed(rs2)
      BY <1>1, <2>1, WaitingReaches, WaitingBacked, Zenon
    <2>3. Save(v, rs2) /\ Multicast(roundChangeMsg(v, rs2, Validators))
      BY <1>3, Zenon DEF waitForDesiredRound
    <2>. HIDE DEF rs2
    <2>4. Reaches(current[v], rs2)
      BY <2>2, CurrentGood, ReachesTransitive, Zenon
    <2>5. LocalStep(v, rs2)
      BY <2>2, <2>3, <2>4, CurrentGood, Zenon DEF LocalStep, Reaches, Multicast
    <2>. QED  BY <2>5, Zenon
  <1>. QED  BY <1>2, <1>3

-----------------------------------------------------------------------------
(***************************************************************************)
(* The other handlers as LocalSteps and LeaveSteps.                        *)
(***************************************************************************)
LEMMA CommitStep ==
    ASSUME IInv, NEW v \in Honest, NEW s \in Validators, NEW r \in Rounds,
           NEW p \in Proposals, NEW inserted \in BOOLEAN,
           handleCommit(v, s, r, p, inserted)
    PROVE  (\E rs : LocalStep(v, rs)) /\ OtherTypes'
  <1>. DEFINE rs == AddCommit(current[v], s)
  <1>1. /\ acceptsVote(current[v], r)
        /\ SignedCommit(s, current[v].round, current[v].preprepare)
        /\ IF becomesCommitted(rs)
           THEN commit(v, rs, inserted) /\ UNCHANGED sentCommit
           ELSE /\ IF becomesPrepared(rs)
                   THEN Save(v, TransitionToPrepared(rs)) /\ sendCommit(v, rs)
                   ELSE Save(v, rs) /\ UNCHANGED sentCommit
                /\ UNCHANGED <<head, sentRoundChange>>
        /\ UNCHANGED <<roundChangeSet, final, sentPreprepare, sentPrepare, crashes>>
    BY Zenon DEF handleCommit, matchesSubject
  <1>2. /\ current[v].preprepare # NoBlock
        /\ current[v].state \in {StatePreprepared, StatePrepared, StateCommitted}
    BY <1>1, CurrentGood, AcceptedVote, Zenon
  <1>3. Reaches(current[v], rs) /\ Backed(rs)
    BY <1>1, <1>2, CurrentGood, AddVoteReaches, AddCommitBacked, Zenon
  <1>4. rs.state = current[v].state /\ rs.preprepare = current[v].preprepare
    BY CurrentGood, Zenon DEF AddCommit, RoundState
  <1>5. rs \in RoundState /\ WellFormed(rs)
    BY <1>3, Zenon DEF Reaches, Progress
  <1>. HIDE DEF rs
  <1>6. CASE ~becomesCommitted(rs)
    BY <1>1, <1>2, <1>3, <1>4, <1>6, AfterVote, CurrentGood, Zenon DEF OtherTypes
  <1>7. CASE becomesCommitted(rs)
    <2>. DEFINE rs2 == TransitionToCommitted(rs)
    <2>1. rs.state \in {StatePreprepared, StatePrepared}
      BY <1>2, <1>4, <1>7 DEF becomesCommitted, StatePreprepared, StatePrepared,
         StateCommitted
    <2>2. Reaches(rs, rs2) /\ Backed(rs2)
      BY <1>3, <1>5, <2>1, CommittedReaches, CommittedBacked, Zenon
    <2>3. Reaches(current[v], rs2)
      BY <1>3, <2>2, CurrentGood, ReachesTransitive, Zenon
    <2>4. commit(v, rs, inserted) /\ UNCHANGED sentCommit
      BY <1>1, <1>7, Zenon
    <2>5. CASE inserted
      <3>1. PICK b \in {rs.preprepare} \cup ({head[v]} \ {NoBlock}) :
               head' = [head EXCEPT ![v] = b]
        BY <2>4, <2>5, Zenon DEF commit
      <3>2. Save(v, rs2) /\ UNCHANGED sentRoundChange
        BY <2>4, <2>5, Zenon DEF commit
      <3>3. rs.round \in Rounds /\ rs.preprepare \in Proposals \cup {NoBlock}
        BY <1>5, Zenon DEF RoundState
      <3>4. Cardinality(Committers(rs.round, rs.preprepare)) >= Quorum
        BY <1>3, <1>5, <1>7, CommitQuorum, Zenon DEF becomesCommitted
      <3>5. head \in [Honest -> Proposals \cup {NoBlock}]
        BY CurrentGood, Zenon DEF OtherTypes
      <3>6. CommittedHeads
        <4>. SUFFICES ASSUME NEW w \in Honest, head'[w] # NoBlock
                      PROVE  \E q \in Rounds :
                                Cardinality(Committers(q, head'[w])) >= Quorum
          BY DEF CommittedHeads
        <4>1. head'[w] = head[w] \/ head'[w] = rs.preprepare
          BY <3>1, <3>5, Zenon
        <4>. QED  BY <3>3, <3>4, <4>1, Zenon DEF IInv, Safe, HeadsCommitted
      <3>7. b \in Proposals
        BY <1>2, <1>4, <3>3, <3>5, Zenon
      <3>. HIDE DEF rs2
      <3>8. LocalStep(v, rs2)
        BY <1>1, <2>2, <2>3, <2>4, <3>1, <3>2, <3>6, <3>7, Zenon DEF LocalStep, Reaches
      <3>9. OtherTypes'
        BY <1>1, <3>1, <3>7, CurrentGood, Zenon DEF OtherTypes
      <3>. QED  BY <3>8, <3>9, Zenon
    <2>6. CASE ~inserted
      <3>1. /\ rs.round < LastRound
            /\ waitForDesiredRound(v, rs2, rs.round + 1)
            /\ UNCHANGED head
        BY <2>4, <2>6, Zenon DEF commit
      <3>a. rs.round \in Nat /\ LastRound \in Nat
        BY <1>5, RoundStateNumbers, BoundsAssumption DEF Rounds
      <3>2. rs.round + 1 \in Rounds
        BY <3>a, <3>1 DEF Rounds
      <3>. HIDE DEF rs2
      <3>3. \E rs3 : LocalStep(v, rs3)
        BY <1>1, <2>2, <2>3, <2>4, <3>1, <3>2, WaitStep, Zenon
      <3>. QED  BY <1>1, <3>1, <3>3, CurrentGood, Zenon DEF OtherTypes
    <2>. QED  BY <2>5, <2>6, Zenon
  <1>. QED  BY <1>6, <1>7, Zenon

\* The certificates a proposer makes are sets of round change requests.
LEMMA CertificateType ==
    ASSUME NEW rcs \in [Validators -> StoredRequest \cup {NoRequest}],
           NEW r \in Rounds, NEW rcc \in getCertificate(rcs, r)
    PROVE  rcc \in SUBSET RoundChangeRequest
  <1>1. PICK S \in SUBSET Validators :
           /\ rcc = {[src |-> u, round |-> rcs[u].round, pc |-> rcs[u].pc] : u \in S}
           /\ \A u \in S : rcs[u].round >= r
    BY Zenon DEF getCertificate
  <1>2. ASSUME NEW u \in S
        PROVE  [src |-> u, round |-> rcs[u].round, pc |-> rcs[u].pc]
                  \in RoundChangeRequest
    <2>1. rcs[u].round >= r /\ r >= 0 /\ r \in Int
      BY <1>1, BoundsAssumption DEF Rounds
    <2>2. rcs[u] # NoRequest
      <3>1. NoRequest.round = -1
        BY DEF NoRequest
      <3>. QED  BY <2>1, <3>1
    <2>3. rcs[u] \in StoredRequest
      BY <2>2
    <2>. QED  BY <2>3, Zenon DEF StoredRequest, RoundChangeRequest
  <1>. QED  BY <1>1, <1>2, Zenon

\* What is proposed in a new round is a block.
LEMMA ProposedType ==
    ASSUME NEW rs \in RoundState, NEW rcc \in SUBSET RoundChangeRequest,
           NEW p \in proposalsFor(rs, rcc), p # NoBlock
    PROVE  p \in Proposals
  <1>1. CASE HighestRoundRequests(rcc) = {}
    BY <1>1, Zenon DEF proposalsFor, RoundState
  <1>2. CASE HighestRoundRequests(rcc) # {}
    <2>1. PICK q \in HighestRoundRequests(rcc) : p = q.pc.proposal
      BY <1>2, Zenon DEF proposalsFor
    <2>2. q \in RoundChangeRequest /\ q.pc # EmptyPreparedCertificate
      BY DEF HighestRoundRequests
    <2>3. q.pc \in PreparedCertificate
      BY <2>2, Zenon DEF RoundChangeRequest
    <2>. QED  BY <2>1, <2>3, Zenon DEF PreparedCertificate
  <1>. QED  BY <1>1, <1>2, Zenon

\* startNewRound is such a step, and sends at most a preprepare.
LEMMA StartRoundStep ==
    ASSUME IInv, NEW v \in Honest, NEW r \in Rounds, r >= current[v].desiredRound,
           NEW rcs \in [Validators -> StoredRequest \cup {NoRequest}],
           startNewRound(v, rcs, r),
           UNCHANGED <<head, final, sentPrepare, sentCommit, sentRoundChange>>
    PROVE  /\ \E rs : LocalStep(v, rs)
           /\ (sentPreprepare \subseteq {m \in Preprepare : m.src \in Honest})'
  <1>1. CASE r <= current[v].round
    BY <1>1, CurrentGood, Zenon DEF startNewRound, LocalStep, Reaches, OtherTypes
  <1>2. CASE ~(r <= current[v].round)
    <2>. DEFINE rs == StartNewRound(current[v], r)
    <2>1. current[v].round < r /\ current[v].desiredRound <= r
      <3>1. current[v].round \in Int /\ current[v].desiredRound \in Int
        BY CurrentGood, RoundStateNumbers, Zenon
      <3>2. r \in Int
        BY BoundsAssumption DEF Rounds
      <3>. QED  BY <1>2, <3>1, <3>2
    <2>2. Reaches(current[v], rs) /\ Backed(rs)
      BY <2>1, CurrentGood, StartNewRoundReaches, StartNewRoundBacked, Zenon
    <2>3. Save(v, rs)
      BY <1>2, Zenon DEF startNewRound
    <2>. HIDE DEF rs
    <2>4. LocalStep(v, rs)
      BY <2>2, <2>3, CurrentGood, Zenon DEF LocalStep, Reaches
    <2>5. (sentPreprepare \subseteq {m \in Preprepare : m.src \in Honest})'
      <3>1. CASE ~isProposer(v, r)
        BY <1>2, <3>1, CurrentGood, Zenon DEF startNewRound, OtherTypes
      <3>2. CASE isProposer(v, r)
        <4>1. PICK rcc \in getCertificate(rcs, r) :
                 \E p \in proposalsFor(current[v], rcc) :
                   sentPreprepare' =
                     IF p = NoBlock THEN sentPreprepare
                     ELSE sentPreprepare \cup
                            {[src |-> v, round |-> r, proposal |-> p, rcc |-> rcc]}
          BY <1>2, <3>2, Zenon DEF startNewRound
        <4>2. PICK p \in proposalsFor(current[v], rcc) :
                   sentPreprepare' =
                     IF p = NoBlock THEN sentPreprepare
                     ELSE sentPreprepare \cup
                            {[src |-> v, round |-> r, proposal |-> p, rcc |-> rcc]}
          BY <4>1, Zenon
        <4>3. rcc \in SUBSET RoundChangeRequest
          BY CertificateType, Zenon
        <4>4. p # NoBlock => p \in Proposals
          BY <4>3, CurrentGood, ProposedType, Zenon
        <4>5. p # NoBlock => [src |-> v, round |-> r, proposal |-> p, rcc |-> rcc]
                                \in {m \in Preprepare : m.src \in Honest}
          BY <4>3, <4>4, CurrentGood, Zenon DEF Preprepare
        <4>. QED  BY <4>2, <4>5, CurrentGood, Zenon DEF OtherTypes
      <3>. QED  BY <3>1, <3>2, Zenon
    <2>. QED  BY <2>4, <2>5, Zenon
  <1>. QED  BY <1>1, <1>2, Zenon

\* The answer to a validator that is behind is such a step.
LEMMA OldRoundChangeStep ==
    ASSUME IInv, NEW v \in Honest, NEW m \in sentRoundChange \cup FaultyRoundChanges,
           handleOldRoundChange(v, m)
    PROVE  (\E rs : LocalStep(v, rs)) /\ OtherTypes'
  <1>1. {m.req.src} \in SUBSET Validators
    <2>1. m \in RoundChange
      BY FaultyAssumption, Zenon DEF IInv, TypeOK
    <2>. QED  BY <2>1, Zenon DEF RoundChange, RoundChangeRequest
  <1>2. LocalStep(v, current[v])
    BY <1>1, CurrentGood, Zenon DEF handleOldRoundChange, LocalStep, Reaches, Multicast
  <1>. QED  BY <1>2, CurrentGood, Zenon DEF handleOldRoundChange, OtherTypes

\* So is handleRoundChangeV2.
LEMMA RoundChangeStep ==
    ASSUME IInv, NEW v \in Honest, NEW m \in sentRoundChange \cup FaultyRoundChanges,
           handleRoundChangeV2(v, m)
    PROVE  (\E rs : LocalStep(v, rs)) /\ OtherTypes'
  <1>. DEFINE rcs == [roundChangeSet[v] EXCEPT
                        ![m.req.src] = [round |-> m.req.round, pc |-> m.req.pc]]
  <1>1. m.req \in RoundChangeRequest
    <2>1. m \in RoundChange
      BY FaultyAssumption DEF IInv, TypeOK
    <2>. QED  BY <2>1 DEF RoundChange
  <1>2. [round |-> m.req.round, pc |-> m.req.pc] \in StoredRequest
    BY <1>1, Zenon DEF RoundChangeRequest, StoredRequest
  <1>3. rcs \in [Validators -> StoredRequest \cup {NoRequest}]
    BY <1>2, CurrentGood, Zenon DEF OtherTypes
  <1>4. /\ roundChangeSet' = [roundChangeSet EXCEPT ![v] = rcs]
        /\ UNCHANGED <<head, final, sentPrepare, sentCommit, crashes>>
        /\ \/ \E r \in Rounds : /\ r >= current[v].desiredRound
                                /\ startNewRound(v, rcs, r)
                                /\ UNCHANGED sentRoundChange
           \/ /\ \E r \in Rounds : waitForDesiredRound(v, current[v], r)
              /\ UNCHANGED sentPreprepare
           \/ UNCHANGED <<current, rsdb, sentRoundChange, sentPreprepare>>
    BY DEF handleRoundChangeV2
  <1>. HIDE DEF rcs
  <1>5. (\E rs : LocalStep(v, rs))
           /\ (sentPreprepare \subseteq {q \in Preprepare : q.src \in Honest})'
    <2>1. ASSUME NEW r \in Rounds, r >= current[v].desiredRound,
                 startNewRound(v, rcs, r), UNCHANGED sentRoundChange
          PROVE  (\E rs : LocalStep(v, rs))
                   /\ (sentPreprepare \subseteq {q \in Preprepare : q.src \in Honest})'
      BY <1>3, <1>4, <2>1, StartRoundStep, Zenon
    <2>2. ASSUME NEW r \in Rounds, waitForDesiredRound(v, current[v], r),
                 UNCHANGED sentPreprepare
          PROVE  (\E rs : LocalStep(v, rs))
                   /\ (sentPreprepare \subseteq {q \in Preprepare : q.src \in Honest})'
      <3>1. \E rs : LocalStep(v, rs)
        BY <1>4, <2>2, CurrentGood, WaitStep, Zenon
      <3>. QED  BY <2>2, <3>1, CurrentGood, Zenon DEF OtherTypes
    <2>3. CASE UNCHANGED <<current, rsdb, sentRoundChange, sentPreprepare>>
      <3>1. LocalStep(v, current[v])
        BY <1>4, <2>3, CurrentGood, Zenon DEF LocalStep, Reaches
      <3>. QED  BY <2>3, <3>1, CurrentGood, Zenon DEF OtherTypes
    <2>. QED  BY <1>4, <2>1, <2>2, <2>3, Zenon
  <1>6. OtherTypes'
    BY <1>3, <1>4, <1>5, CurrentGood, Zenon DEF OtherTypes
  <1>. QED  BY <1>5, <1>6

\* So is handleTimeoutAndMoveToNextRound.
LEMMA TimeoutStep ==
    ASSUME IInv, NEW v \in Honest, handleTimeoutAndMoveToNextRound(v)
    PROVE  (\E rs : LocalStep(v, rs)) /\ OtherTypes'
  <1>1. current[v].desiredRound + 1 \in Rounds
    <2>1. current[v].desiredRound \in Rounds
      BY CurrentGood, RoundStateNumbers, Zenon
    <2>2. current[v].desiredRound < LastRound
      BY Zenon DEF handleTimeoutAndMoveToNextRound
    <2>. QED  BY <2>1, <2>2, BoundsAssumption DEF Rounds
  <1>2. \E rs : LocalStep(v, rs)
    BY <1>1, CurrentGood, WaitStep, Zenon DEF handleTimeoutAndMoveToNextRound
  <1>. QED  BY <1>2, CurrentGood, Zenon DEF handleTimeoutAndMoveToNextRound, OtherTypes

\* So is handleResendRoundChangeEvent.
LEMMA ResendStep ==
    ASSUME IInv, NEW v \in Honest, handleResendRoundChangeEvent(v)
    PROVE  (\E rs : LocalStep(v, rs)) /\ OtherTypes'
  <1>1. LocalStep(v, current[v])
    BY CurrentGood, Zenon DEF handleResendRoundChangeEvent, LocalStep, Reaches, Multicast
  <1>. QED  BY <1>1, CurrentGood, Zenon DEF handleResendRoundChangeEvent, OtherTypes

\* So is the insertion of a block from peers.
LEMMA SyncStep ==
    ASSUME IInv, NEW v \in Honest, NEW r \in Rounds, NEW p \in Proposals,
           insertSyncedBlock(v, r, p)
    PROVE  (\E rs : LocalStep(v, rs)) /\ OtherTypes'
  <1>1. head \in [Honest -> Proposals \cup {NoBlock}]
    BY CurrentGood, Zenon DEF OtherTypes
  <1>2. CommittedHeads
    <2>. SUFFICES ASSUME NEW w \in Honest, head'[w] # NoBlock
                  PROVE  \E q \in Rounds : Cardinality(Committers(q, head'[w])) >= Quorum
      BY Zenon DEF CommittedHeads
    <2>1. head'[w] = head[w] \/ head'[w] = p
      BY <1>1, Zenon DEF insertSyncedBlock
    <2>. QED  BY <2>1, Zenon DEF insertSyncedBlock, IInv, Safe, HeadsCommitted
  <1>3. LocalStep(v, current[v])
    BY <1>2, CurrentGood, Zenon DEF insertSyncedBlock, LocalStep, Reaches
  <1>. QED  BY <1>3, CurrentGood, Zenon DEF insertSyncedBlock, OtherTypes

\* handleFinalCommitted leaves the sequence.
LEMMA FinalCommittedStep ==
    ASSUME IInv, NEW v \in Honest, handleFinalCommitted(v)
    PROVE  LeaveStep(v) /\ OtherTypes'
  BY CurrentGood, Zenon DEF handleFinalCommitted, startNewSequence, LeaveStep, OtherTypes

\* Whatever a crash leaves on disk is a state the handlers could have
\* reached, and claims no vote that was not signed.
LEMMA SavedGood ==
    ASSUME IInv, NEW v \in Honest, NEW saved \in savedBeforeCrash(v)
    PROVE  Reaches(current[v], saved) /\ Backed(saved)
  <1>. DEFINE rs == rsdb[v]
              voted == {AddPrepare(rs, s) : s \in {s \in Validators :
                           SignedPrepare(s, rs.round, rs.preprepare)}}
                       \cup
                       {AddCommit(rs, s) : s \in {s \in Validators :
                           SignedCommit(s, rs.round, rs.preprepare)}}
  <1>1. /\ rs = current[v] /\ rs \in RoundState /\ WellFormed(rs) /\ Backed(rs)
        /\ Reaches(rs, rs)
    BY CurrentGood, Zenon
  <1>2. CASE saved = rs
    BY <1>1, <1>2, Zenon
  <1>3. CASE acceptsVote(rs, rs.round) /\ saved # rs
    <2>1. /\ rs.preprepare # NoBlock
          /\ rs.state \in {StatePreprepared, StatePrepared, StateCommitted}
      BY <1>1, <1>3, AcceptedVote, Zenon
    <2>2. ASSUME NEW x \in voted
          PROVE  Reaches(rs, x) /\ Backed(x) /\ x.state = rs.state
      <3>1. ASSUME NEW s \in Validators, SignedPrepare(s, rs.round, rs.preprepare),
                   x = AddPrepare(rs, s)
            PROVE  Reaches(rs, x) /\ Backed(x) /\ x.state = rs.state
        <4>1. Reaches(rs, x) /\ Backed(x)
          BY <1>1, <2>1, <3>1, AddVoteReaches, AddPrepareBacked, Zenon
        <4>2. x.state = rs.state
          BY <1>1, <3>1, Zenon DEF AddPrepare, RoundState
        <4>. QED  BY <4>1, <4>2, Zenon
      <3>2. ASSUME NEW s \in Validators, SignedCommit(s, rs.round, rs.preprepare),
                   x = AddCommit(rs, s)
            PROVE  Reaches(rs, x) /\ Backed(x) /\ x.state = rs.state
        <4>1. Reaches(rs, x) /\ Backed(x)
          BY <1>1, <2>1, <3>2, AddVoteReaches, AddCommitBacked, Zenon
        <4>2. x.state = rs.state
          BY <1>1, <3>2, Zenon DEF AddCommit, RoundState
        <4>. QED  BY <4>1, <4>2
      <3>. QED  BY <3>1, <3>2, Zenon
    <2>3. saved \in voted \/ \E x \in voted : /\ becomesCommitted(x)
                                              /\ saved = TransitionToCommitted(x)
      BY <1>3, Zenon DEF savedBeforeCrash
    <2>. HIDE DEF voted, rs
    <2>4. CASE saved \in voted
      BY <1>1, <2>2, <2>4, Zenon
    <2>5. ASSUME NEW x \in voted, becomesCommitted(x), saved = TransitionToCommitted(x)
          PROVE  Reaches(rs, saved) /\ Backed(saved)
      <3>1. x \in RoundState /\ WellFormed(x) /\ Backed(x) /\ Reaches(rs, x)
        BY <2>2, <2>5, Zenon DEF Reaches, Progress
      <3>2. x.state \in {StatePreprepared, StatePrepared}
        BY <2>1, <2>2, <2>5 DEF becomesCommitted, StatePreprepared, StatePrepared,
           StateCommitted
      <3>3. Reaches(x, saved) /\ Backed(saved)
        BY <2>5, <3>1, <3>2, CommittedReaches, CommittedBacked, Zenon
      <3>. QED  BY <1>1, <3>1, <3>3, ReachesTransitive, Zenon
    <2>. QED  BY <1>1, <2>3, <2>4, <2>5, Zenon
  <1>. QED  BY <1>2, <1>3, Zenon DEF savedBeforeCrash

\* A restart goes on from what was saved, or leaves the sequence.
LEMMA RestartStep ==
    ASSUME IInv, NEW v \in Honest, Restart(v)
    PROVE  ((\E rs : LocalStep(v, rs)) \/ LeaveStep(v)) /\ OtherTypes'
  <1>1. PICK saved \in savedBeforeCrash(v) :
           /\ Save(v, IF head[v] = NoBlock THEN saved ELSE newRoundState)
           /\ final' = [final EXCEPT ![v] = head[v] # NoBlock]
    BY Zenon DEF Restart
  <1>2. UNCHANGED <<head, sentPreprepare, sentPrepare, sentCommit, sentRoundChange>>
    BY Zenon DEF Restart
  <1>3. OtherTypes'
    <2>1. crashes' \in 0 .. MaxCrashes
      <3>1. crashes \in 0 .. MaxCrashes
        BY CurrentGood, Zenon DEF OtherTypes
      <3>2. crashes < MaxCrashes /\ crashes' = crashes + 1
        BY DEF Restart
      <3>. QED  BY <3>1, <3>2, BoundsAssumption
    <2>. QED  BY <1>2, <2>1, CurrentGood, Zenon DEF Restart, OtherTypes
  <1>4. CASE head[v] # NoBlock
    BY <1>1, <1>2, <1>3, <1>4, Zenon DEF LeaveStep
  <1>5. CASE head[v] = NoBlock
    <2>1. final' = final
      BY <1>1, <1>5, Zenon DEF Restart, running, IInv, TypeOK
    <2>2. Reaches(current[v], saved) /\ Backed(saved)
      BY SavedGood, Zenon
    <2>3. LocalStep(v, saved)
      BY <1>1, <1>2, <1>5, <2>1, <2>2, CurrentGood, Zenon DEF LocalStep, Reaches
    <2>. QED  BY <1>3, <2>3
  <1>. QED  BY <1>4, <1>5, Zenon

-----------------------------------------------------------------------------
(***************************************************************************)
(* The invariant and what follows from it.                                 *)
(***************************************************************************)

\* Every step of the specification is a LocalStep or a LeaveStep of one
\* validator that has not left the sequence.
LEMMA EventStep ==
    ASSUME IInv, NEW v \in Honest, handleEvents(v, preprepares)
    PROVE  /\ ~final[v]
           /\ (\E rs : LocalStep(v, rs)) \/ LeaveStep(v)
           /\ OtherTypes'
  <1>2. ~final[v]
    BY Zenon DEF handleEvents, handleRequest, handlePreprepareV2, handlePrepare,
       handleCommit, handleOldRoundChange, handleRoundChangeV2,
       handleTimeoutAndMoveToNextRound, handleResendRoundChangeEvent,
       insertSyncedBlock, handleFinalCommitted, Restart, running
  <1>. DEFINE P == ((\E rs : LocalStep(v, rs)) \/ LeaveStep(v)) /\ OtherTypes'
  <1>3. ASSUME NEW p \in Proposals, handleRequest(v, p) PROVE P
    BY <1>3, RequestStep
  <1>4. ASSUME NEW m \in sentPreprepare \cup FaultyPreprepares,
               NEW verified \in BOOLEAN, handlePreprepareV2(v, m, verified)
        PROVE  P
    BY <1>4, PreprepareStep, Zenon
  <1>5. ASSUME NEW s \in Validators, NEW r \in Rounds, NEW p \in Proposals,
               handlePrepare(v, s, r, p)
        PROVE  P
    BY <1>5, PrepareStep, Zenon
  <1>6. ASSUME NEW s \in Validators, NEW r \in Rounds, NEW p \in Proposals,
               NEW inserted \in BOOLEAN, handleCommit(v, s, r, p, inserted)
        PROVE  P
    BY <1>6, CommitStep, Zenon
  <1>7. ASSUME NEW m \in sentRoundChange \cup FaultyRoundChanges,
               handleOldRoundChange(v, m) \/ handleRoundChangeV2(v, m)
        PROVE  P
    BY <1>7, OldRoundChangeStep, RoundChangeStep, Zenon
  <1>8. CASE handleTimeoutAndMoveToNextRound(v)
    BY <1>2, <1>8, TimeoutStep, Zenon
  <1>9. CASE handleResendRoundChangeEvent(v)
    BY <1>2, <1>9, ResendStep, Zenon
  <1>10. ASSUME NEW r \in Rounds, NEW p \in Proposals, insertSyncedBlock(v, r, p)
         PROVE  P
    BY <1>10, SyncStep, Zenon
  <1>11. CASE handleFinalCommitted(v)
    BY <1>2, <1>11, FinalCommittedStep, Zenon
  <1>12. CASE Restart(v)
    BY <1>2, <1>12, RestartStep, Zenon
  <1>. QED
    BY <1>2, <1>3, <1>4, <1>5, <1>6, <1>7, <1>8, <1>9, <1>10, <1>11, <1>12, Zenon
       DEF handleEvents, preprepares

\* The invariant holds in the beginning.
LEMMA InitIInv == Init => IInv
  <1>. SUFFICES ASSUME Init PROVE IInv
    BY Zenon
  <1>1. TypeOK
    <2>1. crashes \in 0 .. MaxCrashes
      BY BoundsAssumption DEF Init
    <2>. QED  BY <2>1, NewRoundStateGood, Zenon DEF Init, TypeOK
  <1>2. RoundStatesGood
    <2>1. Backed(newRoundState)
      BY Zenon DEF Backed, VotesSigned, newRoundState, emptyOrVerified
    <2>. QED  BY <2>1, NewRoundStateGood, Zenon DEF Init, RoundStatesGood
  <1>3. /\ rsdb = current /\ VotesRemembered /\ CommitsRemembered
        /\ OneVotePerRound /\ SentCertificatesVerify /\ HeadsCommitted
    BY Zenon DEF Init, VotesRemembered, CommitsRemembered, OneVotePerRound,
       SentCertificatesVerify, HeadsCommitted
  <1>. QED  BY <1>1, <1>2, <1>3 DEF IInv, Safe

\* The invariant is inductive.
LEMMA NextIInv == IInv /\ [Next]_vars => IInv'
  <1>. SUFFICES ASSUME IInv, [Next]_vars PROVE IInv'
    OBVIOUS
  <1>1. CASE Next
    <2>1. PICK v \in Honest : /\ ~final[v]
                              /\ (\E rs : LocalStep(v, rs)) \/ LeaveStep(v)
                              /\ OtherTypes'
      BY <1>1, EventStep, Zenon DEF Next
    <2>2. ASSUME NEW rs, LocalStep(v, rs) PROVE IInv'
      BY <2>1, <2>2, LocalStepSafe, LocalStepTypes, Zenon DEF IInv
    <2>3. CASE LeaveStep(v)
      BY <2>1, <2>3, LeaveStepSafe, LeaveStepTypes, Zenon DEF IInv
    <2>. QED  BY <2>1, <2>2, <2>3, Zenon
  <1>2. CASE UNCHANGED vars
    <2>1. TypeOK'
      BY <1>2, Zenon DEF vars, IInv, TypeOK
    <2>2. RoundStatesGood' /\ SentCertificatesVerify'
      BY <1>2, Zenon DEF vars, IInv, Safe, RoundStatesGood, SentCertificatesVerify,
         WellFormed, Backed, VotesSigned, emptyOrVerified, verifyPC, Voters,
         SignedPrepare, SignedCommit
    <2>3. /\ (rsdb = current)' /\ VotesRemembered' /\ CommitsRemembered'
          /\ OneVotePerRound'
      BY <1>2, Zenon DEF vars, IInv, Safe, VotesRemembered, CommitsRemembered,
         OneVotePerRound
    <2>4. HeadsCommitted'
      BY <1>2 DEF vars, IInv, Safe, HeadsCommitted, Committers, SignedCommit
    <2>. QED  BY <2>1, <2>2, <2>3, <2>4, Zenon DEF IInv, Safe
  <1>. QED  BY <1>1, <1>2

\* The invariant is inductive: it holds in every reachable state.
THEOREM InductiveInvariant == Spec => []IInv
  BY InitIInv, NextIInv, PTL DEF Spec

\* The state of the core keeps its types, whatever the messages and crashes.
THEOREM TypeCorrectness == Spec => []TypeOK
  BY InductiveInvariant, PTL DEF IInv

\* The panic of checkMessage is unreachable.
THEOREM RoundNeverPassesDesired == Spec => []RoundBehindDesired
  <1>1. IInv => RoundBehindDesired
    BY DEF IInv, Safe, RoundStatesGood, WellFormed, RoundBehindDesired
  <1>. QED  BY <1>1, InductiveInvariant, PTL

\* No honest validator ever votes for two blocks in a round, over crashes.
THEOREM NoDoubleVote == Spec => []OneVotePerRound
  BY InductiveInvariant, PTL DEF IInv, Safe

\* A validator that sent a commit reports a certificate at least as recent
\* in every round change it sends later.
THEOREM CommitIsRemembered == Spec => []CommitKeepsCertificate
  <1>1. IInv => CommitKeepsCertificate
    <2>. SUFFICES ASSUME IInv, NEW m \in sentCommit, ~final[m.src]
                  PROVE  /\ current[m.src].preparedCertificate.round >= m.round
                         /\ rsdb[m.src].preparedCertificate.round >= m.round
      BY DEF CommitKeepsCertificate
    <2>1. m.src \in Honest /\ m.round \in Int
      BY SentVoteTypes, Zenon DEF IInv
    <2>. QED  BY <2>1, CurrentGood, RoundStateNumbers, Zenon DEF IInv, Safe, CommitsRemembered
  <1>. QED  BY <1>1, InductiveInvariant, PTL

\* The certificates honest validators send always verify.
THEOREM SentCertificatesAreValid == Spec => []CertificatesVerify
  <1>1. IInv => CertificatesVerify
    BY Zenon DEF IInv, Safe, RoundStatesGood, Backed, SentCertificatesVerify,
       CertificatesVerify
  <1>. QED  BY <1>1, InductiveInvariant, PTL

\* An honest validator that voted for p and for q in one round: p = q.
LEMMA SameVoter ==
    ASSUME IInv, NEW s \in Honest, NEW r, NEW p, NEW q,
           SignedPrepare(s, r, p) \/ SignedCommit(s, r, p),
           SignedPrepare(s, r, q) \/ SignedCommit(s, r, q)
    PROVE  p = q
  <1>1. /\ [src |-> s, round |-> r, digest |-> p] \in sentPrepare \cup sentCommit
        /\ [src |-> s, round |-> r, digest |-> q] \in sentPrepare \cup sentCommit
    BY Zenon DEF SignedPrepare, SignedCommit, Honest
  <1>. QED  BY <1>1, Zenon DEF IInv, Safe, OneVotePerRound

\* By quorum intersection, the prepared certificates of a round that verify
\* are for one proposal, whatever up to F faulty validators sign.
THEOREM CertificatesAgree == Spec => []PreparedCertificatesAgree
  <1>1. IInv => PreparedCertificatesAgree
    <2>. SUFFICES ASSUME IInv, NEW r \in Rounds, NEW p \in Proposals, NEW q \in Proposals,
                         verifyPC([round |-> r, proposal |-> p]),
                         verifyPC([round |-> r, proposal |-> q])
                  PROVE  p = q
      BY Zenon DEF PreparedCertificatesAgree
    <2>1. /\ Cardinality(Voters(r, p)) >= Quorum /\ Voters(r, p) \in SUBSET Validators
          /\ Cardinality(Voters(r, q)) >= Quorum /\ Voters(r, q) \in SUBSET Validators
      BY Zenon DEF verifyPC, Voters
    <2>2. PICK s \in Honest : s \in Voters(r, p) /\ s \in Voters(r, q)
      BY <2>1, QuorumIntersection
    <2>. QED  BY <2>2, SameVoter, Zenon DEF Voters
  <1>. QED  BY <1>1, InductiveInvariant, PTL

\* Neither a message nor a timeout nor a crash takes a validator back to an
\* earlier round or an older certificate.
THEOREM ViewIsMonotonic == Spec => ViewNeverRegresses
  <1>. DEFINE Forward == \A v \in Honest : ~final'[v] =>
          /\ current'[v].round >= current[v].round
          /\ current'[v].desiredRound >= current[v].desiredRound
          /\ current'[v].preparedCertificate.round
                >= current[v].preparedCertificate.round
  <1>1. IInv /\ [Next]_vars => [Forward]_vars
    <2>. SUFFICES ASSUME IInv, Next PROVE Forward
      BY Zenon DEF vars
    <2>1. PICK v \in Honest : /\ ~final[v]
                              /\ (\E rs : LocalStep(v, rs)) \/ LeaveStep(v)
      BY EventStep, Zenon DEF Next
    <2>2. /\ current \in [Honest -> RoundState] /\ final \in [Honest -> BOOLEAN]
          /\ \A w \in Honest : current[w] \in RoundState
      BY Zenon DEF IInv, TypeOK
    <2>3. ASSUME NEW rs, LocalStep(v, rs) PROVE Forward
      <3>1. /\ rs \in RoundState /\ Advances(current[v], rs)
            /\ current'[v] = rs
            /\ \A w \in Honest : w # v => current'[w] = current[w]
        BY <2>2, <2>3, Zenon DEF LocalStep, Progress, Save
      <3>. QED  BY <2>2, <3>1, RoundStateNumbers DEF Advances
    <2>4. CASE LeaveStep(v)
      <3>1. /\ final'[v] = TRUE
            /\ \A w \in Honest : w # v => current'[w] = current[w]
        BY <2>2, <2>4 DEF LeaveStep, Save
      <3>. QED  BY <2>2, <3>1, RoundStateNumbers
    <2>. QED  BY <2>1, <2>3, <2>4, Zenon
  <1>. QED  BY <1>1, InductiveInvariant, PTL DEF Spec, ViewNeverRegresses

=============================================================================
