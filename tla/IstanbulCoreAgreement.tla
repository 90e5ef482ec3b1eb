----------------------- MODULE IstanbulCoreAgreement ------------------------
(***************************************************************************)
(* What the votes of IstanbulCore choose: one block in each round, and one *)
(* block altogether where the rule of the highest prepared certificate is  *)
(* kept.  The argument is by induction over time: when a validator votes   *)
(* for q in round r, no other block can be committed any more in a round   *)
(* before r.                                                               *)
(***************************************************************************)
EXTENDS IstanbulCoreProofs, FunctionTheorems

\* s has voted for q in round r, or has left the round without a commit.
Locked(s, r, q) ==
    \/ SignedPrepare(s, r, q) \/ SignedCommit(s, r, q)
    \/ /\ final[s] \/ current[s].desiredRound > r
       /\ \A m \in sentCommit : ~(m.src = s /\ m.round = r)

\* In no round before r will a quorum commit a block other than q.
SafeAt(r, q) ==
    \A k \in Rounds : k < r =>
        \E Q \in SUBSET Validators :
            Cardinality(Q) >= Quorum /\ \A s \in Q \cap Honest : Locked(s, k, q)

\* A request for a round binds its sender: it has left the rounds before,
\* and what it committed there is in the certificate, or older than it.
RequestsBinding ==
    \A m \in sentRoundChange :
        /\ final[m.req.src] \/ current[m.req.src].desiredRound >= m.req.round
        /\ \A c \in sentCommit :
              c.src = m.req.src /\ c.round < m.req.round => c.round <= m.req.pc.round

VotesSafe == \A m \in sentPrepare \cup sentCommit : SafeAt(m.round, m.digest)

ProposalsSafe ==
    \A v \in Honest : current[v].preprepare # NoBlock =>
        SafeAt(current[v].round, current[v].preprepare)

AInv == IInv /\ RequestsBinding /\ VotesSafe /\ ProposalsSafe

-----------------------------------------------------------------------------
(***************************************************************************)
(* Once locked, always locked.                                             *)
(***************************************************************************)
\* What a step of v changes, for the lemmas below.
LEMMA LocalStepFacts ==
    ASSUME IInv, NEW v \in Honest, NEW rs, LocalStep(v, rs)
    PROVE  /\ rs \in RoundState /\ WellFormed(rs) /\ Advances(current[v], rs)
           /\ rs.round \in Int /\ rs.desiredRound \in Int
           /\ current'[v] = rs
           /\ \A w \in Honest : w # v => current'[w] = current[w]
           /\ \A w \in Honest : current[w].desiredRound \in Int
           /\ final' = final
           /\ sentPrepare \subseteq sentPrepare' /\ sentCommit \subseteq sentCommit'
           /\ \A c \in sentCommit' : c \in sentCommit \/
                 (c = voteOf(v, rs) /\ rs.round = rs.desiredRound)
  <1>1. /\ rs \in RoundState /\ WellFormed(rs) /\ Advances(current[v], rs)
        /\ current'[v] = rs
        /\ \A w \in Honest : w # v => current'[w] = current[w]
    BY DEF IInv, TypeOK, LocalStep, Progress, Save
  <1>2. \A w \in Honest : current[w].desiredRound \in Int
    BY RoundStateNumbers DEF IInv, TypeOK
  <1>3. rs.round \in Int /\ rs.desiredRound \in Int
    BY <1>1, RoundStateNumbers
  <1>4. rs.state = StatePrepared => rs.round = rs.desiredRound
    BY <1>1, <1>3 DEF WellFormed, StatePrepared, StateWaitingForNewRound
  <1>. QED  BY <1>1, <1>2, <1>3, <1>4, Zenon DEF LocalStep

\* Who has voted for q in a round, or left it without a commit, stays so.
LEMMA LockedKept ==
    ASSUME IInv, NEW v \in Honest, ~final[v],
           (\E rs : LocalStep(v, rs)) \/ LeaveStep(v),
           NEW s \in Honest, NEW r \in Rounds, NEW q, Locked(s, r, q)
    PROVE  Locked(s, r, q)'
  <1>1. r \in Int
    BY BoundsAssumption DEF Rounds
  <1>2. ASSUME NEW rs, LocalStep(v, rs)
        PROVE  Locked(s, r, q)'
    <2>1. CASE SignedPrepare(s, r, q) \/ SignedCommit(s, r, q)
      BY <1>2, <2>1, LocalStepFacts, Zenon DEF Locked, SignedPrepare, SignedCommit
    <2>2. CASE /\ final[s] \/ current[s].desiredRound > r
               /\ \A m \in sentCommit : ~(m.src = s /\ m.round = r)
      <3>1. final'[s] \/ current'[s].desiredRound > r
        <4>1. CASE s = v
          BY <1>1, <1>2, <2>2, <4>1, LocalStepFacts DEF Advances
        <4>2. CASE s # v
          BY <1>2, <2>2, <4>2, LocalStepFacts, Zenon
        <4>. QED  BY <4>1, <4>2, Zenon
      <3>2. ASSUME NEW m \in sentCommit', m.src = s, m.round = r
            PROVE  FALSE
        <4>1. /\ m = voteOf(v, rs) /\ rs.round = rs.desiredRound
          BY <1>2, <2>2, <3>2, LocalStepFacts, Zenon
        <4>2. s = v /\ r = rs.round
          BY <3>2, <4>1, Zenon DEF voteOf
        <4>. QED  BY <1>1, <1>2, <2>2, <4>1, <4>2, LocalStepFacts DEF Advances
      <3>. QED  BY <3>1, <3>2, Zenon DEF Locked
    <2>. QED  BY <2>1, <2>2, Zenon DEF Locked
  <1>3. CASE LeaveStep(v)
    <2>1. /\ UNCHANGED <<sentPrepare, sentCommit>>
          /\ final'[v] = TRUE
          /\ \A w \in Honest : w # v => final'[w] = final[w] /\ current'[w] = current[w]
      BY <1>3 DEF LeaveStep, Save, IInv, TypeOK
    <2>. QED  BY <2>1, Zenon DEF Locked, SignedPrepare, SignedCommit
  <1>. QED  BY <1>2, <1>3

\* So a safe vote stays safe.
LEMMA SafeKept ==
    ASSUME IInv, NEW v \in Honest, ~final[v],
           (\E rs : LocalStep(v, rs)) \/ LeaveStep(v),
           NEW r, NEW q, SafeAt(r, q)
    PROVE  SafeAt(r, q)'
  <1>. SUFFICES ASSUME NEW k \in Rounds, k < r
                PROVE  \E Q \in SUBSET Validators :
                          /\ Cardinality(Q) >= Quorum
                          /\ \A s \in Q \cap Honest : Locked(s, k, q)'
    BY DEF SafeAt
  <1>1. PICK Q \in SUBSET Validators :
          Cardinality(Q) >= Quorum /\ \A s \in Q \cap Honest : Locked(s, k, q)
    BY DEF SafeAt
  <1>2. \A s \in Q \cap Honest : Locked(s, k, q)'
    BY <1>1, LockedKept, Zenon
  <1>. QED  BY <1>1, <1>2, Zenon

-----------------------------------------------------------------------------
(***************************************************************************)
(* A preprepare that keeps the rule is for a safe block.                   *)
(***************************************************************************)

\* The senders of a round change certificate are a quorum.
LEMMA CertificateQuorum ==
    ASSUME NEW m \in Preprepare, validRoundChangeCertificate(m)
    PROVE  /\ {q.src : q \in m.rcc} \in SUBSET Validators
           /\ Cardinality({q.src : q \in m.rcc}) >= Quorum
  <1>. DEFINE S == {q.src : q \in m.rcc}
              f == [q \in m.rcc |-> q.src]
  <1>1. m.rcc \in SUBSET RoundChangeRequest
    BY DEF Preprepare
  <1>2. S \in SUBSET Validators
    BY <1>1, Zenon DEF RoundChangeRequest
  <1>3. IsFiniteSet(S)
    BY <1>2, ConstantTypes, FS_Subset, Zenon
  <1>4. \A q, q2 \in m.rcc : q.src = q2.src => q = q2
    BY DEF validRoundChangeCertificate
  <1>5. f \in Bijection(m.rcc, S)
    BY <1>4 DEF Bijection, Injection, Surjection, IsInjective
  <1>6. ExistsBijection(m.rcc, S)
    BY <1>5 DEF ExistsBijection
  <1>7. ExistsBijection(S, m.rcc)
    BY <1>6, Fun_ExistsBijSymmetric, Zenon
  <1>8. Cardinality(m.rcc) = Cardinality(S)
    BY <1>3, <1>7, FS_Bijection, Zenon
  <1>. QED  BY <1>2, <1>8, Zenon DEF validRoundChangeCertificate

\* The fields of a round change request.
LEMMA RequestNumbers ==
    ASSUME NEW q \in RoundChangeRequest
    PROVE  q.round \in Int /\ q.pc.round \in Int /\ q.src \in Validators
  <1>1. q.round \in Int /\ q.src \in Validators
    BY BoundsAssumption DEF RoundChangeRequest, Rounds
  <1>2. CASE q.pc \in PreparedCertificate
    BY <1>1, <1>2, BoundsAssumption DEF PreparedCertificate, Rounds
  <1>3. CASE q.pc = EmptyPreparedCertificate
    BY <1>1, <1>3 DEF EmptyPreparedCertificate
  <1>. QED  BY <1>2, <1>3, Zenon DEF RoundChangeRequest

\* An honest validator of a round change certificate for round r, in which
\* no certificate is from round k or later, has left k without a commit.
LEMMA RequestLocks ==
    ASSUME AInv, NEW r \in Rounds, NEW k \in Rounds, k < r,
           NEW q \in RoundChangeRequest, q.src \in Honest, SignedRoundChange(q),
           q.round >= r, q.pc.round < k, NEW p
    PROVE  Locked(q.src, k, p)
  <1>1. PICK m \in sentRoundChange : m.req = q
    BY DEF SignedRoundChange, Honest
  <1>2. /\ r \in Int /\ k \in Int /\ q.round \in Int /\ q.pc.round \in Int
    BY BoundsAssumption, RequestNumbers DEF Rounds
  <1>3. final[q.src] \/ current[q.src].desiredRound >= q.round
    BY <1>1, Zenon DEF AInv, RequestsBinding
  <1>4. current[q.src].desiredRound \in Int
    BY RoundStateNumbers DEF AInv, IInv, TypeOK
  <1>5. ASSUME NEW c \in sentCommit, c.src = q.src, c.round = k
        PROVE  FALSE
    <2>1. c.round < q.round => c.round <= q.pc.round
      BY <1>1, <1>5, Zenon DEF AInv, RequestsBinding
    <2>. QED  BY <1>2, <1>5, <2>1
  <1>. QED  BY <1>2, <1>3, <1>4, <1>5 DEF Locked

\* A verified certificate: its voters are locked in its round, and the
\* rounds before are safe.
LEMMA VerifiedLocks ==
    ASSUME AInv, NEW pc \in PreparedCertificate, verifyPC(pc)
    PROVE  /\ SafeAt(pc.round, pc.proposal)
           /\ Voters(pc.round, pc.proposal) \in SUBSET Validators
           /\ Cardinality(Voters(pc.round, pc.proposal)) >= Quorum
           /\ \A s \in Voters(pc.round, pc.proposal) : Locked(s, pc.round, pc.proposal)
  <1>1. /\ Voters(pc.round, pc.proposal) \in SUBSET Validators
        /\ Cardinality(Voters(pc.round, pc.proposal)) >= Quorum
        /\ \A s \in Voters(pc.round, pc.proposal) : Locked(s, pc.round, pc.proposal)
    BY DEF verifyPC, Voters, Locked
  <1>2. PICK s \in Honest : s \in Voters(pc.round, pc.proposal)
    BY <1>1, QuorumIntersection, Zenon
  <1>3. [src |-> s, round |-> pc.round, digest |-> pc.proposal]
           \in sentPrepare \cup sentCommit
    BY <1>2 DEF Voters, SignedPrepare, SignedCommit, Honest
  <1>4. SafeAt(pc.round, pc.proposal)
    BY <1>3, Zenon DEF AInv, VotesSafe
  <1>. QED  BY <1>1, <1>4, Zenon

\* What the rule lets a validator accept is safe: the argument over the highest
\* certificate.
LEMMA AcceptedSafe ==
    ASSUME AInv, NEW m \in Preprepare, proposesHighestPrepared(m),
           m.round > 0 => validRoundChangeCertificate(m)
    PROVE  SafeAt(m.round, m.proposal)
  <1>. SUFFICES ASSUME NEW k \in Rounds, k < m.round
                PROVE  \E Q \in SUBSET Validators :
                          /\ Cardinality(Q) >= Quorum
                          /\ \A s \in Q \cap Honest : Locked(s, k, m.proposal)
    BY DEF SafeAt
  <1>1. /\ m.round \in Rounds /\ k \in Int /\ m.round \in Int /\ k >= 0
        /\ m.rcc \in SUBSET RoundChangeRequest
    BY BoundsAssumption DEF Preprepare, Rounds
  <1>2. validRoundChangeCertificate(m)
    BY <1>1
  <1>3. CASE \A q \in m.rcc : q.pc.round < k
    <2>. DEFINE Q == {q.src : q \in m.rcc}
    <2>1. Q \in SUBSET Validators /\ Cardinality(Q) >= Quorum
      BY <1>2, CertificateQuorum, Zenon
    <2>2. ASSUME NEW s \in Q \cap Honest
          PROVE  Locked(s, k, m.proposal)
      <3>1. PICK q \in m.rcc : q.src = s
        BY Zenon
      <3>2. SignedRoundChange(q) /\ q.round >= m.round /\ q \in RoundChangeRequest
        BY <1>1, <1>2, Zenon DEF validRoundChangeCertificate
      <3>. QED  BY <1>1, <1>3, <3>1, <3>2, RequestLocks, Zenon
    <2>. QED  BY <2>1, <2>2, Zenon
  <1>4. ASSUME NEW q \in m.rcc, ~(q.pc.round < k)
        PROVE  \E Q \in SUBSET Validators :
                  /\ Cardinality(Q) >= Quorum
                  /\ \A s \in Q \cap Honest : Locked(s, k, m.proposal)
    <2>1. q \in RoundChangeRequest /\ q.pc.round \in Int
      BY <1>1, RequestNumbers, Zenon
    <2>2. q.pc # EmptyPreparedCertificate
      BY <1>1, <1>4 DEF EmptyPreparedCertificate
    <2>3. PICK q2 \in m.rcc : /\ q2.pc.proposal = m.proposal
                              /\ verifyPC(q2.pc)
                              /\ q2.pc.round >= q.pc.round
      BY <2>2, Zenon DEF proposesHighestPrepared
    <2>4. q2 \in RoundChangeRequest /\ q2.pc.round \in Int
      BY <1>1, RequestNumbers, Zenon
    <2>5. q2.pc # EmptyPreparedCertificate
      BY <1>1, <1>4, <2>1, <2>3 DEF EmptyPreparedCertificate
    <2>6. q2.pc \in PreparedCertificate
      BY <2>4, <2>5, Zenon DEF RoundChangeRequest
    <2>7. CASE k = q2.pc.round
      BY <2>3, <2>6, <2>7, VerifiedLocks, Zenon
    <2>8. CASE k < q2.pc.round
      <3>1. SafeAt(q2.pc.round, m.proposal)
        BY <2>3, <2>6, VerifiedLocks, Zenon
      <3>. QED  BY <2>8, <3>1, Zenon DEF SafeAt
    <2>. QED  BY <1>1, <1>4, <2>1, <2>3, <2>4, <2>7, <2>8
  <1>. QED  BY <1>3, <1>4, Zenon

-----------------------------------------------------------------------------
(***************************************************************************)
(* The invariant of the rule.                                              *)
(***************************************************************************)
LEMMA StepAInv ==
    ASSUME AInv, IInv', NEW v \in Honest, ~final[v],
           (\E rs : LocalStep(v, rs)) \/ LeaveStep(v),
           \A m \in sentPrepare' \ sentPrepare : SafeAt(m.round, m.digest)
    PROVE  AInv'
  <1>. USE DEF AInv
  <1>1. ASSUME NEW rs, LocalStep(v, rs)
        PROVE  RequestsBinding' /\ VotesSafe' /\ ProposalsSafe'
    <2>1. rs.preprepare # NoBlock => SafeAt(rs.round, rs.preprepare)
      <3>1. CASE SameProposal(current[v], rs)
        BY <3>1, Zenon DEF SameProposal, ProposalsSafe
      <3>2. CASE sentPrepare' = sentPrepare \cup {voteOf(v, rs)}
        <4>1. SafeAt(voteOf(v, rs).round, voteOf(v, rs).digest)
          BY <3>2, Zenon DEF VotesSafe
        <4>. QED  BY <4>1 DEF voteOf
      <3>. QED  BY <1>1, <3>1, <3>2, Zenon DEF LocalStep
    <2>2. VotesSafe'
      <3>. SUFFICES ASSUME NEW m \in (sentPrepare \cup sentCommit)'
                    PROVE  SafeAt(m.round, m.digest)'
        BY Zenon DEF VotesSafe
      <3>1. SafeAt(m.round, m.digest)
        <4>1. CASE m \in sentPrepare \cup sentCommit
          BY <4>1, Zenon DEF VotesSafe
        <4>2. CASE m = voteOf(v, rs) /\ rs.preprepare # NoBlock
          BY <2>1, <4>2, Zenon DEF voteOf
        <4>. QED  BY <1>1, <4>1, <4>2, Zenon DEF LocalStep
      <3>. QED  BY <1>1, <3>1, SafeKept, Zenon
    <2>3. ProposalsSafe'
      <3>. SUFFICES ASSUME NEW w \in Honest, current'[w].preprepare # NoBlock
                    PROVE  SafeAt(current[w].round, current[w].preprepare)'
        BY Zenon DEF ProposalsSafe
      <3>1. PICK r, q : r = current'[w].round /\ q = current'[w].preprepare
        BY Zenon
      <3>2. SafeAt(r, q)
        BY <1>1, <2>1, <3>1, LocalStepFacts DEF ProposalsSafe
      <3>3. SafeAt(r, q)'
        BY <1>1, <3>2, SafeKept, Zenon
      <3>. QED  BY <3>1, <3>3, Zenon DEF SafeAt, Locked, SignedPrepare, SignedCommit
    <2>4. RequestsBinding'
      <3>. SUFFICES ASSUME NEW m \in sentRoundChange'
                    PROVE  /\ final'[m.req.src] \/
                              current'[m.req.src].desiredRound >= m.req.round
                           /\ \A c \in sentCommit' :
                                c.src = m.req.src /\ c.round < m.req.round =>
                                    c.round <= m.req.pc.round
        BY Zenon DEF RequestsBinding
      <3>1. CASE m \in sentRoundChange
        <4>1. m.req \in RoundChangeRequest /\ m.req.src \in Honest
          BY <3>1, Zenon DEF IInv, TypeOK, RoundChange
        <4>2. m.req.round \in Int /\ m.req.pc.round \in Int
          BY <4>1, RequestNumbers, Zenon
        <4>3. /\ final[m.req.src] \/ current[m.req.src].desiredRound >= m.req.round
              /\ \A c \in sentCommit :
                    c.src = m.req.src /\ c.round < m.req.round =>
                        c.round <= m.req.pc.round
          BY <3>1, Zenon DEF RequestsBinding
        <4>4. final'[m.req.src] \/ current'[m.req.src].desiredRound >= m.req.round
          <5>1. CASE m.req.src = v
            BY <1>1, <4>2, <4>3, <5>1, LocalStepFacts DEF Advances
          <5>2. CASE m.req.src # v
            BY <1>1, <4>1, <4>3, <5>2, LocalStepFacts, Zenon
          <5>. QED  BY <5>1, <5>2, Zenon
        <4>5. ASSUME NEW c \in sentCommit', c.src = m.req.src, c.round < m.req.round
              PROVE  c.round <= m.req.pc.round
          <5>1. CASE c \in sentCommit
            BY <4>3, <4>5, <5>1, Zenon
          <5>2. CASE c = voteOf(v, rs) /\ rs.round = rs.desiredRound
            <6>1. c.src = v /\ c.round = rs.desiredRound
              BY <5>2, Zenon DEF voteOf
            <6>2. /\ rs.desiredRound \in Int /\ current[v].desiredRound \in Int
                  /\ current[v].desiredRound <= rs.desiredRound
              BY <1>1, LocalStepFacts, Zenon DEF Advances
            <6>3. current[v].desiredRound >= m.req.round
              BY <4>3, <4>5, <6>1, Zenon
            <6>. QED  BY <4>2, <4>5, <6>1, <6>2, <6>3
          <5>. QED  BY <1>1, <5>1, <5>2, LocalStepFacts, Zenon
        <4>. QED  BY <4>4, <4>5, Zenon
      <3>2. CASE m \notin sentRoundChange
        <4>1. PICK dst : m = roundChangeMsg(v, rs, dst)
          BY <1>1, <3>2, Zenon DEF LocalStep
        <4>2. /\ m.req.src = v /\ m.req.round = rs.desiredRound
              /\ m.req.pc = rs.preparedCertificate
          BY <4>1, Zenon DEF roundChangeMsg
        <4>3. current'[v] = rs /\ rs.desiredRound \in Int
          BY <1>1, LocalStepFacts, Zenon
        <4>4. ~final'[v]
          BY <1>1, LocalStepFacts, Zenon
        <4>5. \A c \in sentCommit' : c.src = v =>
                 c.round <= rs.preparedCertificate.round
          BY <4>3, <4>4, Zenon DEF IInv, Safe, CommitsRemembered
        <4>. QED  BY <4>2, <4>3, <4>5
      <3>. QED  BY <3>1, <3>2, Zenon
    <2>. QED  BY <2>2, <2>3, <2>4, Zenon
  <1>2. CASE LeaveStep(v)
    <2>1. /\ UNCHANGED <<sentPrepare, sentCommit, sentRoundChange>>
          /\ final'[v] = TRUE /\ current'[v] = newRoundState
          /\ \A w \in Honest : w # v => final'[w] = final[w] /\ current'[w] = current[w]
      BY <1>2, Zenon DEF LeaveStep, Save, IInv, TypeOK
    <2>2. VotesSafe'
      BY <1>2, <2>1, SafeKept, Zenon DEF VotesSafe
    <2>3. ProposalsSafe'
      <3>. SUFFICES ASSUME NEW w \in Honest, current'[w].preprepare # NoBlock
                    PROVE  SafeAt(current[w].round, current[w].preprepare)'
        BY DEF ProposalsSafe
      <3>1. PICK r, q : r = current'[w].round /\ q = current'[w].preprepare
        OBVIOUS
      <3>2. SafeAt(r, q)
        BY <2>1, <3>1 DEF ProposalsSafe, newRoundState
      <3>3. SafeAt(r, q)'
        BY <1>2, <3>2, SafeKept, Zenon
      <3>. QED  BY <3>1, <3>3 DEF SafeAt, Locked, SignedPrepare, SignedCommit
    <2>4. RequestsBinding'
      <3>1. \A m \in sentRoundChange : m.req.src \in Honest
        BY Zenon DEF IInv, TypeOK
      <3>. QED  BY <2>1, <3>1, Zenon DEF RequestsBinding
    <2>. QED  BY <2>2, <2>3, <2>4, Zenon
  <1>. QED  BY <1>1, <1>2, Zenon

\* A step of the specification, with its prepares.
LEMMA RuleStep ==
    ASSUME AInv, NextHighestPrepared
    PROVE  /\ Next
           /\ \E v \in Honest :
                 /\ ~final[v]
                 /\ (\E rs : LocalStep(v, rs)) \/ LeaveStep(v)
                 /\ \A m \in sentPrepare' \ sentPrepare : SafeAt(m.round, m.digest)
  <1>1. PICK v \in Honest :
           handleEvents(v, {m \in preprepares : proposesHighestPrepared(m)})
    BY DEF NextHighestPrepared
  <1>2. handleEvents(v, preprepares)
    BY <1>1, Zenon DEF handleEvents
  <1>3. ~final[v] /\ ((\E rs : LocalStep(v, rs)) \/ LeaveStep(v))
    BY <1>2, EventStep, Zenon DEF AInv
  <1>4. ASSUME NEW m \in preprepares, proposesHighestPrepared(m),
               NEW verified \in BOOLEAN, handlePreprepareV2(v, m, verified),
               NEW x \in sentPrepare' \ sentPrepare
        PROVE  SafeAt(x.round, x.digest)
    <2>1. m \in Preprepare
      BY FaultyAssumption, Zenon DEF preprepares, AInv, IInv, TypeOK
    <2>2. SafeAt(m.round, m.proposal)
      BY <1>4, <2>1, AcceptedSafe, Zenon DEF handlePreprepareV2
    <2>. DEFINE rs1 == IF m.round > current[v].round
                       THEN StartNewRound(current[v], m.round) ELSE current[v]
    <2>3. x = [src |-> v, round |-> rs1.round, digest |-> m.proposal]
      BY <1>4, Zenon DEF handlePreprepareV2
    <2>4. rs1.round = m.round
      <3>1. /\ current[v] \in RoundState /\ WellFormed(current[v])
            /\ m.round = current[v].desiredRound
        BY <1>4, CurrentGood, Zenon DEF AInv, handlePreprepareV2, acceptsPreprepare
      <3>2. /\ current[v].round \in Int /\ current[v].desiredRound \in Int
            /\ current[v].round <= current[v].desiredRound
        BY <3>1, RoundStateNumbers, Zenon DEF WellFormed
      <3>3. StartNewRound(current[v], m.round).round = m.round
        BY <3>1, Zenon DEF StartNewRound, RoundState
      <3>4. CASE m.round > current[v].round
        BY <3>3, <3>4, Zenon
      <3>5. CASE ~(m.round > current[v].round)
        <4>1. current[v].round = m.round
          BY <3>1, <3>2, <3>5
        <4>. QED  BY <3>5, <4>1, Zenon
      <3>. QED  BY <3>4, <3>5, Zenon
    <2>. HIDE DEF rs1
    <2>. QED  BY <2>2, <2>3, <2>4, Zenon
  <1>5. \/ \E m \in preprepares, verified \in BOOLEAN :
              proposesHighestPrepared(m) /\ handlePreprepareV2(v, m, verified)
        \/ sentPrepare' = sentPrepare
    BY <1>1, Zenon DEF handleEvents, handleRequest, handlePrepare, handleCommit,
       handleOldRoundChange, handleRoundChangeV2, handleTimeoutAndMoveToNextRound,
       handleResendRoundChangeEvent, insertSyncedBlock, handleFinalCommitted, Restart
  <1>6. \A x \in sentPrepare' \ sentPrepare : SafeAt(x.round, x.digest)
    BY <1>4, <1>5, Zenon
  <1>. QED  BY <1>2, <1>3, <1>6, Zenon DEF Next

\* The strengthened invariant holds in the beginning.
LEMMA InitAInv == Init => AInv
  <1>. SUFFICES ASSUME Init PROVE AInv
    BY Zenon
  <1>1. VotesSafe /\ RequestsBinding
    BY Zenon DEF Init, VotesSafe, RequestsBinding
  <1>2. \A v \in Honest : current[v].preprepare = NoBlock
    BY DEF Init, newRoundState
  <1>3. ProposalsSafe
    BY <1>2, Zenon DEF ProposalsSafe
  <1>. QED  BY <1>1, <1>3, InitIInv, Zenon DEF AInv

\* It is inductive under the rule.
LEMMA NextAInv == AInv /\ [NextHighestPrepared]_vars => AInv'
  <1>. SUFFICES ASSUME AInv, [NextHighestPrepared]_vars PROVE AInv'
    OBVIOUS
  <1>1. CASE NextHighestPrepared
    <2>1. IInv'
      BY <1>1, RuleStep, NextIInv, Zenon DEF AInv
    <2>. QED  BY <1>1, <2>1, RuleStep, StepAInv, Zenon
  <1>2. CASE UNCHANGED vars
    <2>1. IInv'
      BY <1>2, NextIInv, Zenon DEF AInv
    <2>2. ASSUME NEW r, NEW q, SafeAt(r, q)
          PROVE  SafeAt(r, q)'
      BY <1>2, <2>2, Zenon DEF vars, SafeAt, Locked, SignedPrepare, SignedCommit
    <2>3. VotesSafe' /\ RequestsBinding'
      BY <1>2, <2>2, Zenon DEF vars, AInv, VotesSafe, RequestsBinding
    <2>4. ProposalsSafe'
      <3>1. current' = current
        BY <1>2, Zenon DEF vars
      <3>2. ASSUME NEW v \in Honest, current[v].preprepare # NoBlock
            PROVE  SafeAt(current[v].round, current[v].preprepare)'
        <4>1. SafeAt(current[v].round, current[v].preprepare)
          BY <3>2, Zenon DEF AInv, ProposalsSafe
        <4>. QED  BY <1>2, <4>1, Zenon DEF vars, SafeAt, Locked, SignedPrepare, SignedCommit
      <3>. QED  BY <3>1, <3>2, Zenon DEF ProposalsSafe
    <2>. QED  BY <2>1, <2>3, <2>4, Zenon DEF AInv
  <1>. QED  BY <1>1, <1>2, Zenon

\* So it always holds under the rule.
LEMMA RuleInvariant == HighestPreparedSpec => []AInv
  BY InitAInv, NextAInv, PTL DEF HighestPreparedSpec

\* In one round two quorums cannot commit different blocks.
LEMMA CommittedOnce ==
    ASSUME IInv, NEW r \in Rounds, NEW p \in Proposals, NEW q \in Proposals,
           Committed(r, p), Committed(r, q)
    PROVE  p = q
  <1>1. /\ Committers(r, p) \in SUBSET Validators
        /\ Committers(r, q) \in SUBSET Validators
    BY DEF Committers
  <1>2. PICK s \in Honest : s \in Committers(r, p) /\ s \in Committers(r, q)
    BY <1>1, QuorumIntersection, Zenon DEF Committed
  <1>. QED  BY <1>2, SameVoter, Zenon DEF Committers

\* A commit in a later round is for the same block.
LEMMA LaterCommitSame ==
    ASSUME AInv, NEW k \in Rounds, NEW r \in Rounds, k < r,
           NEW p \in Proposals, NEW q \in Proposals,
           Committed(k, p), Committed(r, q)
    PROVE  p = q
  <1>1. /\ Committers(k, p) \in SUBSET Validators
        /\ Committers(r, q) \in SUBSET Validators
    BY DEF Committers
  <1>2. PICK u \in Honest : u \in Committers(r, q)
    BY <1>1, QuorumIntersection, Zenon DEF Committed
  <1>3. [src |-> u, round |-> r, digest |-> q] \in sentCommit
    BY <1>2, Zenon DEF Committers, SignedCommit, Honest
  <1>4. SafeAt(r, q)
    BY <1>3 DEF AInv, VotesSafe
  <1>5. PICK Q \in SUBSET Validators :
          Cardinality(Q) >= Quorum /\ \A s \in Q \cap Honest : Locked(s, k, q)
    BY <1>4, Zenon DEF SafeAt
  <1>6. PICK s \in Honest : s \in Q /\ s \in Committers(k, p)
    BY <1>1, <1>5, QuorumIntersection, Zenon DEF Committed
  <1>7. Locked(s, k, q) /\ SignedCommit(s, k, p)
    BY <1>5, <1>6, Zenon DEF Committers
  <1>8. [src |-> s, round |-> k, digest |-> p] \in sentCommit
    BY <1>7, Zenon DEF SignedCommit, Honest
  <1>9. CASE SignedPrepare(s, k, q) \/ SignedCommit(s, k, q)
    BY <1>7, <1>9, SameVoter, Zenon DEF AInv
  <1>. QED  BY <1>7, <1>8, <1>9, Zenon DEF Locked

\* Blocks committed in any two rounds are the same.
LEMMA CommittedAgree ==
    ASSUME AInv, NEW k \in Rounds, NEW r \in Rounds,
           NEW p \in Proposals, NEW q \in Proposals,
           Committed(k, p), Committed(r, q)
    PROVE  p = q
  <1>1. k \in Int /\ r \in Int
    BY BoundsAssumption DEF Rounds
  <1>. QED  BY <1>1, LaterCommitSame, CommittedOnce DEF AInv

\* Where no validator takes a preprepare that breaks the rule, no two chains
\* ever differ: whatever up to F faulty validators sign, over any number of
\* rounds, losses, reorderings and crashes.
THEOREM AgreementUnderRule == HighestPreparedSpec => []Agreement
  <1>1. AInv => Agreement
    <2>. SUFFICES ASSUME AInv, NEW u \in Honest, NEW v \in Honest,
                         head[u] # NoBlock, head[v] # NoBlock
                  PROVE  head[u] = head[v]
      BY Zenon DEF Agreement
    <2>1. head[u] \in Proposals /\ head[v] \in Proposals
      BY DEF AInv, IInv, TypeOK
    <2>2. /\ \E r \in Rounds : Committed(r, head[u])
          /\ \E r \in Rounds : Committed(r, head[v])
      BY DEF AInv, IInv, Safe, HeadsCommitted, Committed
    <2>. QED  BY <2>1, <2>2, CommittedAgree, Zenon
  <1>. QED  BY <1>1, RuleInvariant, PTL

-----------------------------------------------------------------------------
(***************************************************************************)
(* The refinements.                                                        *)
(***************************************************************************)
ChosenIn(r) == {p \in Proposals : Committed(r, p)}
ChosenInAny == {p \in Proposals : \E r \in Rounds : Committed(r, p)}

OneChosenPerRound == \A r \in Rounds : \A p, q \in ChosenIn(r) : p = q
OneChosen == \A p, q \in ChosenInAny : p = q

\* At most one block is chosen in a round.
LEMMA OnlyOnePerRound == IInv => OneChosenPerRound
  BY CommittedOnce, Zenon DEF OneChosenPerRound, ChosenIn

\* Under the rule, at most one is chosen in the sequence.
LEMMA OnlyOne == AInv => OneChosen
  BY CommittedAgree, Zenon DEF OneChosen, ChosenInAny

\* Without votes nothing is chosen: a quorum has an honest member.
LEMMA InitChoice ==
    ASSUME Init, NEW r \in Rounds
    PROVE  ChosenIn(r) = {}
  <1>. SUFFICES ASSUME NEW p \in Proposals, Committed(r, p) PROVE FALSE
    BY DEF ChosenIn
  <1>1. Committers(r, p) \in SUBSET Validators
    BY DEF Committers
  <1>2. PICK s \in Honest : s \in Committers(r, p)
    BY <1>1, QuorumIntersection, Zenon DEF Committed
  <1>. QED  BY <1>2, Zenon DEF Init, Committers, SignedCommit, Honest

\* A step adds to what was chosen, in one round at most, or it adds a block
\* that was chosen to one chain.
LEMMA StepChoice ==
    ASSUME IInv, NEW v \in Honest, (\E rs : LocalStep(v, rs)) \/ LeaveStep(v)
    PROVE  /\ \A r \in Rounds : ChosenIn(r) \subseteq ChosenIn(r)'
           /\ \/ /\ head' = head
                 /\ \E k : \A r \in Rounds : r # k => ChosenIn(r)' = ChosenIn(r)
              \/ /\ \A r \in Rounds : ChosenIn(r)' = ChosenIn(r)
                 /\ \E r \in Rounds : \E b \in ChosenIn(r) : head' = [head EXCEPT ![v] = b]
  <1>1. ASSUME NEW rs, LocalStep(v, rs)
        PROVE  /\ \A r \in Rounds : ChosenIn(r) \subseteq ChosenIn(r)'
               /\ \/ /\ head' = head
                     /\ \E k : \A r \in Rounds : r # k => ChosenIn(r)' = ChosenIn(r)
                  \/ /\ \A r \in Rounds : ChosenIn(r)' = ChosenIn(r)
                     /\ \E r \in Rounds : \E b \in ChosenIn(r) : head' = [head EXCEPT ![v] = b]
    <2>1. sentPrepare \subseteq sentPrepare' /\ sentCommit \subseteq sentCommit'
      BY <1>1, LocalStepFacts, Zenon
    <2>2. ASSUME NEW r \in Rounds
          PROVE  ChosenIn(r) \subseteq ChosenIn(r)'
      <3>. SUFFICES ASSUME NEW p \in Proposals, Committed(r, p)
                    PROVE  Committed(r, p)'
        BY DEF ChosenIn
      <3>. QED  BY <2>1, SignersGrow, ConstantTypes DEF Committed
    <2>3. ASSUME NEW r \in Rounds, r # rs.round
          PROVE  ChosenIn(r)' = ChosenIn(r)
      <3>1. \A m \in sentCommit' : m.round = r => m \in sentCommit
        <4>1. \A m \in sentCommit' : m \in sentCommit \/ m = voteOf(v, rs)
          BY <1>1, LocalStepFacts, Zenon
        <4>2. voteOf(v, rs).round # r
          BY <2>3, Zenon DEF voteOf
        <4>. QED  BY <4>1, <4>2, Zenon
      <3>2. \A p : Committers(r, p)' = Committers(r, p)
        BY <2>1, <3>1, Zenon DEF Committers, SignedCommit
      <3>. QED  BY <3>2 DEF ChosenIn, Committed
    <2>4. ASSUME sentCommit' = sentCommit, NEW r \in Rounds
          PROVE  ChosenIn(r)' = ChosenIn(r)
      BY <2>4, Zenon DEF ChosenIn, Committed, Committers, SignedCommit
    <2>5. ASSUME NEW b \in Proposals, head' = [head EXCEPT ![v] = b]
          PROVE  \E r \in Rounds : b \in ChosenIn(r)
      <3>1. head'[v] = b /\ b # NoBlock
        BY <2>5, ProposerAssumption, Zenon DEF IInv, TypeOK
      <3>. QED  BY <1>1, <3>1, Zenon DEF LocalStep, CommittedHeads, ChosenIn, Committed
    <2>. QED  BY <1>1, <2>2, <2>3, <2>4, <2>5, Zenon DEF LocalStep
  <1>2. CASE LeaveStep(v)
    BY <1>2 DEF LeaveStep, ChosenIn, Committed, Committers, SignedCommit
  <1>. QED  BY <1>1, <1>2, Zenon

\* The code chooses at most one block in each round, for good.
THEOREM ImplementsRoundConsensus == Spec => ChoosesPerRound
  <1>. DEFINE chosenBar == [r \in Rounds |-> ChosenIn(r)]
  <1>1. Init => RoundConsensus!Init
    <2>. SUFFICES ASSUME Init PROVE RoundConsensus!Init
      OBVIOUS
    <2>. QED  BY InitChoice, Zenon DEF RoundConsensus!Init, Init, ChosenIn
  <1>2. IInv /\ IInv' /\ [Next]_vars => [RoundConsensus!Next]_<<chosenBar, head>>
    <2>. SUFFICES ASSUME IInv, IInv', [Next]_vars
                  PROVE  [RoundConsensus!Next]_<<chosenBar, head>>
      OBVIOUS
    <2>1. CASE UNCHANGED vars
      <3>1. \A r : ChosenIn(r)' = ChosenIn(r)
        BY <2>1, Zenon DEF vars, ChosenIn, Committed, Committers, SignedCommit
      <3>. QED  BY <2>1, <3>1, Zenon DEF vars
    <2>2. CASE Next
      <3>1. PICK v \in Honest : (\E rs : LocalStep(v, rs)) \/ LeaveStep(v)
        BY <2>2, EventStep, Zenon DEF Next
      <3>2. CASE /\ \A r \in Rounds : ChosenIn(r)' = ChosenIn(r)
                 /\ \E r \in Rounds : \E b \in ChosenIn(r) : head' = [head EXCEPT ![v] = b]
        <4>1. PICK r \in Rounds : \E b \in ChosenIn(r) : head' = [head EXCEPT ![v] = b]
          BY <3>2, Zenon
        <4>2. PICK b \in ChosenIn(r) : head' = [head EXCEPT ![v] = b]
          BY <4>1, Zenon
        <4>3. b \in Proposals
          BY DEF ChosenIn
        <4>4. RoundConsensus!Learn(v, r, b)
          BY <3>2, <4>2, Zenon DEF RoundConsensus!Learn, ChosenIn
        <4>. QED  BY <4>3, <4>4, Zenon DEF RoundConsensus!Next
      <3>3. ASSUME head' = head, NEW k,
                   \A r \in Rounds : r # k => ChosenIn(r)' = ChosenIn(r)
            PROVE  [RoundConsensus!Next]_<<chosenBar, head>>
        <4>1. CASE \A r \in Rounds : ChosenIn(r)' = ChosenIn(r)
          BY <3>3, <4>1
        <4>2. CASE k \in Rounds /\ ChosenIn(k)' # ChosenIn(k)
          <5>1. \A p, q \in ChosenIn(k)' : p = q
            <6>1. OneChosenPerRound'
              BY OnlyOnePerRound, PTL
            <6>. QED  BY <4>2, <6>1, Zenon DEF OneChosenPerRound
          <5>2. ChosenIn(k) \subseteq ChosenIn(k)'
            BY <3>1, <4>2, StepChoice, Zenon
          <5>3. ChosenIn(k) = {} /\ \E p \in Proposals : ChosenIn(k)' = {p}
            BY <4>2, <5>1, <5>2, Zenon DEF ChosenIn
          <5>4. PICK p \in Proposals : ChosenIn(k)' = {p}
            BY <5>3, Zenon
          <5>5. RoundConsensus!Choose(k, p)
            BY <3>3, <4>2, <5>3, <5>4, Zenon DEF RoundConsensus!Choose, ChosenIn
          <5>. QED  BY <4>2, <5>5, Zenon DEF RoundConsensus!Next
        <4>. QED  BY <3>3, <4>1, <4>2
      <3>. QED  BY <3>1, <3>2, <3>3, StepChoice, Zenon
    <2>. QED  BY <2>1, <2>2, Zenon
  <1>. QED
    BY <1>1, <1>2, InductiveInvariant, PTL
       DEF Spec, ChoosesPerRound, RoundConsensus!Spec, ChosenIn

\* With proposers that keep to the highest prepared certificate, it chooses
\* one block in all its rounds together.
THEOREM ImplementsConsensus == HighestPreparedSpec => ChoosesOnce
  <1>. DEFINE chosenBar == [i \in {0} |-> ChosenInAny]
  <1>1. Init => SequenceConsensus!Init
    <2>. SUFFICES ASSUME Init PROVE SequenceConsensus!Init
      OBVIOUS
    <2>1. ChosenInAny = {}
      BY InitChoice, Zenon DEF ChosenInAny, ChosenIn
    <2>. QED  BY <2>1 DEF SequenceConsensus!Init, Init, ChosenInAny
  <1>2. AInv /\ AInv' /\ [NextHighestPrepared]_vars
           => [SequenceConsensus!Next]_<<chosenBar, head>>
    <2>. SUFFICES ASSUME AInv, AInv', [NextHighestPrepared]_vars
                  PROVE  [SequenceConsensus!Next]_<<chosenBar, head>>
      BY Zenon
    <2>1. CASE UNCHANGED vars
      <3>1. ChosenInAny' = ChosenInAny
        BY <2>1, Zenon DEF vars, ChosenInAny, Committed, Committers, SignedCommit
      <3>. QED  BY <2>1, <3>1, Zenon DEF vars
    <2>2. CASE NextHighestPrepared
      <3>1. PICK v \in Honest : (\E rs : LocalStep(v, rs)) \/ LeaveStep(v)
        BY <2>2, RuleStep, Zenon
      <3>2. IInv
        BY Zenon DEF AInv
      <3>3. ChosenInAny \subseteq ChosenInAny'
        BY <3>1, <3>2, StepChoice, Zenon DEF ChosenInAny, ChosenIn
      <3>4. CASE /\ \A r \in Rounds : ChosenIn(r)' = ChosenIn(r)
                 /\ \E r \in Rounds : \E b \in ChosenIn(r) : head' = [head EXCEPT ![v] = b]
        <4>1. ChosenInAny' = ChosenInAny
          BY <3>4, Zenon DEF ChosenInAny, ChosenIn
        <4>2. PICK b \in ChosenInAny : head' = [head EXCEPT ![v] = b]
          BY <3>4, Zenon DEF ChosenInAny, ChosenIn
        <4>3. b \in Proposals
          BY DEF ChosenInAny
        <4>4. SequenceConsensus!Learn(v, 0, b)
          BY <4>1, <4>2 DEF SequenceConsensus!Learn, ChosenInAny
        <4>. QED  BY <4>3, <4>4, Zenon DEF SequenceConsensus!Next
      <3>5. CASE head' = head
        <4>1. CASE ChosenInAny' = ChosenInAny
          BY <3>5, <4>1, Zenon
        <4>2. CASE ChosenInAny' # ChosenInAny
          <5>1. OneChosen'
            BY OnlyOne, PTL
          <5>2. PICK p \in Proposals : p \in ChosenInAny' /\ p \notin ChosenInAny
            BY <3>3, <4>2, Zenon DEF ChosenInAny
          <5>3. ChosenInAny = {} /\ ChosenInAny' = {p}
            BY <3>3, <5>1, <5>2, Zenon DEF OneChosen
          <5>4. SequenceConsensus!Choose(0, p)
            BY <3>5, <5>3 DEF SequenceConsensus!Choose, ChosenInAny
          <5>. QED  BY <5>4, Zenon DEF SequenceConsensus!Next
        <4>. QED  BY <4>1, <4>2
      <3>. QED  BY <3>1, <3>2, <3>4, <3>5, StepChoice, Zenon
    <2>. QED  BY <2>1, <2>2, Zenon
  <1>. QED
    BY <1>1, <1>2, RuleInvariant, PTL
       DEF HighestPreparedSpec, ChoosesOnce, SequenceConsensus!Spec, ChosenInAny

=============================================================================
