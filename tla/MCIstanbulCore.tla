--------------------------- MODULE MCIstanbulCore ---------------------------
(***************************************************************************)
(* Instances of IstanbulCore.  The parent block is the genesis block, and  *)
(* the shuffle makes validators propose in the order a, b, c, d.           *)
(***************************************************************************)
EXTENDS IstanbulCore, TLC

CONSTANTS a, b, c, d, x, y

proposers(valSet, shuffle) ==
    [t \in (Validators \cup {ParentAuthor}) \X Rounds |->
        ShuffledRoundRobinProposer(valSet, shuffle, ParentAuthor, t[1], t[2])]

TwoProposers == proposers(<<b, a>>, <<1, 0>>)
ThreeProposers == proposers(<<b, c, a>>, <<2, 0, 1>>)
\* d, the faulty one, proposes first.
FourProposers == proposers(<<a, b, c, d>>, <<3, 0, 1, 2>>)

MadeByD == [p \in Proposals |-> d]
MadeByAB == [p \in Proposals |-> IF p = x THEN a ELSE b]

\* A faulty proposer of round 0 that proposes two blocks.
TwoPreprepares ==
    {[src |-> d, round |-> 0, proposal |-> p, rcc |-> {}] : p \in Proposals}

\* Sound where one validator makes all blocks.
SwapBlocks == Permutations(Proposals)

(***************************************************************************)
(* Two states are the same to TLC if they differ only in votes that no     *)
(* handler will read again: the prepares of a validator that is past       *)
(* Preprepared, and the commits of one that is past Prepared.              *)
(***************************************************************************)
readable(rs) ==
    [rs EXCEPT !.prepares = IF rs.state = StatePreprepared THEN @ ELSE {},
               !.commits = IF rs.state \in {StatePreprepared, StatePrepared}
                           THEN @ ELSE {}]

ReadableState ==
    <<[v \in Honest |-> readable(current[v])], [v \in Honest |-> readable(rsdb[v])],
      roundChangeSet, head, final,
      sentPreprepare, sentPrepare, sentCommit, sentRoundChange, crashes>>

\* c votes, and sees the prepares of the others, but no commit: two that
\* commit are enough to disagree, and a and b are as good as any.
NoCommitReachesC == current[c].commits = {} /\ head[c] = NoBlock

(***************************************************************************)
(* A schedule without crashes or faults that TLC explores alone: c misses  *)
(* round 0, where only a gets to see a quorum; a misses round 1, where b   *)
(* gets to commit; b misses round 2.                                       *)
(***************************************************************************)
OneAbsentPerRound ==
    /\ \A m \in sentPrepare : <<m.src, m.round>> \notin {<<c, 0>>, <<a, 1>>}
    /\ \A m \in sentRoundChange : m.dst = Validators
    /\ current[b].round = 0 => current[b].prepares = {} /\ current[b].commits = {}
    /\ current[a].round = 0 => current[a].commits = {}
    /\ current[c].round = 1 => current[c].commits = {}
    /\ current[b].desiredRound <= 1 /\ current[a].desiredRound # 1
    /\ \A v \in {b, c} :
          current[v].desiredRound > 0 => current[a].preparedCertificate.round >= 0
    /\ \A v \in {a, c} : current[v].desiredRound > 1 => head[b] # NoBlock
    /\ head[c] = NoBlock /\ ~ \E v \in {a, b, c} : final[v]

(***************************************************************************)
(* A wider one, in which a may commit in round 0, b in round 1, and any of *)
(* them in round 2: of each round one validator sees nothing.              *)
(***************************************************************************)
RoundsMissed ==
    /\ \A m \in sentPrepare : <<m.src, m.round>> \notin {<<c, 0>>, <<a, 1>>, <<b, 2>>}
    /\ \A m \in sentRoundChange : m.dst = Validators
    /\ current[b].desiredRound <= 1 /\ current[a].desiredRound # 1
    /\ \A v \in {b, c} :
          current[v].desiredRound > 0 => current[a].preparedCertificate.round >= 0
    /\ \A v \in {a, c} :
          current[v].desiredRound > 1 => current[b].preparedCertificate.round >= 1

=============================================================================
