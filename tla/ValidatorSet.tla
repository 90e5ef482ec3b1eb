---------------------------- MODULE ValidatorSet ----------------------------
(***************************************************************************)
(* The arithmetic of validator sets: the number of faulty validators a set *)
(* tolerates, the size of its quorums, and the policy that selects the     *)
(* proposer of a round (consensus/istanbul/validator).                     *)
(***************************************************************************)
EXTENDS Integers, Sequences

\* Ceil(n/3) - 1
F(n) == (n + 2) \div 3 - 1

\* Mutant: the quorum is rounded down.
MinQuorumSize_Floor(n) == (2 * n) \div 3

\* Ceil(2n/3)
MinQuorumSize(n) == (2 * n + 2) \div 3

(***************************************************************************)
(* A validator set is ordered: valSet is a non-empty sequence without      *)
(* repetition, indexed from 0 in the code and from 1 here.  An author that *)
(* is not in the set (it was elected out) counts as index 0.               *)
(***************************************************************************)
proposerIndex(valSet, author) ==
    IF \E i \in DOMAIN valSet : valSet[i] = author
    THEN (CHOOSE i \in DOMAIN valSet : valSet[i] = author) - 1
    ELSE 0

(***************************************************************************)
(* The proposer of a round, given the author of the parent block.  shuffle *)
(* is the permutation of 0 .. n-1 drawn from the epoch's randomness, here  *)
(* a sequence of indices; zero is the zero address, the author of genesis. *)
(***************************************************************************)
ShuffledRoundRobinProposer(valSet, shuffle, zero, author, round) ==
    LET reverse(n) == (CHOOSE i \in DOMAIN shuffle : shuffle[i] = n) - 1
        idx == IF author = zero
               THEN round
               ELSE round + reverse(proposerIndex(valSet, author)) + 1
    IN  valSet[shuffle[(idx % Len(valSet)) + 1] + 1]

=============================================================================
