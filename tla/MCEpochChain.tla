---------------------------- MODULE MCEpochChain ----------------------------
(***************************************************************************)
(* An instance of EpochChain for TLC.                                      *)
(***************************************************************************)
EXTENDS EpochChain

val(a, k) == [address |-> a, key |-> k]

\* A validator leaves, another is replaced and the third changes its key;
\* then one comes back, and the order of the election is another one.
OneElection ==
    {<<<<val("p", 1), val("q", 1), val("s", 1)>>,
       <<val("r", 1), val("q", 2)>>,
       <<val("q", 2), val("p", 1), val("r", 1)>>>>}

\* Validator 0 or validator 1 signed.
OneOfTwo == {{0}, {1}}

\* The third header after the head.
ThreeAhead == {<<{0}, {0}, {0}>>}

\* Seals differ before and after a block where the chain is set back.
SealsOfForks ==
    \A n \in DOMAIN chain : n \notin {3, 4} => chain[n] = {0}

=============================================================================
