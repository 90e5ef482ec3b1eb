----------------------------- MODULE Consensus ------------------------------
(***************************************************************************)
(* What the Istanbul core promises of one sequence number: values are      *)
(* chosen, at most one in each instance, and a node takes a block into its *)
(* chain only after it was chosen.  How the nodes vote, which of them      *)
(* fail, and what messages they exchange is left out.                      *)
(***************************************************************************)
CONSTANTS Nodes, Values, NoValue, Instances

VARIABLES
    chosen,   \* chosen[i]: the values chosen in instance i
    chain     \* chain[n]: the value in the chain of n

Init ==
    /\ chosen = [i \in Instances |-> {}]
    /\ chain = [n \in Nodes |-> NoValue]

Choose(i, val) ==
    /\ chosen[i] = {}
    /\ chosen' = [chosen EXCEPT ![i] = {val}]
    /\ UNCHANGED chain

Learn(n, i, val) ==
    /\ chain' = [chain EXCEPT ![n] = val]
    /\ val \in chosen[i]
    /\ UNCHANGED chosen

Next ==
    \/ \E i \in Instances, val \in Values : Choose(i, val)
    \/ \E n \in Nodes, i \in Instances, val \in Values : Learn(n, i, val)

Spec == Init /\ [][Next]_<<chosen, chain>>

=============================================================================
