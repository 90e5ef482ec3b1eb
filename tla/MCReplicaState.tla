--------------------------- MODULE MCReplicaState ---------------------------
(***************************************************************************)
(* Instances of ReplicaState for TLC.                                      *)
(***************************************************************************)
EXTENDS ReplicaState

AllCommands == {"SetStartValidatingBlock", "SetStopValidatingBlock",
                "MakeReplica", "MakePrimary"}

FirstStart == {permanent(primaryPermanent), permanent(replicaPermanent)}

\* Nodes that were given a range before they were started.
WithRange ==
    {[state |-> primaryInRange, startValidatingBlock |-> nil, stopValidatingBlock |-> 2],
     [state |-> replicaWaiting, startValidatingBlock |-> 2, stopValidatingBlock |-> nil],
     [state |-> replicaWaiting, startValidatingBlock |-> 1, stopValidatingBlock |-> 3],
     [state |-> replicaWaiting, startValidatingBlock |-> 3, stopValidatingBlock |-> 4]}
=============================================================================
