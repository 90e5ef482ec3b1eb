---------------------------- MODULE MCMsgBacklog ----------------------------
(***************************************************************************)
(* Instances of MsgBacklog.                                                *)
(***************************************************************************)
EXTENDS MsgBacklog

CONSTANTS valA, valB, self

msg(c, s, r, v) == [code |-> c, sequence |-> s, round |-> r, src |-> v]

\* A proposal, votes and round changes for the views a core goes through,
\* messages for further sequences, one beyond the horizon, and one of a round
\* that the priority queue refuses.
ManyAhead ==
    {msg(MsgPreprepareV2, 1, 1, valB), msg(MsgCommit, 1, 1, valA), msg(MsgPrepare, 1, 0, valB),
     msg(MsgRoundChangeV2, 1, 1, valA), msg(MsgPrepare, 1, 0, self),
     msg(MsgPreprepareV2, 2, 0, valB), msg(MsgPrepare, 2, 2, valB),
     msg(MsgCommit, 3, 0, valA), msg(MsgPrepare, 3, 0, valB), msg(MsgRoundChangeV2, 4, 0, valA)}

=============================================================================
