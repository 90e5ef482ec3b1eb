------------------------------ MODULE CoreTypes -----------------------------
(***************************************************************************)
(* The states of a round (core/types.go), in the order State.Cmp gives     *)
(* them.                                                                   *)
(***************************************************************************)
StateAcceptRequest == 0
StatePreprepared == 1
StatePrepared == 2
StateCommitted == 3
StateWaitingForNewRound == 4
=============================================================================
