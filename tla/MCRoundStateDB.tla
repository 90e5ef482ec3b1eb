--------------------------- MODULE MCRoundStateDB ---------------------------
(***************************************************************************)
(* An instance of RoundStateDB for TLC.                                    *)
(***************************************************************************)
EXTENDS RoundStateDB

CONSTANTS u, w

(***************************************************************************)
(* Views before the last one are never worked on again, so of their        *)
(* entries only the presence matters from then on: what they have to hold  *)
(* was checked in the states before.                                       *)
(***************************************************************************)
done(view) == rsdb.lastView # Absent /\ before(view, rsdb.lastView)
present(entries) ==
    [v \in Views |-> IF done(v) THEN entries[v] # Absent ELSE entries[v]]

ReadableState ==
    <<current, rsdb.lastView, present(rsdb.rs), present(rsdb.rcvd), gc, head,
      [v \in Views |-> IF done(v) THEN {} ELSE voted[v]],
      [v \in Views |-> IF done(v) THEN {} ELSE received[v]],
      saved, failures, crashes>>

(***************************************************************************)
(* Rounds change and votes are cast in the first sequence only; in those   *)
(* after it commits arrive late, and the first is collected.  Prepares     *)
(* arrive from u first and commits from w first, so that a quorum may be   *)
(* prepares, commits or one of each.                                       *)
(***************************************************************************)
FirstSequence ==
    up /\ current.view[1] > 1 =>
        current.state = StateAcceptRequest /\ current.view[2] = 0

VotesInOrder ==
    up => /\ current.prepares[w] # NoBlock => current.prepares[u] # NoBlock
          /\ current.commits[u] # NoBlock => current.commits[w] # NoBlock
          /\ u \in current.parentCommits => w \in current.parentCommits

=============================================================================
