-------------------------- MODULE MCLifecycleOutbox --------------------------
(***************************************************************************)
(* LifecycleOutbox with four places and the statuses of two commands, so  *)
(* that the queue fills, evicts and drops.                                 *)
(***************************************************************************)
EXTENDS LifecycleOutbox, TLC

CONSTANTS x, y

TwoIds == {x, y}
Symmetry == Permutations(TwoIds)
=============================================================================
