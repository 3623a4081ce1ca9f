----------------------------- MODULE MCTakeover -----------------------------
(***************************************************************************)
(* Three wrappers of one job, which the takeover of a stale lock needs to  *)
(* go wrong.  They differ only in their names.                             *)
(***************************************************************************)
EXTENDS RoutineLock, TLC

Symm == Permutations(Wrappers)
=============================================================================
