---------------------------- MODULE MCEventLoop ----------------------------
(***************************************************************************)
(* The callers and the tasks are alike: invariants may be checked up to     *)
(* renaming them.                                                          *)
(***************************************************************************)
EXTENDS EventLoop, TLC

Alike == Permutations(Callers) \cup Permutations(Tasks)
=============================================================================
