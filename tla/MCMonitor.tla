------------------------------ MODULE MCMonitor ------------------------------
(***************************************************************************)
(* Monitor on up to four threads and two conditions.  No thread and no     *)
(* condition is named in it, and waiters are compared by priority only.    *)
(***************************************************************************)
EXTENDS Monitor, TLC

Symmetry == Permutations(Threads) \cup Permutations(Conds)
==============================================================================
