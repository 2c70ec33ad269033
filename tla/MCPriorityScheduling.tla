------------------------ MODULE MCPriorityScheduling ------------------------
(***************************************************************************)
(* PriorityScheduling on small sets of threads, locks and semaphores.  The *)
(* threads other than main are interchangeable: none of them is named in   *)
(* the module, and lists are compared by priority only.                    *)
(***************************************************************************)
EXTENDS PriorityScheduling, TLC

Symmetry == Permutations(Threads \ {Main})
=============================================================================
