---------------------------- MODULE MCUserThreads ----------------------------
(***************************************************************************)
(* UserThreads on two threads and main.  Nothing in it is bounded: the     *)
(* program has finitely many states.  There is no symmetry set: the run    *)
(* checks liveness.                                                        *)
(***************************************************************************)
EXTENDS UserThreads
==============================================================================
