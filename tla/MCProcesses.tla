----------------------------- MODULE MCProcesses -----------------------------
(***************************************************************************)
(* Processes on three user processes: a parent and two children, or a      *)
(* chain.  Tids are compared, so that there is no symmetry set.            *)
(***************************************************************************)
EXTENDS Processes

\* One status of a program's own, and that of a call with bad arguments.
MCExitCodes == {-1, 7}
==============================================================================
