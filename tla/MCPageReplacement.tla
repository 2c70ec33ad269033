-------------------------- MODULE MCPageReplacement --------------------------
(***************************************************************************)
(* PageReplacement on files of up to eight references to four addresses.   *)
(* No address is named in it, and addresses are compared for equality only.*)
(***************************************************************************)
EXTENDS PageReplacement, TLC

Symmetry == Permutations(Address)
==============================================================================
