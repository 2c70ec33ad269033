---------------------------- MODULE MCPrimeSearch ----------------------------
(***************************************************************************)
(* PrimeSearch with one to three threads and limits that the number of     *)
(* threads divides, does not divide, and exceeds.                          *)
(***************************************************************************)
EXTENDS PrimeSearch

SomeLimits == {0, 1, 2, 5, 7, 9}
==============================================================================
