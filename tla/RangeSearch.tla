----------------------------- MODULE RangeSearch -----------------------------
(***************************************************************************)
(* What a parallel search of a range promises (A2): each number of the     *)
(* range is tested once, by whichever thread, and exactly the hits among   *)
(* the tested numbers have been found.                                     *)
(***************************************************************************)
EXTENDS Naturals

CONSTANT Hits           \* the numbers the search is looking for

VARIABLES untested,     \* the numbers of the range nobody has tested yet
          found         \* the hits among the others

Init == untested \in SUBSET Nat /\ found = {}

\* One number is tested: it is found exactly if it is a hit.
Test(x) ==
    /\ untested' = untested \ {x}
    /\ found' = found \cup ({x} \cap Hits)

Next == \E x \in untested : Test(x)

Spec == Init /\ [][Next]_<<untested, found>>
==============================================================================
