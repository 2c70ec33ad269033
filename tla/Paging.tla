-------------------------------- MODULE Paging -------------------------------
(***************************************************************************)
(* Demand paging, which every replacement policy of A6 implements: a       *)
(* reference to a resident page is a hit, any other one is a fault and     *)
(* loads the page that was referenced, for which one resident page makes   *)
(* room when there is no room left.  A program that fails serves nothing   *)
(* from then on, whatever else is referenced.                              *)
(***************************************************************************)
EXTENDS Naturals, Sequences, FiniteSets

CONSTANT Address        \* the pages that are referenced

VARIABLES capacity,     \* how many pages may be resident
          requests,     \* the references made so far
          resident,     \* the resident pages
          faults,       \* how many references were faults
          running       \* the program has not failed

Init ==
    /\ capacity \in Nat \ {0}
    /\ requests = <<>>
    /\ resident = {}
    /\ faults = 0
    /\ running = TRUE

Hit(p) == p \in resident /\ UNCHANGED <<resident, faults, running>>

Load(p) ==
    /\ p \notin resident
    /\ \/ Cardinality(resident) < capacity /\ resident' = resident \cup {p}
       \/ /\ Cardinality(resident) = capacity
          /\ \E q \in resident : resident' = (resident \ {q}) \cup {p}
    /\ faults' = faults + 1
    /\ UNCHANGED running

Fail == running' = FALSE /\ UNCHANGED <<resident, faults>>

Reference(p) ==
    /\ requests' = Append(requests, p)
    /\ IF running THEN Hit(p) \/ Load(p) \/ Fail
       ELSE UNCHANGED <<resident, faults, running>>
    /\ UNCHANGED capacity

\* The program fails between two references.
Crash == running /\ Fail /\ UNCHANGED <<capacity, requests>>

Next == (\E p \in Address : Reference(p)) \/ Crash

Spec == Init /\ [][Next]_<<capacity, requests, resident, faults, running>>
==============================================================================
