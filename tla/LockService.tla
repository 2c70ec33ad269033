----------------------------- MODULE LockService -----------------------------
(***************************************************************************)
(* What the locks of threads/synch.c promise: "A lock can be held by at    *)
(* most a single thread at any given time", only a free lock is granted,   *)
(* and a lock changes hands only through being given up in between.        *)
(***************************************************************************)
CONSTANTS Threads, Locks, NoOwner

VARIABLE owner

Init == owner = [l \in Locks |-> NoOwner]

Grant(t, l) ==
    /\ owner[l] = NoOwner
    /\ owner' = [owner EXCEPT ![l] = t]

Release(l) ==
    /\ owner[l] # NoOwner
    /\ owner' = [owner EXCEPT ![l] = NoOwner]

Next == \E l \in Locks : Release(l) \/ \E t \in Threads : Grant(t, l)

Spec == Init /\ [][Next]_owner
==============================================================================
