----------------------------- MODULE MesaMonitor -----------------------------
(***************************************************************************)
(* What the comments of cond_wait and cond_signal in threads/synch.c       *)
(* promise of a monitor: waiting gives up the lock and starts to wait in   *)
(* one step; a signal, sent by the holder, wakes one of those who wait     *)
(* then, if any; who was woken takes the lock again, in its turn.          *)
(***************************************************************************)
CONSTANTS Threads, Conds, NoOwner

VARIABLES
    owner,      \* the holder of the monitor's lock
    waiting,    \* for each condition, who waits for it
    woken       \* who was signalled and does not have the lock again

Init ==
    /\ owner = NoOwner
    /\ waiting = [c \in Conds |-> {}]
    /\ woken = {}

Enter(t) ==
    /\ owner = NoOwner
    /\ \A c \in Conds : t \notin waiting[c]
    /\ owner' = t
    /\ woken' = woken \ {t}
    /\ UNCHANGED waiting

Leave(t) ==
    /\ owner = t
    /\ owner' = NoOwner
    /\ UNCHANGED <<waiting, woken>>

Wait(t, c) ==
    /\ owner = t
    /\ owner' = NoOwner
    /\ waiting' = [waiting EXCEPT ![c] = @ \cup {t}]
    /\ UNCHANGED woken

Signal(t, u, c) ==
    /\ owner = t /\ u \in waiting[c]
    /\ waiting' = [waiting EXCEPT ![c] = @ \ {u}]
    /\ woken' = woken \cup {u}
    /\ UNCHANGED owner

Next ==
    \E t \in Threads :
       \/ Enter(t) \/ Leave(t)
       \/ \E c \in Conds : Wait(t, c) \/ \E u \in Threads : Signal(t, u, c)

Spec == Init /\ [][Next]_<<owner, waiting, woken>>
==============================================================================
