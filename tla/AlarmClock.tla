------------------------------ MODULE AlarmClock ------------------------------
(***************************************************************************)
(* What timer_sleep promises: the tick at which the requested number of    *)
(* ticks has passed since the call wakes the sleeper, no earlier and no    *)
(* later tick does.  A call that falls asleep only after that moment is    *)
(* woken by the next tick.                                                 *)
(***************************************************************************)
EXTENDS Integers

CONSTANTS Threads,
          Durations,   \* arguments of timer_sleep
          MaxSleep     \* no duration is longer

VARIABLES state,       \* of each thread: "awake", "calling", "asleep"
          dur, since   \* its request, and the ticks since (up to MaxSleep)

vars == <<state, dur, since>>

Later(n) == IF n < MaxSleep THEN n + 1 ELSE n

Init ==
    /\ state = [t \in Threads |-> "awake"]
    /\ dur \in [Threads -> {0}]
    /\ since \in [Threads -> {0}]

Call(t, d) ==
    /\ state[t] = "awake"
    /\ state' = [state EXCEPT ![t] = "calling"]
    /\ dur' = [dur EXCEPT ![t] = d]
    /\ since' = [since EXCEPT ![t] = 0]

FallAsleep(t) ==
    /\ state[t] = "calling"
    /\ state' = [state EXCEPT ![t] = "asleep"]
    /\ UNCHANGED <<dur, since>>

Tick ==
    /\ since' = [t \in Threads |-> Later(since[t])]
    /\ state' = [t \in Threads |->
                    IF state[t] = "asleep" /\ since'[t] >= dur[t] THEN "awake" ELSE state[t]]
    /\ UNCHANGED dur

Next == Tick \/ \E t \in Threads : FallAsleep(t) \/ \E d \in Durations : Call(t, d)

Spec == Init /\ [][Next]_vars
===============================================================================
