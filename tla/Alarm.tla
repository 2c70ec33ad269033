--------------------------------- MODULE Alarm ---------------------------------
(***************************************************************************)
(* The alarm clock of the A5 kernel (devices/timer.c) with the part of the *)
(* scheduler it meets: the ready list, time slices and the idle thread.    *)
(* Threads hold no locks here, so effective and base priority agree.       *)
(*                                                                         *)
(* The handler of the timer interrupt runs with interrupts off, one        *)
(* iteration of its loop over sleeping_list per action.  Of the clock,     *)
(* only differences matter: since[t] is `ticks - start' for the start that *)
(* t read in its last timer_sleep.                                         *)
(***************************************************************************)
EXTENDS KernelList

CONSTANTS Threads,
          Priorities,  \* thread priorities, constant while they sleep
          TIME_SLICE,  \* ticks a thread may run
          Durations,   \* bound: the arguments of timer_sleep
          MaxSleep,    \* bound: since[t] is counted up to here
          Idle

ASSUME AlarmAssumption ==
    /\ IsFiniteSet(Threads) /\ Idle \notin Threads
    /\ Priorities \subseteq Int
    /\ TIME_SLICE \in Nat \ {0}
    /\ MaxSleep \in Nat /\ Durations \subseteq Int
    /\ \A d \in Durations : d <= MaxSleep

VARIABLES
    running, status, ready, priority,
    threadTicks,  \* thread_ticks: ticks of the running thread's slice
    sleeping,     \* sleeping_list
    dur,          \* the `ticks' a thread has passed to timer_sleep
    since,        \* ticks since it read `start'
    pc,           \* "start" between timer_ticks() and intr_disable() there
    cursor        \* position of e in sleeping_list; 0 outside the handler

scheduler == <<running, status, ready, threadTicks>>
vars == <<scheduler, priority, sleeping, dur, since, pc, cursor>>

Status == {"running", "ready", "blocked"}

\* Types; the slice of the running thread never exceeds TIME_SLICE ticks.
TypeOK ==
    /\ running \in Threads \cup {Idle}
    /\ status \in [Threads -> Status]
    /\ ready \in Seq(Threads)
    /\ priority \in [Threads -> Priorities]
    /\ threadTicks \in 0 .. TIME_SLICE
    /\ sleeping \in Seq(Threads)
    /\ dur \in [Threads -> Durations \cup {0}]
    /\ since \in [Threads -> 0 .. MaxSleep]
    /\ pc \in [Threads -> {"client", "start"}]
    /\ cursor \in Nat

\* Any thread runs, the others are ready, in the order of their priorities.
Init ==
    /\ priority \in [Threads -> Priorities]
    /\ running \in Threads
    /\ status = [t \in Threads |-> IF t = running THEN "running" ELSE "ready"]
    /\ \E s \in SetToSeqs(Threads \ {running}) : ready \in ListSort(s, priority)
    /\ threadTicks = 0
    /\ sleeping = <<>>
    /\ dur = [t \in Threads |-> 0]
    /\ since = [t \in Threads |-> 0]
    /\ pc = [t \in Threads |-> "client"]
    /\ cursor = 0

-------------------------------------------------------------------------------
\* Variant: the new thread inherits what is left of the time slice.
ScheduleKeepingSlice(r, st) ==
    /\ UNCHANGED threadTicks
    /\ \/ /\ r = <<>>
          /\ running' = Idle /\ ready' = r /\ status' = st
       \/ /\ r # <<>>
          /\ running' = Head(r) /\ ready' = Tail(r)
          /\ status' = [st EXCEPT ![Head(r)] = "running"]

\* schedule: the front of the ready list r runs, for a new time slice.
Schedule(r, st) ==
    /\ threadTicks' = 0
    /\ \/ /\ r = <<>>
          /\ running' = Idle /\ ready' = r /\ status' = st
       \/ /\ r # <<>>
          /\ running' = Head(r) /\ ready' = Tail(r)
          /\ status' = [st EXCEPT ![Head(r)] = "running"]

\* thread_yield of the running thread, which may be the idle thread.
ThreadYield ==
    \/ running = Idle /\ Schedule(ready, status)
    \/ /\ running # Idle
       /\ \E r \in ListInsertOrdered(ready, running, priority) :
             Schedule(r, [status EXCEPT ![running] = "ready"])

Masked == cursor # 0

\* The running thread calls thread_yield.
Yield(t) ==
    /\ ~ Masked /\ running = t /\ pc[t] = "client"
    /\ ThreadYield
    /\ UNCHANGED <<priority, sleeping, dur, since, pc, cursor>>

\* idle: block again after every interrupt.
IdleLoop ==
    /\ ~ Masked /\ running = Idle
    /\ Schedule(ready, status)
    /\ UNCHANGED <<priority, sleeping, dur, since, pc, cursor>>

-------------------------------------------------------------------------------
\* timer_sleep (d), first statement: read the clock, with interrupts on.
ReadStart(t, d) ==
    /\ ~ Masked /\ running = t /\ pc[t] = "client"
    /\ dur' = [dur EXCEPT ![t] = d]
    /\ since' = [since EXCEPT ![t] = 0]
    /\ pc' = [pc EXCEPT ![t] = "start"]
    /\ UNCHANGED <<scheduler, priority, sleeping, cursor>>

\* The rest of timer_sleep, with interrupts off up to the switch.  t returns
\* from it when it runs again.
Sleep(t) ==
    /\ ~ Masked /\ running = t /\ pc[t] = "start"
    /\ sleeping' = Append(sleeping, t)
    /\ Schedule(ready, [status EXCEPT ![t] = "blocked"])
    /\ pc' = [pc EXCEPT ![t] = "client"]
    /\ UNCHANGED <<priority, dur, since, cursor>>

-------------------------------------------------------------------------------
Later(n) == IF n < MaxSleep THEN n + 1 ELSE n

\* timer_interrupt up to its loop; thread_tick counts the running slice.
TimerInterrupt ==
    /\ ~ Masked
    /\ since' = [t \in Threads |-> Later(since[t])]
    /\ threadTicks' = threadTicks + 1
    /\ cursor' = 1
    /\ UNCHANGED <<running, status, ready, priority, sleeping, dur, pc>>

\* Variant: only the tick at which the sleep ends is recognised.
DueExactly(t) == since[t] = dur[t]

\* start >= t->sleepEnd
Due(t) == since[t] >= dur[t]

\* Variant: the woken thread is not unlinked.
WakeKeeping ==
    /\ cursor \in DOMAIN sleeping /\ Due(sleeping[cursor])
    /\ ready' \in ListInsertOrdered(ready, sleeping[cursor], priority)
    /\ status' = [status EXCEPT ![sleeping[cursor]] = "ready"]
    /\ cursor' = cursor + 1
    /\ UNCHANGED <<running, threadTicks, priority, sleeping, dur, since, pc>>

\* Variant: the iterator skips the element after a removed one.
WakeSkipping ==
    /\ cursor \in DOMAIN sleeping /\ Due(sleeping[cursor])
    /\ sleeping' = RemoveAt(sleeping, cursor)
    /\ ready' \in ListInsertOrdered(ready, sleeping[cursor], priority)
    /\ status' = [status EXCEPT ![sleeping[cursor]] = "ready"]
    /\ cursor' = cursor + 1
    /\ UNCHANGED <<running, threadTicks, priority, dur, since, pc>>

\* An iteration of the loop that wakes the thread at e.  list_remove leaves
\* e->next as it was, so that list_next (e) is the element after it, which has
\* moved to e's position.
Wake ==
    /\ cursor \in DOMAIN sleeping /\ Due(sleeping[cursor])
    /\ sleeping' = RemoveAt(sleeping, cursor)
    /\ ready' \in ListInsertOrdered(ready, sleeping[cursor], priority)
    /\ status' = [status EXCEPT ![sleeping[cursor]] = "ready"]
    /\ UNCHANGED <<running, threadTicks, priority, dur, since, pc, cursor>>

\* An iteration that leaves the thread at e asleep.
Pass ==
    /\ cursor \in DOMAIN sleeping /\ ~ Due(sleeping[cursor])
    /\ cursor' = cursor + 1
    /\ UNCHANGED <<scheduler, priority, sleeping, dur, since, pc>>

\* Variant: the interrupt never yields.
InterruptReturnSame ==
    /\ cursor > Len(sleeping)
    /\ cursor' = 0 /\ threadTicks' = 0
    /\ UNCHANGED <<running, status, ready, priority, sleeping, dur, since, pc>>

\* The end of the handler: yield if thread_tick has asked for it.
InterruptReturn ==
    /\ cursor > Len(sleeping)
    /\ cursor' = 0
    /\ \/ threadTicks >= TIME_SLICE /\ ThreadYield
       \/ threadTicks < TIME_SLICE /\ UNCHANGED scheduler
    /\ UNCHANGED <<priority, sleeping, dur, since, pc>>

Handler == Wake \/ Pass \/ InterruptReturn

Next ==
    \/ \E t \in Threads :
          Yield(t) \/ Sleep(t) \/ \E d \in Durations : ReadStart(t, d)
    \/ IdleLoop \/ TimerInterrupt \/ Handler

Spec == Init /\ [][Next]_vars

(***************************************************************************)
(* The timer keeps interrupting, its handler runs to its end, and the idle *)
(* thread loops.  A client thread is not obliged to do anything.           *)
(***************************************************************************)
FairSpec == Spec /\ WF_vars(TimerInterrupt) /\ WF_vars(Handler) /\ WF_vars(IdleLoop)

-------------------------------------------------------------------------------
(***************************************************************************)
(* The lists and the statuses agree at every iteration of the handler: a   *)
(* thread is blocked exactly while it is in sleeping_list, so that         *)
(* thread_unblock's assertion holds and no thread sleeps for ever outside  *)
(* the list; inside the loop, everything before e has been looked at and   *)
(* is still to sleep.                                                      *)
(***************************************************************************)
SleepersOK ==
    /\ NoDuplicates(ready) /\ NoDuplicates(sleeping)
    /\ \A t \in Threads :
          /\ status[t] = "running" <=> running = t
          /\ status[t] = "ready" <=> t \in ToSet(ready)
          /\ status[t] = "blocked" <=> t \in ToSet(sleeping)
    /\ \A i \in DOMAIN sleeping : i < cursor => ~ Due(sleeping[i])

\* timer_sleep and timer_interrupt implement the abstract alarm clock.  The
\* interrupt counts as the tick: from its first instruction on, a thread its
\* loop is going to wake is awake.
SleepState(t) ==
    IF pc[t] = "start" THEN "calling"
    ELSE IF status[t] = "blocked" /\ ~ (Masked /\ Due(t)) THEN "asleep" ELSE "awake"

Clock == INSTANCE AlarmClock WITH state <- [t \in Threads |-> SleepState(t)]
ImplementsAlarmClock == Clock!Spec

\* Every sleeper wakes, also one whose time had passed before it fell asleep.
SleepersWake == \A t \in Threads : status[t] = "blocked" ~> status[t] # "blocked"

\* A thread of the highest priority that is ready, for instance because it has
\* been woken in interrupt context where nobody yields to it, gets the CPU:
\* others may run for one time slice each.
HighestRuns ==
    \A t \in Threads :
        (status[t] = "ready" /\ \A u \in Threads : priority[u] <= priority[t]) ~> running = t
===============================================================================
