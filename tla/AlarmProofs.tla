------------------------------ MODULE AlarmProofs ------------------------------
(***************************************************************************)
(* Proofs, for any set of threads, durations, priorities and time slice,   *)
(* that the lists of the alarm clock stay in order and that timer_sleep    *)
(* and timer_interrupt implement AlarmClock.                               *)
(***************************************************************************)
EXTENDS Alarm, KernelListProofs

\* A slice that is used up ends with the interrupt that used it up, and a
\* thread inside timer_sleep has not fallen asleep.
BetweenInterrupts ==
    /\ cursor = 0 => threadTicks < TIME_SLICE
    /\ \A t \in Threads : pc[t] = "start" => status[t] # "blocked"

Inv == TypeOK /\ SleepersOK /\ BetweenInterrupts

SchedulerOK ==
    /\ running \in Threads \cup {Idle} /\ status \in [Threads -> Status]
    /\ ready \in Seq(Threads) /\ NoDuplicates(ready)
    /\ \A t \in Threads : status[t] = "running" <=> running = t
    /\ \A t \in Threads : status[t] = "ready" <=> t \in ToSet(ready)

-------------------------------------------------------------------------------
\* schedule() with the ready list r and the statuses st, none of them running.
LEMMA ScheduleStep ==
    ASSUME NEW r \in Seq(Threads), NEW st \in [Threads -> Status],
           NoDuplicates(r),
           \A t \in Threads : st[t] = "ready" <=> t \in ToSet(r),
           \A t \in Threads : st[t] # "running",
           Schedule(r, st)
    PROVE  /\ SchedulerOK' /\ threadTicks' = 0
           /\ \A t \in Threads : status'[t] = "blocked" <=> st[t] = "blocked"
  <1>0. threadTicks' = 0
    BY DEF Schedule
  <1>1. CASE r = <<>>
    <2>1. running' = Idle /\ ready' = r /\ status' = st
      BY <1>1 DEF Schedule
    <2>2. Idle \notin Threads
      BY AlarmAssumption
    <2> QED BY <1>0, <2>1, <2>2 DEF SchedulerOK
  <1>2. CASE r # <<>>
    <2> DEFINE h == Head(r)
    <2>1. running' = h /\ ready' = Tail(r) /\ status' = [st EXCEPT ![h] = "running"]
      BY <1>2 DEF Schedule
    <2>2. /\ h \in ToSet(r) /\ Tail(r) \in Seq(Threads)
          /\ ToSet(r) = ToSet(Tail(r)) \cup {h}
          /\ NoDuplicates(Tail(r)) /\ h \notin ToSet(Tail(r))
      BY <1>2, PopFront
    <2>3. h \in Threads
      BY <2>2, MemberOfList
    <2> HIDE DEF h
    <2>4. status' \in [Threads -> Status]
      BY <2>1, <2>3 DEF Status
    <2>5. \A t \in Threads : status'[t] = IF t = h THEN "running" ELSE st[t]
      BY <2>1, <2>3
    <2>6. SchedulerOK'
      BY <2>1, <2>2, <2>3, <2>4, <2>5 DEF SchedulerOK
    <2>7. st[h] = "ready"
      BY <2>2, <2>3
    <2> QED BY <1>0, <2>5, <2>6, <2>7
  <1> QED BY <1>1, <1>2

\* thread_yield of the running thread or of the idle thread.
LEMMA YieldStep ==
    ASSUME SchedulerOK, ThreadYield
    PROVE  /\ SchedulerOK' /\ threadTicks' = 0
           /\ \A t \in Threads : status'[t] = "blocked" <=> status[t] = "blocked"
  <1>1. CASE running = Idle
    <2>1. Idle \notin Threads
      BY AlarmAssumption
    <2>2. Schedule(ready, status)
      BY <1>1 DEF ThreadYield
    <2> QED BY <1>1, <2>1, <2>2, ScheduleStep DEF SchedulerOK
  <1>2. CASE running # Idle
    <2>1. PICK q \in ListInsertOrdered(ready, running, priority) :
             Schedule(q, [status EXCEPT ![running] = "ready"])
      BY <1>2 DEF ThreadYield
    <2>2. PICK t \in Threads : t = running
      BY <1>2 DEF SchedulerOK
    <2>3. t \notin ToSet(ready)
      BY <2>2 DEF SchedulerOK
    <2>4. q \in Seq(Threads) /\ ToSet(q) = ToSet(ready) \cup {t} /\ NoDuplicates(q)
      BY <2>1, <2>2, <2>3, InsertOrdered DEF SchedulerOK
    <2> DEFINE st == [status EXCEPT ![t] = "ready"]
    <2>5. st \in [Threads -> Status] /\ \A u \in Threads : st[u] = IF u = t THEN "ready" ELSE status[u]
      BY DEF Status, SchedulerOK
    <2>6. Schedule(q, st)
      BY <2>1, <2>2
    <2> HIDE DEF st
    <2>7. /\ \A u \in Threads : st[u] = "ready" <=> u \in ToSet(q)
          /\ \A u \in Threads : st[u] # "running"
      BY <2>2, <2>4, <2>5 DEF SchedulerOK
    <2>8. /\ SchedulerOK' /\ threadTicks' = 0
          /\ \A u \in Threads : status'[u] = "blocked" <=> st[u] = "blocked"
      BY <2>4, <2>5, <2>6, <2>7, ScheduleStep
    <2>9. status[t] = "running"
      BY <2>2 DEF SchedulerOK
    <2> QED BY <2>5, <2>8, <2>9
  <1> QED BY <1>1, <1>2

\* Most steps leave sleeping_list, what it is compared with and the handler's
\* position alone: only the scheduler's part and threadTicks need an argument.
LEMMA SchedulingStep ==
    ASSUME Inv, SchedulerOK',
           \A t \in Threads : status'[t] = "blocked" <=> status[t] = "blocked",
           threadTicks' = 0,
           cursor' \in {0, cursor},
           UNCHANGED <<priority, sleeping, dur, since, pc>>
    PROVE  Inv'
  <1>1. TIME_SLICE \in Nat /\ TIME_SLICE > 0
    BY AlarmAssumption
  <1>2. TypeOK'
    BY <1>1 DEF Inv, TypeOK, SchedulerOK
  <1>3. SleepersOK'
    <2>1. ASSUME NEW i \in DOMAIN sleeping, i < cursor' PROVE ~ Due(sleeping[i])
      <3>1. sleeping \in Seq(Threads) /\ cursor \in Nat
        BY DEF Inv, TypeOK
      <3>2. i \in 1 .. Len(sleeping)
        BY <3>1, LenProperties
      <3>3. i < cursor
        BY <2>1, <3>1, <3>2
      <3> QED BY <3>3 DEF Inv, SleepersOK
    <2> QED BY <2>1 DEF Inv, SleepersOK, SchedulerOK, Due
  <1>4. BetweenInterrupts'
    BY <1>1 DEF Inv, BetweenInterrupts
  <1> QED BY <1>2, <1>3, <1>4 DEF Inv

\* The invariant, as the scheduling lemmas use it.
LEMMA InvScheduler == ASSUME Inv PROVE SchedulerOK
  BY DEF Inv, TypeOK, SleepersOK, SchedulerOK

\* thread_yield touches neither sleeping_list nor the clock.
LEMMA YieldKeeps ==
    ASSUME Inv, NEW t \in Threads, Yield(t) PROVE Inv'
  BY InvScheduler, YieldStep, SchedulingStep DEF Yield

\* The idle thread's switch touches neither sleeping_list nor the clock.
LEMMA IdleLoopKeeps ==
    ASSUME Inv, IdleLoop PROVE Inv'
  <1>1. SchedulerOK /\ running = Idle /\ Idle \notin Threads /\ Schedule(ready, status)
    BY InvScheduler, AlarmAssumption DEF IdleLoop
  <1>2. /\ SchedulerOK' /\ threadTicks' = 0
        /\ \A t \in Threads : status'[t] = "blocked" <=> status[t] = "blocked"
    BY <1>1, ScheduleStep DEF SchedulerOK
  <1> QED BY <1>2, SchedulingStep DEF IdleLoop

\* Before its loop the handler has visited no element of a list.
LEMMA NoneVisited ==
    ASSUME NEW S, NEW s \in Seq(S), NEW n \in {0, 1}
    PROVE  \A i \in DOMAIN s : ~ (i < n)
  <1>1. DOMAIN s = 1 .. Len(s) /\ Len(s) \in Nat
    BY LenProperties
  <1> QED BY <1>1

\* Reading the clock starts a request; the lists stay.
LEMMA ReadStartKeeps ==
    ASSUME Inv, NEW t \in Threads, NEW d \in Durations, ReadStart(t, d) PROVE Inv'
  <1> USE DEF ReadStart, Masked, scheduler
  <1>1. MaxSleep \in Nat
    BY AlarmAssumption
  <1>2. TypeOK'
    BY <1>1 DEF Inv, TypeOK
  <1>3. SleepersOK'
    <2>1. \A i \in DOMAIN sleeping : ~ (i < cursor')
      BY NoneVisited DEF Inv, TypeOK
    <2> QED BY <2>1 DEF Inv, SleepersOK
  <1>4. BetweenInterrupts'
    BY DEF Inv, TypeOK, SleepersOK, BetweenInterrupts
  <1> QED BY <1>2, <1>3, <1>4 DEF Inv

\* The thread that falls asleep was running, so it was on neither list.
LEMMA SleepKeeps ==
    ASSUME Inv, NEW t \in Threads, Sleep(t) PROVE Inv'
  <1> DEFINE st == [status EXCEPT ![t] = "blocked"]
  <1>1. /\ cursor = 0 /\ cursor' = 0 /\ running = t
        /\ sleeping' = Append(sleeping, t) /\ pc' = [pc EXCEPT ![t] = "client"]
        /\ priority' = priority /\ dur' = dur /\ since' = since
        /\ Schedule(ready, st)
    BY DEF Sleep, Masked
  <1>2. /\ TypeOK /\ SleepersOK /\ SchedulerOK /\ BetweenInterrupts
        /\ TIME_SLICE \in Nat /\ TIME_SLICE > 0
    BY InvScheduler, AlarmAssumption DEF Inv
  <1>3. status[t] = "running" /\ t \notin ToSet(ready) /\ t \notin ToSet(sleeping)
    BY <1>1, <1>2 DEF SleepersOK
  <1>4. /\ st \in [Threads -> Status]
        /\ \A u \in Threads : st[u] = IF u = t THEN "blocked" ELSE status[u]
    BY <1>2 DEF TypeOK, Status
  <1> HIDE DEF st
  <1>5. /\ \A u \in Threads : st[u] = "ready" <=> u \in ToSet(ready)
        /\ \A u \in Threads : st[u] # "running"
        /\ ready \in Seq(Threads) /\ NoDuplicates(ready)
    BY <1>1, <1>2, <1>3, <1>4 DEF SchedulerOK
  <1>6. /\ SchedulerOK' /\ threadTicks' = 0
        /\ \A u \in Threads : status'[u] = "blocked" <=> st[u] = "blocked"
    BY <1>1, <1>4, <1>5, ScheduleStep
  <1>7. /\ sleeping' \in Seq(Threads) /\ NoDuplicates(sleeping')
        /\ ToSet(sleeping') = ToSet(sleeping) \cup {t}
    <2>1. sleeping \in Seq(Threads) /\ NoDuplicates(sleeping)
      BY <1>2 DEF TypeOK, SleepersOK
    <2> QED BY <1>1, <1>3, <2>1, PushBack
  <1>8. TypeOK'
    BY <1>1, <1>2, <1>6, <1>7 DEF TypeOK, SchedulerOK
  <1>9. SleepersOK'
    <2>1. \A i \in DOMAIN sleeping' : ~ (i < cursor')
      BY <1>1, <1>7, NoneVisited
    <2>2. \A u \in Threads : status'[u] = "blocked" <=> u \in ToSet(sleeping')
      BY <1>2, <1>4, <1>6, <1>7 DEF SleepersOK
    <2> QED BY <1>6, <1>7, <2>1, <2>2 DEF SleepersOK, SchedulerOK
  <1>10. BetweenInterrupts'
    BY <1>1, <1>2, <1>4, <1>6 DEF TypeOK, BetweenInterrupts
  <1> QED BY <1>8, <1>9, <1>10 DEF Inv

\* The clock advances and the handler starts at the front of the list.
LEMMA TimerInterruptKeeps ==
    ASSUME Inv, TimerInterrupt PROVE Inv'
  <1> USE DEF TimerInterrupt, Masked
  <1>1. /\ MaxSleep \in Nat /\ TIME_SLICE \in Nat
        /\ threadTicks \in Nat /\ threadTicks < TIME_SLICE
    BY AlarmAssumption DEF Inv, TypeOK, BetweenInterrupts
  <1>2. \A t \in Threads : Later(since[t]) \in 0 .. MaxSleep
    BY <1>1 DEF Inv, TypeOK, Later
  <1>3. TypeOK'
    BY <1>1, <1>2 DEF Inv, TypeOK
  <1>4. SleepersOK'
    <2>1. \A i \in DOMAIN sleeping' : ~ (i < cursor')
      BY NoneVisited DEF Inv, TypeOK
    <2> QED BY <2>1 DEF Inv, SleepersOK
  <1>5. BetweenInterrupts'
    BY DEF Inv, BetweenInterrupts
  <1> QED BY <1>3, <1>4, <1>5 DEF Inv

\* The woken thread leaves one list for the other.
LEMMA WakeKeeps ==
    ASSUME Inv, Wake PROVE Inv'
  <1> DEFINE s == sleeping[cursor]
  <1>1. /\ sleeping \in Seq(Threads) /\ NoDuplicates(sleeping)
        /\ cursor \in 1 .. Len(sleeping) /\ cursor \in DOMAIN sleeping
        /\ s \in Threads /\ s \in ToSet(sleeping)
    <2>1. sleeping \in Seq(Threads) /\ NoDuplicates(sleeping) /\ cursor \in DOMAIN sleeping
      BY DEF Inv, TypeOK, SleepersOK, Wake
    <2>2. cursor \in 1 .. Len(sleeping)
      BY <2>1, LenProperties
    <2> QED BY <2>1, <2>2, ElementOfSeq DEF ToSet
  <1>2. /\ sleeping' = RemoveAt(sleeping, cursor)
        /\ ready' \in ListInsertOrdered(ready, s, priority)
        /\ status' = [status EXCEPT ![s] = "ready"]
        /\ UNCHANGED <<running, threadTicks, priority, dur, since, pc, cursor>>
    BY DEF Wake
  <1>3. /\ sleeping' \in Seq(Threads) /\ Len(sleeping') = Len(sleeping) - 1
        /\ \A k \in 1 .. Len(sleeping) - 1 :
              sleeping'[k] = IF k < cursor THEN sleeping[k] ELSE sleeping[k + 1]
        /\ ToSet(sleeping') = ToSet(sleeping) \ {s}
        /\ NoDuplicates(sleeping')
    BY <1>1, <1>2, RemoveElement
  <1> HIDE DEF s
  <1>4. status[s] = "blocked" /\ s \notin ToSet(ready) /\ running # s
    BY <1>1 DEF Inv, SleepersOK
  <1>5. ready' \in Seq(Threads) /\ NoDuplicates(ready') /\ ToSet(ready') = ToSet(ready) \cup {s}
    <2>1. ready \in Seq(Threads) /\ NoDuplicates(ready)
      BY DEF Inv, TypeOK, SleepersOK
    <2> QED BY <1>1, <1>2, <1>4, <2>1, InsertOrdered
  <1>6. /\ status' \in [Threads -> Status]
        /\ \A t \in Threads : status'[t] = IF t = s THEN "ready" ELSE status[t]
    BY <1>1, <1>2 DEF Inv, TypeOK, Status
  <1>7. TypeOK'
    BY <1>2, <1>3, <1>5, <1>6 DEF Inv, TypeOK
  <1>8. SleepersOK'
    <2>1. ASSUME NEW i \in DOMAIN sleeping', i < cursor' PROVE ~ Due(sleeping'[i])
      <3>1. i \in 1 .. Len(sleeping) - 1 /\ DOMAIN sleeping = 1 .. Len(sleeping)
        BY <1>1, <1>3, LenProperties
      <3>2. Len(sleeping) \in Nat
        BY <1>1, LenProperties
      <3>3. sleeping'[i] = sleeping[i] /\ i \in DOMAIN sleeping
        BY <1>2, <1>3, <2>1, <3>1, <3>2
      <3>4. ~ Due(sleeping[i])
        BY <1>2, <2>1, <3>3 DEF Inv, SleepersOK
      <3> QED BY <1>2, <3>3, <3>4 DEF Due
    <2>2. \A t \in Threads : /\ status'[t] = "running" <=> running' = t
                             /\ status'[t] = "ready" <=> t \in ToSet(ready')
                             /\ status'[t] = "blocked" <=> t \in ToSet(sleeping')
      BY <1>2, <1>3, <1>4, <1>5, <1>6 DEF Inv, SleepersOK
    <2> QED BY <1>2, <1>3, <1>5, <2>1, <2>2 DEF SleepersOK, Due
  <1>9. BetweenInterrupts'
    BY <1>2, <1>6 DEF Inv, BetweenInterrupts
  <1> QED BY <1>7, <1>8, <1>9 DEF Inv

\* The element passed over is not due, like those before it.
LEMMA PassKeeps ==
    ASSUME Inv, Pass PROVE Inv'
  <1> USE DEF Pass, scheduler
  <1>1. cursor \in Nat /\ cursor \in DOMAIN sleeping /\ DOMAIN sleeping = 1 .. Len(sleeping)
    BY LenProperties DEF Inv, TypeOK
  <1>2. TypeOK'
    BY <1>1 DEF Inv, TypeOK
  <1>3. SleepersOK'
    <2>1. ASSUME NEW i \in DOMAIN sleeping, i < cursor' PROVE ~ Due(sleeping[i])
      <3>1. i < cursor \/ i = cursor
        BY <1>1, <2>1
      <3> QED BY <3>1 DEF Inv, SleepersOK
    <2> QED BY <2>1 DEF Inv, SleepersOK, Due
  <1>4. BetweenInterrupts'
    BY <1>1 DEF Inv, BetweenInterrupts
  <1> QED BY <1>2, <1>3, <1>4 DEF Inv

\* A slice that is used up ends here, so none is found used up later.
LEMMA InterruptReturnKeeps ==
    ASSUME Inv, InterruptReturn PROVE Inv'
  <1>1. CASE ThreadYield
    BY <1>1, InvScheduler, YieldStep, SchedulingStep DEF InterruptReturn
  <1>2. CASE threadTicks < TIME_SLICE /\ UNCHANGED scheduler
    <2> USE <1>2 DEF InterruptReturn, scheduler
    <2>1. TypeOK'
      BY DEF Inv, TypeOK
    <2>2. SleepersOK'
      <3>1. \A i \in DOMAIN sleeping' : ~ (i < cursor')
          BY NoneVisited DEF Inv, TypeOK
      <3> QED BY <3>1 DEF Inv, SleepersOK
    <2>3. BetweenInterrupts'
      BY DEF Inv, BetweenInterrupts
    <2> QED BY <2>1, <2>2, <2>3 DEF Inv
  <1> QED BY <1>1, <1>2 DEF InterruptReturn

-------------------------------------------------------------------------------
\* All threads but the running one are ready, in some order, once each.
LEMMA InitInv == Init => Inv
  <1> SUFFICES ASSUME Init PROVE Inv
    OBVIOUS
  <1>1. PICK s \in SetToSeqs(Threads \ {running}) : ready \in ListSort(s, priority)
    BY DEF Init
  <1>2. /\ running \in Threads /\ Idle \notin Threads
        /\ TIME_SLICE \in Nat /\ TIME_SLICE > 0 /\ MaxSleep \in Nat
    BY AlarmAssumption DEF Init
  <1>3. IsFiniteSet(Threads \ {running})
    BY AlarmAssumption, FS_RemoveElement
  <1>4. /\ s \in Seq(Threads \ {running}) /\ ToSet(s) = Threads \ {running}
        /\ NoDuplicates(s)
    BY <1>1, <1>3, PermutationOfSet
  <1>5. s \in Seq(Threads)
    <2>1. s \in [1 .. Len(s) -> Threads \ {running}] /\ Len(s) \in Nat
      BY <1>4, LenProperties
    <2> QED BY <2>1, FunctionIsList
  <1>6. /\ ready \in Seq(Threads) /\ ToSet(ready) = Threads \ {running}
        /\ NoDuplicates(ready)
    BY <1>1, <1>4, <1>5, SortKeepsElements
  <1>7. ToSet(sleeping) = {} /\ NoDuplicates(sleeping) /\ sleeping \in Seq(Threads)
    BY DEF Init, ToSet, NoDuplicates, IsInjective
  <1>8. /\ status \in [Threads -> Status]
        /\ \A t \in Threads : status[t] = IF t = running THEN "running" ELSE "ready"
    BY DEF Init, Status
  <1>9. TypeOK
    BY <1>2, <1>6, <1>7, <1>8 DEF Init, TypeOK
  <1>10. SleepersOK
    <2>1. \A i \in DOMAIN sleeping : ~ (i < cursor)
      BY <1>7, NoneVisited DEF Init
    <2> QED BY <1>2, <1>6, <1>7, <1>8, <2>1 DEF SleepersOK
  <1>11. BetweenInterrupts
    BY <1>2, <1>8 DEF Init, BetweenInterrupts
  <1> QED BY <1>9, <1>10, <1>11 DEF Inv

\* Every action of the alarm clock preserves the invariant.
LEMMA StepInv == Inv /\ [Next]_vars => Inv'
  <1> SUFFICES ASSUME Inv, [Next]_vars PROVE Inv'
    OBVIOUS
  <1>1. CASE UNCHANGED vars
    BY <1>1 DEF vars, scheduler, Inv, TypeOK, SleepersOK, BetweenInterrupts, Due
  <1>2. ASSUME NEW t \in Threads, Yield(t) PROVE Inv'
    BY <1>2, YieldKeeps
  <1>3. ASSUME NEW t \in Threads, Sleep(t) PROVE Inv'
    BY <1>3, SleepKeeps
  <1>4. ASSUME NEW t \in Threads, NEW d \in Durations, ReadStart(t, d) PROVE Inv'
    BY <1>4, ReadStartKeeps
  <1>5. CASE IdleLoop
    BY <1>5, IdleLoopKeeps
  <1>6. CASE TimerInterrupt
    BY <1>6, TimerInterruptKeeps
  <1>7. CASE Handler
    BY <1>7, WakeKeeps, PassKeeps, InterruptReturnKeeps DEF Handler
  <1> QED BY <1>1, <1>2, <1>3, <1>4, <1>5, <1>6, <1>7 DEF Next

\* The inductive invariant: the properties of the run, and BetweenInterrupts,
\* without which an interrupt could find an expired slice.
THEOREM AlarmInvHolds == Spec => []Inv
  BY InitInv, StepInv, PTL DEF Spec

\* thread_block and thread_unblock always meet a thread in the state they
\* assert, and every blocked thread is in sleeping_list, where the handler
\* will find it.
THEOREM SleepersCorrect == Spec => []SleepersOK
  <1>1. Inv => SleepersOK
    BY DEF Inv
  <1> QED BY <1>1, AlarmInvHolds, PTL

\* Every variable of the alarm clock keeps its type: the ready and
\* sleeping lists stay lists of threads and thread_ticks within the slice, over
\* every step of timer_interrupt.
THEOREM AlarmTypes == Spec => []TypeOK
  <1>1. Inv => TypeOK
    BY DEF Inv
  <1> QED BY <1>1, AlarmInvHolds, PTL

-------------------------------------------------------------------------------
(* The refinement: a step reads the clock for a call, falls asleep, ticks, *)
(* or changes nothing AlarmClock can see.                                  *)

\* What a step that only moves threads between the CPU and the ready list
\* leaves alone.
LEMMA Unseen ==
    ASSUME \A t \in Threads : SleepState(t)' = SleepState(t), UNCHANGED <<dur, since>>
    PROVE  UNCHANGED Clock!vars
  BY DEF Clock!vars

\* A thread switch changes nobody from asleep to awake or back.
LEMMA SwitchUnseen ==
    ASSUME \A t \in Threads : status'[t] = "blocked" <=> status[t] = "blocked",
           UNCHANGED <<dur, since, pc, cursor>>
    PROVE  UNCHANGED Clock!vars
  <1>1. ASSUME NEW t \in Threads PROVE SleepState(t)' = SleepState(t)
    BY DEF SleepState, Masked, Due
  <1> QED BY <1>1, Unseen

\* thread_yield is a stuttering step of AlarmClock.
LEMMA YieldUnseen ==
    ASSUME Inv, NEW t \in Threads, Yield(t) PROVE UNCHANGED Clock!vars
  BY InvScheduler, YieldStep, SwitchUnseen DEF Yield

\* So is the loop of the idle thread.
LEMMA IdleLoopUnseen ==
    ASSUME Inv, IdleLoop PROVE UNCHANGED Clock!vars
  <1>1. SchedulerOK /\ running = Idle /\ Idle \notin Threads /\ Schedule(ready, status)
    BY InvScheduler, AlarmAssumption DEF IdleLoop
  <1>2. \A t \in Threads : status'[t] = "blocked" <=> status[t] = "blocked"
    BY <1>1, ScheduleStep DEF SchedulerOK
  <1> QED BY <1>2, SwitchUnseen DEF IdleLoop

\* Reading `start' is the moment the abstract call counts from.
LEMMA ReadStartCalls ==
    ASSUME Inv, NEW t \in Threads, NEW d \in Durations, ReadStart(t, d)
    PROVE  Clock!Call(t, d)
  <1> USE DEF ReadStart, Masked, scheduler
  <1>1. status[t] = "running" /\ cursor = 0 /\ pc[t] = "client"
    BY DEF Inv, SleepersOK
  <1>2. SleepState(t) = "awake"
    BY <1>1 DEF SleepState
  <1>3. ASSUME NEW u \in Threads
        PROVE  SleepState(u)' = IF u = t THEN "calling" ELSE SleepState(u)
    BY <1>1 DEF SleepState, Inv, TypeOK
  <1>4. [u \in Threads |-> SleepState(u)]'
           = [[u \in Threads |-> SleepState(u)] EXCEPT ![t] = "calling"]
    BY <1>3
  <1> QED BY <1>2, <1>4 DEF Clock!Call

\* Blocking is falling asleep.
LEMMA SleepFallsAsleep ==
    ASSUME Inv, NEW t \in Threads, Sleep(t) PROVE Clock!FallAsleep(t)
  <1> DEFINE st == [status EXCEPT ![t] = "blocked"]
  <1>1. /\ cursor = 0 /\ cursor' = 0 /\ running = t /\ pc[t] = "start"
        /\ pc' = [pc EXCEPT ![t] = "client"] /\ dur' = dur /\ since' = since
        /\ Schedule(ready, st)
    BY DEF Sleep, Masked
  <1>2. TypeOK /\ SchedulerOK
    BY InvScheduler DEF Inv
  <1>3. /\ st \in [Threads -> Status]
        /\ \A u \in Threads : st[u] = IF u = t THEN "blocked" ELSE status[u]
    BY <1>2 DEF TypeOK, Status
  <1> HIDE DEF st
  <1>4. /\ \A u \in Threads : st[u] = "ready" <=> u \in ToSet(ready)
        /\ \A u \in Threads : st[u] # "running"
        /\ ready \in Seq(Threads) /\ NoDuplicates(ready)
    <2>1. status[t] = "running"
      BY <1>1, <1>2 DEF SchedulerOK
    <2> QED BY <1>1, <1>2, <1>3, <2>1 DEF SchedulerOK
  <1>5. \A u \in Threads : status'[u] = "blocked" <=> st[u] = "blocked"
    BY <1>1, <1>3, <1>4, ScheduleStep
  <1>6. ASSUME NEW u \in Threads
        PROVE  SleepState(u)' = IF u = t THEN "asleep" ELSE SleepState(u)
    BY <1>1, <1>2, <1>3, <1>5 DEF SleepState, Masked, TypeOK
  <1>7. [u \in Threads |-> SleepState(u)]'
           = [[u \in Threads |-> SleepState(u)] EXCEPT ![t] = "asleep"]
    BY <1>6
  <1>8. SleepState(t) = "calling"
    BY <1>1 DEF SleepState
  <1> QED BY <1>1, <1>7, <1>8 DEF Clock!FallAsleep

\* The sleepers the handler is going to find due wake in the abstract step.
LEMMA InterruptTicks ==
    ASSUME Inv, TimerInterrupt PROVE Clock!Tick
  <1> USE DEF TimerInterrupt, Masked
  <1>1. cursor = 0 /\ cursor' # 0 /\ UNCHANGED <<status, pc, dur>>
    OBVIOUS
  <1>2. since' = [t \in Threads |-> Clock!Later(since[t])]
    BY DEF Later, Clock!Later
  <1>3. ASSUME NEW t \in Threads
        PROVE  SleepState(t)' =
                  IF SleepState(t) = "asleep" /\ since'[t] >= dur[t]
                  THEN "awake" ELSE SleepState(t)
    BY <1>1 DEF SleepState, Due
  <1>4. [t \in Threads |-> SleepState(t)]' =
           [t \in Threads |->
               IF [u \in Threads |-> SleepState(u)][t] = "asleep" /\ since'[t] >= dur[t]
               THEN "awake" ELSE [u \in Threads |-> SleepState(u)][t]]
    BY <1>3
  <1> QED BY <1>1, <1>2, <1>4 DEF Clock!Tick

\* The handler wakes a thread that the abstract tick has already woken.
LEMMA WakeUnseen ==
    ASSUME Inv, Wake PROVE UNCHANGED Clock!vars
  <1> DEFINE s == sleeping[cursor]
  <1>1. /\ cursor # 0 /\ s \in ToSet(sleeping) /\ s \in Threads /\ Due(s)
    <2>1. sleeping \in Seq(Threads) /\ cursor \in DOMAIN sleeping /\ Due(s)
      BY DEF Inv, TypeOK, Wake
    <2>2. cursor \in 1 .. Len(sleeping)
      BY <2>1, LenProperties
    <2> QED BY <2>1, <2>2, ElementOfSeq DEF ToSet
  <1>2. /\ status' = [status EXCEPT ![s] = "ready"]
        /\ UNCHANGED <<dur, since, pc, cursor>>
    BY DEF Wake
  <1> HIDE DEF s
  <1>3. status[s] = "blocked" /\ pc[s] # "start"
    BY <1>1 DEF Inv, SleepersOK, BetweenInterrupts
  <1>4. \A t \in Threads : status'[t] = IF t = s THEN "ready" ELSE status[t]
    BY <1>1, <1>2 DEF Inv, TypeOK
  <1>5. ASSUME NEW t \in Threads PROVE SleepState(t)' = SleepState(t)
    BY <1>1, <1>2, <1>3, <1>4 DEF SleepState, Masked, Due
  <1> QED BY <1>2, <1>5, Unseen

\* The handler passes over a thread that the abstract tick has left asleep.
LEMMA PassUnseen ==
    ASSUME Inv, Pass PROVE UNCHANGED Clock!vars
  <1>1. cursor \in DOMAIN sleeping /\ DOMAIN sleeping = 1 .. Len(sleeping) /\ cursor' = cursor + 1
    BY LenProperties DEF Pass, Inv, TypeOK
  <1>2. cursor # 0 /\ cursor' # 0
    BY <1>1
  <1>3. ASSUME NEW t \in Threads PROVE SleepState(t)' = SleepState(t)
    BY <1>2 DEF SleepState, Masked, Due, Pass, scheduler
  <1> QED BY <1>3, Unseen DEF Pass

\* When the handler ends nobody asleep is due: the abstract tick woke exactly
\* those the loop has woken.
LEMMA ReturnUnseen ==
    ASSUME Inv, InterruptReturn PROVE UNCHANGED Clock!vars
  <1>1. /\ cursor > Len(sleeping) /\ cursor' = 0 /\ UNCHANGED <<dur, since, pc>>
        /\ sleeping \in Seq(Threads)
    BY DEF InterruptReturn, Inv, TypeOK
  <1>2. \A t \in Threads : status'[t] = "blocked" <=> status[t] = "blocked"
    BY InvScheduler, YieldStep DEF InterruptReturn, scheduler
  <1>3. ASSUME NEW t \in Threads, status[t] = "blocked" PROVE ~ Due(t)
    <2>1. PICK i \in 1 .. Len(sleeping) : sleeping[i] = t
      BY <1>1, <1>3, MemberOfList DEF Inv, SleepersOK
    <2>2. i \in DOMAIN sleeping /\ i < cursor
      BY <1>1, LenProperties DEF Inv, TypeOK
    <2> QED BY <2>1, <2>2 DEF Inv, SleepersOK
  <1>4. ASSUME NEW t \in Threads PROVE SleepState(t)' = SleepState(t)
    BY <1>1, <1>2, <1>3 DEF SleepState, Masked
  <1> QED BY <1>1, <1>4, Unseen

\* Initially everybody is awake.
LEMMA InitIsClockInit == Init => Clock!Init
  <1> SUFFICES ASSUME Init PROVE Clock!Init
    OBVIOUS
  <1>1. \A t \in Threads : status[t] # "blocked" /\ pc[t] = "client"
    BY DEF Init
  <1>2. \A t \in Threads : SleepState(t) = "awake"
    BY <1>1 DEF SleepState
  <1> QED BY <1>2 DEF Init, Clock!Init

\* Every step is a step of AlarmClock or a stutter.
LEMMA StepIsClockStep == Inv /\ [Next]_vars => [Clock!Next]_(Clock!vars)
  <1> SUFFICES ASSUME Inv, [Next]_vars PROVE [Clock!Next]_(Clock!vars)
    OBVIOUS
  <1>1. CASE UNCHANGED vars
    BY <1>1, SwitchUnseen DEF vars, scheduler
  <1>2. ASSUME NEW t \in Threads, Yield(t) PROVE UNCHANGED Clock!vars
    BY <1>2, YieldUnseen
  <1>3. ASSUME NEW t \in Threads, Sleep(t) PROVE Clock!Next
    BY <1>3, SleepFallsAsleep DEF Clock!Next
  <1>4. ASSUME NEW t \in Threads, NEW d \in Durations, ReadStart(t, d) PROVE Clock!Next
    BY <1>4, ReadStartCalls DEF Clock!Next
  <1>5. CASE IdleLoop
    BY <1>5, IdleLoopUnseen
  <1>6. CASE TimerInterrupt
    BY <1>6, InterruptTicks DEF Clock!Next
  <1>7. CASE Handler
    BY <1>7, WakeUnseen, PassUnseen, ReturnUnseen DEF Handler
  <1> QED BY <1>1, <1>2, <1>3, <1>4, <1>5, <1>6, <1>7 DEF Next

\* No thread of any size of system is woken before its time, and none that is
\* asleep at a tick sleeps on past the tick that ends its sleep.
THEOREM AlarmImplementsClock == Spec => ImplementsAlarmClock
  <1>1. Init => Clock!Init
    BY InitIsClockInit
  <1>2. Inv /\ [Next]_vars => [Clock!Next]_(Clock!vars)
    BY StepIsClockStep
  <1> QED BY <1>1, <1>2, AlarmInvHolds, PTL DEF Spec, ImplementsAlarmClock, Clock!Spec
================================================================================
