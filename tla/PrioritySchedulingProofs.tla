------------------------ MODULE PrioritySchedulingProofs ------------------------
(***************************************************************************)
(* Proofs, for any number of threads, locks, semaphores and priorities, of *)
(* the safety properties of PriorityScheduling: the invariants of Spec,    *)
(* that no wake-up is lost, that waking order is priority order, that a    *)
(* donation reaches every holder, and that the locks implement LockService.*)
(***************************************************************************)
EXTENDS PriorityScheduling, KernelListProofs

(***************************************************************************)
(* What the inductive invariant needs to know about control.               *)
(***************************************************************************)
\* A thread inside a primitive has its object, a thread in the donation walk
\* has the CPU and a `curr', and `creating' is set exactly while the thread is
\* inside thread_create.
LocationOK(t) ==
    /\ pc[t] = "sema_down" => target[t] \in Semas
    /\ pc[t] \in {"donate", "release", "try"} => target[t] \in Locks
    /\ pc[t] = "donate" => running = t /\ curr \in Threads
    /\ creating[t] # NULL =>
          \/ pc[t] \in {"alloc_tid", "tid", "hack1", "unblock", "created"}
          \/ pc[t] \in Masked /\ target[t] = TidLock
    /\ pc[t] \in {"unblock", "created"} => creating[t] # NULL

\* A thread that is not alive, or is being created, has not entered the kernel.
NotYetRunning ==
    /\ \A t \in Threads : status[t] \in {"unborn", "dead"} => pc[t] = "client"
    /\ \A c \in Threads : creating[c] # NULL =>
          /\ status[creating[c]] # "unborn"
          /\ pc[c] # "created" =>
                status[creating[c]] = "blocked" /\ pc[creating[c]] = "client"

OneCreator ==
    \A c, d \in Threads : creating[c] # NULL /\ creating[c] = creating[d] => c = d

ControlOK == (\A t \in Threads : LocationOK(t)) /\ NotYetRunning /\ OneCreator

Inv == TypeOK /\ OneListPerThread /\ OneUnitPerLock /\ ControlOK

-------------------------------------------------------------------------------
(* Scheduling.                                                             *)

SchedulerOK ==
    /\ running \in Threads \cup {Idle}
    /\ status \in [Threads -> Status]
    /\ ready \in Seq(Threads)
    /\ RunningIsRunning
    /\ ReadyListHoldsReady

Alive == {"ready", "running"}

\* schedule() with the ready list r and the statuses st, none of them running:
\* only a ready thread changes its status.
LEMMA ScheduleStep ==
    ASSUME NEW r \in Seq(Threads), NEW st \in [Threads -> Status],
           NoDuplicates(r),
           \A t \in Threads : st[t] = "ready" <=> t \in ToSet(r),
           \A t \in Threads : st[t] # "running",
           Schedule(r, st)
    PROVE  /\ SchedulerOK'
           /\ \A t \in Threads : IF st[t] = "ready" THEN status'[t] \in Alive
                                                    ELSE status'[t] = st[t]
  <1>1. CASE r = <<>>
    <2>1. running' = Idle /\ ready' = r /\ status' = st
      BY <1>1 DEF Schedule
    <2>2. Idle \notin Threads
      BY SchedulingAssumption
    <2> QED BY <2>1, <2>2 DEF SchedulerOK, RunningIsRunning, ReadyListHoldsReady, Alive
  <1>2. CASE r # <<>>
    <2> DEFINE h == Head(r)
    <2>1. running' = h /\ ready' = Tail(r) /\ status' = [st EXCEPT ![h] = "running"]
      BY <1>2 DEF Schedule
    <2>2. /\ h \in ToSet(r) /\ Tail(r) \in Seq(Threads)
          /\ ToSet(r) = ToSet(Tail(r)) \cup {h}
          /\ NoDuplicates(Tail(r)) /\ h \notin ToSet(Tail(r))
      BY <1>2, PopFront
    <2>3. h \in Threads
      BY <2>2, MemberOfList
    <2> HIDE DEF h
    <2>4. status' \in [Threads -> Status]
      BY <2>1, <2>3 DEF Status
    <2>5. \A t \in Threads : status'[t] = IF t = h THEN "running" ELSE st[t]
      BY <2>1, <2>3
    <2>6. SchedulerOK'
      BY <2>1, <2>2, <2>3, <2>4, <2>5 DEF SchedulerOK, RunningIsRunning, ReadyListHoldsReady
    <2>7. st[h] = "ready"
      BY <2>2, <2>3
    <2> QED BY <2>5, <2>6, <2>7 DEF Alive
  <1> QED BY <1>1, <1>2

\* thread_yield of t, the only running thread.
LEMMA YieldStep ==
    ASSUME NEW t \in Threads, NEW r \in Seq(Threads), NEW st \in [Threads -> Status],
           NoDuplicates(r),
           \A u \in Threads : st[u] = "ready" <=> u \in ToSet(r),
           \A u \in Threads : st[u] = "running" <=> u = t,
           ThreadYield(t, r, st)
    PROVE  /\ SchedulerOK'
           /\ \A u \in Threads : IF st[u] \in Alive THEN status'[u] \in Alive
                                                    ELSE status'[u] = st[u]
  <1>1. PICK q \in ListInsertOrdered(r, t, currentPriority) :
           Schedule(q, [st EXCEPT ![t] = "ready"])
    BY DEF ThreadYield
  <1>2. t \notin ToSet(r)
    OBVIOUS
  <1>3. q \in Seq(Threads) /\ ToSet(q) = ToSet(r) \cup {t} /\ NoDuplicates(q)
    BY <1>1, <1>2, InsertOrdered
  <1> DEFINE su == [st EXCEPT ![t] = "ready"]
  <1>4. su \in [Threads -> Status] /\ \A u \in Threads : su[u] = IF u = t THEN "ready" ELSE st[u]
    BY DEF Status
  <1>5. Schedule(q, su)
    BY <1>1
  <1> HIDE DEF su
  <1>6. /\ \A u \in Threads : su[u] = "ready" <=> u \in ToSet(q)
        /\ \A u \in Threads : su[u] # "running"
    BY <1>3, <1>4
  <1>7. /\ SchedulerOK'
        /\ \A u \in Threads : IF su[u] = "ready" THEN status'[u] \in Alive
                                                 ELSE status'[u] = su[u]
    BY <1>3, <1>4, <1>5, <1>6, ScheduleStep
  <1> QED BY <1>4, <1>7 DEF Alive

\* sema_up takes one thread, u, off the wait list of s and off no other list.
LEMMA WakeStep ==
    ASSUME TypeOK, OneListPerThread, NEW s \in Semas, NEW u \in ToSet(waiters[s]),
           SemaWake(s, u)
    PROVE  /\ u \in Threads /\ status[u] = "blocked" /\ pc[u] = "sema_down"
           /\ waiters' \in [Semas -> Seq(Threads)]
           /\ \A q \in Semas : NoDuplicates(waiters'[q])
           /\ \A q \in Semas : ToSet(waiters'[q]) = ToSet(waiters[q]) \ {u}
           /\ \A w \in ToSet(waiters[s]) : currentPriority[w] <= currentPriority[u]
  <1>1. PICK l \in ListSort(waiters[s], currentPriority) :
           u = Head(l) /\ waiters' = [waiters EXCEPT ![s] = Tail(l)]
    BY DEF SemaWake
  <1>2. \A q \in Semas :
           /\ waiters[q] \in Seq(Threads) /\ NoDuplicates(waiters[q])
           /\ \A t \in ToSet(waiters[q]) : status[t] = "blocked" /\ pc[t] = "sema_down" /\ target[t] = q
    BY DEF TypeOK, OneListPerThread, WaitListsHoldBlocked
  <1>3. /\ l \in Seq(Threads) /\ ToSet(l) = ToSet(waiters[s]) /\ NoDuplicates(l)
    BY <1>1, <1>2, SortKeepsElements
  <1>4. l # <<>>
    BY <1>3, MemberOfList
  <1>5. /\ Tail(l) \in Seq(Threads) /\ ToSet(l) = ToSet(Tail(l)) \cup {u}
        /\ NoDuplicates(Tail(l)) /\ u \notin ToSet(Tail(l))
    BY <1>1, <1>3, <1>4, PopFront
  <1>6. u \in Threads
    BY <1>2, MemberOfList
  <1>7. waiters' \in [Semas -> Seq(Threads)]
        /\ \A q \in Semas : waiters'[q] = IF q = s THEN Tail(l) ELSE waiters[q]
    BY <1>1, <1>5 DEF TypeOK
  <1>8. \A q \in Semas : q # s => u \notin ToSet(waiters[q])
    BY <1>2
  <1>9. \A q \in Semas : ToSet(waiters'[q]) = ToSet(waiters[q]) \ {u}
    BY <1>3, <1>5, <1>7, <1>8
  <1>10. \A w \in ToSet(waiters[s]) : currentPriority[w] <= currentPriority[u]
    <2>1. currentPriority \in [Threads -> Int]
      BY SchedulingAssumption DEF TypeOK, Priorities
    <2>2. waiters[s] # <<>>
      BY <1>2, MemberOfList
    <2> QED BY <1>1, <1>2, <2>1, <2>2, SortedFront
  <1> QED BY <1>2, <1>5, <1>6, <1>7, <1>9, <1>10

\* What an action may do to the waiting threads: none is forgotten.
WaitersKept ==
    /\ waiters' \in [Semas -> Seq(Threads)]
    /\ \A q \in Semas : NoDuplicates(waiters'[q])
    /\ \A q \in Semas : \A t \in ToSet(waiters'[q]) : t \in ToSet(waiters[q]) /\ status'[t] = "blocked"
    /\ \A t \in Threads :
          \/ status'[t] = status[t] /\ \A q \in Semas : t \in ToSet(waiters[q]) => t \in ToSet(waiters'[q])
          \/ status[t] \in Alive /\ status'[t] \in Alive
          \/ status[t] = "blocked" /\ status'[t] \in Alive /\ pc[t] = "sema_down"

\* sema_up by the running thread.
LEMMA SemaUpStep ==
    ASSUME TypeOK, OneListPerThread, NEW t \in Threads, NEW s \in Semas,
           running = t, SemaUp(t, s)
    PROVE  SchedulerOK' /\ WaitersKept
  <1>0. /\ ready \in Seq(Threads) /\ NoDuplicates(ready)
        /\ status \in [Threads -> Status]
        /\ \A u \in Threads : status[u] = "ready" <=> u \in ToSet(ready)
        /\ \A u \in Threads : status[u] = "running" <=> u = t
        /\ \A q \in Semas :
           /\ waiters[q] \in Seq(Threads) /\ NoDuplicates(waiters[q])
           /\ \A u \in ToSet(waiters[q]) : status[u] = "blocked" /\ u \in Threads
    BY MemberOfList DEF TypeOK, OneListPerThread, WaitListsHoldBlocked, RunningIsRunning, ReadyListHoldsReady
  <1>1. CASE UNCHANGED <<waiters, scheduler>>
    BY <1>0, <1>1 DEF SchedulerOK, WaitersKept, TypeOK, OneListPerThread, scheduler,
                      RunningIsRunning, ReadyListHoldsReady
  <1>2. CASE ~ UNCHANGED <<waiters, scheduler>>
    <2>0. PICK u \in ToSet(waiters[s]) :
             \E r \in ListInsertOrdered(ready, u, currentPriority) :
                /\ SemaWake(s, u)
                /\ \/ ThreadYield(t, r, [status EXCEPT ![u] = "ready"])
                   \/ running' = running /\ ready' = r /\ status' = [status EXCEPT ![u] = "ready"]
      BY <1>2 DEF SemaUp
    <2>1. PICK r \in ListInsertOrdered(ready, u, currentPriority) :
             /\ SemaWake(s, u)
             /\ \/ ThreadYield(t, r, [status EXCEPT ![u] = "ready"])
                \/ running' = running /\ ready' = r /\ status' = [status EXCEPT ![u] = "ready"]
      BY <2>0
    <2> DEFINE st == [status EXCEPT ![u] = "ready"]
    <2>2. /\ u \in Threads /\ status[u] = "blocked" /\ pc[u] = "sema_down"
          /\ waiters' \in [Semas -> Seq(Threads)]
          /\ \A q \in Semas : NoDuplicates(waiters'[q])
          /\ \A q \in Semas : ToSet(waiters'[q]) = ToSet(waiters[q]) \ {u}
      BY <2>1, WakeStep
    <2>3. st \in [Threads -> Status] /\ \A x \in Threads : st[x] = IF x = u THEN "ready" ELSE status[x]
      BY <1>0, <2>2 DEF Status
    <2>4. r \in Seq(Threads) /\ NoDuplicates(r) /\ ToSet(r) = ToSet(ready) \cup {u}
      <3>1. u \notin ToSet(ready)
        BY <1>0, <2>2
      <3> QED BY <1>0, <2>1, <2>2, <3>1, InsertOrdered
    <2>5. ThreadYield(t, r, st) \/ (running' = running /\ ready' = r /\ status' = st)
      BY <2>1
    <2> HIDE DEF st
    <2>6. /\ \A x \in Threads : st[x] = "ready" <=> x \in ToSet(r)
          /\ \A x \in Threads : st[x] = "running" <=> x = t
      BY <1>0, <2>2, <2>3, <2>4
    <2>7. /\ SchedulerOK'
          /\ \A x \in Threads : IF st[x] \in Alive THEN status'[x] \in Alive
                                                   ELSE status'[x] = st[x]
      <3>1. CASE ThreadYield(t, r, st)
        BY <2>3, <2>4, <2>6, <3>1, YieldStep
      <3>2. CASE running' = running /\ ready' = r /\ status' = st
        BY <2>3, <2>4, <2>6, <3>2 DEF SchedulerOK, RunningIsRunning, ReadyListHoldsReady
      <3> QED BY <2>5, <3>1, <3>2
    <2>8. WaitersKept
      <3>1. \A x \in Threads : x # u => IF status[x] \in Alive THEN status'[x] \in Alive
                                                              ELSE status'[x] = status[x]
        BY <2>3, <2>7
      <3>2. status'[u] \in Alive
        BY <2>2, <2>3, <2>7 DEF Alive
      <3>3. \A q \in Semas : \A x \in ToSet(waiters'[q]) :
               x \in ToSet(waiters[q]) /\ x \in Threads /\ x # u /\ status'[x] = "blocked"
        BY <1>0, <2>2, <3>1 DEF Alive
      <3> QED BY <2>2, <3>1, <3>2, <3>3 DEF WaitersKept
    <2> QED BY <2>7, <2>8
  <1> QED BY <1>1, <1>2

-------------------------------------------------------------------------------
(* What most actions have in common.                                       *)

\* Only the running thread moves, and it neither starts nor finishes the
\* creation of a thread before it has unblocked that thread.
Steady ==
    /\ \A u \in Threads : u # running =>
          pc'[u] = pc[u] /\ target'[u] = target[u] /\ creating'[u] = creating[u]
    /\ \A c \in Threads :
          \/ creating'[c] = creating[c] /\ (pc'[c] = "created" <=> pc[c] = "created")
          \/ creating'[c] = NULL /\ pc[c] = "created"

\* A step that forgets no waiting thread keeps the lists and control in order.
LEMMA SteadyStep ==
    ASSUME Inv, SchedulerOK', WaitersKept, Steady,
           \A t \in Threads : t = running => LocationOK(t)'
    PROVE  OneListPerThread' /\ ControlOK'
  <1>1. /\ \A u \in Threads : status[u] = "running" <=> u = running
        /\ \A q \in Semas : \A u \in ToSet(waiters[q]) :
              u \in Threads /\ status[u] = "blocked" /\ pc[u] = "sema_down" /\ target[u] = q
    BY MemberOfList DEF Inv, TypeOK, OneListPerThread, RunningIsRunning, WaitListsHoldBlocked
  <1>2. WaitListsHoldBlocked'
    BY <1>1 DEF WaitersKept, WaitListsHoldBlocked, Steady
  <1>3. ASSUME NEW t \in Threads, status'[t] = "blocked"
        PROVE  \/ \E s \in Semas : t \in ToSet(waiters'[s])
               \/ \E c \in Threads : creating'[c] = t /\ pc'[c] # "created"
    <2>1. status[t] = "blocked" /\ \A q \in Semas : t \in ToSet(waiters[q]) => t \in ToSet(waiters'[q])
      BY <1>3 DEF WaitersKept, Alive
    <2>2. CASE \E s \in Semas : t \in ToSet(waiters[s])
      BY <2>1, <2>2
    <2>3. CASE \E c \in Threads : creating[c] = t /\ pc[c] # "created"
      BY <2>3 DEF Steady
    <2> QED BY <2>1, <2>2, <2>3 DEF Inv, OneListPerThread, BlockedCanBeWoken
  <1>4. OneListPerThread'
    BY <1>2, <1>3 DEF OneListPerThread, BlockedCanBeWoken, SchedulerOK
  <1>5. \A t \in Threads : LocationOK(t)'
    <2> SUFFICES ASSUME NEW t \in Threads, t # running PROVE LocationOK(t)'
      OBVIOUS
    <2>1. LocationOK(t) /\ pc'[t] = pc[t] /\ target'[t] = target[t] /\ creating'[t] = creating[t]
      BY DEF Steady, Inv, ControlOK
    <2>2. pc[t] # "donate"
      BY <2>1 DEF LocationOK
    <2> QED BY <2>1, <2>2 DEF LocationOK
  <1>6. NotYetRunning'
    <2>1. ASSUME NEW t \in Threads, status'[t] \in {"unborn", "dead"} PROVE pc'[t] = "client"
      <3>1. status[t] = status'[t] /\ t # running
        BY <1>1, <2>1 DEF WaitersKept, Alive
      <3> QED BY <2>1, <3>1 DEF Inv, ControlOK, NotYetRunning, Steady
    <2>2. ASSUME NEW c \in Threads, creating'[c] # NULL
          PROVE  /\ status'[creating'[c]] # "unborn"
                 /\ pc'[c] # "created" =>
                       status'[creating'[c]] = "blocked" /\ pc'[creating'[c]] = "client"
      <3> DEFINE u == creating[c]
      <3>1. creating'[c] = u /\ (pc'[c] = "created" <=> pc[c] = "created") /\ u # NULL
        BY <2>2 DEF Steady
      <3>2. u \in Threads /\ status[u] # "unborn"
            /\ (pc[c] # "created" => status[u] = "blocked" /\ pc[u] = "client")
        BY <3>1 DEF Inv, TypeOK, ControlOK, NotYetRunning
      <3> HIDE DEF u
      <3>3. status'[u] # "unborn"
        BY <3>2 DEF WaitersKept, Alive
      <3>4. CASE pc[c] # "created"
        <4>1. status'[u] = "blocked" /\ u # running
          BY <1>1, <3>2, <3>4 DEF WaitersKept, Alive
        <4> QED BY <3>1, <3>2, <3>3, <3>4, <4>1 DEF Steady
      <3> QED BY <3>1, <3>3, <3>4
    <2> QED BY <2>1, <2>2 DEF NotYetRunning
  <1>7. OneCreator'
    BY DEF OneCreator, Steady, Inv, ControlOK
  <1> QED BY <1>4, <1>5, <1>6, <1>7 DEF ControlOK

\* An action that leaves the scheduler and the wait lists alone.
LEMMA NoSwitch ==
    ASSUME Inv, UNCHANGED scheduler, UNCHANGED waiters
    PROVE  SchedulerOK' /\ WaitersKept
  <1>1. \A q \in Semas : \A u \in ToSet(waiters[q]) : status[u] = "blocked"
    BY DEF Inv, OneListPerThread, WaitListsHoldBlocked
  <1> QED BY <1>1 DEF Inv, TypeOK, OneListPerThread, WaitListsHoldBlocked, RunningIsRunning,
                      ReadyListHoldsReady, SchedulerOK, WaitersKept, scheduler

\* A yield leaves every waiter asleep.
LEMMA YieldSwitch ==
    ASSUME Inv, NEW t \in Threads, running = t, ThreadYield(t, ready, status), UNCHANGED waiters
    PROVE  SchedulerOK' /\ WaitersKept
  <1>1. /\ ready \in Seq(Threads) /\ NoDuplicates(ready)
        /\ status \in [Threads -> Status]
        /\ \A u \in Threads : status[u] = "ready" <=> u \in ToSet(ready)
        /\ \A u \in Threads : status[u] = "running" <=> u = t
        /\ \A q \in Semas :
           /\ waiters[q] \in Seq(Threads) /\ NoDuplicates(waiters[q])
           /\ \A u \in ToSet(waiters[q]) : status[u] = "blocked" /\ u \in Threads
    BY MemberOfList DEF Inv, TypeOK, OneListPerThread, WaitListsHoldBlocked, RunningIsRunning, ReadyListHoldsReady
  <1>2. /\ SchedulerOK'
        /\ \A u \in Threads : IF status[u] \in Alive THEN status'[u] \in Alive
                                                      ELSE status'[u] = status[u]
    BY <1>1, YieldStep
  <1>3. waiters \in [Semas -> Seq(Threads)]
    BY DEF Inv, TypeOK
  <1> QED BY <1>1, <1>2, <1>3 DEF WaitersKept, Alive

\* An action that gives up no lock's unit and takes none.
LEMMA NoUnitMoves ==
    ASSUME Inv, \A l \in Locks : value'[l] = value[l], UNCHANGED holder,
           \A t \in Threads : pc'[t] = "try" <=> pc[t] = "try",
           \A t \in Threads : pc[t] = "try" => target'[t] = target[t]
    PROVE  OneUnitPerLock'
  <1>1. \A l \in Locks : Trying(l)' = Trying(l)
    BY DEF Trying
  <1> QED BY <1>1 DEF Inv, OneUnitPerLock

\* The facts about a running thread t that its actions start from.
LEMMA Actor ==
    ASSUME Inv, NEW t \in Threads, running = t
    PROVE  /\ LocationOK(t) /\ status[t] = "running" /\ currentPriority[t] \in Priorities
           /\ \A l \in Locks : holder[l] \in Threads \cup {NULL}
           /\ \A u \in Threads : priority[u] \in Priorities /\ currentPriority[u] \in Priorities
           /\ NULL \notin Threads /\ NULL \notin Semas /\ Locks \subseteq Semas
  BY SchedulingAssumption DEF Inv, TypeOK, ControlOK, OneListPerThread, RunningIsRunning, Semas

\* Preempt, Hack1, CreateReturn and IdleLoop: the CPU changes hands.
LEMMA PreemptStep ==
    ASSUME Inv, NEW t \in Threads, Preempt(t)
    PROVE  Inv'
  <1>1. running = t /\ pc[t] # "donate" /\ UNCHANGED <<kernel, donation, objects, control>>
    BY DEF Preempt, Open
  <1>2. SchedulerOK' /\ WaitersKept
    BY <1>1, YieldSwitch DEF Preempt, objects
  <1>3. Steady
    BY <1>1 DEF Steady, control
  <1>4. LocationOK(t)'
    BY <1>1, Actor DEF LocationOK, control
  <1>5. OneUnitPerLock'
    BY <1>1, NoUnitMoves DEF control, objects
  <1>6. TypeOK'
    BY <1>1, <1>2 DEF Inv, TypeOK, SchedulerOK, WaitersKept, donation, objects, control
  <1> QED BY <1>1, <1>2, <1>3, <1>4, <1>5, <1>6, SteadyStep DEF Inv

\* The idle thread switches to the front of the ready list.
LEMMA IdleLoopStep ==
    ASSUME Inv, IdleLoop
    PROVE  Inv'
  <1>1. running = Idle /\ Idle \notin Threads /\ UNCHANGED <<kernel, donation, objects, control>>
    BY SchedulingAssumption DEF IdleLoop
  <1>2. /\ ready \in Seq(Threads) /\ NoDuplicates(ready)
        /\ status \in [Threads -> Status]
        /\ \A u \in Threads : status[u] = "ready" <=> u \in ToSet(ready)
        /\ \A u \in Threads : status[u] # "running"
        /\ waiters \in [Semas -> Seq(Threads)]
        /\ \A q \in Semas : NoDuplicates(waiters[q])
        /\ \A q \in Semas : \A u \in ToSet(waiters[q]) : status[u] = "blocked" /\ u \in Threads
    BY <1>1, MemberOfList DEF Inv, TypeOK, OneListPerThread, WaitListsHoldBlocked, RunningIsRunning, ReadyListHoldsReady
  <1>3. /\ SchedulerOK'
        /\ \A u \in Threads : IF status[u] = "ready" THEN status'[u] \in Alive
                                                     ELSE status'[u] = status[u]
    BY <1>2, ScheduleStep DEF IdleLoop
  <1>4. WaitersKept
    BY <1>1, <1>2, <1>3 DEF WaitersKept, Alive, objects
  <1>5. Steady
    BY <1>1 DEF Steady, control
  <1>6. OneUnitPerLock'
    BY <1>1, NoUnitMoves DEF control, objects
  <1>7. TypeOK'
    BY <1>1, <1>3, <1>4 DEF Inv, TypeOK, SchedulerOK, WaitersKept, donation, objects, control
  <1> QED BY <1>1, <1>3, <1>4, <1>5, <1>6, <1>7, SteadyStep DEF Inv

\* hack1 yields or not, and returns to the caller of lock_release.
LEMMA Hack1Step ==
    ASSUME Inv, NEW t \in Threads, Hack1(t)
    PROVE  Inv'
  <1>1. /\ running = t /\ pc[t] = "hack1"
        /\ pc' = [pc EXCEPT ![t] = IF creating[t] = NULL THEN "client" ELSE "unblock"]
        /\ UNCHANGED <<kernel, donation, objects, target, creating, curr>>
    BY DEF Hack1, At, Goto
  <1>2. SchedulerOK' /\ WaitersKept
    BY <1>1, YieldSwitch, NoSwitch DEF Hack1, objects
  <1>3. pc' \in [Threads -> Open \cup Masked] /\ \A u \in Threads : pc'[u] =
            IF u = t THEN IF creating[t] = NULL THEN "client" ELSE "unblock" ELSE pc[u]
    BY <1>1 DEF Inv, TypeOK, Open
  <1>4. Steady
    BY <1>1, <1>3 DEF Steady
  <1>5. LocationOK(t)'
    BY <1>1, <1>3, Actor DEF LocationOK
  <1>6. OneUnitPerLock'
    BY <1>1, <1>3, NoUnitMoves DEF objects
  <1>7. TypeOK'
    BY <1>1, <1>2, <1>3 DEF Inv, TypeOK, SchedulerOK, WaitersKept, donation, objects
  <1> QED BY <1>1, <1>2, <1>4, <1>5, <1>6, <1>7, SteadyStep DEF Inv

\* thread_create yields or not; t has nobody left to unblock.
LEMMA CreateReturnStep ==
    ASSUME Inv, NEW t \in Threads, CreateReturn(t)
    PROVE  Inv'
  <1>1. /\ running = t /\ pc[t] = "created"
        /\ pc' = [pc EXCEPT ![t] = "client"] /\ creating' = [creating EXCEPT ![t] = NULL]
        /\ UNCHANGED <<kernel, donation, objects, target, curr>>
    BY DEF CreateReturn, At, Goto
  <1>2. SchedulerOK' /\ WaitersKept
    BY <1>1, YieldSwitch, NoSwitch DEF CreateReturn, objects
  <1>3. /\ pc' \in [Threads -> Open \cup Masked]
        /\ \A u \in Threads : pc'[u] = IF u = t THEN "client" ELSE pc[u]
        /\ creating' \in [Threads -> Threads \cup {NULL}]
        /\ \A u \in Threads : creating'[u] = IF u = t THEN NULL ELSE creating[u]
    BY <1>1 DEF Inv, TypeOK, Open
  <1>4. Steady
    BY <1>1, <1>3 DEF Steady
  <1>5. LocationOK(t)'
    BY <1>1, <1>3, Actor DEF LocationOK
  <1>6. OneUnitPerLock'
    BY <1>1, <1>3, NoUnitMoves DEF objects
  <1>7. TypeOK'
    BY <1>1, <1>2, <1>3 DEF Inv, TypeOK, SchedulerOK, WaitersKept, donation, objects
  <1> QED BY <1>1, <1>2, <1>4, <1>5, <1>6, <1>7, SteadyStep DEF Inv

\* DonateStep, DonateEnd, SetPriority, SetPriorityStore, SemaDownCall and
\* LockAcquire: no semaphore and no list of the scheduler changes.
LEMMA QuietStep ==
    ASSUME Inv, NEW t \in Threads, running = t,
           UNCHANGED <<scheduler, objects, creating>>, TypeOK',
           \A u \in Threads : u # t => pc'[u] = pc[u] /\ target'[u] = target[u],
           pc[t] \notin {"created", "try"}, pc'[t] \notin {"created", "try"},
           LocationOK(t)'
    PROVE  Inv'
  <1>1. SchedulerOK' /\ WaitersKept
    BY NoSwitch DEF objects
  <1>2. Steady
    BY DEF Steady
  <1>3. OneUnitPerLock'
    BY NoUnitMoves DEF objects
  <1> QED BY <1>1, <1>2, <1>3, SteadyStep DEF Inv

\* The donation walk changes effective priorities only.
LEMMA DonateSteps ==
    ASSUME Inv, NEW t \in Threads, DonateStep(t) \/ DonateEnd(t)
    PROVE  Inv'
  <1>1. /\ running = t /\ pc[t] = "donate" /\ curr \in Threads /\ target[t] \in Locks
        /\ UNCHANGED <<scheduler, objects, creating, target>>
        /\ LocationOK(t) /\ NULL \notin Threads
    BY Actor DEF DonateStep, DonateEnd, At, LocationOK
  <1>2. CASE DonateStep(t)
    <2> DEFINE hold == holder[blockLock[curr]]
    <2>1. blockLock[curr] \in Locks /\ hold \in Threads \cup {NULL}
      BY <1>1, <1>2 DEF DonateStep, Inv, TypeOK
    <2>2. UNCHANGED <<priority, donatedPriority, blockLock, pc>>
      BY <1>2 DEF DonateStep
    <2>3. currentPriority[curr] \in Priorities /\ currentPriority \in [Threads -> Priorities]
      BY <1>1 DEF Inv, TypeOK
    <2> HIDE DEF hold
    <2>4. /\ kernel' \in {"up"} \cup Stopped /\ curr' \in Threads
          /\ currentPriority' \in [Threads -> Priorities]
      <3>1. CASE hold = NULL
        BY <1>1, <1>2, <2>3, <3>1 DEF DonateStep, hold, Stopped
      <3>2. CASE hold # NULL
        <4>1. hold \in Threads
          BY <2>1, <3>2
        <4> DEFINE c == IF currentPriority[hold] < currentPriority[curr] THEN currentPriority[curr] ELSE currentPriority[hold]
        <4>2. c \in Priorities
          BY <2>3, <4>1
        <4>3. currentPriority' = [currentPriority EXCEPT ![hold] = c] /\ curr' = hold /\ kernel' = kernel
          BY <1>2, <3>2 DEF DonateStep, hold
        <4> HIDE DEF c
        <4> QED BY <2>3, <4>1, <4>2, <4>3 DEF Inv, TypeOK
      <3> QED BY <3>1, <3>2
    <2>5. TypeOK'
      BY <1>1, <2>2, <2>4 DEF Inv, TypeOK, scheduler, objects
    <2>6. LocationOK(t)'
      BY <1>1, <2>2, <2>4 DEF LocationOK, scheduler
    <2> QED BY <1>1, <2>2, <2>5, <2>6, QuietStep
  <1>3. CASE DonateEnd(t)
    <2>1. /\ pc' = [pc EXCEPT ![t] = "sema_down"] /\ curr' = NULL
          /\ UNCHANGED <<kernel, donation>>
      BY <1>3 DEF DonateEnd, Goto
    <2>2. /\ pc' \in [Threads -> Open \cup Masked]
          /\ \A u \in Threads : pc'[u] = IF u = t THEN "sema_down" ELSE pc[u]
      BY <2>1 DEF Inv, TypeOK, Masked
    <2>3. TypeOK'
      BY <1>1, <2>1, <2>2 DEF Inv, TypeOK, scheduler, objects, donation
    <2>4. LocationOK(t)'
      BY <1>1, <2>1, <2>2 DEF LocationOK, Masked, Semas
    <2> QED BY <1>1, <2>2, <2>3, <2>4, QuietStep
  <1> QED BY <1>2, <1>3

\* thread_set_priority changes priorities only.
LEMMA SetPrioritySteps ==
    ASSUME Inv, NEW t \in Threads,
           SetPriorityStore(t) \/ \E p \in Settable : SetPriority(t, p)
    PROVE  Inv'
  <1>1. /\ running = t /\ pc[t] \in {"client", "set_lower", "set_raise"}
        /\ UNCHANGED <<kernel, scheduler, donatedPriority, blockLock, objects, target, creating, curr>>
        /\ LocationOK(t)
    BY Actor DEF SetPriority, SetPriorityStore, At
  <1>2. creating[t] = NULL
    BY <1>1 DEF LocationOK, Masked
  <1>3. PICK loc \in {"client", "hack1", "set_lower", "set_raise"} : pc' = [pc EXCEPT ![t] = loc]
    BY DEF SetPriority, SetPriorityStore, Goto
  <1>4. /\ pc' \in [Threads -> Open \cup Masked]
        /\ \A u \in Threads : pc'[u] = IF u = t THEN loc ELSE pc[u]
    BY <1>3 DEF Inv, TypeOK, Open
  <1>5. priority' \in [Threads -> Priorities] /\ currentPriority' \in [Threads -> Priorities]
    <2>1. priority \in [Threads -> Priorities] /\ currentPriority \in [Threads -> Priorities]
      BY DEF Inv, TypeOK
    <2>2. CASE SetPriorityStore(t)
      BY <2>1, <2>2 DEF SetPriorityStore
    <2>3. ASSUME NEW p \in Settable, SetPriority(t, p) PROVE p \in Priorities /\ priority' = [priority EXCEPT ![t] = p] /\ UNCHANGED currentPriority
      BY <2>3, SchedulingAssumption DEF SetPriority
    <2> QED BY <2>1, <2>2, <2>3
  <1>6. TypeOK'
    BY <1>1, <1>4, <1>5 DEF Inv, TypeOK, scheduler, objects
  <1>7. LocationOK(t)'
    BY <1>1, <1>2, <1>4 DEF LocationOK
  <1> QED BY <1>1, <1>4, <1>6, <1>7, QuietStep

\* Entering sema_down gives t an object and changes no list.
LEMMA SemaDownCallStep ==
    ASSUME Inv, NEW t \in Threads, NEW s \in Sems, SemaDownCall(t, s)
    PROVE  Inv'
  <1>1. /\ running = t /\ pc[t] = "client" /\ LocationOK(t)
        /\ pc' = [pc EXCEPT ![t] = "sema_down"] /\ target' = [target EXCEPT ![t] = s]
        /\ UNCHANGED <<kernel, scheduler, donation, objects, creating, curr>>
    BY Actor DEF SemaDownCall, At, Goto
  <1>2. s \in Semas
    BY DEF Semas
  <1>3. /\ pc' \in [Threads -> Open \cup Masked] /\ target' \in [Threads -> Semas \cup {NULL}]
        /\ \A u \in Threads : pc'[u] = IF u = t THEN "sema_down" ELSE pc[u]
        /\ \A u \in Threads : target'[u] = IF u = t THEN s ELSE target[u]
    BY <1>1, <1>2 DEF Inv, TypeOK, Masked
  <1>4. TypeOK'
    BY <1>1, <1>3 DEF Inv, TypeOK, scheduler, objects, donation
  <1>5. LocationOK(t)'
    BY <1>1, <1>2, <1>3 DEF LocationOK, Masked
  <1> QED BY <1>1, <1>3, <1>4, <1>5, QuietStep

\* Entering lock_acquire donates, and changes neither list nor unit.
LEMMA LockAcquireStep ==
    ASSUME Inv, NEW t \in Threads, NEW l \in Locks, LockAcquire(t, l)
    PROVE  Inv'
  <1>0. /\ running = t /\ (pc[t] = "client" \/ (pc[t] = "alloc_tid" /\ l = TidLock))
        /\ target' = [target EXCEPT ![t] = l] /\ UNCHANGED <<scheduler, objects, creating>>
    BY DEF LockAcquire, MayLock, At
  <1>a. UNCHANGED priority
    BY DEF LockAcquire, donation
  <1>1. /\ running = t /\ LocationOK(t) /\ l \in Semas
        /\ (pc[t] = "client" \/ (pc[t] = "alloc_tid" /\ l = TidLock))
        /\ target' = [target EXCEPT ![t] = l] /\ UNCHANGED <<priority, scheduler, objects, creating>>
    BY <1>0, <1>a, Actor
  <1>2. PICK loc \in {"sema_down", "donate"} :
           /\ pc' = [pc EXCEPT ![t] = loc]
           /\ loc = "donate" => curr' = t
           /\ curr' \in {t, curr}
    BY DEF LockAcquire, Goto
  <1>3. /\ pc' \in [Threads -> Open \cup Masked] /\ target' \in [Threads -> Semas \cup {NULL}]
        /\ \A u \in Threads : pc'[u] = IF u = t THEN loc ELSE pc[u]
        /\ \A u \in Threads : target'[u] = IF u = t THEN l ELSE target[u]
    BY <1>1, <1>2 DEF Inv, TypeOK, Masked
  <1> DEFINE h == holder[l]
  <1>4. /\ kernel' \in {"up"} \cup Stopped
        /\ blockLock' \in [Threads -> Locks \cup {NULL}]
        /\ currentPriority' \in [Threads -> Priorities]
        /\ donatedPriority' \in [Threads -> Seq(Threads)]
    <2>1. /\ kernel \in {"up"} \cup Stopped
          /\ blockLock \in [Threads -> Locks \cup {NULL}]
          /\ currentPriority \in [Threads -> Priorities]
          /\ donatedPriority \in [Threads -> Seq(Threads)]
      BY DEF Inv, TypeOK
    <2>2. CASE h = NULL
      BY <2>1, <2>2 DEF LockAcquire, donation
    <2>3. CASE h # NULL
      <3>0. h \in Threads
        BY <1>1, <2>3, Actor
      <3>1. blockLock' = [blockLock EXCEPT ![t] = l]
        BY <2>3 DEF LockAcquire
      <3>2. CASE UNCHANGED <<kernel, donatedPriority, currentPriority>>
        BY <2>1, <3>1, <3>2
      <3>3. CASE ~ UNCHANGED <<kernel, donatedPriority, currentPriority>>
        <4>1. /\ \E d \in ListInsertOrdered(donatedPriority[h], t, currentPriority) :
                    donatedPriority' = [donatedPriority EXCEPT ![h] = d]
              /\ currentPriority' = [currentPriority EXCEPT ![h] = currentPriority[t]]
              /\ kernel' = IF t \in Donors THEN "corrupt" ELSE "up"
          BY <2>3, <3>3 DEF LockAcquire
        <4>2. PICK d \in ListInsertOrdered(donatedPriority[h], t, currentPriority) :
                 donatedPriority' = [donatedPriority EXCEPT ![h] = d]
          BY <4>1
        <4>3. d \in Seq(Threads)
          BY <2>1, <3>0, <4>2, InsertOrdered
        <4>4. donatedPriority' \in [Threads -> Seq(Threads)]
          BY <2>1, <4>2, <4>3
        <4>5. currentPriority' \in [Threads -> Priorities]
          BY <2>1, <4>1
        <4>6. kernel' \in {"up"} \cup Stopped
          BY <4>1 DEF Stopped
        <4> QED BY <2>1, <3>1, <4>4, <4>5, <4>6
      <3> QED BY <3>2, <3>3
    <2> QED BY <2>2, <2>3
  <1>5. TypeOK'
    BY <1>1, <1>2, <1>3, <1>4 DEF Inv, TypeOK, scheduler, objects
  <1>6. LocationOK(t)'
    BY <1>1, <1>2, <1>3 DEF LocationOK, Masked, scheduler
  <1> QED BY <1>1, <1>3, <1>5, <1>6, QuietStep

\* SemaTryDown, LockTryAcquire, LockTrySetHolder and SemaTake: no list changes.
LEMMA TakeStep ==
    ASSUME Inv, NEW t \in Threads, running = t,
           UNCHANGED <<kernel, scheduler, donation, waiters, creating, curr>>,
           value' \in [Semas -> Nat], holder' \in [Locks -> Threads \cup {NULL}],
           NEW loc \in Open \cup Masked, pc' = [pc EXCEPT ![t] = loc],
           NEW g \in Semas \cup {NULL}, target' = [target EXCEPT ![t] = g],
           pc[t] # "created", loc \notin {"created", "donate"}, LocationOK(t)',
           OneUnitPerLock'
    PROVE  Inv'
  <1>1. SchedulerOK' /\ WaitersKept
    BY NoSwitch
  <1>2. /\ pc' \in [Threads -> Open \cup Masked] /\ target' \in [Threads -> Semas \cup {NULL}]
        /\ \A u \in Threads : pc'[u] = IF u = t THEN loc ELSE pc[u]
        /\ \A u \in Threads : target'[u] = IF u = t THEN g ELSE target[u]
    BY DEF Inv, TypeOK
  <1>3. Steady
    BY <1>2 DEF Steady
  <1>4. TypeOK'
    BY <1>1, <1>2 DEF Inv, TypeOK, SchedulerOK, WaitersKept, donation
  <1> QED BY <1>1, <1>3, <1>4, SteadyStep DEF Inv

\* sema_try_down takes a unit of a semaphore that is no lock.
LEMMA SemaTryDownStep ==
    ASSUME Inv, NEW t \in Threads, NEW s \in Sems, SemaTryDown(t, s)
    PROVE  Inv'
  <1>1. /\ running = t /\ pc[t] = "client" /\ value[s] > 0
        /\ value' = [value EXCEPT ![s] = @ - 1]
        /\ UNCHANGED <<kernel, scheduler, donation, waiters, holder, control>>
    BY DEF SemaTryDown, At
  <1>2. /\ value' \in [Semas -> Nat] /\ holder' \in [Locks -> Threads \cup {NULL}]
        /\ \A l \in Locks : value'[l] = value[l]
    <2>1. s \in Semas /\ Locks \subseteq Semas /\ value \in [Semas -> Nat] /\ \A l \in Locks : l # s
      BY SchedulingAssumption DEF Inv, TypeOK, Semas
    <2>2. value[s] - 1 \in Nat
      BY <1>1, <2>1
    <2> QED BY <1>1, <2>1, <2>2 DEF Inv, TypeOK
  <1>3. OneUnitPerLock'
    BY <1>1, <1>2, NoUnitMoves DEF control
  <1>4. /\ pc[t] \in Open \cup Masked /\ pc' = [pc EXCEPT ![t] = pc[t]]
        /\ target[t] \in Semas \cup {NULL} /\ target' = [target EXCEPT ![t] = target[t]]
    BY <1>1 DEF Inv, TypeOK, control
  <1>5. LocationOK(t)'
    BY <1>1, Actor DEF LocationOK, control
  <1> QED BY <1>1, <1>2, <1>3, <1>4, <1>5, TakeStep DEF control

\* The unit moves from the semaphore to the one thread inside the window.
LEMMA LockTryAcquireStep ==
    ASSUME Inv, NEW t \in Threads, NEW l \in Locks, LockTryAcquire(t, l)
    PROVE  Inv'
  <1>1. /\ running = t /\ pc[t] = "client" /\ value[l] > 0 /\ LocationOK(t)
        /\ value' = [value EXCEPT ![l] = @ - 1]
        /\ pc' = [pc EXCEPT ![t] = "try"] /\ target' = [target EXCEPT ![t] = l]
        /\ UNCHANGED <<kernel, scheduler, donation, waiters, holder, creating, curr>>
    BY Actor DEF LockTryAcquire, At, Goto
  <1>2. l \in Semas /\ Locks \subseteq Semas /\ value \in [Semas -> Nat]
        /\ pc \in [Threads -> Open \cup Masked] /\ target \in [Threads -> Semas \cup {NULL}]
    BY DEF Inv, TypeOK, Semas
  <1>3. value[l] - 1 \in Nat /\ value' \in [Semas -> Nat]
    BY <1>1, <1>2
  <1>4. value[l] = 1 /\ holder[l] = NULL /\ Trying(l) = {}
    BY <1>1, <1>2 DEF Inv, OneUnitPerLock
  <1>5. Trying(l)' = {t} /\ \A k \in Locks : k # l => Trying(k)' = Trying(k)
    BY <1>1, <1>2, <1>4 DEF Trying
  <1>6. OneUnitPerLock'
    BY <1>1, <1>2, <1>4, <1>5 DEF OneUnitPerLock, Inv
  <1>7. LocationOK(t)'
    BY <1>1, <1>2 DEF LocationOK, Masked
  <1>8. "try" \in Open \cup Masked /\ holder' \in [Locks -> Threads \cup {NULL}]
    BY <1>1 DEF Open, Inv, TypeOK
  <1> QED BY <1>1, <1>2, <1>3, <1>6, <1>7, <1>8, TakeStep

\* The unit moves from the window to the holder.
LEMMA LockTrySetHolderStep ==
    ASSUME Inv, NEW t \in Threads, LockTrySetHolder(t)
    PROVE  Inv'
  <1> DEFINE l == target[t]
  <1>1. /\ running = t /\ pc[t] = "try" /\ LocationOK(t) /\ NULL \notin Threads /\ NULL \notin Semas
        /\ holder' = [holder EXCEPT ![l] = t]
        /\ pc' = [pc EXCEPT ![t] = "client"] /\ target' = [target EXCEPT ![t] = NULL]
        /\ UNCHANGED <<kernel, scheduler, donation, value, waiters, creating, curr>>
    BY Actor DEF LockTrySetHolder, At, Goto
  <1>2. /\ l \in Locks /\ Locks \subseteq Semas /\ holder \in [Locks -> Threads \cup {NULL}]
        /\ pc \in [Threads -> Open \cup Masked] /\ target \in [Threads -> Semas \cup {NULL}]
    BY <1>1 DEF Inv, TypeOK, Semas, LocationOK
  <1>3. t \in Trying(l)
    BY <1>1 DEF Trying
  <1>4. value[l] = 0 /\ holder[l] = NULL /\ Trying(l) = {t}
    BY <1>2, <1>3 DEF Inv, OneUnitPerLock
  <1>5. \A k \in Locks : Trying(k)' = Trying(k) \ {t}
    BY <1>1, <1>2 DEF Trying
  <1>n. \A k \in Locks : k # l => t \notin Trying(k)
    BY <1>1 DEF Trying
  <1>x. LocationOK(t)'
    BY <1>1, <1>2 DEF LocationOK, Masked
  <1>v. value' \in [Semas -> Nat] /\ "client" \in Open \cup Masked
    BY <1>1 DEF Inv, TypeOK, Open
  <1> HIDE DEF l
  <1>6. OneUnitPerLock'
    <2> SUFFICES ASSUME NEW k \in Locks
                 PROVE  \/ value'[k] = 1 /\ holder'[k] = NULL /\ Trying(k)' = {}
                        \/ value'[k] = 0 /\ holder'[k] # NULL /\ Trying(k)' = {}
                        \/ value'[k] = 0 /\ holder'[k] = NULL /\ \E u \in Threads : Trying(k)' = {u}
      BY DEF OneUnitPerLock
    <2>1. CASE k = l
      <3>1. Trying(k)' = {}
        BY <1>4, <1>5, <2>1
      <3>2. value'[k] = 0 /\ holder'[k] = t
        BY <1>1, <1>2, <1>4, <2>1
      <3> QED BY <1>1, <3>1, <3>2
    <2>2. CASE k # l
      <3>1. Trying(k)' = Trying(k) /\ value'[k] = value[k] /\ holder'[k] = holder[k]
        BY <1>1, <1>2, <1>5, <1>n, <2>2
      <3> QED BY <3>1 DEF Inv, OneUnitPerLock
    <2> QED BY <2>1, <2>2
  <1>8. holder' \in [Locks -> Threads \cup {NULL}]
    BY <1>1, <1>2
  <1> QED BY <1>1, <1>6, <1>x, <1>v, <1>8, TakeStep

\* The unit moves from the semaphore to the holder.
LEMMA SemaTakeStep ==
    ASSUME Inv, NEW t \in Threads, SemaTake(t)
    PROVE  Inv'
  <1> DEFINE s == target[t]
             loc == IF s = TidLock THEN "tid" ELSE "client"
  <1>1. /\ running = t /\ pc[t] = "sema_down" /\ LocationOK(t) /\ NULL \notin Threads /\ NULL \notin Semas
        /\ value[s] > 0 /\ value' = [value EXCEPT ![s] = @ - 1]
        /\ holder' = IF s \in Locks THEN [holder EXCEPT ![s] = t] ELSE holder
        /\ pc' = [pc EXCEPT ![t] = loc] /\ target' = [target EXCEPT ![t] = NULL]
        /\ UNCHANGED <<kernel, scheduler, donation, waiters, creating, curr>>
    BY Actor DEF SemaTake, At, Goto
  <1>2. /\ s \in Semas /\ Locks \subseteq Semas /\ holder \in [Locks -> Threads \cup {NULL}]
        /\ pc \in [Threads -> Open \cup Masked] /\ target \in [Threads -> Semas \cup {NULL}]
        /\ value \in [Semas -> Nat]
    BY <1>1 DEF Inv, TypeOK, Semas, LocationOK
  <1>3. loc \in {"tid", "client"}
    OBVIOUS
  <1>4. LocationOK(t)'
    BY <1>1, <1>2 DEF LocationOK, Masked
  <1> HIDE DEF s, loc
  <1>5. value[s] - 1 \in Nat /\ value' \in [Semas -> Nat]
    BY <1>1, <1>2
  <1>6. holder' \in [Locks -> Threads \cup {NULL}]
    BY <1>1, <1>2
  <1>7. \A k \in Locks : Trying(k)' = Trying(k)
    BY <1>1, <1>2, <1>3 DEF Trying
  <1>8. OneUnitPerLock'
    <2> SUFFICES ASSUME NEW k \in Locks
                 PROVE  \/ value'[k] = 1 /\ holder'[k] = NULL /\ Trying(k)' = {}
                        \/ value'[k] = 0 /\ holder'[k] # NULL /\ Trying(k)' = {}
                        \/ value'[k] = 0 /\ holder'[k] = NULL /\ \E u \in Threads : Trying(k)' = {u}
      BY DEF OneUnitPerLock
    <2>1. CASE k = s
      <3>1. value[k] = 1 /\ Trying(k) = {}
        BY <1>1, <1>2, <2>1 DEF Inv, OneUnitPerLock
      <3>2. value'[k] = 0 /\ holder'[k] = t
        BY <1>1, <1>2, <2>1, <3>1
      <3> QED BY <1>1, <1>7, <3>1, <3>2
    <2>2. CASE k # s
      <3>1. Trying(k)' = Trying(k) /\ value'[k] = value[k] /\ holder'[k] = holder[k]
        BY <1>1, <1>2, <1>7, <2>2
      <3> QED BY <3>1 DEF Inv, OneUnitPerLock
    <2> QED BY <2>1, <2>2
  <1>9. loc \in Open \cup Masked
    BY <1>3 DEF Open
  <1> QED BY <1>1, <1>3, <1>4, <1>5, <1>6, <1>8, <1>9, TakeStep

\* sema_up of a semaphore that is no lock moves at most one waiter.
LEMMA SemaUpCallStep ==
    ASSUME Inv, NEW t \in Threads, NEW s \in Sems, SemaUpCall(t, s)
    PROVE  Inv'
  <1>1. /\ running = t /\ pc[t] = "client" /\ SemaUp(t, s) /\ LocationOK(t)
        /\ UNCHANGED <<kernel, donation, holder, control>>
    BY Actor DEF SemaUpCall, At
  <1>2. s \in Semas /\ \A l \in Locks : l # s /\ l \in Semas
    BY SchedulingAssumption DEF Semas
  <1>3. SchedulerOK' /\ WaitersKept
    BY <1>1, <1>2, SemaUpStep DEF Inv
  <1>4. value' \in [Semas -> Nat] /\ \A l \in Locks : value'[l] = value[l]
    <2>1. value \in [Semas -> Nat] /\ value' = [value EXCEPT ![s] = @ + 1]
      BY <1>1 DEF Inv, TypeOK, SemaUp
    <2> QED BY <1>2, <2>1
  <1>5. OneUnitPerLock'
    BY <1>1, <1>4, NoUnitMoves DEF control
  <1>6. Steady
    BY <1>1 DEF Steady, control
  <1>7. LocationOK(t)'
    BY <1>1 DEF LocationOK, control
  <1>8. TypeOK'
    BY <1>1, <1>3, <1>4 DEF Inv, TypeOK, SchedulerOK, WaitersKept, donation, control
  <1> QED BY <1>1, <1>3, <1>5, <1>6, <1>7, <1>8, SteadyStep DEF Inv

\* So does sema_up in an interrupt handler, whoever is on the CPU.
LEMMA DeviceInterruptStep ==
    ASSUME Inv, NEW s \in Devices, DeviceInterrupt(s)
    PROVE  Inv'
  <1>1. /\ kernel = "up" /\ (running # Idle => pc[running] \in Open)
        /\ value' = [value EXCEPT ![s] = @ + 1]
        /\ UNCHANGED <<donation, holder, control>>
    BY DEF DeviceInterrupt
  <1>2. s \in Semas /\ (\A l \in Locks : l # s /\ l \in Semas) /\ Idle \notin Threads
    BY SchedulingAssumption DEF Semas
  <1>3. SchedulerOK' /\ WaitersKept /\ running' = running /\ kernel' \in {"up"} \cup Stopped
    <2>1. CASE UNCHANGED <<kernel, waiters, scheduler>>
      BY <1>1, <2>1, NoSwitch DEF scheduler
    <2>2. CASE ~ UNCHANGED <<kernel, waiters, scheduler>>
      <3>1. PICK u \in ToSet(waiters[s]) :
               /\ SemaWake(s, u)
               /\ ready' \in ListInsertOrdered(ready, u, currentPriority)
               /\ status' = [status EXCEPT ![u] = "ready"]
               /\ running' = running
               /\ kernel' = IF currentPriority[u] > RunningPriority THEN "assertion" ELSE "up"
        BY <2>2 DEF DeviceInterrupt
      <3>2. /\ ready \in Seq(Threads) /\ NoDuplicates(ready)
            /\ status \in [Threads -> Status]
            /\ running \in Threads \cup {Idle}
            /\ \A x \in Threads : status[x] = "ready" <=> x \in ToSet(ready)
            /\ \A x \in Threads : status[x] = "running" <=> running = x
            /\ \A q \in Semas : \A x \in ToSet(waiters[q]) : status[x] = "blocked" /\ x \in Threads
        BY MemberOfList DEF Inv, TypeOK, OneListPerThread, WaitListsHoldBlocked, RunningIsRunning, ReadyListHoldsReady
      <3>3. /\ u \in Threads /\ status[u] = "blocked" /\ pc[u] = "sema_down"
            /\ waiters' \in [Semas -> Seq(Threads)]
            /\ \A q \in Semas : NoDuplicates(waiters'[q])
            /\ \A q \in Semas : ToSet(waiters'[q]) = ToSet(waiters[q]) \ {u}
        BY <1>2, <3>1, WakeStep DEF Inv
      <3>4. /\ status' \in [Threads -> Status]
            /\ \A x \in Threads : status'[x] = IF x = u THEN "ready" ELSE status[x]
        BY <3>1, <3>2, <3>3 DEF Status
      <3>5. ready' \in Seq(Threads) /\ NoDuplicates(ready') /\ ToSet(ready') = ToSet(ready) \cup {u}
        <4>1. u \notin ToSet(ready)
          BY <3>2, <3>3
        <4> QED BY <3>1, <3>2, <3>3, <4>1, InsertOrdered
      <3>6. SchedulerOK'
        BY <3>1, <3>2, <3>3, <3>4, <3>5 DEF SchedulerOK, RunningIsRunning, ReadyListHoldsReady
      <3>7. \A q \in Semas : \A x \in ToSet(waiters'[q]) :
               x \in ToSet(waiters[q]) /\ x \in Threads /\ x # u /\ status'[x] = "blocked"
        BY <3>2, <3>3, <3>4
      <3>8. WaitersKept
        BY <3>3, <3>4, <3>7 DEF WaitersKept, Alive
      <3>9. kernel' \in {"up"} \cup Stopped
        BY <3>1 DEF Stopped
      <3> QED BY <3>1, <3>6, <3>8, <3>9
    <2> QED BY <2>1, <2>2
  <1>4. value' \in [Semas -> Nat] /\ \A l \in Locks : value'[l] = value[l]
    <2>1. value \in [Semas -> Nat]
      BY DEF Inv, TypeOK
    <2> QED BY <1>1, <1>2, <2>1
  <1>5. OneUnitPerLock'
    BY <1>1, <1>4, NoUnitMoves DEF control
  <1>6. Steady
    BY <1>1 DEF Steady, control
  <1>7. \A t \in Threads : t = running => LocationOK(t)'
    <2> SUFFICES ASSUME NEW t \in Threads, t = running PROVE LocationOK(t)'
      OBVIOUS
    <2>1. LocationOK(t) /\ pc[t] # "donate"
      BY <1>1, <1>2 DEF Inv, ControlOK, Open
    <2> QED BY <1>1, <2>1 DEF LocationOK, control
  <1>8. TypeOK'
    BY <1>1, <1>3, <1>4 DEF Inv, TypeOK, SchedulerOK, WaitersKept, donation, control
  <1> QED BY <1>3, <1>5, <1>6, <1>7, <1>8, SteadyStep DEF Inv

\* The unit moves back from the holder, and at most one waiter moves.
LEMMA LockReleaseStep ==
    ASSUME Inv, NEW t \in Threads, NEW l \in Locks, LockRelease(t, l)
    PROVE  Inv'
  <1>0. /\ running = t /\ (pc[t] = "client" \/ (pc[t] = "tid" /\ l = TidLock))
        /\ holder[l] = t /\ holder' = [holder EXCEPT ![l] = NULL] /\ SemaUp(t, l)
        /\ pc' = [pc EXCEPT ![t] = "release"] /\ target' = [target EXCEPT ![t] = l]
        /\ UNCHANGED <<kernel, donation, creating, curr>>
    BY DEF LockRelease, At, Goto
  <1>1. LocationOK(t) /\ NULL \notin Threads
    BY <1>0, Actor
  <1>2. /\ l \in Semas /\ Locks \subseteq Semas /\ holder \in [Locks -> Threads \cup {NULL}]
        /\ pc \in [Threads -> Open \cup Masked] /\ target \in [Threads -> Semas \cup {NULL}]
        /\ value \in [Semas -> Nat]
    BY DEF Inv, TypeOK, Semas
  <1>3. SchedulerOK' /\ WaitersKept
    BY <1>0, <1>2, SemaUpStep DEF Inv
  <1>4. /\ pc' \in [Threads -> Open \cup Masked] /\ target' \in [Threads -> Semas \cup {NULL}]
        /\ \A u \in Threads : pc'[u] = IF u = t THEN "release" ELSE pc[u]
        /\ \A u \in Threads : target'[u] = IF u = t THEN l ELSE target[u]
    BY <1>0, <1>2 DEF Masked
  <1>5. /\ value' = [value EXCEPT ![l] = @ + 1] /\ value' \in [Semas -> Nat]
        /\ holder' \in [Locks -> Threads \cup {NULL}]
    <2>1. value' = [value EXCEPT ![l] = @ + 1]
      BY <1>0 DEF SemaUp
    <2> QED BY <1>0, <1>2, <2>1
  <1>6. \A k \in Locks : Trying(k)' = Trying(k)
    BY <1>0, <1>4 DEF Trying
  <1>7. OneUnitPerLock'
    <2> SUFFICES ASSUME NEW k \in Locks
                 PROVE  \/ value'[k] = 1 /\ holder'[k] = NULL /\ Trying(k)' = {}
                        \/ value'[k] = 0 /\ holder'[k] # NULL /\ Trying(k)' = {}
                        \/ value'[k] = 0 /\ holder'[k] = NULL /\ \E u \in Threads : Trying(k)' = {u}
      BY DEF OneUnitPerLock
    <2>1. CASE k = l
      <3>1. value[k] = 0 /\ Trying(k) = {}
        BY <1>0, <1>1, <2>1 DEF Inv, OneUnitPerLock
      <3>2. value'[k] = 1 /\ holder'[k] = NULL
        BY <1>0, <1>2, <1>5, <2>1, <3>1
      <3> QED BY <1>6, <3>1, <3>2
    <2>2. CASE k # l
      <3>1. Trying(k)' = Trying(k) /\ value'[k] = value[k] /\ holder'[k] = holder[k]
        BY <1>0, <1>2, <1>5, <1>6, <2>2
      <3> QED BY <3>1 DEF Inv, OneUnitPerLock
    <2> QED BY <2>1, <2>2
  <1>8. Steady
    BY <1>0, <1>4 DEF Steady
  <1>9. LocationOK(t)'
    BY <1>0, <1>1, <1>2, <1>4 DEF LocationOK, Masked
  <1>10. TypeOK'
    BY <1>0, <1>3, <1>4, <1>5 DEF Inv, TypeOK, SchedulerOK, WaitersKept, donation
  <1> QED BY <1>0, <1>3, <1>7, <1>8, <1>9, <1>10, SteadyStep DEF Inv

\* The rest of lock_release changes donations only.
LEMMA LockReleaseTailStep ==
    ASSUME Inv, NEW t \in Threads, LockReleaseTail(t)
    PROVE  Inv'
  <1>1. /\ running = t /\ pc[t] = "release"
        /\ pc' = [pc EXCEPT ![t] = "hack1"] /\ target' = [target EXCEPT ![t] = NULL]
        /\ UNCHANGED <<scheduler, priority, blockLock, objects, creating, curr>>
    BY DEF LockReleaseTail, At, Goto
  <1>2. LocationOK(t)
    BY <1>1, Actor
  <1>3. kernel' \in {"up"} \cup Stopped
    BY DEF LockReleaseTail, Stopped
  <1>4. PICK d \in ListKeep(donatedPriority[t], {u \in Threads : blockLock[u] # target[t]}) :
          /\ donatedPriority' = [donatedPriority EXCEPT ![t] = d]
          /\ currentPriority' = [currentPriority EXCEPT ![t] =
                IF d # <<>> /\ currentPriority[Head(d)] > priority[t]
                THEN currentPriority[Head(d)] ELSE priority[t]]
    BY DEF LockReleaseTail
  <1>5. /\ donatedPriority \in [Threads -> Seq(Threads)] /\ currentPriority \in [Threads -> Priorities]
        /\ priority \in [Threads -> Priorities]
    BY DEF Inv, TypeOK
  <1>6. d \in Seq(Threads)
    BY <1>4, <1>5, KeepIsSubset
  <1>7. d # <<>> => Head(d) \in Threads
    BY <1>6
  <1>8. donatedPriority' \in [Threads -> Seq(Threads)] /\ currentPriority' \in [Threads -> Priorities]
    BY <1>4, <1>5, <1>6, <1>7
  <1>9. /\ pc' \in [Threads -> Open \cup Masked] /\ target' \in [Threads -> Semas \cup {NULL}]
        /\ \A u \in Threads : pc'[u] = IF u = t THEN "hack1" ELSE pc[u]
        /\ \A u \in Threads : target'[u] = IF u = t THEN NULL ELSE target[u]
    BY <1>1 DEF Inv, TypeOK, Open
  <1>10. TypeOK'
    BY <1>1, <1>3, <1>8, <1>9 DEF Inv, TypeOK, scheduler, objects
  <1>11. LocationOK(t)'
    BY <1>1, <1>2, <1>9 DEF LocationOK, Masked
  <1> QED BY <1>1, <1>9, <1>10, <1>11, QuietStep

\* The four actions that change the status of a thread outside sema_up.
LEMMA SemaBlockStep ==
    ASSUME Inv, NEW t \in Threads, SemaBlock(t)
    PROVE  Inv'
  <1> DEFINE s == target[t]
             st == [status EXCEPT ![t] = "blocked"]
  <1>1. /\ running = t /\ pc[t] = "sema_down"
        /\ \E w \in ListInsertOrdered(waiters[s], t, currentPriority) :
              waiters' = [waiters EXCEPT ![s] = w]
        /\ Schedule(ready, st)
        /\ UNCHANGED <<kernel, donation, value, holder, control>>
    BY DEF SemaBlock, At
  <1>2. LocationOK(t) /\ s \in Semas /\ status[t] = "running"
    BY <1>1, Actor DEF LocationOK
  <1>3. /\ ready \in Seq(Threads) /\ NoDuplicates(ready)
        /\ status \in [Threads -> Status]
        /\ waiters \in [Semas -> Seq(Threads)]
        /\ \A u \in Threads : status[u] = "ready" <=> u \in ToSet(ready)
        /\ \A u \in Threads : status[u] = "running" <=> u = t
        /\ \A q \in Semas : NoDuplicates(waiters[q])
        /\ \A q \in Semas : \A u \in ToSet(waiters[q]) :
              u \in Threads /\ status[u] = "blocked" /\ pc[u] = "sema_down" /\ target[u] = q
    BY <1>1, MemberOfList DEF Inv, TypeOK, OneListPerThread, WaitListsHoldBlocked, RunningIsRunning, ReadyListHoldsReady
  <1>4. st \in [Threads -> Status] /\ \A u \in Threads : st[u] = IF u = t THEN "blocked" ELSE status[u]
    BY <1>3 DEF Status
  <1>5. target[t] = s
    OBVIOUS
  <1> HIDE DEF s, st
  <1>6. PICK w \in ListInsertOrdered(waiters[s], t, currentPriority) :
           waiters' = [waiters EXCEPT ![s] = w]
    BY <1>1
  <1>7. w \in Seq(Threads) /\ ToSet(w) = ToSet(waiters[s]) \cup {t} /\ NoDuplicates(w)
    <2>1. t \notin ToSet(waiters[s])
      BY <1>2, <1>3
    <2> QED BY <1>2, <1>3, <1>6, <2>1, InsertOrdered
  <1>8. waiters' \in [Semas -> Seq(Threads)] /\ \A q \in Semas : waiters'[q] = IF q = s THEN w ELSE waiters[q]
    BY <1>3, <1>6, <1>7
  <1>9. /\ \A u \in Threads : st[u] = "ready" <=> u \in ToSet(ready)
        /\ \A u \in Threads : st[u] # "running"
    BY <1>2, <1>3, <1>4
  <1>10. /\ SchedulerOK'
         /\ \A u \in Threads : IF st[u] = "ready" THEN status'[u] \in Alive
                                                  ELSE status'[u] = st[u]
    BY <1>1, <1>3, <1>4, <1>9, ScheduleStep
  <1>11. /\ status'[t] = "blocked"
         /\ \A u \in Threads : u # t /\ status[u] = "ready" => status'[u] \in Alive
         /\ \A u \in Threads : u # t /\ status[u] # "ready" => status'[u] = status[u]
    BY <1>4, <1>10
  <1>12. WaitListsHoldBlocked'
    <2>1. \A q \in Semas : NoDuplicates(waiters'[q])
      BY <1>3, <1>7, <1>8
    <2>2. ASSUME NEW q \in Semas, NEW u \in ToSet(waiters'[q])
          PROVE  status'[u] = "blocked" /\ pc[u] = "sema_down" /\ target[u] = q
      <3>1. CASE u = t /\ q = s
        BY <1>1, <1>5, <1>11, <3>1
      <3>2. CASE u \in ToSet(waiters[q])
        BY <1>2, <1>3, <1>11, <3>2
      <3> QED BY <1>7, <1>8, <2>2, <3>1, <3>2
    <2> QED BY <1>1, <2>1, <2>2 DEF WaitListsHoldBlocked, control
  <1>13. ASSUME NEW u \in Threads, status'[u] = "blocked"
         PROVE  \/ \E q \in Semas : u \in ToSet(waiters'[q])
                \/ \E c \in Threads : creating[c] = u /\ pc[c] # "created"
    <2>1. CASE u = t
      BY <1>2, <1>7, <1>8, <2>1
    <2>2. CASE u # t
      <3>1. status[u] = "blocked"
        BY <1>11, <1>13, <2>2 DEF Alive
      <3>2. \A q \in Semas : u \in ToSet(waiters[q]) => u \in ToSet(waiters'[q])
        BY <1>7, <1>8
      <3> QED BY <3>1, <3>2 DEF Inv, OneListPerThread, BlockedCanBeWoken
    <2> QED BY <2>1, <2>2
  <1>14. OneListPerThread'
    BY <1>1, <1>10, <1>12, <1>13 DEF OneListPerThread, SchedulerOK, BlockedCanBeWoken, control
  <1>15. \A u \in Threads : LocationOK(u)'
    BY <1>1 DEF Inv, ControlOK, LocationOK, control
  <1>16. NotYetRunning' /\ OneCreator'
    <2>1. \A u \in Threads : status'[u] \in {"unborn", "dead"} => pc[u] = "client"
      BY <1>11 DEF Inv, ControlOK, NotYetRunning, Alive
    <2>2. ASSUME NEW c \in Threads, creating[c] # NULL
          PROVE  /\ status'[creating[c]] # "unborn"
                 /\ pc[c] # "created" =>
                       status'[creating[c]] = "blocked" /\ pc[creating[c]] = "client"
      <3>1. creating[c] \in Threads
        BY <2>2 DEF Inv, TypeOK
      <3> QED BY <1>11, <2>2, <3>1 DEF Inv, ControlOK, NotYetRunning, Alive
    <2> QED BY <1>1, <2>1, <2>2 DEF Inv, ControlOK, NotYetRunning, OneCreator, control
  <1>17. OneUnitPerLock'
    BY <1>1, NoUnitMoves DEF control
  <1>18. TypeOK'
    BY <1>1, <1>8, <1>10 DEF Inv, TypeOK, SchedulerOK, donation, control
  <1> QED BY <1>14, <1>15, <1>16, <1>17, <1>18 DEF Inv, ControlOK

\* A thread that exits is between two primitives and on no list.
LEMMA ThreadExitStep ==
    ASSUME Inv, NEW t \in Threads, ThreadExit(t)
    PROVE  Inv'
  <1> DEFINE st == [status EXCEPT ![t] = "dead"]
  <1>1. /\ running = t /\ pc[t] = "client" /\ Schedule(ready, st)
        /\ UNCHANGED <<kernel, donation, objects, control>>
    BY DEF ThreadExit, At
  <1>2. /\ ready \in Seq(Threads) /\ NoDuplicates(ready)
        /\ status \in [Threads -> Status]
        /\ waiters \in [Semas -> Seq(Threads)]
        /\ \A u \in Threads : status[u] = "ready" <=> u \in ToSet(ready)
        /\ \A u \in Threads : status[u] = "running" <=> u = t
        /\ \A q \in Semas : NoDuplicates(waiters[q])
        /\ \A q \in Semas : \A u \in ToSet(waiters[q]) :
              u \in Threads /\ status[u] = "blocked" /\ pc[u] = "sema_down" /\ target[u] = q
    BY <1>1, MemberOfList DEF Inv, TypeOK, OneListPerThread, WaitListsHoldBlocked, RunningIsRunning, ReadyListHoldsReady
  <1>3. st \in [Threads -> Status] /\ \A u \in Threads : st[u] = IF u = t THEN "dead" ELSE status[u]
    BY <1>2 DEF Status
  <1> HIDE DEF st
  <1>4. /\ \A u \in Threads : st[u] = "ready" <=> u \in ToSet(ready)
        /\ \A u \in Threads : st[u] # "running"
    BY <1>2, <1>3
  <1>5. /\ SchedulerOK'
        /\ \A u \in Threads : IF st[u] = "ready" THEN status'[u] \in Alive
                                                 ELSE status'[u] = st[u]
    BY <1>1, <1>2, <1>3, <1>4, ScheduleStep
  <1>6. /\ status'[t] = "dead"
        /\ \A u \in Threads : u # t /\ status[u] = "ready" => status'[u] \in Alive
        /\ \A u \in Threads : u # t /\ status[u] # "ready" => status'[u] = status[u]
    BY <1>3, <1>5
  <1>7. WaitListsHoldBlocked'
    <2>1. \A q \in Semas : \A u \in ToSet(waiters[q]) : status'[u] = "blocked"
      BY <1>2, <1>6
    <2> QED BY <1>1, <1>2, <2>1 DEF WaitListsHoldBlocked, control, objects
  <1>8. BlockedCanBeWoken'
    <2>1. \A u \in Threads : status'[u] = "blocked" => status[u] = "blocked"
      BY <1>6 DEF Alive
    <2> QED BY <1>1, <2>1 DEF Inv, OneListPerThread, BlockedCanBeWoken, control, objects
  <1>9. \A u \in Threads : LocationOK(u)'
    BY <1>1 DEF Inv, ControlOK, LocationOK, control
  <1>10. NotYetRunning' /\ OneCreator'
    <2>1. \A u \in Threads : status'[u] \in {"unborn", "dead"} => pc[u] = "client"
      BY <1>1, <1>6 DEF Inv, ControlOK, NotYetRunning, Alive
    <2>2. ASSUME NEW c \in Threads, creating[c] # NULL
          PROVE  /\ status'[creating[c]] # "unborn"
                 /\ pc[c] # "created" =>
                       status'[creating[c]] = "blocked" /\ pc[creating[c]] = "client"
      <3>1. creating[c] \in Threads
        BY <2>2 DEF Inv, TypeOK
      <3> QED BY <1>2, <1>6, <2>2, <3>1 DEF Inv, ControlOK, NotYetRunning, Alive
    <2> QED BY <1>1, <2>1, <2>2 DEF Inv, ControlOK, NotYetRunning, OneCreator, control
  <1>11. OneUnitPerLock'
    BY <1>1, NoUnitMoves DEF control, objects
  <1>12. TypeOK'
    BY <1>1, <1>5 DEF Inv, TypeOK, SchedulerOK, donation, objects, control
  <1> QED BY <1>5, <1>7, <1>8, <1>9, <1>10, <1>11, <1>12 DEF Inv, ControlOK, OneListPerThread, SchedulerOK

\* The new thread is on no list, and t alone will unblock it.
LEMMA CreateInitStep ==
    ASSUME Inv, NEW t \in Threads, NEW u \in Threads, NEW p \in Priorities, CreateInit(t, u, p)
    PROVE  Inv'
  <1>1. /\ running = t /\ pc[t] = "client" /\ status[u] = "unborn"
        /\ status' = [status EXCEPT ![u] = "blocked"]
        /\ priority' = [priority EXCEPT ![u] = p]
        /\ currentPriority' = [currentPriority EXCEPT ![u] = p]
        /\ creating' = [creating EXCEPT ![t] = u]
        /\ pc' = [pc EXCEPT ![t] = "alloc_tid"]
        /\ UNCHANGED <<kernel, running, ready, donatedPriority, blockLock, objects, target, curr>>
    BY DEF CreateInit, At, Goto
  <1>2. LocationOK(t) /\ status[t] = "running" /\ NULL \notin Threads
    BY <1>1, Actor
  <1>3. creating[t] = NULL /\ u # t
    BY <1>1, <1>2 DEF LocationOK, Masked
  <1>4. /\ status' \in [Threads -> Status] /\ pc' \in [Threads -> Open \cup Masked]
        /\ creating' \in [Threads -> Threads \cup {NULL}]
        /\ \A x \in Threads : status'[x] = IF x = u THEN "blocked" ELSE status[x]
        /\ \A x \in Threads : pc'[x] = IF x = t THEN "alloc_tid" ELSE pc[x]
        /\ \A x \in Threads : creating'[x] = IF x = t THEN u ELSE creating[x]
    BY <1>1 DEF Inv, TypeOK, Status, Open
  <1>5. OneListPerThread'
    <2>1. RunningIsRunning' /\ ReadyListHoldsReady'
      BY <1>1, <1>4 DEF Inv, OneListPerThread, RunningIsRunning, ReadyListHoldsReady
    <2>2. WaitListsHoldBlocked'
      <3>1. \A q \in Semas : \A x \in ToSet(waiters[q]) : x \in Threads
        BY MemberOfList DEF Inv, TypeOK
      <3> QED BY <1>1, <1>4, <3>1 DEF Inv, OneListPerThread, WaitListsHoldBlocked, objects
    <2>3. BlockedCanBeWoken'
      <3> SUFFICES ASSUME NEW x \in Threads, status'[x] = "blocked"
                   PROVE  \/ \E s \in Semas : x \in ToSet(waiters[s])
                          \/ \E c \in Threads : creating'[c] = x /\ pc'[c] # "created"
        BY <1>1 DEF BlockedCanBeWoken, objects
      <3>1. CASE x = u
        BY <1>4, <3>1
      <3>2. CASE x # u
        <4>1. status[x] = "blocked"
          BY <1>4, <3>2
        <4>2. ASSUME NEW c \in Threads, creating[c] = x, pc[c] # "created"
              PROVE  creating'[c] = x /\ pc'[c] # "created"
          BY <1>2, <1>3, <1>4, <4>2
        <4> QED BY <4>1, <4>2 DEF Inv, OneListPerThread, BlockedCanBeWoken
      <3> QED BY <3>1, <3>2
    <2> QED BY <2>1, <2>2, <2>3 DEF OneListPerThread
  <1>6. \A x \in Threads : LocationOK(x)'
    <2> SUFFICES ASSUME NEW x \in Threads PROVE LocationOK(x)'
      OBVIOUS
    <2>1. LocationOK(x)
      BY DEF Inv, ControlOK
    <2> QED BY <1>1, <1>4, <2>1 DEF LocationOK
  <1>7. NotYetRunning'
    <2>1. \A x \in Threads : status'[x] \in {"unborn", "dead"} => pc'[x] = "client"
      BY <1>2, <1>4 DEF Inv, ControlOK, NotYetRunning
    <2>2. ASSUME NEW c \in Threads, creating'[c] # NULL
          PROVE  /\ status'[creating'[c]] # "unborn"
                 /\ pc'[c] # "created" =>
                       status'[creating'[c]] = "blocked" /\ pc'[creating'[c]] = "client"
      <3>1. CASE c = t
        BY <1>1, <1>3, <1>4, <3>1 DEF Inv, ControlOK, NotYetRunning
      <3>2. CASE c # t
        <4>1. creating'[c] = creating[c] /\ pc'[c] = pc[c] /\ creating[c] \in Threads
          BY <1>4, <2>2, <3>2 DEF Inv, TypeOK
        <4>2. status[creating[c]] # "unborn" /\ (pc[c] # "created" =>
                 status[creating[c]] = "blocked" /\ pc[creating[c]] = "client")
          BY <2>2, <4>1 DEF Inv, ControlOK, NotYetRunning
        <4>3. creating[c] # u
          BY <1>1, <4>2
        <4>4. pc[c] # "created" => creating[c] # t
          BY <1>2, <4>2
        <4> QED BY <1>4, <4>1, <4>2, <4>3, <4>4
      <3> QED BY <3>1, <3>2
    <2> QED BY <2>1, <2>2 DEF NotYetRunning
  <1>8. OneCreator'
    <2>1. \A c \in Threads : creating[c] # u
      BY <1>1, <1>2 DEF Inv, ControlOK, NotYetRunning
    <2> QED BY <1>4, <2>1 DEF Inv, ControlOK, OneCreator
  <1>9. OneUnitPerLock'
    BY <1>1, <1>4, NoUnitMoves DEF objects
  <1>10. TypeOK'
    BY <1>1, <1>4 DEF Inv, TypeOK, objects
  <1> QED BY <1>5, <1>6, <1>7, <1>8, <1>9, <1>10 DEF Inv, ControlOK

\* The new thread, still on no list, enters the ready list.
LEMMA CreateUnblockStep ==
    ASSUME Inv, NEW t \in Threads, CreateUnblock(t)
    PROVE  Inv'
  <1> DEFINE u == creating[t]
  <1>1. /\ running = t /\ pc[t] = "unblock"
        /\ ready' \in ListInsertOrdered(ready, u, currentPriority)
        /\ status' = [status EXCEPT ![u] = "ready"]
        /\ pc' = [pc EXCEPT ![t] = "created"]
        /\ UNCHANGED <<kernel, running, donation, objects, target, creating, curr>>
    BY DEF CreateUnblock, At, Goto
  <1>2. LocationOK(t) /\ status[t] = "running" /\ NULL \notin Threads
    BY <1>1, Actor
  <1>3. u \in Threads /\ status[u] = "blocked" /\ pc[u] = "client" /\ u # t /\ u # NULL
    <2>1. u # NULL
      BY <1>1, <1>2 DEF LocationOK
    <2>2. u \in Threads
      BY <2>1 DEF Inv, TypeOK
    <2> QED BY <1>1, <1>2, <2>1, <2>2 DEF Inv, ControlOK, NotYetRunning
  <1>c. creating[t] = u
    OBVIOUS
  <1> HIDE DEF u
  <1>4. /\ status' \in [Threads -> Status] /\ pc' \in [Threads -> Open \cup Masked]
        /\ \A x \in Threads : status'[x] = IF x = u THEN "ready" ELSE status[x]
        /\ \A x \in Threads : pc'[x] = IF x = t THEN "created" ELSE pc[x]
    BY <1>1 DEF Inv, TypeOK, Status, Open
  <1>5. ready' \in Seq(Threads) /\ NoDuplicates(ready') /\ ToSet(ready') = ToSet(ready) \cup {u}
    <2>1. ready \in Seq(Threads) /\ NoDuplicates(ready) /\ u \notin ToSet(ready)
      BY <1>3 DEF Inv, TypeOK, OneListPerThread, ReadyListHoldsReady
    <2> QED BY <1>1, <1>3, <2>1, InsertOrdered
  <1>6. OneListPerThread'
    <2>1. RunningIsRunning' /\ ReadyListHoldsReady'
      BY <1>1, <1>3, <1>4, <1>5 DEF Inv, OneListPerThread, RunningIsRunning, ReadyListHoldsReady
    <2>2. WaitListsHoldBlocked'
      <3>1. \A q \in Semas : \A x \in ToSet(waiters[q]) :
               x \in Threads /\ status[x] = "blocked" /\ pc[x] = "sema_down" /\ target[x] = q
        BY MemberOfList DEF Inv, TypeOK, OneListPerThread, WaitListsHoldBlocked
      <3>2. \A q \in Semas : \A x \in ToSet(waiters[q]) : x # u /\ x # t
        BY <1>2, <1>3, <3>1
      <3> QED BY <1>1, <1>4, <3>1, <3>2 DEF Inv, OneListPerThread, WaitListsHoldBlocked, objects
    <2>3. BlockedCanBeWoken'
      <3> SUFFICES ASSUME NEW x \in Threads, status'[x] = "blocked"
                   PROVE  \/ \E s \in Semas : x \in ToSet(waiters[s])
                          \/ \E c \in Threads : creating[c] = x /\ pc'[c] # "created"
        BY <1>1 DEF BlockedCanBeWoken, objects
      <3>1. x # u /\ status[x] = "blocked"
        BY <1>4
      <3>2. ASSUME NEW c \in Threads, creating[c] = x, pc[c] # "created"
            PROVE  pc'[c] # "created"
        BY <1>4, <1>c, <3>1, <3>2
      <3> QED BY <3>1, <3>2 DEF Inv, OneListPerThread, BlockedCanBeWoken
    <2> QED BY <2>1, <2>2, <2>3 DEF OneListPerThread
  <1>7. \A x \in Threads : LocationOK(x)'
    <2> SUFFICES ASSUME NEW x \in Threads PROVE LocationOK(x)'
      OBVIOUS
    <2>1. LocationOK(x)
      BY DEF Inv, ControlOK
    <2> QED BY <1>1, <1>4, <2>1 DEF LocationOK
  <1>8. NotYetRunning'
    <2>1. \A x \in Threads : status'[x] \in {"unborn", "dead"} => pc'[x] = "client"
      BY <1>2, <1>4 DEF Inv, ControlOK, NotYetRunning
    <2>2. ASSUME NEW c \in Threads, creating[c] # NULL
          PROVE  /\ status'[creating[c]] # "unborn"
                 /\ pc'[c] # "created" =>
                       status'[creating[c]] = "blocked" /\ pc'[creating[c]] = "client"
      <3>1. CASE c = t
        BY <1>3, <1>4, <1>c, <3>1
      <3>2. CASE c # t
        <4>1. creating[c] # u /\ creating[c] \in Threads /\ pc'[c] = pc[c]
          BY <1>3, <1>4, <1>c, <2>2, <3>2 DEF Inv, TypeOK, ControlOK, OneCreator
        <4>2. status[creating[c]] # "unborn" /\ (pc[c] # "created" =>
                 status[creating[c]] = "blocked" /\ pc[creating[c]] = "client")
          BY <2>2 DEF Inv, ControlOK, NotYetRunning
        <4>3. pc[c] # "created" => creating[c] # t
          BY <1>2, <4>2
        <4> QED BY <1>4, <4>1, <4>2, <4>3
      <3> QED BY <3>1, <3>2
    <2> QED BY <1>1, <2>1, <2>2 DEF NotYetRunning
  <1>9. OneCreator'
    BY <1>1 DEF Inv, ControlOK, OneCreator
  <1>10. OneUnitPerLock'
    BY <1>1, <1>4, NoUnitMoves DEF objects
  <1>11. TypeOK'
    BY <1>1, <1>4, <1>5 DEF Inv, TypeOK, objects, donation
  <1> QED BY <1>6, <1>7, <1>8, <1>9, <1>10, <1>11 DEF Inv, ControlOK

-------------------------------------------------------------------------------
(* The invariant holds of Spec.                                            *)

\* Only main runs and every lock is free.
LEMMA InitInv == Init => Inv
  <1> SUFFICES ASSUME Init PROVE Inv
    OBVIOUS
  <1>1. PICK p \in Priorities : priority = [t \in Threads |-> IF t = Main THEN p ELSE 0]
    BY DEF Init
  <1>2. 0 \in Priorities /\ Main \in Threads /\ NULL \notin Threads /\ Idle \notin Threads
    BY SchedulingAssumption DEF Priorities
  <1>3. /\ ToSet(<<>>) = {} /\ NoDuplicates(<<>>) /\ <<>> \in Seq(Threads)
    BY DEF ToSet, NoDuplicates, IsInjective
  <1>4. priority \in [Threads -> Priorities]
    BY <1>1, <1>2
  <1>5. TypeOK
    BY <1>2, <1>3, <1>4 DEF Init, TypeOK, Status, Open
  <1>6. OneListPerThread
    BY <1>2, <1>3 DEF Init, OneListPerThread, RunningIsRunning, ReadyListHoldsReady,
                      WaitListsHoldBlocked, BlockedCanBeWoken
  <1>7. OneUnitPerLock
    BY DEF Init, OneUnitPerLock, Trying, Semas
  <1>8. ControlOK
    BY DEF Init, ControlOK, LocationOK, NotYetRunning, OneCreator, Masked
  <1> QED BY <1>5, <1>6, <1>7, <1>8 DEF Inv

\* Every action of the scheduler preserves the invariant.
LEMMA StepInv == Inv /\ [Next]_vars => Inv'
  <1> SUFFICES ASSUME Inv, [Next]_vars PROVE Inv'
    OBVIOUS
  <1>1. CASE UNCHANGED vars
    <2>1. /\ UNCHANGED <<kernel, scheduler, donation, objects, control>>
          /\ UNCHANGED <<waiters, holder, value>>
      BY <1>1 DEF vars, objects
    <2>2. SchedulerOK' /\ WaitersKept
      BY <2>1, NoSwitch
    <2>3. Steady
      BY <2>1 DEF Steady, control
    <2>4. \A t \in Threads : t = running => LocationOK(t)'
      BY <2>1 DEF Inv, ControlOK, LocationOK, control, scheduler
    <2>5. OneUnitPerLock'
      BY <2>1, NoUnitMoves DEF control
    <2>6. TypeOK'
      BY <2>1, <2>2 DEF Inv, TypeOK, SchedulerOK, WaitersKept, donation, control
    <2> QED BY <2>2, <2>3, <2>4, <2>5, <2>6, SteadyStep DEF Inv
  <1>2. CASE IdleLoop
    BY <1>2, IdleLoopStep
  <1>3. CASE \E s \in Devices : DeviceInterrupt(s)
    BY <1>3, DeviceInterruptStep
  <1>4. ASSUME NEW t \in Threads, ThreadStep(t) PROVE Inv'
    <2>1. CASE Preempt(t) \/ ThreadExit(t) \/ Hack1(t)
      BY <2>1, PreemptStep, ThreadExitStep, Hack1Step
    <2>2. CASE SemaBlock(t) \/ SemaTake(t)
      BY <2>2, SemaBlockStep, SemaTakeStep
    <2>3. CASE DonateStep(t) \/ DonateEnd(t)
      BY <2>3, DonateSteps
    <2>4. CASE LockTrySetHolder(t) \/ LockReleaseTail(t)
      BY <2>4, LockTrySetHolderStep, LockReleaseTailStep
    <2>5. CASE CreateUnblock(t) \/ CreateReturn(t)
      BY <2>5, CreateUnblockStep, CreateReturnStep
    <2>6. CASE SetPriorityStore(t) \/ \E p \in Settable : SetPriority(t, p)
      BY <2>6, SetPrioritySteps
    <2>7. CASE \E s \in Sems : SemaUpCall(t, s) \/ SemaDownCall(t, s) \/ SemaTryDown(t, s)
      BY <2>7, SemaUpCallStep, SemaDownCallStep, SemaTryDownStep
    <2>8. CASE \E l \in Locks : LockAcquire(t, l) \/ LockTryAcquire(t, l) \/ LockRelease(t, l)
      BY <2>8, LockAcquireStep, LockTryAcquireStep, LockReleaseStep
    <2>9. CASE \E u \in Threads, p \in Priorities : CreateInit(t, u, p)
      BY <2>9, CreateInitStep
    <2> QED BY <1>4, <2>1, <2>2, <2>3, <2>4, <2>5, <2>6, <2>7, <2>8, <2>9 DEF ThreadStep
  <1> QED BY <1>1, <1>2, <1>3, <1>4 DEF Next

\* Every reachable state of the kernel is one Inv describes.
THEOREM InvHolds == Spec => []Inv
  BY InitInv, StepInv, PTL DEF Spec

\* The kernel's variables keep their types.
THEOREM TypeCorrect == Spec => []TypeOK
  <1>1. Inv => TypeOK
    BY DEF Inv
  <1> QED BY <1>1, InvHolds, PTL

\* thread.h:76-83: the `elem' of a thread is in at most one list, the one its
\* status says, and a blocked thread can always still be woken.
THEOREM ListsCorrect == Spec => []OneListPerThread
  <1>1. Inv => OneListPerThread
    BY DEF Inv
  <1> QED BY <1>1, InvHolds, PTL

\* synch.c: a lock's only unit is in exactly one place.
THEOREM UnitsCorrect == Spec => []OneUnitPerLock
  <1>1. Inv => OneUnitPerLock
    BY DEF Inv
  <1> QED BY <1>1, InvHolds, PTL

-------------------------------------------------------------------------------
(* The order in which waiters are woken.                                   *)

\* What a step may do to one wait list.
WakesInOrder(s) ==
    \A u \in ToSet(waiters[s]) :
        u \notin ToSet(waiters'[s]) =>
            \A w \in ToSet(waiters[s]) : currentPriority[w] <= currentPriority[u]

\* The waiter sema_up takes off the list is one of highest priority.
LEMMA WakeIsInOrder ==
    ASSUME Inv, NEW s \in Semas, NEW u \in ToSet(waiters[s]), SemaWake(s, u)
    PROVE  \A q \in Semas : WakesInOrder(q)
  <1>1. /\ \A q \in Semas : ToSet(waiters'[q]) = ToSet(waiters[q]) \ {u}
        /\ \A w \in ToSet(waiters[s]) : currentPriority[w] <= currentPriority[u]
    BY WakeStep DEF Inv
  <1>2. \A q \in Semas : u \in ToSet(waiters[q]) => q = s
    BY DEF Inv, OneListPerThread, WaitListsHoldBlocked
  <1> QED BY <1>1, <1>2 DEF WakesInOrder

\* No other step takes a thread off a wait list.
LEMMA StepWakesInOrder ==
    ASSUME Inv, Next, NEW q \in Semas
    PROVE  WakesInOrder(q)
  <1>1. CASE UNCHANGED waiters
    BY <1>1 DEF WakesInOrder
  <1>2. ASSUME NEW t \in Threads, NEW s \in Semas, SemaUp(t, s) PROVE WakesInOrder(q)
    <2>1. CASE \E u \in ToSet(waiters[s]) : SemaWake(s, u)
      BY <2>1, WakeIsInOrder
    <2> QED BY <1>1, <1>2, <2>1 DEF SemaUp
  <1>3. ASSUME NEW s \in Devices, DeviceInterrupt(s) PROVE WakesInOrder(q)
    <2>1. s \in Semas
      BY SchedulingAssumption DEF Semas
    <2>2. CASE \E u \in ToSet(waiters[s]) : SemaWake(s, u)
      BY <2>1, <2>2, WakeIsInOrder
    <2> QED BY <1>1, <1>3, <2>2 DEF DeviceInterrupt
  <1>4. ASSUME NEW t \in Threads, SemaBlock(t) PROVE WakesInOrder(q)
    <2> DEFINE s == target[t]
    <2>1. running = t /\ pc[t] = "sema_down" /\
          \E w \in ListInsertOrdered(waiters[s], t, currentPriority) :
             waiters' = [waiters EXCEPT ![s] = w]
      BY <1>4 DEF SemaBlock, At
    <2>2. s \in Semas /\ waiters \in [Semas -> Seq(Threads)]
      BY <2>1, Actor DEF LocationOK, Inv, TypeOK
    <2> HIDE DEF s
    <2>3. PICK w \in ListInsertOrdered(waiters[s], t, currentPriority) :
             waiters' = [waiters EXCEPT ![s] = w]
      BY <2>1
    <2>4. ToSet(w) = ToSet(waiters[s]) \cup {t}
      BY <2>2, <2>3, InsertOrdered
    <2>5. ToSet(waiters[q]) \subseteq ToSet(waiters'[q])
      BY <2>2, <2>3, <2>4
    <2> QED BY <2>5 DEF WakesInOrder
  <1>5. ASSUME NEW t \in Threads, NEW l \in Locks, LockRelease(t, l) PROVE WakesInOrder(q)
    BY <1>2, <1>5 DEF LockRelease, Semas
  <1>6. ASSUME NEW t \in Threads, NEW s \in Sems, SemaUpCall(t, s) PROVE WakesInOrder(q)
    BY <1>2, <1>6 DEF SemaUpCall, Semas
  <1>7. CASE IdleLoop
    BY <1>1, <1>7 DEF IdleLoop, objects
  <1>8. ASSUME NEW t \in Threads, ThreadStep(t) PROVE WakesInOrder(q)
    <2>1. CASE Preempt(t) \/ ThreadExit(t) \/ Hack1(t) \/ DonateStep(t) \/ DonateEnd(t)
      BY <1>1, <2>1 DEF Preempt, ThreadExit, Hack1, DonateStep, DonateEnd, objects
    <2>2. CASE SemaTake(t) \/ LockTrySetHolder(t) \/ LockReleaseTail(t)
      BY <1>1, <2>2 DEF SemaTake, LockTrySetHolder, LockReleaseTail, objects
    <2>3. CASE CreateUnblock(t) \/ CreateReturn(t) \/ SetPriorityStore(t)
      BY <1>1, <2>3 DEF CreateUnblock, CreateReturn, SetPriorityStore, objects
    <2>4. CASE \E s \in Sems : SemaDownCall(t, s) \/ SemaTryDown(t, s)
      BY <1>1, <2>4 DEF SemaDownCall, SemaTryDown, objects
    <2>5. CASE \E l \in Locks : LockAcquire(t, l) \/ LockTryAcquire(t, l)
      BY <1>1, <2>5 DEF LockAcquire, LockTryAcquire, objects
    <2>6. CASE \E p \in Settable : SetPriority(t, p)
      BY <1>1, <2>6 DEF SetPriority, objects
    <2>7. CASE \E u \in Threads, p \in Priorities : CreateInit(t, u, p)
      BY <1>1, <2>7 DEF CreateInit, objects
    <2> QED BY <1>4, <1>5, <1>6, <1>8, <2>1, <2>2, <2>3, <2>4, <2>5, <2>6, <2>7 DEF ThreadStep
  <1> QED BY <1>3, <1>7, <1>8 DEF Next

\* B3 of the design document: a semaphore wakes its waiter of highest
\* effective priority, whatever donations did to the order of its list.
THEOREM WakingOrder == Spec => HighestWaiterWakes
  <1>1. ASSUME Inv, [Next]_vars
        PROVE  [\A s \in Semas : \A u \in ToSet(waiters[s]) :
                   u \notin ToSet(waiters'[s]) =>
                      \A w \in ToSet(waiters[s]) : currentPriority[w] <= currentPriority[u]]_vars
    BY <1>1, StepWakesInOrder DEF WakesInOrder
  <1> QED BY <1>1, InvHolds, PTL DEF Spec, HighestWaiterWakes

-------------------------------------------------------------------------------
(* Wake-ups.                                                               *)

Contending(s) == {t \in Threads : Contends(t, s)}
Down(s) == {t \in Threads : pc[t] = "sema_down" /\ target[t] = s}

\* NoLostWakeup at s, and that finitely many threads contend, without which
\* their number would say nothing.
Matched(s) ==
    /\ IsFiniteSet(Contending(s))
    /\ waiters[s] # <<>> => value[s] <= Cardinality(Contending(s))

WakeupsOK == \A s \in Semas : Matched(s)

\* A set that may gain one element.
LEMMA CountGrows ==
    ASSUME NEW A, NEW B, NEW x, IsFiniteSet(A), A \subseteq B, B \subseteq A \cup {x}
    PROVE  /\ IsFiniteSet(B) /\ Cardinality(A) \in Nat /\ Cardinality(B) \in Nat
           /\ Cardinality(A) <= Cardinality(B)
           /\ x \in B /\ x \notin A => Cardinality(B) = Cardinality(A) + 1
  <1>1. /\ IsFiniteSet(A \cup {x}) /\ Cardinality(A) \in Nat
        /\ Cardinality(A \cup {x}) = IF x \in A THEN Cardinality(A) ELSE Cardinality(A) + 1
    BY FS_AddElement, FS_CardinalityType
  <1>2. CASE x \in B
    <2>1. B = A \cup {x}
      BY <1>2
    <2> QED BY <1>1, <2>1
  <1>3. CASE x \notin B
    <2>1. B = A
      BY <1>3
    <2> QED BY <1>1, <1>3, <2>1
  <1> QED BY <1>2, <1>3

\* Of the threads that test the value of s, those contend that do not sleep.
LEMMA ContendingAre ==
    Inv => \A s \in Semas : Contending(s) = Down(s) \ ToSet(waiters[s])
  <1> SUFFICES ASSUME Inv, NEW s \in Semas, NEW t \in Threads, t \in Down(s)
               PROVE  status[t] \in {"ready", "running"} <=> t \notin ToSet(waiters[s])
    BY DEF Contending, Contends, Down
  <1>1. pc[t] = "sema_down" /\ target[t] = s /\ status[t] \in Status
    BY DEF Down, Inv, TypeOK
  <1>2. status[t] \notin {"unborn", "dead"}
    BY <1>1 DEF Inv, ControlOK, NotYetRunning
  <1>3. ASSUME status[t] = "blocked" PROVE t \in ToSet(waiters[s])
    <2>1. CASE \E q \in Semas : t \in ToSet(waiters[q])
      BY <1>1, <2>1 DEF Inv, OneListPerThread, WaitListsHoldBlocked
    <2>2. CASE \E c \in Threads : creating[c] = t /\ pc[c] # "created"
      <3>1. t # NULL
        BY SchedulingAssumption
      <3> QED BY <1>1, <2>2, <3>1 DEF Inv, ControlOK, NotYetRunning
    <2> QED BY <1>3, <2>1, <2>2 DEF Inv, OneListPerThread, BlockedCanBeWoken
  <1>4. t \in ToSet(waiters[s]) => status[t] = "blocked"
    BY DEF Inv, OneListPerThread, WaitListsHoldBlocked
  <1> QED BY <1>1, <1>2, <1>3, <1>4 DEF Status

\* The same on both sides of a step.
LEMMA ContendingAround ==
    Inv /\ Inv' =>
        \A s \in Semas : /\ Contending(s) = Down(s) \ ToSet(waiters[s])
                         /\ Contending(s)' = Down(s)' \ ToSet(waiters'[s])
                         /\ value[s] \in Nat /\ value'[s] \in Nat
  <1>1. Inv => \A s \in Semas : value[s] \in Nat
    BY DEF Inv, TypeOK
  <1>2. (Inv => \A s \in Semas : Contending(s) = Down(s) \ ToSet(waiters[s]))'
    BY ContendingAre, PTL
  <1>3. (Inv => \A s \in Semas : value[s] \in Nat)'
    BY <1>1, PTL
  <1> QED BY <1>1, <1>2, <1>3, ContendingAre

\* A step that wakes nobody and in which at most x comes to test the value.
LEMMA QuietMatched ==
    ASSUME Inv, Inv', NEW s \in Semas, Matched(s), NEW x,
           waiters'[s] = waiters[s], value'[s] <= value[s] \/ waiters[s] = <<>>,
           Down(s) \subseteq Down(s)', Down(s)' \subseteq Down(s) \cup {x}
    PROVE  Matched(s)'
  <1>1. /\ Contending(s) \subseteq Contending(s)' /\ Contending(s)' \subseteq Contending(s) \cup {x}
        /\ value[s] \in Nat /\ value'[s] \in Nat
    BY ContendingAround
  <1>2. IsFiniteSet(Contending(s)) /\ (waiters[s] # <<>> => value[s] <= Cardinality(Contending(s)))
    BY DEF Matched
  <1>3. /\ IsFiniteSet(Contending(s)') /\ Cardinality(Contending(s)) <= Cardinality(Contending(s)')
        /\ Cardinality(Contending(s)) \in Nat /\ Cardinality(Contending(s)') \in Nat
    BY <1>1, <1>2, CountGrows
  <1> QED BY <1>1, <1>2, <1>3 DEF Matched

\* A step of t that is not in sema_down.
LEMMA QuietStepMatched ==
    ASSUME Inv, Inv', WakeupsOK, UNCHANGED waiters, NEW t,
           \A q \in Semas : value'[q] <= value[q] \/ waiters[q] = <<>>,
           \A u \in Threads : u # t => pc'[u] = pc[u] /\ target'[u] = target[u],
           t \in Threads => pc[t] # "sema_down"
    PROVE  WakeupsOK'
  <1> SUFFICES ASSUME NEW s \in Semas PROVE Matched(s)'
    BY DEF WakeupsOK
  <1>1. Down(s) \subseteq Down(s)' /\ Down(s)' \subseteq Down(s) \cup {t}
    BY DEF Down
  <1>2. Matched(s) /\ waiters'[s] = waiters[s] /\ (value'[s] <= value[s] \/ waiters[s] = <<>>)
    BY DEF WakeupsOK
  <1> QED BY <1>1, <1>2, QuietMatched

\* A unit for a sleeping thread comes with a thread that will look for it.
LEMMA WakeMatched ==
    ASSUME Inv, Inv', WakeupsOK, NEW s \in Semas, NEW u \in ToSet(waiters[s]), SemaWake(s, u),
           value' = [value EXCEPT ![s] = @ + 1], \A q \in Semas : Down(q)' = Down(q)
    PROVE  WakeupsOK'
  <1> SUFFICES ASSUME NEW q \in Semas PROVE Matched(q)'
    BY DEF WakeupsOK
  <1>1. /\ \A r \in Semas : ToSet(waiters'[r]) = ToSet(waiters[r]) \ {u}
        /\ \A r \in Semas : waiters[r] \in Seq(Threads) /\ waiters'[r] \in Seq(Threads)
        /\ u \in Threads
    BY WakeStep DEF Inv, TypeOK
  <1>2. \A r \in Semas : u \in ToSet(waiters[r]) => r = s
    BY DEF Inv, OneListPerThread, WaitListsHoldBlocked
  <1>3. u \in Down(s)
    BY <1>1 DEF Inv, OneListPerThread, WaitListsHoldBlocked, Down
  <1>4. value \in [Semas -> Nat] /\ Matched(q)
    BY DEF Inv, TypeOK, WakeupsOK
  <1>5. /\ Contending(q) = Down(q) \ ToSet(waiters[q])
        /\ Contending(q)' = Down(q) \ ToSet(waiters'[q])
    BY ContendingAround
  <1>6. IsFiniteSet(Contending(q))
    BY <1>4 DEF Matched
  <1>7. CASE q = s
    <2>1. /\ Contending(q)' = Contending(q) \cup {u} /\ u \notin Contending(q)
      BY <1>1, <1>3, <1>5, <1>7
    <2>2. /\ IsFiniteSet(Contending(q)') /\ Cardinality(Contending(q)) \in Nat
          /\ Cardinality(Contending(q)') = Cardinality(Contending(q)) + 1
      BY <1>6, <2>1, FS_AddElement, FS_CardinalityType
    <2>3. waiters[q] # <<>>
      BY <1>1, <1>7, MemberOfList
    <2>4. value'[q] = value[q] + 1 /\ value[q] \in Nat
      BY <1>4, <1>7
    <2> QED BY <1>4, <2>2, <2>3, <2>4 DEF Matched
  <1>8. CASE q # s
    <2>1. Contending(q)' = Contending(q)
      BY <1>1, <1>2, <1>5, <1>8
    <2>2. waiters'[q] = waiters[q] /\ value'[q] = value[q]
      BY <1>4, <1>8 DEF SemaWake, Inv, TypeOK
    <2> QED BY <1>4, <2>1, <2>2 DEF Matched
  <1> QED BY <1>7, <1>8

LEMMA UpMatched ==
    ASSUME Inv, Inv', WakeupsOK, NEW s \in Semas, value' = [value EXCEPT ![s] = @ + 1],
           \/ waiters[s] = <<>> /\ UNCHANGED waiters
           \/ \E u \in ToSet(waiters[s]) : SemaWake(s, u),
           \A u \in Threads : /\ pc'[u] = "sema_down" <=> pc[u] = "sema_down"
                              /\ pc[u] = "sema_down" => target'[u] = target[u]
    PROVE  WakeupsOK'
  <1>1. \A q \in Semas : Down(q)' = Down(q)
    BY DEF Down
  <1>2. CASE \E u \in ToSet(waiters[s]) : SemaWake(s, u)
    BY <1>1, <1>2, WakeMatched
  <1>3. CASE waiters[s] = <<>> /\ UNCHANGED waiters
    <2> SUFFICES ASSUME NEW q \in Semas PROVE Matched(q)'
      BY DEF WakeupsOK
    <2>0. value \in [Semas -> Nat] /\ value[q] \in Nat
      BY DEF Inv, TypeOK
    <2>1. value'[q] <= value[q] \/ waiters[q] = <<>>
      <3>1. q # s => value'[q] = value[q]
        BY <2>0
      <3> QED BY <1>3, <2>0, <3>1
    <2>2. Down(q) \subseteq Down(q)' /\ Down(q)' \subseteq Down(q) \cup {NULL} /\ Matched(q)
      BY <1>1 DEF WakeupsOK
    <2> QED BY <1>3, <2>1, <2>2, QuietMatched
  <1> QED BY <1>2, <1>3

\* Who goes to sleep has found no unit.
LEMMA BlockMatched ==
    ASSUME Inv, Inv', WakeupsOK, NEW t \in Threads, SemaBlock(t)
    PROVE  WakeupsOK'
  <1> SUFFICES ASSUME NEW q \in Semas PROVE Matched(q)'
    BY DEF WakeupsOK
  <1> DEFINE s == target[t]
  <1>1. /\ running = t /\ pc[t] = "sema_down" /\ value[s] = 0 /\ UNCHANGED <<value, pc, target>>
        /\ \E w \in ListInsertOrdered(waiters[s], t, currentPriority) :
              waiters' = [waiters EXCEPT ![s] = w]
    BY DEF SemaBlock, At, control
  <1>2. s \in Semas /\ waiters \in [Semas -> Seq(Threads)]
    BY <1>1, Actor DEF LocationOK, Inv, TypeOK
  <1> HIDE DEF s
  <1>3. PICK w \in ListInsertOrdered(waiters[s], t, currentPriority) :
           waiters' = [waiters EXCEPT ![s] = w]
    BY <1>1
  <1>4. ToSet(w) = ToSet(waiters[s]) \cup {t}
    BY <1>2, <1>3, InsertOrdered
  <1>5. Down(q)' = Down(q) /\ Matched(q) /\ value'[q] = value[q]
    BY <1>1 DEF Down, WakeupsOK
  <1>6. CASE q = s
    <2>1. Contending(q)' = Contending(q) \ {t}
      BY <1>2, <1>3, <1>4, <1>5, <1>6, ContendingAround
    <2>2. IsFiniteSet(Contending(q)') /\ Cardinality(Contending(q)') \in Nat
      BY <1>5, <2>1, FS_RemoveElement, FS_CardinalityType DEF Matched
    <2> QED BY <1>1, <1>5, <1>6, <2>2 DEF Matched
  <1>7. CASE q # s
    <2>1. waiters'[q] = waiters[q]
      BY <1>2, <1>3, <1>7
    <2>2. Contending(q)' = Contending(q)
      BY <1>5, <2>1, ContendingAround
    <2> QED BY <1>5, <2>1, <2>2 DEF Matched
  <1> QED BY <1>6, <1>7

\* Who takes a unit was one of those that contend for it.
LEMMA TakeMatched ==
    ASSUME Inv, Inv', WakeupsOK, NEW t \in Threads, SemaTake(t)
    PROVE  WakeupsOK'
  <1> SUFFICES ASSUME NEW q \in Semas PROVE Matched(q)'
    BY DEF WakeupsOK
  <1> DEFINE s == target[t]
  <1>1. /\ running = t /\ pc[t] = "sema_down" /\ value[s] > 0 /\ value' = [value EXCEPT ![s] = @ - 1]
        /\ UNCHANGED waiters
        /\ pc' = [pc EXCEPT ![t] = IF s = TidLock THEN "tid" ELSE "client"]
        /\ target' = [target EXCEPT ![t] = NULL]
    BY DEF SemaTake, At, Goto
  <1>2. s \in Semas /\ value \in [Semas -> Nat] /\ status[t] = "running"
    BY <1>1, Actor DEF LocationOK, Inv, TypeOK
  <1>3. \A u \in Threads : /\ pc'[u] = IF u = t THEN IF s = TidLock THEN "tid" ELSE "client" ELSE pc[u]
                           /\ target'[u] = IF u = t THEN NULL ELSE target[u]
    BY <1>1 DEF Inv, TypeOK
  <1>4. t \in Contending(s)
    BY <1>1, <1>2 DEF Contending, Contends
  <1>5. Down(q)' = Down(q) \ {t}
    BY <1>3 DEF Down
  <1>6. Matched(q) /\ waiters'[q] = waiters[q]
    BY <1>1 DEF WakeupsOK
  <1>7. Contending(q)' = Contending(q) \ {t}
    BY <1>5, <1>6, ContendingAround
  <1>8. /\ IsFiniteSet(Contending(q)') /\ Cardinality(Contending(q)) \in Nat
        /\ Cardinality(Contending(q)') = IF t \in Contending(q) THEN Cardinality(Contending(q)) - 1
                                                               ELSE Cardinality(Contending(q))
    BY <1>6, <1>7, FS_RemoveElement, FS_CardinalityType DEF Matched
  <1>9. CASE q = s
    <2>1. value'[q] = value[q] - 1 /\ value[q] \in Nat
      BY <1>1, <1>2, <1>9
    <2> QED BY <1>4, <1>6, <1>8, <1>9, <2>1 DEF Matched
  <1>10. CASE q # s
    <2>1. value'[q] = value[q]
      BY <1>1, <1>2, <1>10
    <2>2. t \notin Contending(q)
      BY <1>10 DEF Contending, Contends, s
    <2> QED BY <1>6, <1>8, <2>1, <2>2 DEF Matched
  <1> QED BY <1>9, <1>10

\* Every action keeps wake-ups and units matched.
LEMMA StepMatched ==
    ASSUME Inv, Inv', WakeupsOK, [Next]_vars
    PROVE  WakeupsOK'
  <1>0. /\ value \in [Semas -> Nat] /\ value' \in [Semas -> Nat] /\ pc \in [Threads -> Open \cup Masked]
        /\ target \in [Threads -> Semas \cup {NULL}] /\ NULL \notin Threads /\ Idle \notin Threads
        /\ \A q \in Semas : value[q] \in Nat /\ value[q] <= value[q]
    BY SchedulingAssumption DEF Inv, TypeOK
  <1>1. CASE UNCHANGED vars \/ IdleLoop
    <2>1. UNCHANGED <<waiters, value, pc, target>>
      BY <1>1 DEF vars, IdleLoop, objects, control
    <2> QED BY <1>0, <2>1, QuietStepMatched
  <1>2. ASSUME NEW s \in Devices, DeviceInterrupt(s) PROVE WakeupsOK'
    <2>1. /\ s \in Semas /\ value' = [value EXCEPT ![s] = @ + 1] /\ UNCHANGED <<pc, target>>
          /\ \/ waiters[s] = <<>> /\ UNCHANGED waiters
             \/ \E u \in ToSet(waiters[s]) : SemaWake(s, u)
      BY <1>2, SchedulingAssumption DEF DeviceInterrupt, control, Semas
    <2> QED BY <2>1, UpMatched
  <1>3. ASSUME NEW t \in Threads, NEW s \in Sems, SemaUpCall(t, s) PROVE WakeupsOK'
    <2>1. /\ s \in Semas /\ value' = [value EXCEPT ![s] = @ + 1] /\ UNCHANGED <<pc, target>>
          /\ \/ waiters[s] = <<>> /\ UNCHANGED waiters
             \/ \E u \in ToSet(waiters[s]) : SemaWake(s, u)
      BY <1>3 DEF SemaUpCall, SemaUp, control, Semas
    <2> QED BY <2>1, UpMatched
  <1>4. ASSUME NEW t \in Threads, NEW l \in Locks, LockRelease(t, l) PROVE WakeupsOK'
    <2>1. /\ l \in Semas /\ value' = [value EXCEPT ![l] = @ + 1]
          /\ pc[t] \in {"client", "tid"} /\ pc' = [pc EXCEPT ![t] = "release"]
          /\ target' = [target EXCEPT ![t] = l]
          /\ \/ waiters[l] = <<>> /\ UNCHANGED waiters
             \/ \E u \in ToSet(waiters[l]) : SemaWake(l, u)
      BY <1>4 DEF LockRelease, SemaUp, At, Goto, Semas
    <2>2. \A u \in Threads : /\ pc'[u] = IF u = t THEN "release" ELSE pc[u]
                             /\ u # t => target'[u] = target[u]
      BY <1>0, <2>1
    <2>3. \A u \in Threads : /\ pc'[u] = "sema_down" <=> pc[u] = "sema_down"
                             /\ pc[u] = "sema_down" => target'[u] = target[u]
      BY <2>1, <2>2
    <2> QED BY <2>1, <2>3, UpMatched
  <1>5. ASSUME NEW t \in Threads, ThreadStep(t) PROVE WakeupsOK'
    <2>0. ASSUME UNCHANGED waiters, \A q \in Semas : value'[q] <= value[q],
                 \A u \in Threads : u # t => pc'[u] = pc[u] /\ target'[u] = target[u],
                 pc[t] # "sema_down"
          PROVE  WakeupsOK'
      BY <2>0, QuietStepMatched
    <2>1. CASE Preempt(t) \/ ThreadExit(t) \/ DonateStep(t)
      <3>1. UNCHANGED <<waiters, value, pc, target>> /\ pc[t] # "sema_down"
        BY <2>1 DEF Preempt, ThreadExit, DonateStep, At, Open, objects, control
      <3> QED BY <1>0, <2>0, <3>1
    <2>2. CASE Hack1(t) \/ DonateEnd(t) \/ CreateUnblock(t) \/ CreateReturn(t) \/ SetPriorityStore(t)
      <3>1. UNCHANGED <<waiters, value, target>> /\ pc[t] # "sema_down"
        BY <2>2 DEF Hack1, DonateEnd, CreateUnblock, CreateReturn, SetPriorityStore, At, objects
      <3>2. \A u \in Threads : u # t => pc'[u] = pc[u]
        BY <1>0, <2>2 DEF Hack1, DonateEnd, CreateUnblock, CreateReturn, SetPriorityStore, Goto
      <3> QED BY <1>0, <2>0, <3>1, <3>2
    <2>3. CASE LockTrySetHolder(t) \/ LockReleaseTail(t)
      <3>1. UNCHANGED <<waiters, value>> /\ pc[t] # "sema_down"
        BY <2>3 DEF LockTrySetHolder, LockReleaseTail, At, objects
      <3>2. \A u \in Threads : u # t => pc'[u] = pc[u] /\ target'[u] = target[u]
        BY <1>0, <2>3 DEF LockTrySetHolder, LockReleaseTail, Goto
      <3> QED BY <1>0, <2>0, <3>1, <3>2
    <2>4. CASE \E s \in Sems : SemaDownCall(t, s)
      <3>1. UNCHANGED <<waiters, value>> /\ pc[t] # "sema_down"
        BY <2>4 DEF SemaDownCall, At, objects
      <3>2. \A u \in Threads : u # t => pc'[u] = pc[u] /\ target'[u] = target[u]
        BY <1>0, <2>4 DEF SemaDownCall, Goto
      <3> QED BY <1>0, <2>0, <3>1, <3>2
    <2>5. CASE \E s \in Sems : SemaTryDown(t, s)
      <3>1. PICK s \in Sems : SemaTryDown(t, s)
        BY <2>5
      <3>2. UNCHANGED <<waiters, pc, target>> /\ pc[t] # "sema_down" /\ value' = [value EXCEPT ![s] = @ - 1]
        BY <3>1 DEF SemaTryDown, At, control
      <3>3. \A q \in Semas : value'[q] <= value[q]
        BY <1>0, <3>2
      <3> QED BY <2>0, <3>2, <3>3
    <2>6. CASE \E l \in Locks : LockTryAcquire(t, l)
      <3>1. PICK l \in Locks : LockTryAcquire(t, l)
        BY <2>6
      <3>2. /\ UNCHANGED waiters /\ pc[t] # "sema_down" /\ value' = [value EXCEPT ![l] = @ - 1]
            /\ pc' = [pc EXCEPT ![t] = "try"] /\ target' = [target EXCEPT ![t] = l]
        BY <3>1 DEF LockTryAcquire, At, Goto
      <3>3. \A q \in Semas : value'[q] <= value[q]
        BY <1>0, <3>2
      <3>4. \A u \in Threads : u # t => pc'[u] = pc[u] /\ target'[u] = target[u]
        BY <1>0, <3>2
      <3> QED BY <2>0, <3>2, <3>3, <3>4
    <2>7. CASE \E l \in Locks : LockAcquire(t, l)
      <3>1. PICK l \in Locks : LockAcquire(t, l)
        BY <2>7
      <3>2. UNCHANGED <<waiters, value>> /\ pc[t] # "sema_down" /\ target' = [target EXCEPT ![t] = l]
        BY <3>1 DEF LockAcquire, MayLock, At, objects
      <3>3. PICK loc \in {"sema_down", "donate"} : pc' = [pc EXCEPT ![t] = loc]
        BY <3>1 DEF LockAcquire, Goto
      <3>4. \A u \in Threads : u # t => pc'[u] = pc[u] /\ target'[u] = target[u]
        BY <1>0, <3>2, <3>3
      <3> QED BY <1>0, <2>0, <3>2, <3>4
    <2>8. CASE \E p \in Settable : SetPriority(t, p)
      <3>1. UNCHANGED <<waiters, value, target>> /\ pc[t] # "sema_down"
        BY <2>8 DEF SetPriority, At, objects
      <3>2. \A u \in Threads : u # t => pc'[u] = pc[u]
        BY <1>0, <2>8 DEF SetPriority, Goto
      <3> QED BY <1>0, <2>0, <3>1, <3>2
    <2>9. CASE \E u \in Threads, p \in Priorities : CreateInit(t, u, p)
      <3>1. UNCHANGED <<waiters, value, target>> /\ pc[t] # "sema_down"
        BY <2>9 DEF CreateInit, At, objects
      <3>2. \A u \in Threads : u # t => pc'[u] = pc[u]
        BY <1>0, <2>9 DEF CreateInit, Goto
      <3> QED BY <1>0, <2>0, <3>1, <3>2
    <2>10. CASE SemaBlock(t) \/ SemaTake(t)
      BY <2>10, BlockMatched, TakeMatched
    <2> QED BY <1>3, <1>4, <1>5, <2>1, <2>2, <2>3, <2>4, <2>5, <2>6, <2>7, <2>8, <2>9, <2>10 DEF ThreadStep
  <1> QED BY <1>1, <1>2, <1>5 DEF Next

\* synch.c: no wake-up is lost, however threads overtake the one sema_up woke:
\* who stays asleep has no unit that nobody is about to take.
THEOREM NoWakeupIsLost == Spec => []NoLostWakeup
  <1>1. Init => WakeupsOK
    <2> SUFFICES ASSUME Init, NEW s \in Semas PROVE Matched(s)
      BY DEF WakeupsOK
    <2>1. Contending(s) = {} /\ waiters[s] = <<>>
      BY DEF Init, Contending, Contends
    <2> QED BY <2>1, FS_EmptySet DEF Matched
  <1>2. Inv /\ Inv' /\ WakeupsOK /\ [Next]_vars => WakeupsOK'
    BY StepMatched
  <1>3. WakeupsOK => NoLostWakeup
    BY DEF WakeupsOK, Matched, Contending, NoLostWakeup
  <1> QED BY <1>1, <1>2, <1>3, InvHolds, PTL DEF Spec

-------------------------------------------------------------------------------
(* The donation walk.                                                      *)

\* What the walk of t has done when it stands at curr: of the threads W it has
\* been at, each waits for the holder of a lock, which is in W or is curr.
\* Either it is going round in W, and will not end, or every thread it has
\* reached has at least the priority of t.
Walked(t, W) ==
    /\ W \subseteq Threads /\ curr \in Threads /\ t \in W \cup {curr}
    /\ \A u \in W : blockLock[u] # NULL /\ holder[blockLock[u]] \in W \cup {curr}
    /\ \/ curr \in W
       \/ \A u \in W \cup {curr} : currentPriority[u] >= currentPriority[t]

WalkOK ==
    \A t \in Threads :
        kernel = "up" /\ pc[t] = "donate" => \E W \in SUBSET Threads : Walked(t, W)

\* One more thread.
LEMMA WalkGoesOn ==
    ASSUME Inv, NEW t \in Threads, DonateStep(t), kernel' = "up",
           NEW W \in SUBSET Threads, Walked(t, W)
    PROVE  \E V \in SUBSET Threads : Walked(t, V)'
  <1> DEFINE hold == holder[blockLock[curr]]
             c == IF currentPriority[hold] < currentPriority[curr]
                  THEN currentPriority[curr] ELSE currentPriority[hold]
  <1>0. PICK V : V = W \cup {curr}
    OBVIOUS
  <1>1. /\ blockLock[curr] # NULL /\ UNCHANGED <<blockLock, holder>>
        /\ curr \in Threads
        /\ \/ hold = NULL /\ kernel' = "page_fault"
           \/ hold # NULL /\ currentPriority' = [currentPriority EXCEPT ![hold] = c] /\ curr' = hold
    BY DEF DonateStep, objects, Walked
  <1>2. /\ currentPriority \in [Threads -> Priorities]
        /\ \A u \in Threads : currentPriority[u] \in Int
        /\ blockLock[curr] \in Locks /\ holder[blockLock[curr]] \in Threads \cup {NULL}
    BY <1>1, SchedulingAssumption DEF Inv, TypeOK, Priorities
  <1>3. hold \in Threads /\ currentPriority' = [currentPriority EXCEPT ![hold] = c] /\ curr' = hold
    BY <1>1, <1>2
  <1>4. /\ V \in SUBSET Threads /\ t \in V
        /\ \A u \in V : blockLock[u] # NULL /\ holder[blockLock[u]] \in V \cup {hold}
    BY <1>0, <1>1 DEF Walked
  <1>5. CASE hold \in V
    BY <1>1, <1>3, <1>4, <1>5 DEF Walked
  <1>6. CASE hold \notin V
    <2>1. curr \notin W
      BY <1>0, <1>6 DEF Walked
    <2>2. \A u \in V : currentPriority[u] >= currentPriority[t]
      BY <1>0, <2>1 DEF Walked
    <2>3. c \in Int /\ c >= currentPriority[t]
      <3>1. currentPriority[curr] >= currentPriority[t]
        BY <1>0, <2>2
      <3>2. currentPriority[hold] \in Int /\ currentPriority[curr] \in Int /\ currentPriority[t] \in Int
        BY <1>1, <1>2, <1>3
      <3> HIDE DEF hold
      <3> QED BY <3>1, <3>2
    <2>4. t \in Threads /\ \A u \in V : u \in Threads /\ u # hold
      BY <1>4, <1>6
    <2> HIDE DEF c, hold
    <2>5. \A u \in V : currentPriority'[u] = currentPriority[u]
      BY <1>2, <1>3, <2>4
    <2>6. currentPriority'[hold] = c
      BY <1>2, <1>3
    <2>7. \A u \in V \cup {hold} : currentPriority'[u] >= currentPriority'[t]
      BY <1>4, <2>2, <2>3, <2>5, <2>6
    <2> QED BY <1>1, <1>3, <1>4, <2>7 DEF Walked
  <1> QED BY <1>5, <1>6

\* The walk begins at the thread that acquires the lock.
LEMMA WalkBegins ==
    ASSUME Inv, NEW t \in Threads, NEW l \in Locks, LockAcquire(t, l), pc'[t] = "donate"
    PROVE  Walked(t, {})'
  <1>1. curr' = t
    <2>1. pc[t] # "donate" /\ pc \in [Threads -> Open \cup Masked]
      BY DEF LockAcquire, MayLock, At, Inv, TypeOK
    <2> QED BY <2>1 DEF LockAcquire, Goto
  <1>2. currentPriority \in [Threads -> Priorities] /\ (holder[l] # NULL => holder[l] \in Threads)
    BY DEF Inv, TypeOK
  <1>3. currentPriority' \in [Threads -> Priorities]
    <2>1. currentPriority' \in {currentPriority, [currentPriority EXCEPT ![holder[l]] = currentPriority[t]]}
      BY DEF LockAcquire, donation
    <2> QED BY <1>2, <2>1
  <1>4. currentPriority'[t] \in Int
    BY <1>3, SchedulingAssumption DEF Priorities
  <1> QED BY <1>1, <1>4 DEF Walked

\* Interrupts are off: while a thread is on the walk nothing else happens.
LEMMA StepWalk ==
    ASSUME Inv, Inv', WalkOK, Next
    PROVE  WalkOK'
  <1> SUFFICES ASSUME NEW t \in Threads, kernel' = "up", pc'[t] = "donate"
               PROVE  \E W \in SUBSET Threads : Walked(t, W)'
    BY DEF WalkOK
  <1>0. /\ pc \in [Threads -> Open \cup Masked] /\ Idle \notin Threads
        /\ \A u \in Threads : pc[u] = "donate" => running = u
    BY SchedulingAssumption DEF Inv, TypeOK, ControlOK, LocationOK
  <1>1. CASE pc[t] # "donate"
    <2>1. PICK x \in Threads, l \in Locks : LockAcquire(x, l)
      <3>1. pc' # pc
        BY <1>1
      <3>2. ~ IdleLoop /\ \A s \in Devices : ~ DeviceInterrupt(s)
        BY <3>1 DEF IdleLoop, DeviceInterrupt, control
      <3>3. PICK x \in Threads : ThreadStep(x)
        BY <3>2 DEF Next
      <3>4. ~ (Preempt(x) \/ ThreadExit(x) \/ SemaBlock(x) \/ DonateStep(x))
        BY <3>1 DEF Preempt, ThreadExit, SemaBlock, DonateStep, control
      <3>5. ~ (Hack1(x) \/ DonateEnd(x) \/ SemaTake(x) \/ LockTrySetHolder(x) \/ LockReleaseTail(x))
        BY <1>0, <1>1 DEF Hack1, DonateEnd, SemaTake, LockTrySetHolder, LockReleaseTail, Goto
      <3>6. ~ (SetPriorityStore(x) \/ CreateUnblock(x) \/ CreateReturn(x))
        BY <1>0, <1>1 DEF SetPriorityStore, CreateUnblock, CreateReturn, Goto
      <3>7. \A s \in Sems : ~ (SemaUpCall(x, s) \/ SemaDownCall(x, s) \/ SemaTryDown(x, s))
        BY <1>0, <1>1, <3>1 DEF SemaUpCall, SemaDownCall, SemaTryDown, Goto, control
      <3>8. \A l \in Locks : ~ (LockTryAcquire(x, l) \/ LockRelease(x, l))
        BY <1>0, <1>1 DEF LockTryAcquire, LockRelease, Goto
      <3>9. \A p \in Settable : ~ SetPriority(x, p)
        BY <1>0, <1>1 DEF SetPriority, Goto
      <3>10. \A u \in Threads, p \in Priorities : ~ CreateInit(x, u, p)
        BY <1>0, <1>1 DEF CreateInit, Goto
      <3> QED BY <3>3, <3>4, <3>5, <3>6, <3>7, <3>8, <3>9, <3>10 DEF ThreadStep
    <2>2. x = t
      <3>1. PICK loc \in {"sema_down", "donate"} : pc' = [pc EXCEPT ![x] = loc]
        BY <2>1 DEF LockAcquire, Goto
      <3> QED BY <1>0, <1>1, <3>1
    <2>3. Walked(t, {})'
      BY <2>1, <2>2, WalkBegins
    <2> QED BY <2>3
  <1>2. CASE pc[t] = "donate"
    <2>1. running = t
      BY <1>0, <1>2
    <2>2. DonateStep(t)
      <3>1. ~ IdleLoop /\ \A s \in Devices : ~ DeviceInterrupt(s)
        BY <1>0, <1>2, <2>1 DEF IdleLoop, DeviceInterrupt, Open
      <3>2. PICK x \in Threads : ThreadStep(x)
        BY <3>1 DEF Next
      <3>3. ~ DonateEnd(x)
        BY <1>0, <1>2, <2>1 DEF DonateEnd, At, Goto
      <3>4. x # t \/ pc[x] = "donate"
        BY <1>2
      <3>5. ~ (Preempt(x) \/ ThreadExit(x) \/ Hack1(x) \/ SemaBlock(x) \/ SemaTake(x))
        BY <2>1, <3>4 DEF Preempt, ThreadExit, Hack1, SemaBlock, SemaTake, At, Open
      <3>6. ~ (LockTrySetHolder(x) \/ LockReleaseTail(x) \/ SetPriorityStore(x) \/ CreateUnblock(x) \/ CreateReturn(x))
        BY <2>1, <3>4 DEF LockTrySetHolder, LockReleaseTail, SetPriorityStore, CreateUnblock, CreateReturn, At
      <3>7. \A s \in Sems : ~ (SemaUpCall(x, s) \/ SemaDownCall(x, s) \/ SemaTryDown(x, s))
        BY <2>1, <3>4 DEF SemaUpCall, SemaDownCall, SemaTryDown, At
      <3>8. \A l \in Locks : ~ (LockAcquire(x, l) \/ LockTryAcquire(x, l) \/ LockRelease(x, l))
        BY <2>1, <3>4 DEF LockAcquire, LockTryAcquire, LockRelease, MayLock, At
      <3>9. \A p \in Settable : ~ SetPriority(x, p)
        BY <2>1, <3>4 DEF SetPriority, At
      <3>10. \A u \in Threads, p \in Priorities : ~ CreateInit(x, u, p)
        BY <2>1, <3>4 DEF CreateInit, At
      <3>11. DonateStep(x)
        BY <3>2, <3>3, <3>5, <3>6, <3>7, <3>8, <3>9, <3>10 DEF ThreadStep
      <3> QED BY <2>1, <3>11 DEF DonateStep, At
    <2>3. kernel = "up"
      BY <2>2 DEF DonateStep, At
    <2>4. PICK W \in SUBSET Threads : Walked(t, W)
      BY <1>2, <2>3 DEF WalkOK
    <2> QED BY <2>2, <2>4, WalkGoesOn
  <1> QED BY <1>1, <1>2

\* At the end of the walk the threads it has reached are all that t waits for.
LEMMA WalkHasReached ==
    ASSUME Inv, WalkOK, NEW t \in Threads, DonateEnd(t), NEW u \in Upstream(t)
    PROVE  currentPriority[u] >= currentPriority[t]
  <1>1. pc[t] = "donate" /\ kernel = "up" /\ blockLock[curr] = NULL
    BY DEF DonateEnd, At
  <1>2. PICK W \in SUBSET Threads : Walked(t, W)
    BY <1>1 DEF WalkOK
  <1> DEFINE U == W \cup {curr}
  <1>3. /\ U \in SUBSET Threads /\ t \in U
        /\ \A v \in W : blockLock[v] # NULL /\ holder[blockLock[v]] \in U
        /\ curr \notin W
        /\ \A v \in U : currentPriority[v] >= currentPriority[t]
    BY <1>1, <1>2 DEF Walked
  <1>4. \A v \in U : WaitsFor(v) \in U \cup {NULL}
    BY <1>1, <1>3 DEF WaitsFor
  <1> HIDE DEF U
  <1>5. u \in U
    BY <1>3, <1>4 DEF Upstream
  <1> QED BY <1>3, <1>5

\* B4 of the design document: a donation reaches every thread the donor waits
\* for, along a chain of locks of any length, whenever its walk ends.
THEOREM DonationReaches == Spec => DonationReachesEveryHolder
  <1>1. Init => WalkOK
    BY DEF Init, WalkOK
  <1>2. Inv /\ Inv' /\ WalkOK /\ [Next]_vars => WalkOK'
    <2>1. CASE UNCHANGED vars
      BY <2>1 DEF vars, control, donation, objects, WalkOK, Walked
    <2> QED BY <2>1, StepWalk
  <1>3. Inv /\ WalkOK /\ [Next]_vars =>
            [\A t \in Threads : DonateEnd(t) =>
                \A u \in Upstream(t) : currentPriority[u] >= currentPriority[t]]_vars
    BY WalkHasReached
  <1> QED BY <1>1, <1>2, <1>3, InvHolds, PTL DEF Spec, DonationReachesEveryHolder

-------------------------------------------------------------------------------
(* The locks implement the lock service.                                   *)

\* A step that neither takes nor gives up the unit of a lock.
OwnersStay ==
    /\ UNCHANGED holder
    /\ \A t \in Threads : /\ pc'[t] = "try" <=> pc[t] = "try"
                          /\ pc[t] = "try" => target'[t] = target[t]

\* Equal holders and equal threads in the window mean equal owners.
LEMMA SameOwners ==
    ASSUME OwnersStay
    PROVE  \A l \in Locks : Owner(l)' = Owner(l)
  <1>1. \A l \in Locks : Trying(l)' = Trying(l)
    BY DEF OwnersStay, Trying
  <1> QED BY <1>1 DEF OwnersStay, Owner

\* The thread inside the window is the owner.
LEMMA OneTrying ==
    ASSUME NEW t \in Threads, NEW T, T = {t}
    PROVE  T # {} /\ MemberOf(T) = t
  BY DEF MemberOf

Grants(t, l) ==
    /\ Owner(l) = NULL /\ Owner(l)' = t
    /\ \A k \in Locks : k # l => Owner(k)' = Owner(k)

GivesUp(l) ==
    /\ Owner(l) # NULL /\ Owner(l)' = NULL
    /\ \A k \in Locks : k # l => Owner(k)' = Owner(k)

\* lock_try_acquire grants the lock when it takes the unit.
LEMMA TryAcquireGrants ==
    ASSUME Inv, NEW t \in Threads, NEW l \in Locks, LockTryAcquire(t, l)
    PROVE  Grants(t, l)
  <1>1. /\ pc[t] = "client" /\ value[l] > 0 /\ holder' = holder
        /\ pc' = [pc EXCEPT ![t] = "try"] /\ target' = [target EXCEPT ![t] = l]
        /\ pc \in [Threads -> Open \cup Masked] /\ target \in [Threads -> Semas \cup {NULL}]
    BY DEF LockTryAcquire, At, Goto, Inv, TypeOK
  <1>2. holder[l] = NULL /\ Trying(l) = {}
    BY <1>1 DEF Inv, OneUnitPerLock
  <1>3. Trying(l)' = {t} /\ \A k \in Locks : k # l => Trying(k)' = Trying(k)
    BY <1>1, <1>2 DEF Trying
  <1>4. MemberOf(Trying(l)') = t /\ Trying(l)' # {}
    BY <1>3, OneTrying
  <1> QED BY <1>1, <1>2, <1>3, <1>4 DEF Grants, Owner

\* Storing the holder changes no owner.
LEMMA TrySetHolderKeeps ==
    ASSUME Inv, NEW t \in Threads, LockTrySetHolder(t)
    PROVE  \A l \in Locks : Owner(l)' = Owner(l)
  <1>0. /\ running = t /\ pc[t] = "try" /\ target[t] \in Locks
    BY Actor DEF LockTrySetHolder, At, LocationOK
  <1>l. PICK l \in Locks : l = target[t]
    BY <1>0
  <1>1. /\ running = t /\ pc[t] = "try" /\ holder' = [holder EXCEPT ![l] = t]
        /\ pc' = [pc EXCEPT ![t] = "client"] /\ target' = [target EXCEPT ![t] = NULL]
        /\ pc \in [Threads -> Open \cup Masked] /\ target \in [Threads -> Semas \cup {NULL}]
        /\ holder \in [Locks -> Threads \cup {NULL}]
    BY <1>l DEF LockTrySetHolder, At, Goto, Inv, TypeOK
  <1>2. NULL \notin Threads
    BY <1>1, Actor
  <1>3. l \in Locks /\ t \in Trying(l) /\ \A k \in Locks : k # l => t \notin Trying(k)
    BY <1>1, <1>l DEF Trying
  <1>4. \A k \in Locks : Trying(k)' = Trying(k) \ {t}
    BY <1>1 DEF Trying
  <1>5. holder[l] = NULL /\ Trying(l) = {t}
    BY <1>3 DEF Inv, OneUnitPerLock
  <1>6. MemberOf(Trying(l)) = t /\ Trying(l) # {}
    BY <1>5, OneTrying
  <1>7. Owner(l) = t /\ Owner(l)' = t
    BY <1>1, <1>2, <1>3, <1>5, <1>6 DEF Owner
  <1>8. ASSUME NEW k \in Locks, k # l PROVE Owner(k)' = Owner(k)
    <2>1. Trying(k)' = Trying(k) /\ holder'[k] = holder[k]
      BY <1>1, <1>3, <1>4, <1>8
    <2> QED BY <2>1 DEF Owner
  <1> QED BY <1>7, <1>8

\* lock_acquire grants the lock when it takes the unit.
LEMMA TakeGrants ==
    ASSUME Inv, NEW t \in Threads, SemaTake(t)
    PROVE  OwnersStay \/ \E l \in Locks : Grants(t, l)
  <1>0. running = t /\ pc[t] = "sema_down" /\ target[t] \in Semas
    BY Actor DEF SemaTake, At, LocationOK
  <1>s. PICK s \in Semas : s = target[t]
    BY <1>0
  <1> DEFINE loc == IF s = TidLock THEN "tid" ELSE "client"
  <1>1. /\ running = t /\ pc[t] = "sema_down" /\ value[s] > 0
        /\ holder' = IF s \in Locks THEN [holder EXCEPT ![s] = t] ELSE holder
        /\ pc' = [pc EXCEPT ![t] = loc] /\ target' = [target EXCEPT ![t] = NULL]
        /\ pc \in [Threads -> Open \cup Masked] /\ target \in [Threads -> Semas \cup {NULL}]
        /\ holder \in [Locks -> Threads \cup {NULL}]
    BY <1>s DEF SemaTake, At, Goto, Inv, TypeOK
  <1>2. NULL \notin Threads
    BY <1>1, Actor
  <1>3. loc \in {"tid", "client"}
    OBVIOUS
  <1> HIDE DEF loc
  <1>4. /\ \A u \in Threads : pc'[u] = "try" <=> pc[u] = "try"
        /\ \A u \in Threads : pc[u] = "try" => target'[u] = target[u]
    BY <1>1, <1>3
  <1>5. CASE s \in Locks
    <2>1. holder[s] = NULL /\ Trying(s) = {}
      BY <1>1, <1>5 DEF Inv, OneUnitPerLock
    <2>2. \A k \in Locks : Trying(k)' = Trying(k)
      BY <1>4 DEF Trying
    <2>3. Owner(s) = NULL /\ Owner(s)' = t
      BY <1>1, <1>2, <1>5, <2>1 DEF Owner
    <2>4. ASSUME NEW k \in Locks, k # s PROVE Owner(k)' = Owner(k)
      <3>1. holder'[k] = holder[k] /\ Trying(k)' = Trying(k)
        BY <1>1, <1>5, <2>2, <2>4
      <3> QED BY <3>1 DEF Owner
    <2> QED BY <1>5, <2>3, <2>4 DEF Grants
  <1>6. CASE s \notin Locks
    BY <1>1, <1>4, <1>6 DEF OwnersStay
  <1> QED BY <1>5, <1>6

\* lock_release gives the lock up when it clears the holder.
LEMMA ReleaseGivesUp ==
    ASSUME Inv, NEW t \in Threads, NEW l \in Locks, LockRelease(t, l)
    PROVE  GivesUp(l)
  <1>1. /\ pc[t] # "try" /\ holder[l] = t /\ holder' = [holder EXCEPT ![l] = NULL]
        /\ pc' = [pc EXCEPT ![t] = "release"] /\ target' = [target EXCEPT ![t] = l]
        /\ pc \in [Threads -> Open \cup Masked] /\ target \in [Threads -> Semas \cup {NULL}]
        /\ holder \in [Locks -> Threads \cup {NULL}]
    BY DEF LockRelease, At, Goto, Inv, TypeOK
  <1>2. NULL \notin Threads
    BY SchedulingAssumption
  <1>3. \A k \in Locks : Trying(k)' = Trying(k)
    BY <1>1 DEF Trying
  <1>4. Trying(l) = {}
    BY <1>1, <1>2 DEF Inv, OneUnitPerLock
  <1>5. Owner(l) = t /\ Owner(l)' = NULL
    BY <1>1, <1>2, <1>3, <1>4 DEF Owner
  <1>6. ASSUME NEW k \in Locks, k # l PROVE Owner(k)' = Owner(k)
    <2>1. holder'[k] = holder[k] /\ Trying(k)' = Trying(k)
      BY <1>1, <1>3, <1>6
    <2> QED BY <2>1 DEF Owner
  <1> QED BY <1>2, <1>5, <1>6 DEF GivesUp

\* Every other step leaves the owners alone.
LEMMA OtherSteps ==
    ASSUME Inv, NEW t \in Threads, ThreadStep(t)
    PROVE  \/ \A l \in Locks : Owner(l)' = Owner(l)
           \/ \E l \in Locks : Grants(t, l) \/ GivesUp(l)
  <1>0. pc \in [Threads -> Open \cup Masked] /\ target \in [Threads -> Semas \cup {NULL}]
    BY DEF Inv, TypeOK
  <1>1. CASE Preempt(t) \/ ThreadExit(t) \/ SemaBlock(t) \/ DonateStep(t)
    <2>1. OwnersStay
      BY <1>1 DEF Preempt, ThreadExit, SemaBlock, DonateStep, objects, control, OwnersStay
    <2> QED BY <2>1, SameOwners
  <1>2. CASE Hack1(t) \/ DonateEnd(t)
    <2>1. OwnersStay
      BY <1>0, <1>2 DEF Hack1, DonateEnd, At, Goto, objects, OwnersStay
    <2> QED BY <2>1, SameOwners
  <1>3. CASE LockReleaseTail(t)
    <2>1. /\ pc[t] = "release" /\ pc' = [pc EXCEPT ![t] = "hack1"]
          /\ target' = [target EXCEPT ![t] = NULL] /\ holder' = holder
      BY <1>3 DEF LockReleaseTail, At, Goto, objects
    <2>2. OwnersStay
      BY <1>0, <2>1 DEF OwnersStay
    <2> QED BY <2>2, SameOwners
  <1>4. CASE CreateUnblock(t) \/ CreateReturn(t) \/ SetPriorityStore(t)
    <2>1. OwnersStay
      BY <1>0, <1>4 DEF CreateUnblock, CreateReturn, SetPriorityStore, At, Goto, objects, OwnersStay
    <2> QED BY <2>1, SameOwners
  <1>5. CASE \E s \in Sems : SemaUpCall(t, s) \/ SemaTryDown(t, s)
    <2>1. OwnersStay
      BY <1>5 DEF SemaUpCall, SemaTryDown, control, OwnersStay
    <2> QED BY <2>1, SameOwners
  <1>6. CASE \E s \in Sems : SemaDownCall(t, s)
    <2>1. OwnersStay
      BY <1>0, <1>6 DEF SemaDownCall, At, Goto, objects, OwnersStay
    <2> QED BY <2>1, SameOwners
  <1>7. CASE \E l \in Locks : LockAcquire(t, l)
    <2>1. PICK l \in Locks : LockAcquire(t, l)
      BY <1>7
    <2>2. holder' = holder /\ pc[t] # "try" /\ target' = [target EXCEPT ![t] = l]
      BY <2>1 DEF LockAcquire, MayLock, At, objects
    <2>3. PICK loc \in {"sema_down", "donate"} : pc' = [pc EXCEPT ![t] = loc]
      BY <2>1 DEF LockAcquire, Goto
    <2>4. OwnersStay
      BY <1>0, <2>2, <2>3 DEF OwnersStay
    <2> QED BY <2>4, SameOwners
  <1>8. CASE \E p \in Settable : SetPriority(t, p)
    <2>1. OwnersStay
      BY <1>0, <1>8 DEF SetPriority, At, Goto, objects, OwnersStay
    <2> QED BY <2>1, SameOwners
  <1>9. CASE \E u \in Threads, p \in Priorities : CreateInit(t, u, p)
    <2>1. OwnersStay
      BY <1>0, <1>9 DEF CreateInit, At, Goto, objects, OwnersStay
    <2> QED BY <2>1, SameOwners
  <1>10. CASE SemaTake(t)
    BY <1>10, TakeGrants, SameOwners
  <1>11. CASE LockTrySetHolder(t)
    BY <1>11, TrySetHolderKeeps
  <1>12. CASE \E l \in Locks : LockTryAcquire(t, l)
    BY <1>12, TryAcquireGrants
  <1>13. CASE \E l \in Locks : LockRelease(t, l)
    BY <1>13, ReleaseGivesUp
  <1> QED BY <1>1, <1>2, <1>3, <1>4, <1>5, <1>6, <1>7, <1>8, <1>9, <1>10, <1>11, <1>12, <1>13 DEF ThreadStep

\* The locks are a lock service: at most one owner each, granted only while
\* free and given up only by release, whatever the scheduler does.
THEOREM LocksImplementService == Spec => LocksAreALockService
  <1> DEFINE owners == [l \in Locks |-> Owner(l)]
  <1>1. Init => Service!Init
    <2> SUFFICES ASSUME Init PROVE owners = [l \in Locks |-> NULL]
      BY DEF Service!Init
    <2>1. \A l \in Locks : Trying(l) = {} /\ holder[l] = NULL
      BY DEF Init, Trying
    <2> QED BY <2>1 DEF Owner
  <1>2. Inv /\ [Next]_vars => [Service!Next]_owners
    <2> SUFFICES ASSUME Inv, [Next]_vars PROVE Service!Next \/ UNCHANGED owners
      OBVIOUS
    <2>1. CASE \A l \in Locks : Owner(l)' = Owner(l)
      BY <2>1
    <2>2. CASE UNCHANGED vars \/ IdleLoop \/ \E s \in Devices : DeviceInterrupt(s)
      <3>1. OwnersStay
        BY <2>2 DEF vars, IdleLoop, DeviceInterrupt, objects, control, OwnersStay
      <3> QED BY <2>1, <3>1, SameOwners
    <2>3. ASSUME NEW t \in Threads, NEW l \in Locks, Grants(t, l) PROVE Service!Next
      <3>1. owners[l] = NULL /\ owners' = [owners EXCEPT ![l] = t]
        BY <2>3 DEF Grants
      <3> QED BY <3>1 DEF Service!Next, Service!Grant
    <2>4. ASSUME NEW l \in Locks, GivesUp(l) PROVE Service!Next
      <3>1. owners[l] # NULL /\ owners' = [owners EXCEPT ![l] = NULL]
        BY <2>4 DEF GivesUp
      <3> QED BY <3>1 DEF Service!Next, Service!Release
    <2>5. ASSUME NEW t \in Threads, ThreadStep(t) PROVE Service!Next \/ UNCHANGED owners
      <3>1. CASE \A l \in Locks : Owner(l)' = Owner(l)
        BY <2>1, <3>1
      <3>2. CASE \E l \in Locks : Grants(t, l) \/ GivesUp(l)
        BY <2>3, <2>4, <3>2
      <3> QED BY <2>5, <3>1, <3>2, OtherSteps
    <2> QED BY <2>2, <2>5 DEF Next
  <1> QED BY <1>1, <1>2, InvHolds, PTL DEF Spec, LocksAreALockService, Service!Spec
=================================================================================
