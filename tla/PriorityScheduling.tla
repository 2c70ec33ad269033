-------------------------- MODULE PriorityScheduling --------------------------
(***************************************************************************)
(* The priority scheduler with priority donation of the A5 kernel          *)
(* (threads/thread.c) together with the semaphores and locks it is         *)
(* interleaved with (threads/synch.c).                                     *)
(*                                                                         *)
(* One CPU: `running' is the thread on it, and every action is a step of   *)
(* that thread or of an external interrupt.  A region between intr_disable *)
(* and intr_set_level is one action, cut where the code may switch threads *)
(* (thread_block in sema_down, thread_yield in sema_up) or loops           *)
(* (the donation walk of lock_acquire).  pc[t] is where t continues when   *)
(* it is on the CPU; between two of its actions with interrupts on, the    *)
(* timer may preempt it.                                                   *)
(***************************************************************************)
EXTENDS KernelList

CONSTANTS Threads,      \* every struct thread but the idle thread's
          Main,         \* initial_thread
          ClientLocks,  \* the struct locks of the rest of the kernel
          TidLock,      \* tid_lock, used by allocate_tid only
          Sems,         \* the struct semaphores that are not inside a lock
          Devices,      \* those of Sems that an interrupt handler ups
          PriMax,       \* PRI_MAX; PRI_MIN is 0
          Settable,     \* bound: the arguments of thread_set_priority
          MaxValue,     \* bound: the value of a semaphore of Sems
          Idle, NULL

Locks == ClientLocks \cup {TidLock}
Semas == Locks \cup Sems
Priorities == 0 .. PriMax

ASSUME SchedulingAssumption ==
    /\ Main \in Threads
    /\ {Idle, NULL} \cap (Threads \cup Semas) = {} /\ Idle # NULL
    /\ Threads \cap Semas = {}
    /\ Locks \cap Sems = {} /\ TidLock \notin ClientLocks
    /\ Devices \subseteq Sems
    /\ PriMax \in Nat /\ MaxValue \in Nat /\ Settable \subseteq Priorities

VARIABLES
    kernel,           \* "up", or how the kernel stopped
    running,          \* the thread on the CPU
    status,           \* status[t]: thread_status; "unborn" before init_thread
    ready,            \* ready_list
    priority,         \* t->priority: the base priority
    currentPriority,  \* t->currentPriority: the effective priority
    donatedPriority,  \* t->donatedPriority: list of donors
    blockLock,        \* t->blockLock
    value, waiters,   \* of every semaphore, lock->semaphore included
    holder,           \* lock->holder
    pc, target,       \* where t is inside a primitive, and on which object
    creating,         \* the thread t is creating (thread_create), or NULL
    curr              \* `curr' of the donation walk in lock_acquire

scheduler == <<running, status, ready>>
donation  == <<priority, currentPriority, donatedPriority, blockLock>>
objects   == <<value, waiters, holder>>
control   == <<pc, target, creating, curr>>
vars == <<kernel, scheduler, donation, objects, control>>

Stopped  == {"page_fault", "assertion", "corrupt"}
Status   == {"unborn", "blocked", "ready", "running", "dead"}
\* Locations at which interrupts are on, and those inside intr_disable.
Open     == {"client", "try", "hack1", "set_lower", "set_raise",
             "alloc_tid", "tid", "unblock", "created"}
Masked   == {"sema_down", "donate", "release"}

\* Types; in particular a unit is taken only from a semaphore that has one.
TypeOK ==
    /\ kernel \in {"up"} \cup Stopped
    /\ running \in Threads \cup {Idle}
    /\ status \in [Threads -> Status]
    /\ ready \in Seq(Threads)
    /\ priority \in [Threads -> Priorities]
    /\ currentPriority \in [Threads -> Priorities]
    /\ donatedPriority \in [Threads -> Seq(Threads)]
    /\ blockLock \in [Threads -> Locks \cup {NULL}]
    /\ value \in [Semas -> Nat]
    /\ waiters \in [Semas -> Seq(Threads)]
    /\ holder \in [Locks -> Threads \cup {NULL}]
    /\ pc \in [Threads -> Open \cup Masked]
    /\ target \in [Threads -> Semas \cup {NULL}]
    /\ creating \in [Threads -> Threads \cup {NULL}]
    /\ curr \in Threads \cup {NULL}

\* thread_init: the code that is running becomes thread "main".
Init ==
    /\ kernel = "up"
    /\ running = Main
    /\ status = [t \in Threads |-> IF t = Main THEN "running" ELSE "unborn"]
    /\ ready = <<>>
    /\ \E p \in Priorities :
          priority = [t \in Threads |-> IF t = Main THEN p ELSE 0]
    /\ currentPriority = priority
    /\ donatedPriority = [t \in Threads |-> <<>>]
    /\ blockLock = [t \in Threads |-> NULL]
    /\ value = [s \in Semas |-> IF s \in Locks THEN 1 ELSE 0]
    /\ waiters = [s \in Semas |-> <<>>]
    /\ holder = [l \in Locks |-> NULL]
    /\ pc = [t \in Threads |-> "client"]
    /\ target = [t \in Threads |-> NULL]
    /\ creating = [t \in Threads |-> NULL]
    /\ curr = NULL

-------------------------------------------------------------------------------
(* Scheduling: the part of thread.c every primitive ends in.               *)

At(t, loc) == kernel = "up" /\ running = t /\ pc[t] = loc

Goto(t, loc) == pc' = [pc EXCEPT ![t] = loc]

\* schedule, next_thread_to_run and thread_schedule_tail: switch to the front
\* of the ready list r, or to the idle thread.
Schedule(r, st) ==
    \/ /\ r = <<>>
       /\ running' = Idle /\ ready' = r /\ status' = st
    \/ /\ r # <<>>
       /\ running' = Head(r) /\ ready' = Tail(r)
       /\ status' = [st EXCEPT ![Head(r)] = "running"]

\* thread_yield of t.
ThreadYield(t, r, st) ==
    \E q \in ListInsertOrdered(r, t, currentPriority) :
        Schedule(q, [st EXCEPT ![t] = "ready"])

\* thread_get_priority of whoever is on the CPU.
RunningPriority == IF running = Idle THEN 0 ELSE currentPriority[running]

\* The timer interrupt at the end of t's time slice (thread_tick,
\* intr_yield_on_return), or a call of thread_yield by t's own code.
Preempt(t) ==
    /\ kernel = "up" /\ running = t /\ pc[t] \in Open
    /\ ThreadYield(t, ready, status)
    /\ UNCHANGED <<kernel, donation, objects, control>>

\* idle: block again after every interrupt, so that schedule() runs.
IdleLoop ==
    /\ kernel = "up" /\ running = Idle /\ ready # <<>>
    /\ Schedule(ready, status)
    /\ UNCHANGED <<kernel, donation, objects, control>>

\* thread_exit of a thread that holds no lock.
ThreadExit(t) ==
    /\ At(t, "client")
    /\ \A l \in Locks : holder[l] # t
    /\ Schedule(ready, [status EXCEPT ![t] = "dead"])
    /\ UNCHANGED <<kernel, donation, objects, control>>

FrontOutranks(t) == ready # <<>> /\ priority[t] < priority[Head(ready)]

\* hack1: yield when the front of the ready list has a higher base priority.
\* Whether it yields or not, the caller returns: to its client, or to
\* thread_create when the lock was tid_lock.
Hack1(t) ==
    /\ At(t, "hack1")
    /\ Goto(t, IF creating[t] = NULL THEN "client" ELSE "unblock")
    /\ \/ FrontOutranks(t) /\ ThreadYield(t, ready, status)
       \/ ~ FrontOutranks(t) /\ UNCHANGED scheduler
    /\ UNCHANGED <<kernel, donation, objects, target, creating, curr>>

-------------------------------------------------------------------------------
(* Semaphores (synch.c).                                                   *)

\* Variant: list_pop_front without the list_sort before it.
SemaWakeUnsorted(s, u) ==
    u = Head(waiters[s]) /\ waiters' = [waiters EXCEPT ![s] = Tail(@)]

\* Variant: list_front in place of list_pop_front.
SemaWakeKeeping(s, u) ==
    \E w \in ListSort(waiters[s], currentPriority) :
        u = Head(w) /\ waiters' = [waiters EXCEPT ![s] = w]

\* The part of sema_up that does not depend on who calls it: the waiter u of
\* highest effective priority leaves the list (the caller makes it ready).
SemaWake(s, u) ==
    \E w \in ListSort(waiters[s], currentPriority) :
        u = Head(w) /\ waiters' = [waiters EXCEPT ![s] = Tail(w)]

\* Variant: a waiter is woken only when the running thread must yield to it.
SemaUpIfHigher(t, s) ==
    /\ value' = [value EXCEPT ![s] = @ + 1]
    /\ \/ /\ \A u \in ToSet(waiters[s]) : currentPriority[u] <= currentPriority[t]
          /\ UNCHANGED <<waiters, scheduler>>
       \/ \E u \in ToSet(waiters[s]) :
             \E r \in ListInsertOrdered(ready, u, currentPriority) :
                /\ currentPriority[u] > currentPriority[t]
                /\ SemaWake(s, u)
                /\ ThreadYield(t, r, [status EXCEPT ![u] = "ready"])

\* Variant: a waiter is woken only when the value was 0.
SemaUpFromZero(t, s) ==
    /\ value' = [value EXCEPT ![s] = @ + 1]
    /\ \/ /\ waiters[s] = <<>> \/ value[s] > 0
          /\ UNCHANGED <<waiters, scheduler>>
       \/ \E u \in ToSet(waiters[s]) :
             /\ value[s] = 0
             /\ SemaWake(s, u)
             /\ ready' \in ListInsertOrdered(ready, u, currentPriority)
             /\ running' = running /\ status' = [status EXCEPT ![u] = "ready"]

\* sema_up of s by the running thread t: t yields to the woken thread when
\* that has a higher effective priority.
SemaUp(t, s) ==
    /\ value' = [value EXCEPT ![s] = @ + 1]
    /\ \/ /\ waiters[s] = <<>>
          /\ UNCHANGED <<waiters, scheduler>>
       \/ \E u \in ToSet(waiters[s]) :
             \E r \in ListInsertOrdered(ready, u, currentPriority) :
                LET st == [status EXCEPT ![u] = "ready"]
                IN  /\ SemaWake(s, u)
                    /\ \/ /\ currentPriority[u] > currentPriority[t]
                          /\ ThreadYield(t, r, st)
                       \/ /\ currentPriority[u] <= currentPriority[t]
                          /\ running' = running /\ ready' = r /\ status' = st

\* A client calls sema_up.
SemaUpCall(t, s) ==
    /\ At(t, "client") /\ s \in Sems /\ value[s] < MaxValue
    /\ SemaUp(t, s)
    /\ UNCHANGED <<kernel, donation, holder, control>>

\* The handler of a device interrupt calls sema_up (interrupt_handler in
\* devices/ide.c).  There thread_yield fails ASSERT (!intr_context ()).
DeviceInterrupt(s) ==
    /\ kernel = "up" /\ s \in Devices /\ value[s] < MaxValue
    /\ running # Idle => pc[running] \in Open
    /\ value' = [value EXCEPT ![s] = @ + 1]
    /\ \/ /\ waiters[s] = <<>>
          /\ UNCHANGED <<kernel, waiters, scheduler>>
       \/ \E u \in ToSet(waiters[s]) :
             /\ SemaWake(s, u)
             /\ ready' \in ListInsertOrdered(ready, u, currentPriority)
             /\ status' = [status EXCEPT ![u] = "ready"]
             /\ running' = running
             /\ kernel' = IF currentPriority[u] > RunningPriority
                          THEN "assertion" ELSE "up"
    /\ UNCHANGED <<donation, holder, control>>

\* A client enters sema_down.
SemaDownCall(t, s) ==
    /\ At(t, "client") /\ s \in Sems
    /\ Goto(t, "sema_down") /\ target' = [target EXCEPT ![t] = s]
    /\ UNCHANGED <<kernel, scheduler, donation, objects, creating, curr>>

\* A client calls sema_try_down and gets TRUE.  (FALSE, when the value is 0,
\* changes nothing.)
SemaTryDown(t, s) ==
    /\ At(t, "client") /\ s \in Sems /\ value[s] > 0
    /\ value' = [value EXCEPT ![s] = @ - 1]
    /\ UNCHANGED <<kernel, scheduler, donation, waiters, holder, control>>

\* sema_down, an iteration of its loop: the value is 0, wait.  t resumes at
\* the test of the value.
SemaBlock(t) ==
    /\ At(t, "sema_down")
    /\ LET s == target[t] IN
          /\ value[s] = 0
          /\ \E w \in ListInsertOrdered(waiters[s], t, currentPriority) :
                waiters' = [waiters EXCEPT ![s] = w]
    /\ Schedule(ready, [status EXCEPT ![t] = "blocked"])
    /\ UNCHANGED <<kernel, donation, value, holder, control>>

\* Variant: `if' in place of `while': a woken thread takes without a new test.
SemaTakeUnchecked(t) ==
    /\ At(t, "sema_down")
    /\ LET s == target[t] IN
          /\ value' = [value EXCEPT ![s] = @ - 1]
          /\ holder' = IF s \in Locks THEN [holder EXCEPT ![s] = t] ELSE holder
          /\ Goto(t, IF s = TidLock THEN "tid" ELSE "client")
    /\ target' = [target EXCEPT ![t] = NULL]
    /\ UNCHANGED <<kernel, scheduler, donation, waiters, creating, curr>>

\* sema_down, past its loop; for a lock, the rest of lock_acquire too.
SemaTake(t) ==
    /\ At(t, "sema_down")
    /\ LET s == target[t] IN
          /\ value[s] > 0
          /\ value' = [value EXCEPT ![s] = @ - 1]
          /\ holder' = IF s \in Locks THEN [holder EXCEPT ![s] = t] ELSE holder
          /\ Goto(t, IF s = TidLock THEN "tid" ELSE "client")
    /\ target' = [target EXCEPT ![t] = NULL]
    /\ UNCHANGED <<kernel, scheduler, donation, waiters, creating, curr>>

-------------------------------------------------------------------------------
(* Locks (synch.c).                                                        *)

MayLock(t, l) ==
    \/ At(t, "client") /\ l \in ClientLocks
    \/ At(t, "alloc_tid") /\ l = TidLock

Donors == UNION {ToSet(donatedPriority[t]) : t \in Threads}

\* lock_acquire up to the donation walk, or to sema_down when there is nothing
\* to donate.  A donor that is still an element of another list when it is
\* inserted leaves both lists corrupt.
LockAcquire(t, l) ==
    /\ MayLock(t, l)
    /\ holder[l] # t
    /\ target' = [target EXCEPT ![t] = l]
    /\ LET h == holder[l] IN
       \/ /\ h = NULL
          /\ Goto(t, "sema_down")
          /\ UNCHANGED <<kernel, donation, curr>>
       \/ /\ h # NULL
          /\ blockLock' = [blockLock EXCEPT ![t] = l]
          /\ \/ /\ currentPriority[t] > currentPriority[h]
                /\ \E d \in ListInsertOrdered(donatedPriority[h], t, currentPriority) :
                      donatedPriority' = [donatedPriority EXCEPT ![h] = d]
                /\ currentPriority' = [currentPriority EXCEPT ![h] = currentPriority[t]]
                /\ curr' = t /\ Goto(t, "donate")
                /\ kernel' = IF t \in Donors THEN "corrupt" ELSE "up"
             \/ /\ currentPriority[t] <= currentPriority[h]
                /\ Goto(t, "sema_down")
                /\ UNCHANGED <<kernel, donatedPriority, currentPriority, curr>>
          /\ UNCHANGED priority
    /\ UNCHANGED <<scheduler, objects, creating>>

\* Variant: the walk hands on base priorities.
DonateStepBase(t) ==
    /\ At(t, "donate") /\ blockLock[curr] # NULL
    /\ LET hold == holder[blockLock[curr]] IN
          /\ hold # NULL
          /\ currentPriority' = [currentPriority EXCEPT ![hold] =
                                    IF @ < priority[curr] THEN priority[curr] ELSE @]
          /\ curr' = hold
    /\ UNCHANGED <<kernel, scheduler, priority, donatedPriority, blockLock, objects,
                   pc, target, creating>>

\* One iteration of `while(curr->blockLock)': hand the priority on to the
\* holder of the lock curr waits for.  `hold' may be NULL.
DonateStep(t) ==
    /\ At(t, "donate") /\ blockLock[curr] # NULL
    /\ LET hold == holder[blockLock[curr]] IN
       \/ /\ hold = NULL
          /\ kernel' = "page_fault"
          /\ UNCHANGED <<currentPriority, curr>>
       \/ /\ hold # NULL
          /\ currentPriority' = [currentPriority EXCEPT ![hold] =
                                    IF @ < currentPriority[curr]
                                    THEN currentPriority[curr] ELSE @]
          /\ curr' = hold
          /\ UNCHANGED kernel
    /\ UNCHANGED <<scheduler, priority, donatedPriority, blockLock, objects,
                   pc, target, creating>>

\* The walk has reached a thread that waits for no lock.
DonateEnd(t) ==
    /\ At(t, "donate") /\ blockLock[curr] = NULL
    /\ Goto(t, "sema_down") /\ curr' = NULL
    /\ UNCHANGED <<kernel, scheduler, donation, objects, target, creating>>

\* Variant: the result of sema_try_down is ignored.
LockTryAcquireUnchecked(t, l) ==
    /\ At(t, "client") /\ l \in ClientLocks
    /\ holder[l] # t
    /\ value' = [value EXCEPT ![l] = IF @ > 0 THEN @ - 1 ELSE @]
    /\ target' = [target EXCEPT ![t] = l] /\ Goto(t, "try")
    /\ UNCHANGED <<kernel, scheduler, donation, waiters, holder, creating, curr>>

\* lock_try_acquire, which does not disable interrupts: sema_try_down takes
\* the semaphore, a later step records the holder.  (It returns false, without
\* effect, when the value is 0.)
LockTryAcquire(t, l) ==
    /\ At(t, "client") /\ l \in ClientLocks
    /\ holder[l] # t /\ value[l] > 0
    /\ value' = [value EXCEPT ![l] = @ - 1]
    /\ target' = [target EXCEPT ![t] = l] /\ Goto(t, "try")
    /\ UNCHANGED <<kernel, scheduler, donation, waiters, holder, creating, curr>>

LockTrySetHolder(t) ==
    /\ At(t, "try")
    /\ holder' = [holder EXCEPT ![target[t]] = t]
    /\ target' = [target EXCEPT ![t] = NULL] /\ Goto(t, "client")
    /\ UNCHANGED <<kernel, scheduler, donation, value, waiters, creating, curr>>

\* lock_release up to and including sema_up, in which t may lose the CPU.
LockRelease(t, l) ==
    /\ \/ At(t, "client") /\ l \in ClientLocks
       \/ At(t, "tid") /\ l = TidLock
    /\ holder[l] = t
    /\ holder' = [holder EXCEPT ![l] = NULL]
    /\ SemaUp(t, l)
    /\ target' = [target EXCEPT ![t] = l] /\ Goto(t, "release")
    /\ UNCHANGED <<kernel, donation, creating, curr>>

\* The rest of lock_release: drop the donors that waited for the lock and fall
\* back to the first donor left, or to the base priority.  The comparison
\* `blockLock == NULL' in the loop assigns nothing, so blockLock keeps its
\* value.  Walking over a thread that has exited reads a freed page.
LockReleaseTail(t) ==
    /\ At(t, "release")
    /\ \E d \in ListKeep(donatedPriority[t],
                         {u \in Threads : blockLock[u] # target[t]}) :
          /\ donatedPriority' = [donatedPriority EXCEPT ![t] = d]
          /\ currentPriority' = [currentPriority EXCEPT ![t] =
                IF d # <<>> /\ currentPriority[Head(d)] > priority[t]
                THEN currentPriority[Head(d)] ELSE priority[t]]
    /\ kernel' = IF \E u \in ToSet(donatedPriority[t]) : status[u] = "dead"
                 THEN "corrupt" ELSE "up"
    /\ target' = [target EXCEPT ![t] = NULL] /\ Goto(t, "hack1")
    /\ UNCHANGED <<scheduler, priority, blockLock, objects, creating, curr>>

-------------------------------------------------------------------------------
(* thread_set_priority, which runs with interrupts on.                     *)

\* Up to the test whether there is a donor.  `prev' is read in this step too: a
\* donation between the two would only replace the call of hack1.
SetPriority(t, p) ==
    /\ At(t, "client")
    /\ priority' = [priority EXCEPT ![t] = p]
    /\ Goto(t, IF donatedPriority[t] = <<>>
               THEN IF p < currentPriority[t] THEN "set_lower" ELSE "set_raise"
               ELSE IF p < currentPriority[t] THEN "hack1" ELSE "client")
    /\ UNCHANGED <<kernel, scheduler, currentPriority, donatedPriority, blockLock,
                   objects, target, creating, curr>>

\* The assignment under that test.
SetPriorityStore(t) ==
    /\ At(t, "set_lower") \/ At(t, "set_raise")
    /\ currentPriority' = [currentPriority EXCEPT ![t] = priority[t]]
    /\ Goto(t, IF pc[t] = "set_lower" THEN "hack1" ELSE "client")
    /\ UNCHANGED <<kernel, scheduler, priority, donatedPriority, blockLock,
                   objects, target, creating, curr>>

-------------------------------------------------------------------------------
(* thread_create.                                                          *)

\* init_thread; then allocate_tid acquires and releases tid_lock.
CreateInit(t, u, p) ==
    /\ At(t, "client") /\ status[u] = "unborn"
    /\ status' = [status EXCEPT ![u] = "blocked"]
    /\ priority' = [priority EXCEPT ![u] = p]
    /\ currentPriority' = [currentPriority EXCEPT ![u] = p]
    /\ creating' = [creating EXCEPT ![t] = u]
    /\ Goto(t, "alloc_tid")
    /\ UNCHANGED <<kernel, running, ready, donatedPriority, blockLock, objects,
                   target, curr>>

\* thread_unblock of the new thread.
CreateUnblock(t) ==
    /\ At(t, "unblock")
    /\ ready' \in ListInsertOrdered(ready, creating[t], currentPriority)
    /\ status' = [status EXCEPT ![creating[t]] = "ready"]
    /\ Goto(t, "created")
    /\ UNCHANGED <<kernel, running, donation, objects, target, creating, curr>>

\* Yield if the new thread's priority is higher.  The new thread may have run
\* and exited since it was unblocked: its priority is then read from a freed
\* page, and may be anything.
CreateReturn(t) ==
    /\ At(t, "created")
    /\ LET u == creating[t] IN
       \/ /\ priority[u] > currentPriority[t] \/ status[u] = "dead"
          /\ ThreadYield(t, ready, status)
       \/ /\ priority[u] <= currentPriority[t] \/ status[u] = "dead"
          /\ UNCHANGED scheduler
    /\ Goto(t, "client") /\ creating' = [creating EXCEPT ![t] = NULL]
    /\ UNCHANGED <<kernel, donation, objects, target, curr>>

-------------------------------------------------------------------------------
ThreadStep(t) ==
    \/ Preempt(t) \/ ThreadExit(t) \/ Hack1(t)
    \/ SemaBlock(t) \/ SemaTake(t)
    \/ DonateStep(t) \/ DonateEnd(t)
    \/ LockTrySetHolder(t) \/ LockReleaseTail(t)
    \/ SetPriorityStore(t) \/ CreateUnblock(t) \/ CreateReturn(t)
    \/ \E s \in Sems : SemaUpCall(t, s) \/ SemaDownCall(t, s) \/ SemaTryDown(t, s)
    \/ \E l \in Locks : LockAcquire(t, l) \/ LockTryAcquire(t, l) \/ LockRelease(t, l)
    \/ \E p \in Settable : SetPriority(t, p)
    \/ \E u \in Threads, p \in Priorities : CreateInit(t, u, p)

Next ==
    \/ \E t \in Threads : ThreadStep(t)
    \/ IdleLoop
    \/ \E s \in Devices : DeviceInterrupt(s)

Spec == Init /\ [][Next]_vars

-------------------------------------------------------------------------------
(* Invariants.                                                             *)

\* Semaphore s has let t past thread_block (or not yet put it to sleep): t will
\* test the value the next time it runs.
Contends(t, s) ==
    pc[t] = "sema_down" /\ target[t] = s /\ status[t] \in {"ready", "running"}

(***************************************************************************)
(* struct thread has one `elem' for the ready list and for every wait      *)
(* list, "only because they are mutually exclusive" (thread.h:76-83): the  *)
(* ready list holds exactly the ready threads, a wait list only blocked    *)
(* threads that wait for that semaphore, each list a thread at most once,  *)
(* and every blocked thread can still be woken: it is on the wait list of  *)
(* its semaphore, or a thread inside thread_create has yet to unblock it.  *)
(***************************************************************************)
RunningIsRunning ==
    \A t \in Threads : status[t] = "running" <=> running = t

ReadyListHoldsReady ==
    /\ NoDuplicates(ready)
    /\ \A t \in Threads : status[t] = "ready" <=> t \in ToSet(ready)

WaitListsHoldBlocked ==
    \A s \in Semas :
        /\ NoDuplicates(waiters[s])
        /\ \A t \in ToSet(waiters[s]) :
              status[t] = "blocked" /\ pc[t] = "sema_down" /\ target[t] = s

BlockedCanBeWoken ==
    \A t \in Threads : status[t] = "blocked" =>
        \/ \E s \in Semas : t \in ToSet(waiters[s])
        \/ \E c \in Threads : creating[c] = t /\ pc[c] # "created"

OneListPerThread ==
    RunningIsRunning /\ ReadyListHoldsReady /\ WaitListsHoldBlocked /\ BlockedCanBeWoken

(***************************************************************************)
(* The unit of a lock's semaphore is always in exactly one place: in the   *)
(* semaphore, with the recorded holder, or with a thread that has taken it *)
(* in lock_try_acquire and is not recorded yet.  Two threads can never     *)
(* both have returned from lock_acquire, and a release is never lost.      *)
(***************************************************************************)
Trying(l) == {t \in Threads : pc[t] = "try" /\ target[t] = l}

OneUnitPerLock ==
    \A l \in Locks :
        \/ value[l] = 1 /\ holder[l] = NULL /\ Trying(l) = {}
        \/ value[l] = 0 /\ holder[l] # NULL /\ Trying(l) = {}
        \/ value[l] = 0 /\ holder[l] = NULL /\ \E t \in Threads : Trying(l) = {t}

(***************************************************************************)
(* No wake-up is lost: as long as threads sleep on a semaphore, every unit *)
(* it has to give is matched by a thread that is about to take one.  A     *)
(* thread that overtakes a woken one consumes the unit, not the wake-up of *)
(* the threads that stay asleep.                                           *)
(***************************************************************************)
NoLostWakeup ==
    \A s \in Semas : waiters[s] # <<>> =>
        value[s] <= Cardinality({t \in Threads : Contends(t, s)})

-------------------------------------------------------------------------------
(* Action properties.                                                      *)

\* B3 of the design document: the thread a semaphore wakes has the highest
\* effective priority of its waiters at that moment, also when a donation has
\* changed their order since they were inserted.
HighestWaiterWakes ==
    [][\A s \in Semas : \A u \in ToSet(waiters[s]) :
          u \notin ToSet(waiters'[s]) =>
             \A w \in ToSet(waiters[s]) : currentPriority[w] <= currentPriority[u]]_vars

\* B4: when the donation walk of t ends, no thread that t waits for, directly
\* or through the lock that thread is itself waiting for, runs at a lower
\* effective priority than t.
WaitsFor(t) == IF blockLock[t] = NULL THEN NULL ELSE holder[blockLock[t]]

\* The threads in every set that contains t and whoever its members wait for.
Upstream(t) ==
    {u \in Threads : \A U \in SUBSET Threads :
        t \in U /\ (\A v \in U : WaitsFor(v) \in U \cup {NULL}) => u \in U}

DonationReachesEveryHolder ==
    [][\A t \in Threads : DonateEnd(t) =>
          \A u \in Upstream(t) : currentPriority[u] >= currentPriority[t]]_vars

\* B6: a thread_set_priority that has found no donor must not undo a donation.
SetPriorityKeepsDonation ==
    [][\A t \in Threads : SetPriorityStore(t) =>
          \A d \in ToSet(donatedPriority[t]) : currentPriority'[t] >= currentPriority[d]]_vars

\* The locks implement the abstract lock service: the owner of a lock is its
\* holder, or the thread that has taken its unit in lock_try_acquire.
MemberOf(T) == CHOOSE t \in T : TRUE

Owner(l) == IF holder[l] # NULL THEN holder[l]
            ELSE IF Trying(l) # {} THEN MemberOf(Trying(l)) ELSE NULL

Service == INSTANCE LockService
               WITH NoOwner <- NULL, owner <- [l \in Locks |-> Owner(l)]
LocksAreALockService == Service!Spec

-------------------------------------------------------------------------------
\* The CPU keeps executing instructions: a step that is possible is eventually
\* taken.
FairSpec == Spec /\ WF_vars(Next)

\* synch.c:193: lock_acquire sleeps "until it becomes available if necessary":
\* its donation walk, which runs with interrupts off, comes to an end.
DonationWalkEnds ==
    \A t \in Threads : (running = t /\ pc[t] = "donate") ~> (kernel # "up" \/ pc[t] # "donate")
===============================================================================
