------------------------------- MODULE Monitor -------------------------------
(***************************************************************************)
(* Condition variables and reader-writer locks of the A5 kernel            *)
(* (threads/synch.c), on top of its locks.  A lock is what LockService     *)
(* says; PriorityScheduling implements it.                                 *)
(*                                                                         *)
(* Every waiter of a condition has a semaphore of its own, on its stack,   *)
(* and a copy of the priority it had when it called cond_wait.  By then    *)
(* donations may have raised it to anything; when they end, as those for   *)
(* the monitor's lock do in the call itself, or when others come, the copy *)
(* stays as it is.                                                         *)
(*                                                                         *)
(* A thread may lose the CPU anywhere, in lock_release and in sema_up too: *)
(* the calls of these functions are separate steps.                        *)
(***************************************************************************)
EXTENDS KernelList

CONSTANTS
    Threads,
    Conds,      \* the conditions of one monitor
    PriMax,     \* priorities are 0 .. PriMax
    MonLock, ReadLock, WriteLock,   \* the monitor's lock, those of a struct rwlock
    NULL

Locks == {MonLock, ReadLock, WriteLock}

ASSUME MonitorAssumption ==
    /\ NULL \notin Threads \cup Conds /\ PriMax \in Nat
    /\ MonLock # ReadLock /\ MonLock # WriteLock /\ ReadLock # WriteLock
    /\ IsFiniteSet(Threads)

VARIABLES
    kernel,     \* "up", or "assertion" when an ASSERT has failed
    owner,      \* the holder of each lock
    pc,         \* where a thread is in a call
    cond,       \* the condition it is called for
    waiters,    \* cond->waiters; an element stands for its thread's waiter
    priority,   \* waiter.priority
    current,    \* currentPriority of a thread that waits, 0 of the others
    semaphore,  \* waiter.semaphore
    inside,     \* what a thread has of the rwlock: "none", "read" or "write"
    read_count,
    arrived     \* history: the waiters of a condition, in order of arrival

condition == <<cond, waiters, priority, current, semaphore, arrived>>
rwlock == <<inside, read_count>>
vars == <<kernel, owner, pc, condition, rwlock>>

Priorities == 0 .. PriMax

Locations ==
    {"client", "wait_release", "wait_sema", "wait_acquire", "broadcast",
     "read_acquire", "read_acquired", "read_release", "read_released"}

\* The type invariant.  The semaphore of a waiter, which is upped by whoever
\* signals and belongs to one call of cond_wait, never exceeds 1.
TypeOK ==
    /\ kernel \in {"up", "assertion"}
    /\ owner \in [Locks -> Threads \cup {NULL}]
    /\ pc \in [Threads -> Locations]
    /\ cond \in [Threads -> Conds \cup {NULL}]
    /\ waiters \in [Conds -> Seq(Threads)]
    /\ priority \in [Threads -> Priorities] /\ current \in [Threads -> Priorities]
    /\ semaphore \in [Threads -> 0 .. 1]
    /\ inside \in [Threads -> {"none", "read", "write"}]
    /\ read_count \in 0 .. Cardinality(Threads)
    /\ arrived \in [Conds -> Seq(Threads)]

Lock == INSTANCE LockService WITH NoOwner <- NULL

Init ==
    /\ kernel = "up"
    /\ Lock!Init
    /\ pc = [t \in Threads |-> "client"]
    /\ cond = [t \in Threads |-> NULL]
    /\ waiters = [c \in Conds |-> <<>>]
    /\ priority = [t \in Threads |-> 0] /\ current = [t \in Threads |-> 0]
    /\ semaphore = [t \in Threads |-> 0]
    /\ inside = [t \in Threads |-> "none"]
    /\ read_count = 0
    /\ arrived = [c \in Conds |-> <<>>]

At(t, l) == pc[t] = l
Goto(t, l) == pc' = [pc EXCEPT ![t] = l]
Holds(t, l) == owner[l] = t

AssertionFails ==
    /\ kernel' = "assertion"
    /\ UNCHANGED <<owner, pc, condition, rwlock>>

(***************************************************************************)
(* The monitor: its clients take the lock, and call the rest holding it.   *)
(***************************************************************************)
Enter(t) ==
    /\ At(t, "client") /\ Lock!Grant(t, MonLock)
    /\ UNCHANGED <<kernel, pc, condition, rwlock>>

Leave(t) ==
    /\ At(t, "client") /\ Holds(t, MonLock) /\ Lock!Release(MonLock)
    /\ UNCHANGED <<kernel, pc, condition, rwlock>>

\* cond_wait: the waiter enters the list while the lock is still held ...
CondWait(t, c) ==
    /\ At(t, "client") /\ Holds(t, MonLock)
    /\ \E p \in Priorities : /\ priority' = [priority EXCEPT ![t] = p]
                            /\ current' = [current EXCEPT ![t] = p]
    /\ waiters' = [waiters EXCEPT ![c] = Append(@, t)]
    /\ arrived' = [arrived EXCEPT ![c] = Append(@, t)]
    /\ cond' = [cond EXCEPT ![t] = c]
    /\ Goto(t, "wait_release")
    /\ UNCHANGED <<kernel, owner, semaphore, rwlock>>

\* lock_release takes back what was donated for the monitor's lock.  What is left is
\* the thread's own priority, or that of a donor for another lock it holds.
EndOfDonations(t) ==
    LET most == IF \E l \in Locks \ {MonLock} : Holds(t, l) THEN current[t] ELSE priority[t]
    IN  \E p \in 0 .. most : current' = [current EXCEPT ![t] = p]

\* Variant: the semaphore that is initialized is up.
WaitReleaseUp(t) ==
    /\ At(t, "wait_release") /\ Lock!Release(MonLock)
    /\ semaphore' = [semaphore EXCEPT ![t] = 1]
    /\ EndOfDonations(t)
    /\ Goto(t, "wait_sema")
    /\ UNCHANGED <<kernel, cond, waiters, priority, arrived, rwlock>>

\* ... lock_release, sema_down, lock_acquire.
WaitRelease(t) ==
    /\ At(t, "wait_release") /\ Lock!Release(MonLock)
    /\ EndOfDonations(t)
    /\ Goto(t, "wait_sema")
    /\ UNCHANGED <<kernel, cond, waiters, priority, semaphore, arrived, rwlock>>

WaitWake(t) ==
    /\ At(t, "wait_sema") /\ semaphore[t] = 1
    /\ semaphore' = [semaphore EXCEPT ![t] = 0]
    /\ cond' = [cond EXCEPT ![t] = NULL]
    /\ Goto(t, "wait_acquire")
    /\ UNCHANGED <<kernel, owner, waiters, priority, current, arrived, rwlock>>

\* A donation reaches a thread that waits for a condition and holds a lock all the
\* same: the monitor's, until it has released it, or that of another structure.
Donation(t) ==
    /\ pc[t] \in {"wait_release", "wait_sema"} /\ \E l \in Locks : Holds(t, l)
    /\ \E p \in Priorities : p > current[t] /\ current' = [current EXCEPT ![t] = p]
    /\ UNCHANGED <<kernel, owner, pc, cond, waiters, priority, semaphore, arrived, rwlock>>

\* Variant: the lock is not taken again after the wait.
WaitAcquireNot(t) ==
    /\ At(t, "wait_acquire")
    /\ priority' = [priority EXCEPT ![t] = 0] /\ current' = [current EXCEPT ![t] = 0]
    /\ Goto(t, "client")
    /\ UNCHANGED <<kernel, owner, cond, waiters, semaphore, arrived, rwlock>>

WaitAcquire(t) ==
    /\ At(t, "wait_acquire") /\ Lock!Grant(t, MonLock)
    /\ priority' = [priority EXCEPT ![t] = 0] /\ current' = [current EXCEPT ![t] = 0]
    /\ Goto(t, "client")
    /\ UNCHANGED <<kernel, cond, waiters, semaphore, arrived, rwlock>>

\* History: the place of t among the waiters of c, by arrival.
Place(c, t) == CHOOSE i \in DOMAIN arrived[c] : arrived[c][i] = t

\* Variants: the waiter stays in the list; the list is not sorted.
SignalFrontKeeping(c) ==
    \E sorted \in ListSort(waiters[c], priority) :
        /\ waiters' = [waiters EXCEPT ![c] = sorted]
        /\ semaphore' = [semaphore EXCEPT ![Head(sorted)] = @ + 1]
        /\ UNCHANGED arrived

SignalFrontUnsorted(c) ==
    /\ waiters' = [waiters EXCEPT ![c] = Tail(@)]
    /\ semaphore' = [semaphore EXCEPT ![Head(waiters[c])] = @ + 1]
    /\ arrived' = [arrived EXCEPT ![c] = RemoveAt(@, Place(c, Head(waiters[c])))]

\* cond_signal, on a list that is not empty: list_sort with Compare3, list_pop_front,
\* sema_up.  (On an empty list it does nothing.)
SignalFront(c) ==
    \E sorted \in ListSort(waiters[c], priority) :
        /\ waiters' = [waiters EXCEPT ![c] = Tail(sorted)]
        /\ semaphore' = [semaphore EXCEPT ![Head(sorted)] = @ + 1]
        /\ arrived' = [arrived EXCEPT ![c] = RemoveAt(@, Place(c, Head(sorted)))]

CondSignal(t, c) ==
    /\ At(t, "client") /\ Holds(t, MonLock) /\ waiters[c] # <<>>
    /\ SignalFront(c)
    /\ UNCHANGED <<kernel, owner, pc, cond, priority, current, rwlock>>

\* cond_broadcast: a loop; other threads may run after each sema_up.
CondBroadcast(t, c) ==
    /\ At(t, "client") /\ Holds(t, MonLock) /\ waiters[c] # <<>>
    /\ cond' = [cond EXCEPT ![t] = c]
    /\ Goto(t, "broadcast")
    /\ UNCHANGED <<kernel, owner, waiters, priority, current, semaphore, arrived, rwlock>>

BroadcastStep(t) ==
    /\ At(t, "broadcast") /\ waiters[cond[t]] # <<>>
    /\ SignalFront(cond[t])
    /\ UNCHANGED <<kernel, owner, pc, cond, priority, current, rwlock>>

BroadcastEnd(t) ==
    /\ At(t, "broadcast") /\ waiters[cond[t]] = <<>>
    /\ cond' = [cond EXCEPT ![t] = NULL]
    /\ Goto(t, "client")
    /\ UNCHANGED <<kernel, owner, waiters, priority, current, semaphore, arrived, rwlock>>

(***************************************************************************)
(* The reader-writer lock.  A client releases what it has acquired.        *)
(***************************************************************************)
ReadAcquire(t) ==
    /\ At(t, "client") /\ inside[t] = "none" /\ Lock!Grant(t, ReadLock)
    /\ Goto(t, "read_acquire")
    /\ UNCHANGED <<kernel, condition, rwlock>>

\* With read_lock held: the first reader takes write_lock, whose lock_acquire
\* asserts that the caller does not have it already.
Count(t) ==
    /\ read_count' = read_count + 1
    /\ inside' = [inside EXCEPT ![t] = "read"]
    /\ Goto(t, "read_acquired")
    /\ UNCHANGED <<kernel, condition>>

ReadFirst(t) ==
    /\ At(t, "read_acquire") /\ read_count = 0
    /\ \/ Holds(t, WriteLock) /\ AssertionFails
       \/ Lock!Grant(t, WriteLock) /\ Count(t)

ReadLater(t) ==
    /\ At(t, "read_acquire") /\ read_count # 0
    /\ Count(t)
    /\ UNCHANGED owner

ReadAcquired(t) ==
    /\ At(t, "read_acquired") /\ Lock!Release(ReadLock)
    /\ Goto(t, "client")
    /\ UNCHANGED <<kernel, condition, rwlock>>

ReadRelease(t) ==
    /\ At(t, "client") /\ inside[t] = "read" /\ Lock!Grant(t, ReadLock)
    /\ Goto(t, "read_release")
    /\ UNCHANGED <<kernel, condition, rwlock>>

\* Variant: every reader gives up write_lock if it has it.
ReadUncountAlways(t) ==
    /\ At(t, "read_release")
    /\ read_count' = read_count - 1
    /\ inside' = [inside EXCEPT ![t] = "none"]
    /\ IF Holds(t, WriteLock) THEN Lock!Release(WriteLock) ELSE UNCHANGED owner
    /\ Goto(t, "read_released")
    /\ UNCHANGED <<kernel, condition>>

\* The last reader gives up write_lock; lock_release asserts that it holds it.
ReadUncount(t) ==
    /\ At(t, "read_release")
    /\ IF read_count = 1 /\ ~Holds(t, WriteLock) THEN AssertionFails
       ELSE /\ read_count' = read_count - 1
            /\ inside' = [inside EXCEPT ![t] = "none"]
            /\ IF read_count = 1 THEN Lock!Release(WriteLock) ELSE UNCHANGED owner
            /\ Goto(t, "read_released")
            /\ UNCHANGED <<kernel, condition>>

ReadReleased(t) ==
    /\ At(t, "read_released") /\ Lock!Release(ReadLock)
    /\ Goto(t, "client")
    /\ UNCHANGED <<kernel, condition, rwlock>>

WriteAcquire(t) ==
    /\ At(t, "client") /\ inside[t] = "none"
    /\ \/ Holds(t, WriteLock) /\ AssertionFails
       \/ /\ Lock!Grant(t, WriteLock)
          /\ inside' = [inside EXCEPT ![t] = "write"]
          /\ UNCHANGED <<kernel, pc, condition, read_count>>

WriteRelease(t) ==
    /\ At(t, "client") /\ inside[t] = "write" /\ Lock!Release(WriteLock)
    /\ inside' = [inside EXCEPT ![t] = "none"]
    /\ UNCHANGED <<kernel, pc, condition, read_count>>

Step(t) ==
    \/ Enter(t) \/ Leave(t) \/ \E c \in Conds : CondWait(t, c)
    \/ WaitRelease(t) \/ WaitWake(t) \/ WaitAcquire(t) \/ Donation(t)
    \/ \E c \in Conds : CondSignal(t, c) \/ CondBroadcast(t, c)
    \/ BroadcastStep(t) \/ BroadcastEnd(t)
    \/ ReadAcquire(t) \/ ReadFirst(t) \/ ReadLater(t)
    \/ ReadAcquired(t) \/ ReadRelease(t) \/ ReadUncount(t) \/ ReadReleased(t)
    \/ WriteAcquire(t) \/ WriteRelease(t)

Next == kernel = "up" /\ \E t \in Threads : Step(t)

Spec == Init /\ [][Next]_vars

(***************************************************************************)
(* Properties.                                                             *)
(***************************************************************************)
Waiting(t) == pc[t] \in {"wait_release", "wait_sema"}

\* No wake-up is lost and none is sent twice: from its call of cond_wait until it
\* runs again a thread is in the list of its condition, once, or its semaphore is
\* up, and not both; no other thread is in a list or has its semaphore up.
OneWakeupPerWait ==
    /\ \A c \in Conds : IsInjective(waiters[c])
    /\ \A t \in Threads, c \in Conds :
          t \in ToSet(waiters[c]) => Waiting(t) /\ cond[t] = c
    /\ \A t \in Threads :
          IF Waiting(t) THEN (semaphore[t] = 1) # (t \in ToSet(waiters[cond[t]]))
                        ELSE semaphore[t] = 0

Readers == {t \in Threads : inside[t] = "read"}

\* A writer is alone with its data: it holds write_lock, and while readers are
\* inside write_lock is taken, though perhaps by a reader that has gone.  Outside
\* of the sections of read_lock read_count is the number of readers inside.
WritersExcludeReaders ==
    /\ \A t \in Threads : inside[t] = "write" => Holds(t, WriteLock)
    /\ Readers # {} => /\ owner[WriteLock] # NULL
                       /\ inside[owner[WriteLock]] # "write"
    /\ read_count = Cardinality(Readers)

\* t goes before u in the order of priority and, among equals, of arrival.
GoesFirst(t, u) ==
    \/ current[u] < current[t]
    \/ current[u] = current[t] /\ Place(cond[t], t) <= Place(cond[t], u)

\* cond_signal wakes the waiter of highest current priority, and of several the one
\* that has waited longest, although the list is only sorted by signals and new
\* waiters are put at its end.  It does so among the waiters whose priority is what
\* it was when they called cond_wait: the list is sorted by that value, and a waiter
\* that had a donation then, or has one now, may go before its betters or after them.
SignalOrder ==
    [][\A t \in Threads : semaphore[t] = 0 /\ semaphore'[t] = 1 =>
          \A u \in ToSet(waiters[cond[t]]) :
             current[t] = priority[t] /\ current[u] = priority[u] => GoesFirst(t, u)]_vars

\* cond_wait, cond_signal and cond_broadcast are a Mesa monitor: to everybody else
\* the wait and the release of the lock are one step, although the waiter is in
\* the list before.
Mesa == INSTANCE MesaMonitor WITH
    NoOwner <- NULL,
    owner <- owner[MonLock],
    waiting <- [c \in Conds |-> {t \in ToSet(waiters[c]) : At(t, "wait_sema")}],
    woken <- {t \in Threads : \/ At(t, "wait_acquire")
                              \/ At(t, "wait_sema") /\ semaphore[t] = 1}
ImplementsMonitor == Mesa!Spec
==============================================================================
