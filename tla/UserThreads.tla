----------------------------- MODULE UserThreads -----------------------------
(***************************************************************************)
(* The user-level threads of A3 (src/G/A3/Top/src/myThread.c): one kernel  *)
(* thread runs the threads of a program in turn.  SIGALRM, which a timer   *)
(* sends, stops the running thread wherever it is; the scheduler, reached  *)
(* by longjmp, rotates the queue ready and jumps to the thread in front.   *)
(* Code between disableInterrupts and enableInterrupts is one step.  Where *)
(* the scheduler runs with SIGALRM unblocked it has steps of its own: the  *)
(* end of schedule, and all of it after myThread_exit.                     *)
(*                                                                         *)
(* The program is what the tests and boundedBuffer.c do: the function main *)
(* creates the threads and then joins them; the threads use one lock and,  *)
(* in some programs, one condition variable and myThread_exit.             *)
(*                                                                         *)
(* main is resumed at mainContext, inside its last myThread_create, whose  *)
(* frame has returned: what it finds in the place of the return address is *)
(* that of the last call main made, so this call returns.  So does a call  *)
(* that SIGALRM stops before it has blocked SIGALRM: it has done nothing,  *)
(* and main goes on as if it had (PreemptCreate, PreemptJoin).             *)
(***************************************************************************)
EXTENDS Naturals, Sequences, FiniteSets, SequencesExt

CONSTANTS Threads,          \* the threads the program creates
          Main,             \* the function main
          NULL              \* no thread

ASSUME MainAssumption == Main \notin Threads
ASSUME NullAssumption == NULL \notin Threads \cup {Main}

VARIABLES uses,             \* the parts of the library the program uses
          ready,            \* the queue ready
          running_tcb,      \* the running thread
          where,            \* what executes: a thread, the scheduler, nothing
          status, join,     \* status of each thread; join of main_tcb
          joining_thread,   \* of each thread
          joined,           \* the threads main has called myThread_join for
          pc,               \* where each thread is in the library
          lock, holds,      \* value of the lock; history: who is between
                            \* acquire and release
          guard, waiting,   \* lock and queue of the condition variable
          temp,             \* temp in myThread_cond_signal and _brodcast
          lost              \* threads whose saved context is in the scheduler

tcb == <<status, join, joining_thread>>
mutex == <<lock, holds>>
cond == <<guard, waiting, temp>>
vars == <<uses, ready, running_tcb, where, tcb, joined, pc, mutex, cond, lost>>

(***************************************************************************)
(* The scheduler                                                           *)
(***************************************************************************)
\* Variant: main is resumed whatever its joins.
HeldBackNever(j) == FALSE

\* Main is passed over while it has a join outstanding.
HeldBack(j) == j >= 1

\* Variant: a thread that has waited for a condition is never taken out.
DropFinished(s, t) == s[t] = 1

\* Whether the scheduler takes the thread it comes from out of the queue.
Drop(s, t) == s[t] \in {1, 2}

\* Jump to the thread at the head of q, with join = j.  The queue may hold only
\* main, passed over for ever, or nothing: its head is then an old pointer.
Dispatch(q, j) ==
    LET held == q # <<>> /\ Head(q) = Main /\ HeldBack(j)
        queue == IF held THEN Append(Tail(q), Main) ELSE q
    IN  /\ ready' = queue
        /\ running_tcb' = IF queue = <<>> THEN running_tcb ELSE Head(queue)
        /\ where' = CASE queue = <<>> -> "corrupt"
                      [] queue # <<>> /\ held /\ Head(queue) = Main -> "stuck"
                      [] queue # <<>> /\ ~held /\ Head(queue) = Main -> "thread"
                      [] OTHER -> "resume"

\* Variant: the thread it comes from is not pushed again.
SchedulerLosing(s, j) == Dispatch(Tail(ready), j)

\* Variant: it stays in front.
SchedulerSame(s, j) == Dispatch(IF Drop(s, running_tcb) THEN Tail(ready) ELSE ready, j)

\* longjmp(schedulerContext), with the statuses s and join = j of that moment.
Scheduler(s, j) ==
    Dispatch(IF Drop(s, running_tcb) THEN Tail(ready) ELSE Append(Tail(ready), running_tcb), j)

\* schedule has unblocked SIGALRM: it starts the thread, or jumps to its saved
\* context.  A context in the scheduler's own frames leads back to this place,
\* or into whatever those frames hold by now.
Resume ==
    /\ where = "resume"
    /\ where' \in IF running_tcb \in lost THEN {"thread", "corrupt"} ELSE {"thread"}
    /\ pc' = [pc EXCEPT ![running_tcb] = IF @ = "start" THEN "run" ELSE @]
    /\ UNCHANGED <<uses, ready, running_tcb, tcb, joined, mutex, cond, lost>>

\* myThreadSwitch: SIGALRM stops a thread, or main once the timer runs.
Preempt ==
    /\ where = "thread" /\ ready # <<>>
    /\ Scheduler(status, join)
    /\ UNCHANGED <<uses, tcb, joined, pc, mutex, cond, lost>>

\* It stops a thread in the middle of qpush(ready), and the scheduler pushes
\* the thread into the same slot.
PreemptPush ==
    /\ where = "thread"
    /\ running_tcb \in {t \in Threads \ lost : pc[t] \in {"sig_push", "bc_push"}}
    /\ where' = "corrupt"
    /\ UNCHANGED <<uses, ready, running_tcb, tcb, joined, pc, mutex, cond, lost>>

\* It arrives before schedule has left the scheduler: the context of the thread
\* is overwritten, unless this is its start and it is on its own stack already.
PreemptResume ==
    /\ where = "resume"
    /\ \/ lost' = lost \cup {running_tcb} /\ pc' = pc
       \/ /\ pc[running_tcb] = "start"
          /\ pc' = [pc EXCEPT ![running_tcb] = "run"] /\ lost' = lost
    /\ Scheduler(status, join)
    /\ UNCHANGED <<uses, tcb, joined, mutex, cond>>

(***************************************************************************)
(* main                                                                    *)
(***************************************************************************)
MainRuns == where = "thread" /\ running_tcb = Main

\* The first myThread_create also starts the timer and the scheduler.
Create(t) ==
    /\ MainRuns /\ pc[t] = "none"
    /\ pc' = [pc EXCEPT ![t] = "start"]
    /\ IF ready = <<>> THEN Dispatch(<<t, Main>>, join)
       ELSE ready' = Append(ready, t) /\ UNCHANGED <<running_tcb, where>>
    /\ UNCHANGED <<uses, tcb, joined, mutex, cond, lost>>

MayJoin(t) == MainRuns /\ t \notin joined /\ \A u \in Threads : pc[u] # "none"

\* A join that has to wait leaves main without saving a context.
Join(t) ==
    /\ MayJoin(t) /\ status[t] # 1
    /\ joined' = joined \cup {t}
    /\ joining_thread' = [joining_thread EXCEPT ![t] = Main]
    /\ join' = join + 1
    /\ Scheduler(status, join + 1)
    /\ UNCHANGED <<uses, status, pc, mutex, cond, lost>>

JoinFinished(t) ==
    /\ MayJoin(t) /\ status[t] = 1
    /\ joined' = joined \cup {t}
    /\ UNCHANGED <<uses, ready, running_tcb, where, tcb, pc, mutex, cond, lost>>

\* SIGALRM arrives in myThread_create or myThread_join before they block it: when
\* main runs again the call returns, and has done nothing.
PreemptCreate(t) ==
    /\ MainRuns /\ ready # <<>> /\ pc[t] = "none"
    /\ pc' = [pc EXCEPT ![t] = "uncreated"]
    /\ Scheduler(status, join)
    /\ UNCHANGED <<uses, tcb, joined, mutex, cond, lost>>

PreemptJoin(t) ==
    /\ MayJoin(t) /\ ready # <<>>
    /\ joined' = joined \cup {t}
    /\ Scheduler(status, join)
    /\ UNCHANGED <<uses, tcb, pc, mutex, cond, lost>>

\* The end of main is the end of the program.
MainReturn ==
    /\ MainRuns /\ joined = Threads
    /\ where' = "exited"
    /\ UNCHANGED <<uses, ready, running_tcb, tcb, joined, pc, mutex, cond, lost>>

(***************************************************************************)
(* Threads: yield, return, exit                                            *)
(***************************************************************************)
At(t, place) == where = "thread" /\ running_tcb = t /\ t \notin lost /\ pc[t] = place

Goto(t, place) == pc' = [pc EXCEPT ![t] = place]

Stay == UNCHANGED <<ready, running_tcb, where>>

Yield(t) ==
    /\ At(t, "run")
    /\ Scheduler(status, join)
    /\ UNCHANGED <<uses, tcb, joined, pc, mutex, cond, lost>>

\* What is left of main's joins when t has finished.
\* Variant: main is not told.
JoinAfterKeeping(t) == join

JoinAfter(t) == IF joining_thread[t] # NULL THEN join - 1 ELSE join

\* The function of the thread returns into schedule, which blocks SIGALRM.
Return(t) ==
    /\ At(t, "run") /\ t \notin holds
    /\ Goto(t, "end")
    /\ status' = [status EXCEPT ![t] = 1]
    /\ join' = JoinAfter(t)
    /\ Scheduler(status', JoinAfter(t))
    /\ UNCHANGED <<uses, joining_thread, joined, mutex, cond, lost>>

\* myThread_exit does not block it, and may be stopped after its first store.
Exit(t) ==
    /\ At(t, "run") /\ t \notin holds /\ "exit" \in uses
    /\ Goto(t, "exit") /\ Stay
    /\ status' = [status EXCEPT ![t] = 1]
    /\ UNCHANGED <<uses, join, joining_thread, joined, mutex, cond, lost>>

ExitJoin(t) ==
    /\ At(t, "exit")
    /\ Goto(t, "end")
    /\ join' = JoinAfter(t)
    /\ where' = "exiting"
    /\ UNCHANGED <<uses, ready, running_tcb, status, joining_thread, joined,
                   mutex, cond, lost>>

\* The scheduler after myThread_exit, in two steps between which, or before
\* which, SIGALRM may arrive and enter the scheduler once more.
ExitPop ==
    /\ where = "exiting"
    /\ ready' = Tail(ready)
    /\ where' = "popped"
    /\ UNCHANGED <<uses, running_tcb, tcb, joined, pc, mutex, cond, lost>>

ExitDispatch ==
    /\ where = "popped"
    /\ Dispatch(ready, join)
    /\ UNCHANGED <<uses, tcb, joined, pc, mutex, cond, lost>>

PreemptExit ==
    /\ where \in {"exiting", "popped"}
    /\ IF ready = <<>> THEN Dispatch(ready, join) ELSE Scheduler(status, join)
    /\ UNCHANGED <<uses, tcb, joined, pc, mutex, cond, lost>>

(***************************************************************************)
(* Locks and condition variables                                           *)
(***************************************************************************)
\* Both loops of acquire end when cas finds 0: until then the thread spins.
\* Variant: the lock is taken without looking at its value.
AcquireUnchecked(t) ==
    /\ lock' = 1
    /\ holds' = holds \cup {t}

Acquire(t) ==
    /\ lock = 0 /\ lock' = 1
    /\ holds' = holds \cup {t}

Release(t) == lock' = 0 /\ holds' = holds \ {t}

LockCall(t) ==
    /\ At(t, "run") /\ t \notin holds
    /\ Goto(t, "acquire") /\ Stay
    /\ UNCHANGED <<uses, tcb, joined, mutex, cond, lost>>

LockTaken(t) ==
    /\ At(t, "acquire") /\ Acquire(t)
    /\ Goto(t, "run") /\ Stay
    /\ UNCHANGED <<uses, tcb, joined, cond, lost>>

Unlock(t) ==
    /\ At(t, "run") /\ t \in holds /\ Release(t)
    /\ Stay
    /\ UNCHANGED <<uses, tcb, joined, pc, cond, lost>>

\* The two users of the condition variable, with the lock, both take guard.
Enter(t, call, entry) ==
    /\ "cond" \in uses
    /\ At(t, "run")
    /\ Goto(t, entry) /\ Stay
    /\ UNCHANGED <<uses, tcb, joined, mutex, cond, lost>>

WaitCall(t) == t \in holds /\ Enter(t, "wait", "wait_acquire")
SignalCall(t) == Enter(t, "signal", "sig_acquire")
BroadcastCall(t) == Enter(t, "brodcast", "bc_acquire")

GuardTaken(t, here, there) ==
    /\ At(t, here) /\ guard = 0
    /\ guard' = 1
    /\ Goto(t, there) /\ Stay
    /\ UNCHANGED <<uses, tcb, joined, mutex, waiting, temp, lost>>

GuardAcquire(t) ==
    \/ GuardTaken(t, "wait_acquire", "wait_push")
    \/ GuardTaken(t, "sig_acquire", "sig_pop")
    \/ GuardTaken(t, "bc_acquire", "bc_pop")

GuardReleased(t, here, there) ==
    /\ At(t, here)
    /\ guard' = 0
    /\ Goto(t, there) /\ Stay
    /\ UNCHANGED <<uses, tcb, joined, mutex, waiting, temp, lost>>

GuardRelease(t) ==
    \/ GuardReleased(t, "wait_release", "wait_sleep")
    \/ GuardReleased(t, "sig_release", "run")

WaitPush(t) ==
    /\ At(t, "wait_push")
    /\ waiting' = Append(waiting, t)
    /\ Goto(t, "wait_release") /\ Stay
    /\ UNCHANGED <<uses, tcb, joined, mutex, guard, temp, lost>>

\* From here on SIGALRM is blocked; the thread returns from setjmp when it is
\* scheduled again.
WaitSleep(t) ==
    /\ At(t, "wait_sleep") /\ Release(t)
    /\ status' = [status EXCEPT ![t] = 2]
    /\ Goto(t, "acquire")
    /\ Scheduler(status', join)
    /\ UNCHANGED <<uses, join, joining_thread, joined, cond, lost>>

\* Take the first waiter, if there is one; cond_signal stops after the first.
SignalPop(t) ==
    \E p \in {<<"sig_pop", "sig_push">>, <<"bc_pop", "bc_push">>} :
        /\ At(t, p[1])
        /\ IF waiting = <<>>
           THEN Goto(t, "sig_release") /\ UNCHANGED <<waiting, temp>>
           ELSE /\ temp' = [temp EXCEPT ![t] = Head(waiting)]
                /\ waiting' = Tail(waiting)
                /\ Goto(t, p[2])
        /\ Stay
        /\ UNCHANGED <<uses, tcb, joined, mutex, guard, lost>>

\* The waiter is ready again; its status stays what it is.
SignalPush(t) ==
    \E p \in {<<"sig_push", "sig_release">>, <<"bc_push", "bc_pop">>} :
        /\ At(t, p[1])
        /\ ready' = Append(ready, temp[t])
        /\ temp' = [temp EXCEPT ![t] = NULL]
        /\ Goto(t, p[2])
        /\ UNCHANGED <<uses, running_tcb, where, tcb, joined, mutex, guard, waiting, lost>>

(***************************************************************************)
(* Specification                                                           *)
(***************************************************************************)
\* What the library and the programs leave uninitialized (joining_thread, size,
\* head and tail of the queues, status of main and of a thread whose creation was
\* cut short) is memory malloc gives out for the first time, as nothing is ever
\* freed: zero.
Init ==
    /\ uses \in SUBSET {"cond", "exit"}
    /\ ready = <<>> /\ running_tcb = Main /\ where = "thread"
    /\ status = [t \in Threads \cup {Main} |-> 0]
    /\ join = 0 /\ joined = {} /\ lost = {}
    /\ joining_thread = [t \in Threads |-> NULL]
    /\ pc = [t \in Threads |-> "none"]
    /\ lock = 0 /\ holds = {}
    /\ guard = 0 /\ waiting = <<>>
    /\ temp = [t \in Threads |-> NULL]

ThreadStep(t) ==
    \/ Yield(t) \/ Return(t) \/ Exit(t) \/ ExitJoin(t)
    \/ LockCall(t) \/ LockTaken(t) \/ Unlock(t)
    \/ WaitCall(t) \/ SignalCall(t) \/ BroadcastCall(t)
    \/ GuardAcquire(t) \/ GuardRelease(t)
    \/ WaitPush(t) \/ WaitSleep(t) \/ SignalPop(t) \/ SignalPush(t)

SchedulerStep ==
    Resume \/ ExitPop \/ ExitDispatch

Signal == Preempt \/ PreemptPush \/ PreemptResume \/ PreemptExit

MainStep ==
    \/ \E t \in Threads : Create(t) \/ Join(t) \/ JoinFinished(t)
    \/ \E t \in Threads : PreemptCreate(t) \/ PreemptJoin(t)
    \/ MainReturn

Next ==
    \/ SchedulerStep \/ Signal \/ MainStep
    \/ \E t \in Threads : ThreadStep(t)

\* The timer sends SIGALRM again and again, and the scheduler runs to its end.
\* Nothing is assumed about the threads: each may run for ever.
Fairness == WF_vars(Preempt) /\ WF_vars(SchedulerStep)

Spec == Init /\ [][Next]_vars
FairSpec == Spec /\ Fairness

(***************************************************************************)
(* Properties                                                              *)
(***************************************************************************)
InGuard == {"wait_push", "wait_release", "sig_pop", "sig_push", "sig_release", "bc_pop", "bc_push"}

Places == InGuard \cup {"none", "uncreated", "start", "run", "acquire", "wait_acquire", "wait_sleep",
                        "sig_acquire", "bc_acquire", "exit", "end"}

Times(t) == Cardinality({k \in DOMAIN ready : ready[k] = t})

\* The type invariant.  A thread is in the queue twice at most, when it was
\* signalled before it went to sleep: the queue, which drops what it has no
\* room for without a word, needs two places for each thread.
TypeOK ==
    /\ uses \subseteq {"cond", "exit"}
    /\ ready \in Seq(Threads \cup {Main})
    /\ \A t \in Threads \cup {Main} : Times(t) <= IF t # Main /\ "cond" \in uses THEN 2 ELSE 1
    /\ running_tcb \in Threads \cup {Main}
    /\ where \in {"thread", "resume", "exiting", "popped", "stuck", "corrupt", "exited"}
    /\ status \in [Threads \cup {Main} -> 0 .. 2]
    /\ join \in 0 .. 1
    /\ joining_thread \in [Threads -> {Main, NULL}]
    /\ joined \subseteq Threads /\ lost \subseteq Threads
    /\ pc \in [Threads -> Places]
    /\ lock \in 0 .. 1 /\ guard \in 0 .. 1
    /\ holds \subseteq Threads
    /\ waiting \in Seq(Threads) /\ IsInjective(waiting)
    /\ temp \in [Threads -> Threads \cup {NULL}]

Created(t) == pc[t] \notin {"none", "uncreated"}

\* The scheduler takes the head of the queue for the thread it comes from, and
\* is right.  Without myThread_exit no thread that is neither finished nor
\* waiting is ever missing from the queue; in a program that uses neither it
\* is there once, and a finished thread is not.
QueueOK ==
    /\ where \in {"thread", "resume"} /\ ready # <<>> => Head(ready) = running_tcb
    /\ "exit" \notin uses =>
          /\ ready # <<>> => Times(Main) = 1
          /\ \A t \in Threads : Created(t) /\ status[t] = 0 => Times(t) >= 1
    /\ uses = {} =>
          \A t \in Threads : Times(t) = IF Created(t) /\ status[t] = 0 THEN 1 ELSE 0

\* At most one thread is between acquire and release, across preemption, sleep
\* and the reacquisition after it, and the same holds for the lock inside the
\* condition variable.
LockSafe ==
    /\ Cardinality(holds) = lock
    /\ Cardinality({t \in Threads : pc[t] \in InGuard}) = guard

\* While a thread that myThread_join has registered main with is unfinished, main
\* does not run, although it is resumed at a context that does not belong to the
\* join, from every way into the scheduler.  It says nothing of a join that SIGALRM
\* cut short: that one has registered nobody (JoinReturnsAfterEnd).
MainWaits == MainRuns => \A t \in Threads : joining_thread[t] = Main => status[t] = 1

\* The program has ended, or goes on with a corrupted queue or stack.
Ended == where \in {"corrupt", "exited"}

\* Without myThread_exit every thread that is neither finished nor waiting gets the
\* CPU, at its own code, again and again, whatever the others do and however main's
\* calls end.  Two kinds of threads are left out, which the code drops for good: those
\* that SIGALRM stopped in schedule, before the jump to their context (lost), and
\* those that have waited once and run on with status 2 until their next switch.
RoundRobin ==
    \A t \in Threads :
        []<>(\/ "exit" \in uses \/ Ended
             \/ ~ Created(t) \/ status[t] # 0 \/ t \in lost
             \/ where = "thread" /\ running_tcb = t)

\* Without myThread_exit, main goes on once the threads it waits for have returned:
\* none is left in its join, and it has kept its place in the queue.
JoinEnds ==
    (\A t \in joined : joining_thread[t] = NULL \/ pc[t] = "end")
        ~> (MainRuns \/ "exit" \in uses \/ Ended)

(***************************************************************************)
(* What the code does not keep                                             *)
(***************************************************************************)
\* myThread.h:20 (join) "0 implies not joined, 1 implies delayed", and test4.c:42-45
\* prints the sum after two joins: a thread that main has joined has finished when
\* main runs.
JoinReturnsAfterEnd == MainRuns => \A t \in joined : status[t] = 1
==============================================================================
