--------------------------- MODULE UserThreadsProofs ---------------------------
(***************************************************************************)
(* Proofs, for any number of threads, that the locks of the A3 library     *)
(* exclude, that main does not run while it waits for a thread, and that   *)
(* the queue ready holds the threads it should, wherever SIGALRM stops a   *)
(* thread or main.                                                         *)
(***************************************************************************)
EXTENDS UserThreads, KernelListProofs

(***************************************************************************)
(* The inductive invariant.                                                *)
(***************************************************************************)
Typed ==
    /\ pc \in [Threads -> Places]
    /\ status \in [Threads \cup {Main} -> 0 .. 2]
    /\ joining_thread \in [Threads -> {Main, NULL}]
    /\ join \in 0 .. 1 /\ lock \in 0 .. 1 /\ guard \in 0 .. 1
    /\ joined \subseteq Threads /\ holds \subseteq Threads

WaitCalled == {"wait_acquire", "wait_push", "wait_release", "wait_sleep"}
Inside == {t \in Threads : pc[t] \in InGuard}

\* Who has called cond_wait has the lock that it gives up there.
Locked ==
    /\ IsFiniteSet(holds) /\ Cardinality(holds) = lock
    /\ IsFiniteSet(Inside) /\ Cardinality(Inside) = guard
    /\ \A t \in Threads : pc[t] \in WaitCalled => t \in holds

\* The threads main waits for: join counts them, one at most.
Pending == {t \in Threads : joining_thread[t] = Main /\ pc[t] # "end"}

Joins ==
    /\ join = 0 => Pending = {}
    /\ join = 1 => \E t \in Threads : Pending = {t}
    /\ \A t \in Threads : status[t] = 1 <=> pc[t] \in {"exit", "end"}

\* main runs only with no join outstanding.
MainFree ==
    /\ MainRuns => join = 0
    /\ where = "resume" => running_tcb # Main

Inv == Typed /\ Locked /\ Joins /\ MainFree

-------------------------------------------------------------------------------
(* The scheduler.                                                          *)

\* Wherever the scheduler goes, it does not go to main while join is not 0.
LEMMA DispatchKeeps ==
    ASSUME NEW q, NEW j \in Nat, Dispatch(q, j), join' = j
    PROVE  MainFree'
  <1> DEFINE held == q # <<>> /\ Head(q) = Main /\ HeldBack(j)
             queue == IF held THEN Append(Tail(q), Main) ELSE q
  <1>1. /\ running_tcb' = IF queue = <<>> THEN running_tcb ELSE Head(queue)
        /\ where' = CASE queue = <<>> -> "corrupt"
                      [] queue # <<>> /\ held /\ Head(queue) = Main -> "stuck"
                      [] queue # <<>> /\ ~held /\ Head(queue) = Main -> "thread"
                      [] OTHER -> "resume"
    BY DEF Dispatch
  <1>2. CASE queue = <<>>
    <2>1. where' = "corrupt"
      BY <1>1, <1>2
    <2> QED BY <2>1 DEF MainFree, MainRuns
  <1>3. CASE queue # <<>> /\ Head(queue) # Main
    BY <1>1, <1>3 DEF MainFree, MainRuns
  <1>4. CASE queue # <<>> /\ Head(queue) = Main /\ held
    BY <1>1, <1>4 DEF MainFree, MainRuns
  <1>5. CASE queue # <<>> /\ Head(queue) = Main /\ ~held
    <2>1. ~HeldBack(j)
      BY <1>5
    <2>2. j = 0
      BY <2>1 DEF HeldBack
    <2>3. where' = "thread"
      BY <1>1, <1>5
    <2> QED BY <2>2, <2>3 DEF MainFree
  <1> QED BY <1>2, <1>3, <1>4, <1>5

LEMMA SchedulerKeeps ==
    ASSUME NEW s, NEW j \in Nat, Scheduler(s, j), join' = j
    PROVE  MainFree'
  BY DispatchKeeps DEF Scheduler

-------------------------------------------------------------------------------
(* Steps that move one thread through the library.                         *)

\* What a move of t from its place to l leaves as it was.
LEMMA MoveFacts ==
    ASSUME Typed, NEW t \in Threads, NEW l \in Places, pc' = [pc EXCEPT ![t] = l]
    PROVE  /\ pc' \in [Threads -> Places] /\ pc'[t] = l
           /\ \A u \in Threads : u # t => pc'[u] = pc[u]
  BY DEF Typed

\* A move that does not concern joins.
LEMMA JoinsFrame ==
    ASSUME Inv, NEW t \in Threads, NEW l \in Places, pc' = [pc EXCEPT ![t] = l],
           pc[t] \notin {"exit", "end"}, l \notin {"exit", "end"},
           UNCHANGED <<join, joining_thread>>,
           \/ status' = status
           \/ status' = [status EXCEPT ![t] = 2]
    PROVE  Joins'
  <1>1. /\ pc'[t] = l /\ \A u \in Threads : u # t => pc'[u] = pc[u]
    BY MoveFacts DEF Inv
  <1>2. Pending' = Pending
    BY <1>1 DEF Pending
  <1>3. \A u \in Threads : /\ status'[u] = 1 <=> status[u] = 1
                           /\ status[u] = 1 <=> pc[u] \in {"exit", "end"}
    BY DEF Inv, Typed, Joins
  <1> QED BY <1>1, <1>2, <1>3 DEF Inv, Joins

\* A move that does not concern the two locks.
LEMMA LockedFrame ==
    ASSUME Inv, NEW t \in Threads, NEW l \in Places, pc' = [pc EXCEPT ![t] = l],
           UNCHANGED <<lock, holds, guard>>,
           pc[t] \in InGuard <=> l \in InGuard,
           l \in WaitCalled => t \in holds
    PROVE  Locked'
  <1>1. /\ pc'[t] = l /\ \A u \in Threads : u # t => pc'[u] = pc[u]
    BY MoveFacts DEF Inv
  <1>2. Inside' = Inside
    BY <1>1 DEF Inside
  <1> QED BY <1>1, <1>2 DEF Inv, Locked

\* A step that moves nobody.
LEMMA NobodyMoves ==
    ASSUME Inv, UNCHANGED <<tcb, joined, pc, mutex, guard>>
    PROVE  Typed' /\ Locked' /\ Joins'
  <1> USE DEF tcb, mutex
  <1>1. Inside' = Inside /\ Pending' = Pending
    BY DEF Inside, Pending
  <1> QED BY <1>1 DEF Inv, Typed, Locked, Joins

-------------------------------------------------------------------------------
(* The steps.                                                              *)

LEMMA SignalKeeps ==
    ASSUME Inv, Preempt \/ PreemptPush \/ PreemptExit \/ ExitPop \/ ExitDispatch
    PROVE  Inv'
  <1>0. join \in Nat
    BY DEF Inv, Typed
  <1>1. UNCHANGED <<tcb, joined, pc, mutex, guard>>
    BY DEF Preempt, PreemptPush, PreemptExit, ExitPop, ExitDispatch, cond
  <1>2. MainFree'
    <2>1. CASE Preempt
      BY <1>0, <1>1, <2>1, SchedulerKeeps DEF Preempt, tcb
    <2>2. CASE PreemptExit
      BY <1>0, <1>1, <2>2, SchedulerKeeps, DispatchKeeps DEF PreemptExit, tcb
    <2>3. CASE ExitDispatch
      BY <1>0, <1>1, <2>3, DispatchKeeps DEF ExitDispatch, tcb
    <2>4. CASE PreemptPush \/ ExitPop
      BY <2>4 DEF PreemptPush, ExitPop, MainFree, MainRuns
    <2> QED BY <2>1, <2>2, <2>3, <2>4
  <1> QED BY <1>1, <1>2, NobodyMoves DEF Inv

\* A thread starts, or its creation is cut short; or nobody moves.
Outside ==
    \/ pc' = pc
    \/ \E x \in Threads :
          \/ pc[x] = "start" /\ pc' = [pc EXCEPT ![x] = "run"]
          \/ pc[x] = "none" /\ pc' = [pc EXCEPT ![x] = "uncreated"]

LEMMA OutsideKeeps ==
    ASSUME Inv, Outside, MainFree', joined' \subseteq Threads, UNCHANGED <<tcb, mutex, guard>>
    PROVE  Inv'
  <1>1. UNCHANGED <<status, join, joining_thread, lock, holds, guard>>
    BY DEF tcb, mutex
  <1>2. CASE pc' = pc
    <2>1. Inside' = Inside /\ Pending' = Pending
      BY <1>1, <1>2 DEF Inside, Pending
    <2> QED BY <1>1, <1>2, <2>1 DEF Inv, Typed, Locked, Joins
  <1>3. ASSUME NEW x \in Threads, NEW l \in {"run", "uncreated"}, pc[x] \in {"start", "none"},
               pc' = [pc EXCEPT ![x] = l]
        PROVE  Inv'
    <2>1. l \in Places
      BY DEF Places
    <2>2. Joins'
      BY <1>1, <1>3, <2>1, JoinsFrame
    <2>3. Locked'
      BY <1>1, <1>3, <2>1, LockedFrame DEF InGuard, WaitCalled
    <2>4. Typed'
      BY <1>1, <1>3, <2>1, MoveFacts DEF Inv, Typed
    <2> QED BY <2>2, <2>3, <2>4 DEF Inv
  <1> QED BY <1>2, <1>3 DEF Outside

\* schedule starts a thread, or jumps to one, or is stopped before it does.
LEMMA ResumeKeeps == ASSUME Inv, Resume \/ PreemptResume PROVE Inv' /\ Outside
  <1>1. UNCHANGED <<tcb, joined, mutex, cond>>
    BY DEF Resume, PreemptResume
  <1>2. MainFree'
    <2>1. CASE Resume
      BY <2>1 DEF Resume, Inv, MainFree, MainRuns
    <2>2. CASE PreemptResume
      BY <1>1, <2>2, SchedulerKeeps DEF PreemptResume, Inv, Typed, tcb
    <2> QED BY <2>1, <2>2
  <1>4. pc \in [Threads -> Places]
    BY DEF Inv, Typed
  <1>5. Outside
    <2>1. CASE pc' = pc
      BY <2>1 DEF Outside
    <2>2. CASE pc' # pc
      <3>1. pc' = [pc EXCEPT ![running_tcb] = "run"] /\ pc[running_tcb] = "start"
        BY <1>4, <2>2 DEF Resume, PreemptResume
      <3>2. running_tcb \in Threads
        BY <1>4, <2>2, <3>1
      <3> QED BY <3>1, <3>2 DEF Outside
    <2> QED BY <2>1, <2>2
  <1>6. joined' \subseteq Threads
    BY <1>1 DEF Inv, Typed
  <1> QED BY <1>1, <1>2, <1>5, <1>6, OutsideKeeps DEF cond

LEMMA MainKeeps == ASSUME Inv, MainStep PROVE Inv'
  <1>0. Main \notin Threads /\ NULL \notin Threads \cup {Main}
    BY MainAssumption, NullAssumption
  <1>1. MainRuns /\ join = 0
    BY DEF MainStep, Create, Join, JoinFinished, PreemptCreate, PreemptJoin, MainReturn,
           MayJoin, Inv, MainFree
  <1>2. ASSUME NEW t \in Threads, Create(t) PROVE Inv'
    <2>1. /\ pc[t] = "none" /\ pc' = [pc EXCEPT ![t] = "start"] /\ "start" \in Places
          /\ UNCHANGED <<tcb, joined, mutex, cond>>
      BY <1>2 DEF Create, Places
    <2>2. Joins'
      BY <2>1, JoinsFrame DEF tcb
    <2>3. Locked'
      BY <2>1, LockedFrame DEF mutex, cond, InGuard, WaitCalled
    <2>4. Typed'
      BY <2>1, MoveFacts DEF Inv, Typed, tcb, mutex, cond
    <2>5. MainFree'
      <3>1. CASE ready = <<>>
        BY <1>1, <1>2, <2>1, <3>1, DispatchKeeps DEF Create, tcb
      <3>2. CASE ready # <<>>
        BY <1>1, <1>2, <2>1, <3>2 DEF Create, tcb, MainFree, MainRuns
      <3> QED BY <3>1, <3>2
    <2> QED BY <2>2, <2>3, <2>4, <2>5 DEF Inv
  <1>3. ASSUME NEW t \in Threads, Join(t) PROVE Inv'
    <2>1. /\ status[t] # 1 /\ joined' = joined \cup {t} /\ join' = 1
          /\ joining_thread' = [joining_thread EXCEPT ![t] = Main]
          /\ Scheduler(status, 1)
          /\ UNCHANGED <<status, pc, mutex, cond>>
      BY <1>1, <1>3 DEF Join
    <2>2. Typed'
      BY <2>1 DEF Inv, Typed, mutex, cond
    <2>3. Locked'
      <3>1. Inside' = Inside
        BY <2>1 DEF Inside
      <3> QED BY <2>1, <3>1 DEF Inv, Locked, mutex, cond
    <2>4. Pending = {} /\ pc[t] # "end"
      BY <1>1, <2>1 DEF Inv, Joins
    <2>5. Pending' = {t}
      BY <2>1, <2>4 DEF Pending, Inv, Typed
    <2>6. Joins'
      BY <2>1, <2>4, <2>5 DEF Inv, Joins
    <2>7. MainFree'
      BY <2>1, SchedulerKeeps
    <2> QED BY <2>2, <2>3, <2>6, <2>7 DEF Inv
  <1>4. ASSUME NEW t \in Threads, JoinFinished(t) PROVE Inv'
    <2>1. /\ status[t] = 1 /\ joined' = joined \cup {t}
          /\ UNCHANGED <<running_tcb, where, tcb, pc, mutex, cond>>
      BY <1>4 DEF JoinFinished
    <2> USE <2>1 DEF tcb, mutex, cond
    <2>2. Inside' = Inside /\ Pending' = Pending
      BY DEF Inside, Pending
    <2>3. Typed' /\ MainFree'
      BY DEF Inv, Typed, MainFree, MainRuns
    <2>4. Locked' /\ Joins'
      BY <2>2 DEF Inv, Locked, Joins
    <2> QED BY <2>3, <2>4 DEF Inv
  <1>5. CASE MainReturn
    <2>1. MainFree'
      BY <1>5 DEF MainReturn, MainFree, MainRuns
    <2>2. UNCHANGED <<tcb, joined, pc, mutex, guard>>
      BY <1>5 DEF MainReturn, cond
    <2> QED BY <2>1, <2>2, NobodyMoves DEF Inv
  <1>6. ASSUME NEW t \in Threads, PreemptCreate(t) \/ PreemptJoin(t) PROVE Inv'
    <2>1. UNCHANGED <<tcb, mutex, guard>> /\ Scheduler(status, join) /\ Outside
      BY <1>6 DEF PreemptCreate, PreemptJoin, Outside, cond
    <2>2. MainFree'
      BY <1>1, <2>1, SchedulerKeeps DEF tcb
    <2>3. joined' \subseteq Threads
      BY <1>6 DEF PreemptCreate, PreemptJoin, Inv, Typed
    <2> QED BY <2>1, <2>2, <2>3, OutsideKeeps
  <1> QED BY <1>2, <1>3, <1>4, <1>5, <1>6 DEF MainStep

-------------------------------------------------------------------------------
(* The steps of a thread.                                                  *)

\* The running thread is not main: as long as it runs on, main does not.
LEMMA StayKeeps ==
    ASSUME NEW t \in Threads, NEW place, At(t, place), UNCHANGED <<running_tcb, where>>
    PROVE  MainFree'
  BY MainAssumption DEF At, MainFree, MainRuns

\* A lock that is 0 has nobody, and whoever takes it is the only one.
LEMMA AddMember ==
    ASSUME NEW S, NEW x, IsFiniteSet(S), Cardinality(S) = 0
    PROVE  S = {} /\ IsFiniteSet({x}) /\ Cardinality({x}) = 1
  BY FS_EmptySet, FS_Singleton

\* A lock that somebody has is 1, and nobody is left when its owner gives it up.
LEMMA RemoveMember ==
    ASSUME NEW S, NEW n \in 0 .. 1, NEW x \in S, IsFiniteSet(S), Cardinality(S) = n
    PROVE  n = 1 /\ IsFiniteSet(S \ {x}) /\ Cardinality(S \ {x}) = 0
  <1>1. n # 0
    BY FS_EmptySet
  <1>2. n = 1
    BY <1>1
  <1> QED BY <1>2, FS_RemoveElement

\* A thread that main waits for is the only one.
LEMMA LastJoin ==
    ASSUME Inv, NEW t \in Threads, pc[t] # "end"
    PROVE  /\ JoinAfter(t) \in 0 .. 1
           /\ joining_thread[t] # NULL => join = 1 /\ Pending = {t} /\ JoinAfter(t) = 0
           /\ joining_thread[t] = NULL => t \notin Pending /\ JoinAfter(t) = join
  <1>1. CASE joining_thread[t] = NULL
    BY <1>1, NullAssumption DEF JoinAfter, Pending, Inv, Typed
  <1>2. CASE joining_thread[t] # NULL
    <2>1. t \in Pending
      BY <1>2 DEF Pending, Inv, Typed
    <2>2. join = 1
      BY <2>1 DEF Inv, Typed, Joins
    <2>3. Pending = {t}
      BY <2>1, <2>2 DEF Inv, Joins
    <2> QED BY <1>2, <2>2, <2>3 DEF JoinAfter
  <1> QED BY <1>1, <1>2

\* t finishes: main no longer waits for it.
LEMMA FinishKeeps ==
    ASSUME Inv, NEW t \in Threads, pc[t] # "end",
           pc' = [pc EXCEPT ![t] = "end"], join' = JoinAfter(t),
           status' = [status EXCEPT ![t] = 1],
           UNCHANGED joining_thread
    PROVE  Joins'
  <1>1. /\ pc'[t] = "end" /\ \A u \in Threads : u # t => pc'[u] = pc[u]
    BY DEF Inv, Typed
  <1>2. /\ status'[t] = 1 /\ \A u \in Threads : u # t => status'[u] = status[u]
    BY DEF Inv, Typed
  <1>3. Pending' = Pending \ {t}
    BY <1>1 DEF Pending
  <1>4. \A u \in Threads : status'[u] = 1 <=> pc'[u] \in {"exit", "end"}
    BY <1>1, <1>2 DEF Inv, Joins
  <1>5. CASE joining_thread[t] # NULL
    BY <1>3, <1>4, <1>5, LastJoin DEF Joins
  <1>6. CASE joining_thread[t] = NULL
    <2>1. Pending' = Pending /\ join' = join
      BY <1>3, <1>6, LastJoin
    <2> QED BY <1>4, <2>1 DEF Inv, Joins
  <1> QED BY <1>5, <1>6

\* Yield, return and exit.
LEMMA EndKeeps ==
    ASSUME Inv, NEW t \in Threads, Yield(t) \/ Return(t) \/ Exit(t) \/ ExitJoin(t)
    PROVE  Inv'
  <1>0. join \in Nat /\ "exit" \in Places /\ "end" \in Places
    BY DEF Inv, Typed, Places
  <1>1. CASE Yield(t)
    <2>1. UNCHANGED <<tcb, joined, pc, mutex, guard>>
      BY <1>1 DEF Yield, cond
    <2>2. MainFree'
      BY <1>0, <1>1, SchedulerKeeps DEF Yield, tcb
    <2> QED BY <2>1, <2>2, NobodyMoves DEF Inv
  <1>2. CASE Return(t)
    <2>1. /\ pc[t] = "run" /\ pc' = [pc EXCEPT ![t] = "end"] /\ join' = JoinAfter(t)
          /\ status' = [status EXCEPT ![t] = 1] /\ Scheduler(status', JoinAfter(t))
          /\ UNCHANGED <<joining_thread, joined, mutex, cond>>
      BY <1>2 DEF Return, At, Goto
    <2>2. Joins'
      BY <2>1, FinishKeeps
    <2>3. Locked'
      BY <1>0, <2>1, LockedFrame DEF mutex, cond, InGuard, WaitCalled
    <2>4. JoinAfter(t) \in 0 .. 1
      BY <2>1, LastJoin
    <2>5. MainFree'
      BY <2>1, <2>4, SchedulerKeeps
    <2>6. Typed'
      BY <1>0, <2>1, <2>4, MoveFacts DEF Inv, Typed, mutex, cond
    <2> QED BY <2>2, <2>3, <2>5, <2>6 DEF Inv
  <1>3. CASE Exit(t)
    <2>1. /\ pc[t] = "run" /\ pc' = [pc EXCEPT ![t] = "exit"]
          /\ status' = [status EXCEPT ![t] = 1]
          /\ UNCHANGED <<join, joining_thread, joined, mutex, cond>>
      BY <1>3 DEF Exit, At, Goto
    <2>2. /\ pc'[t] = "exit" /\ \A u \in Threads : u # t => pc'[u] = pc[u]
      BY <1>0, <2>1, MoveFacts DEF Inv
    <2>3. /\ status'[t] = 1 /\ \A u \in Threads : u # t => status'[u] = status[u]
      BY <2>1 DEF Inv, Typed
    <2>4. Pending' = Pending
      BY <2>1, <2>2 DEF Pending
    <2>5. Joins'
      BY <2>1, <2>2, <2>3, <2>4 DEF Inv, Joins
    <2>6. Locked'
      BY <1>0, <2>1, LockedFrame DEF mutex, cond, InGuard, WaitCalled
    <2>7. MainFree'
      BY <1>3, StayKeeps DEF Exit, Stay
    <2>8. Typed'
      BY <1>0, <2>1, MoveFacts DEF Inv, Typed, mutex, cond
    <2> QED BY <2>5, <2>6, <2>7, <2>8 DEF Inv
  <1>4. CASE ExitJoin(t)
    <2>1. /\ pc[t] = "exit" /\ pc' = [pc EXCEPT ![t] = "end"] /\ join' = JoinAfter(t)
          /\ where' = "exiting"
          /\ UNCHANGED <<status, joining_thread, joined, mutex, cond>>
      BY <1>4 DEF ExitJoin, At, Goto
    <2>2. status' = [status EXCEPT ![t] = 1]
      BY <2>1 DEF Inv, Typed, Joins
    <2>3. Joins'
      BY <2>1, <2>2, FinishKeeps
    <2>4. Locked'
      BY <1>0, <2>1, LockedFrame DEF mutex, cond, InGuard, WaitCalled
    <2>5. Typed'
      BY <1>0, <2>1, LastJoin, MoveFacts DEF Inv, Typed, mutex, cond
    <2>6. MainFree'
      BY <2>1 DEF MainFree, MainRuns
    <2> QED BY <2>3, <2>4, <2>5, <2>6 DEF Inv
  <1> QED BY <1>1, <1>2, <1>3, <1>4

\* The lock, outside condition variables.
LEMMA LockKeeps ==
    ASSUME Inv, NEW t \in Threads, LockCall(t) \/ LockTaken(t) \/ Unlock(t)
    PROVE  Inv'
  <1>0. "acquire" \in Places /\ "run" \in Places
    BY DEF Places
  <1>1. CASE LockCall(t)
    <2>1. /\ pc[t] = "run" /\ pc' = [pc EXCEPT ![t] = "acquire"]
          /\ UNCHANGED <<tcb, joined, mutex, cond>>
      BY <1>1 DEF LockCall, At, Goto
    <2>2. Joins'
      BY <1>0, <2>1, JoinsFrame DEF tcb
    <2>3. Locked'
      BY <1>0, <2>1, LockedFrame DEF mutex, cond, InGuard, WaitCalled
    <2>4. MainFree'
      BY <1>1, StayKeeps DEF LockCall, Stay
    <2>5. Typed'
      BY <1>0, <2>1, MoveFacts DEF Inv, Typed, tcb, mutex, cond
    <2> QED BY <2>2, <2>3, <2>4, <2>5 DEF Inv
  <1>2. CASE LockTaken(t)
    <2>1. /\ pc[t] = "acquire" /\ pc' = [pc EXCEPT ![t] = "run"]
          /\ lock = 0 /\ lock' = 1 /\ holds' = holds \cup {t}
          /\ UNCHANGED <<tcb, joined, cond>>
      BY <1>2 DEF LockTaken, Acquire, At, Goto
    <2>2. Joins'
      BY <1>0, <2>1, JoinsFrame DEF tcb
    <2>3. IsFiniteSet(holds') /\ Cardinality(holds') = lock'
      <3>1. holds = {} /\ IsFiniteSet({t}) /\ Cardinality({t}) = 1
        BY <2>1, AddMember DEF Inv, Locked
      <3>2. holds' = {t}
        BY <2>1, <3>1
      <3> QED BY <2>1, <3>1, <3>2
    <2>4. pc'[t] = "run" /\ \A u \in Threads : u # t => pc'[u] = pc[u]
      BY <1>0, <2>1, MoveFacts DEF Inv
    <2>5. Inside' = Inside
      BY <2>1, <2>4 DEF Inside, InGuard
    <2>6. Locked'
      BY <2>1, <2>3, <2>4, <2>5 DEF Inv, Locked, WaitCalled, cond
    <2>7. MainFree'
      BY <1>2, StayKeeps DEF LockTaken, Stay
    <2>8. Typed'
      BY <1>0, <2>1, MoveFacts DEF Inv, Typed, tcb, cond
    <2> QED BY <2>2, <2>6, <2>7, <2>8 DEF Inv
  <1>3. CASE Unlock(t)
    <2>1. /\ pc[t] = "run" /\ t \in holds /\ lock' = 0 /\ holds' = holds \ {t}
          /\ UNCHANGED <<tcb, joined, pc, cond>>
      BY <1>3 DEF Unlock, Release, At
    <2>2. Inside' = Inside /\ Pending' = Pending
      BY <2>1 DEF Inside, Pending, tcb
    <2>3. Joins'
      BY <2>1, <2>2 DEF Inv, Joins, tcb
    <2>4. IsFiniteSet(holds') /\ Cardinality(holds') = lock'
      BY <2>1, RemoveMember DEF Inv, Typed, Locked
    <2>5. Locked'
      BY <2>1, <2>2, <2>4 DEF Inv, Locked, WaitCalled, cond
    <2>6. MainFree'
      BY <1>3, StayKeeps DEF Unlock, Stay
    <2>7. Typed'
      BY <2>1 DEF Inv, Typed, tcb, cond
    <2> QED BY <2>3, <2>5, <2>6, <2>7 DEF Inv
  <1> QED BY <1>1, <1>2, <1>3

\* A step of a thread from one place to another that concerns neither joins
\* nor the two locks.
LEMMA WalkKeeps ==
    ASSUME Inv, NEW t \in Threads, NEW here, NEW there \in Places,
           At(t, here), Goto(t, there),
           here \notin {"exit", "end"}, there \notin {"exit", "end"},
           here \in InGuard <=> there \in InGuard,
           there \in WaitCalled => t \in holds,
           UNCHANGED <<running_tcb, where, tcb, joined, mutex, guard>>
    PROVE  Inv'
  <1>1. pc[t] = here /\ pc' = [pc EXCEPT ![t] = there]
    BY DEF At, Goto
  <1>2. Joins'
    BY <1>1, JoinsFrame DEF tcb
  <1>3. Locked'
    BY <1>1, LockedFrame DEF mutex
  <1>4. MainFree'
    BY StayKeeps
  <1>5. Typed'
    BY <1>1, MoveFacts DEF Inv, Typed, tcb, mutex
  <1> QED BY <1>2, <1>3, <1>4, <1>5 DEF Inv

\* The lock inside the condition variable.
LEMMA GuardKeeps ==
    ASSUME Inv, NEW t \in Threads, NEW here, NEW there \in Places,
           \/ /\ GuardTaken(t, here, there)
              /\ here \notin InGuard /\ there \in InGuard
           \/ /\ GuardReleased(t, here, there)
              /\ here \in InGuard /\ there \notin InGuard,
           here \notin {"exit", "end"}, there \notin {"exit", "end"},
           there \in WaitCalled => t \in holds
    PROVE  Inv'
  <1>1. /\ pc[t] = here /\ pc' = [pc EXCEPT ![t] = there]
        /\ UNCHANGED <<running_tcb, where, tcb, joined, mutex>>
    BY DEF GuardTaken, GuardReleased, At, Goto, Stay
  <1>2. pc'[t] = there /\ \A u \in Threads : u # t => pc'[u] = pc[u]
    BY <1>1, MoveFacts DEF Inv
  <1>3. Joins'
    BY <1>1, JoinsFrame DEF tcb
  <1>4. MainFree'
    BY <1>1, StayKeeps DEF GuardTaken, GuardReleased
  <1>5. guard' \in 0 .. 1 /\ IsFiniteSet(Inside') /\ Cardinality(Inside') = guard'
    <2>1. CASE GuardTaken(t, here, there) /\ here \notin InGuard /\ there \in InGuard
      <3>1. guard = 0 /\ guard' = 1
        BY <2>1 DEF GuardTaken
      <3>2. Inside = {} /\ IsFiniteSet({t}) /\ Cardinality({t}) = 1
        BY <3>1, AddMember DEF Inv, Locked
      <3>3. Inside' = {t}
        BY <1>2, <2>1, <3>2 DEF Inside
      <3> QED BY <3>1, <3>2, <3>3
    <2>2. CASE GuardReleased(t, here, there) /\ here \in InGuard /\ there \notin InGuard
      <3>1. guard' = 0
        BY <2>2 DEF GuardReleased
      <3>2. t \in Inside
        BY <1>1, <2>2 DEF Inside
      <3>3. IsFiniteSet(Inside \ {t}) /\ Cardinality(Inside \ {t}) = 0
        BY <3>2, RemoveMember DEF Inv, Typed, Locked
      <3>4. Inside' = Inside \ {t}
        BY <1>2, <2>2 DEF Inside
      <3> QED BY <3>1, <3>3, <3>4
    <2> QED BY <2>1, <2>2
  <1>6. Locked'
    BY <1>1, <1>2, <1>5 DEF Inv, Locked, mutex
  <1>7. Typed'
    BY <1>1, <1>5, MoveFacts DEF Inv, Typed, tcb, mutex
  <1> QED BY <1>3, <1>4, <1>6, <1>7 DEF Inv

\* cond_wait, cond_signal and cond_brodcast.
LEMMA CondKeeps ==
    ASSUME Inv, NEW t \in Threads,
           \/ WaitCall(t) \/ SignalCall(t) \/ BroadcastCall(t)
           \/ GuardAcquire(t) \/ GuardRelease(t)
           \/ WaitPush(t) \/ SignalPop(t) \/ SignalPush(t)
    PROVE  Inv'
  <1>0. InGuard \cup WaitCalled \cup {"run", "sig_acquire", "bc_acquire"} \subseteq Places
    BY DEF InGuard, WaitCalled, Places
  <1>1. pc[t] \in WaitCalled => t \in holds
    BY DEF Inv, Locked
  <1>2. CASE WaitCall(t) \/ SignalCall(t) \/ BroadcastCall(t)
    BY <1>0, <1>2, WalkKeeps
    DEF WaitCall, SignalCall, BroadcastCall, Enter, Stay, InGuard, WaitCalled, cond
  <1>3. CASE GuardAcquire(t)
    <2>1. CASE GuardTaken(t, "wait_acquire", "wait_push")
      <3>1. t \in holds
        BY <1>1, <2>1 DEF GuardTaken, At, WaitCalled
      <3> QED BY <1>0, <2>1, <3>1, GuardKeeps DEF InGuard, WaitCalled
    <2>2. CASE GuardTaken(t, "sig_acquire", "sig_pop")
      BY <1>0, <2>2, GuardKeeps DEF InGuard, WaitCalled
    <2>3. CASE GuardTaken(t, "bc_acquire", "bc_pop")
      BY <1>0, <2>3, GuardKeeps DEF InGuard, WaitCalled
    <2> QED BY <1>3, <2>1, <2>2, <2>3 DEF GuardAcquire
  <1>4. CASE GuardRelease(t)
    <2>1. CASE GuardReleased(t, "wait_release", "wait_sleep")
      <3>1. t \in holds
        BY <1>1, <2>1 DEF GuardReleased, At, WaitCalled
      <3> QED BY <1>0, <2>1, <3>1, GuardKeeps DEF InGuard, WaitCalled
    <2>2. CASE GuardReleased(t, "sig_release", "run")
      BY <1>0, <2>2, GuardKeeps DEF InGuard, WaitCalled
    <2> QED BY <1>4, <2>1, <2>2 DEF GuardRelease
  <1>5. CASE WaitPush(t)
    <2>1. t \in holds
      BY <1>1, <1>5 DEF WaitPush, At, WaitCalled
    <2> QED BY <1>0, <1>5, <2>1, WalkKeeps DEF WaitPush, Stay, InGuard, WaitCalled
  <1>6. CASE SignalPop(t)
    <2>1. PICK p \in {<<"sig_pop", "sig_push">>, <<"bc_pop", "bc_push">>} :
              /\ At(t, p[1])
              /\ (Goto(t, "sig_release") \/ Goto(t, p[2]))
              /\ UNCHANGED <<running_tcb, where, tcb, joined, mutex, guard>>
      BY <1>6 DEF SignalPop, Stay
    <2> QED BY <1>0, <2>1, WalkKeeps DEF InGuard, WaitCalled
  <1>7. CASE SignalPush(t)
    <2>1. PICK p \in {<<"sig_push", "sig_release">>, <<"bc_push", "bc_pop">>} :
              /\ At(t, p[1]) /\ Goto(t, p[2])
              /\ UNCHANGED <<running_tcb, where, tcb, joined, mutex, guard>>
      BY <1>7 DEF SignalPush
    <2> QED BY <1>0, <2>1, WalkKeeps DEF InGuard, WaitCalled
  <1> QED BY <1>2, <1>3, <1>4, <1>5, <1>6, <1>7

\* A thread in cond_wait gives up the lock and goes to sleep.
LEMMA SleepKeeps == ASSUME Inv, NEW t \in Threads, WaitSleep(t) PROVE Inv'
  <1>1. /\ pc[t] = "wait_sleep" /\ pc' = [pc EXCEPT ![t] = "acquire"] /\ "acquire" \in Places
        /\ lock' = 0 /\ holds' = holds \ {t}
        /\ status' = [status EXCEPT ![t] = 2] /\ Scheduler(status', join)
        /\ UNCHANGED <<join, joining_thread, joined, cond>>
    BY DEF WaitSleep, At, Goto, Release, Places
  <1>2. Joins'
    BY <1>1, JoinsFrame
  <1>3. t \in holds
    BY <1>1 DEF Inv, Locked, WaitCalled
  <1>4. IsFiniteSet(holds') /\ Cardinality(holds') = lock'
    BY <1>1, <1>3, RemoveMember DEF Inv, Typed, Locked
  <1>5. pc'[t] = "acquire" /\ \A u \in Threads : u # t => pc'[u] = pc[u]
    BY <1>1, MoveFacts DEF Inv
  <1>6. Inside' = Inside
    BY <1>1, <1>5 DEF Inside, InGuard
  <1>7. Locked'
    BY <1>1, <1>4, <1>5, <1>6 DEF Inv, Locked, WaitCalled, cond
  <1>8. MainFree'
    BY <1>1, SchedulerKeeps DEF Inv, Typed
  <1>9. Typed'
    BY <1>1, MoveFacts DEF Inv, Typed, cond
  <1> QED BY <1>2, <1>7, <1>8, <1>9 DEF Inv

-------------------------------------------------------------------------------
(* The theorems.                                                           *)

LEMMA InitInv == Init => Inv
  <1> SUFFICES ASSUME Init PROVE Inv
    OBVIOUS
  <1>1. Typed
    BY DEF Init, Typed, Places
  <1>2. Inside = {} /\ Pending = {}
    BY MainAssumption, NullAssumption DEF Init, Inside, Pending, InGuard
  <1>3. Locked
    BY <1>2, FS_EmptySet DEF Init, Locked, WaitCalled
  <1>4. Joins
    BY <1>2 DEF Init, Joins
  <1>5. MainFree
    BY DEF Init, MainFree
  <1> QED BY <1>1, <1>3, <1>4, <1>5 DEF Inv

LEMMA StepInv == Inv /\ [Next]_vars => Inv'
  <1> SUFFICES ASSUME Inv, [Next]_vars PROVE Inv'
    OBVIOUS
  <1>1. CASE SchedulerStep \/ Signal
    BY <1>1, ResumeKeeps, SignalKeeps DEF SchedulerStep, Signal
  <1>2. CASE MainStep
    BY <1>2, MainKeeps
  <1>3. ASSUME NEW t \in Threads, ThreadStep(t) PROVE Inv'
    BY <1>3, EndKeeps, LockKeeps, CondKeeps, SleepKeeps DEF ThreadStep
  <1>4. CASE UNCHANGED vars
    <2>1. UNCHANGED <<tcb, joined, pc, mutex, guard, running_tcb, where, join>>
      BY <1>4 DEF vars, cond, tcb
    <2>2. MainFree'
      BY <2>1 DEF Inv, MainFree, MainRuns
    <2> QED BY <2>1, <2>2, NobodyMoves DEF Inv
  <1> QED BY <1>1, <1>2, <1>3, <1>4 DEF Next

LEMMA Invariant == Spec => []Inv
  BY InitInv, StepInv, PTL DEF Spec

(***************************************************************************)
(* At most one thread is between acquire and release, and at most one is   *)
(* inside a condition variable, with any number of threads and wherever    *)
(* SIGALRM stops them.                                                     *)
(***************************************************************************)
THEOREM LocksExclude == Spec => []LockSafe
  <1>1. Inv => LockSafe
    BY DEF Inv, Locked, Inside, LockSafe
  <1> QED BY <1>1, Invariant, PTL

(***************************************************************************)
(* While a thread that main has registered with in myThread_join is        *)
(* unfinished, main does not run, by whichever way the scheduler is        *)
(* reached.  A join cut short by SIGALRM has not registered main.          *)
(***************************************************************************)
THEOREM JoinWaits == Spec => []MainWaits
  <1>1. Inv => MainWaits
    <2> SUFFICES ASSUME Inv, MainRuns, NEW t \in Threads, joining_thread[t] = Main
                 PROVE  status[t] = 1
      BY DEF MainWaits
    <2>1. Pending = {}
      BY DEF Inv, MainFree, Joins
    <2>2. pc[t] = "end"
      BY <2>1 DEF Pending
    <2> QED BY <2>2 DEF Inv, Joins
  <1> QED BY <1>1, Invariant, PTL

(***************************************************************************)
(* The queue ready.  Its inductive invariant, given Inv.                   *)
(***************************************************************************)
All == Threads \cup {Main}
Count(q, t) == Cardinality({k \in DOMAIN q : q[k] = t})

Shape ==
    /\ uses \subseteq {"cond", "exit"} /\ ready \in Seq(All) /\ running_tcb \in All
    /\ where \in {"thread", "resume", "exiting", "popped", "stuck", "corrupt", "exited"}
    /\ lost \subseteq Threads
    /\ waiting \in Seq(Threads) /\ temp \in [Threads -> Threads \cup {NULL}]

CondPlaces == {"wait_acquire", "wait_push", "wait_release", "wait_sleep", "sig_acquire", "sig_pop",
               "sig_push", "sig_release", "bc_acquire", "bc_pop", "bc_push"}

\* Only programs that use condition variables and myThread_exit get there; main,
\* and a thread that has not been created, neither finish nor wait.
Calls ==
    /\ \A t \in Threads : pc[t] \in CondPlaces \/ status[t] = 2 => "cond" \in uses
    /\ \A t \in Threads : pc[t] = "exit" => "exit" \in uses
    /\ \A t \in Threads : ~ Created(t) => status[t] = 0
    /\ status[Main] = 0

\* A waiter is in the queue of the condition variable, once, or in the temp of
\* the one who signals it.
Waiters ==
    /\ \A t \in Threads : temp[t] # NULL <=> pc[t] \in {"sig_push", "bc_push"}
    /\ \A t, u \in Threads : temp[t] = temp[u] /\ temp[t] # NULL => t = u
    /\ \A t \in Threads : temp[t] \notin ToSet(waiting)
    /\ IsInjective(waiting)

\* The head of ready is the running thread; it is empty before the first thread
\* is created, and after the scheduler of myThread_exit has taken out too many.
AtFront ==
    /\ where \in {"thread", "resume"} =>
          \/ ready # <<>> /\ Head(ready) = running_tcb
          \/ /\ ready = <<>> /\ where = "thread" /\ running_tcb = Main
             /\ \A t \in Threads : pc[t] = "none"
    /\ where \in {"exiting", "popped"} =>
          "exit" \in uses /\ running_tcb \in Threads /\ status[running_tcb] = 1
    /\ where = "exiting" => ready # <<>>

\* A thread that somebody is going to make ready.
Owed(t) == t \in ToSet(waiting) \/ \E u \in Threads : temp[u] = t

\* A thread is in ready once, or is owed its place there; it has both while it
\* waits and has not gone to sleep.
Most(t) == IF pc[t] \in {"wait_release", "wait_sleep"} THEN 2 ELSE 1

Bounded ==
    /\ Count(ready, Main) <= 1
    /\ \A t \in Threads :
          /\ Count(ready, t) <= Most(t)
          /\ Owed(t) => Count(ready, t) < Most(t)
          /\ ~ Created(t) => Count(ready, t) = 0 /\ ~ Owed(t)

\* What QueueOK says of threads that are neither finished nor waiting.
Present ==
    /\ "exit" \notin uses =>
          /\ ready # <<>> => Count(ready, Main) = 1
          /\ \A t \in Threads : Created(t) /\ status[t] = 0 => Count(ready, t) >= 1
    /\ uses = {} =>
          \A t \in Threads : Count(ready, t) = IF Created(t) /\ status[t] = 0 THEN 1 ELSE 0

USE DEF Created

Queue == Shape /\ Calls /\ Waiters /\ AtFront /\ Bounded /\ Present

-------------------------------------------------------------------------------
(* How often a thread is in a queue.                                       *)

LEMMA CountFinite ==
    ASSUME NEW S, NEW q \in Seq(S), NEW t
    PROVE  /\ IsFiniteSet({k \in DOMAIN q : q[k] = t}) /\ Count(q, t) \in Nat
           /\ Count(<<>>, t) = 0
  <1>1. Len(q) \in Nat /\ DOMAIN q = 1 .. Len(q)
    BY LenProperties
  <1>2. IsFiniteSet(1 .. Len(q))
    BY <1>1, FS_Interval
  <1>3. IsFiniteSet({k \in DOMAIN q : q[k] = t})
    BY <1>1, <1>2, FS_Subset
  <1>4. {k \in DOMAIN <<>> : <<>>[k] = t} = {}
    OBVIOUS
  <1> QED BY <1>3, <1>4, FS_CardinalityType, FS_EmptySet DEF Count

\* The queue r is q with x pushed.
Pushed(r, q, x) == r = Append(q, x)

LEMMA CountAppend ==
    ASSUME NEW S, NEW q \in Seq(S), NEW x \in S, NEW r, Pushed(r, q, x), NEW t
    PROVE  Count(r, t) = IF x = t THEN Count(q, t) + 1 ELSE Count(q, t)
  <1> DEFINE P == {k \in DOMAIN q : q[k] = t}
             n == Len(q)
  <1>1. /\ n \in Nat /\ DOMAIN q = 1 .. n /\ DOMAIN r = 1 .. n + 1
        /\ r[n + 1] = x /\ \A k \in 1 .. n : r[k] = q[k]
    BY LenProperties, AppendProperties DEF Pushed
  <1>2. IsFiniteSet(P)
    BY CountFinite
  <1>3. {k \in DOMAIN r : r[k] = t} = IF x = t THEN P \cup {n + 1} ELSE P
    BY <1>1
  <1>4. n + 1 \notin P
    BY <1>1
  <1> QED BY <1>2, <1>3, <1>4, FS_AddElement DEF Count

LEMMA CountTail ==
    ASSUME NEW S, NEW q \in Seq(S), q # <<>>, NEW r, r = Tail(q), NEW t
    PROVE  Count(r, t) = IF Head(q) = t THEN Count(q, t) - 1 ELSE Count(q, t)
  <1> DEFINE P == {k \in DOMAIN q : q[k] = t}
             T == {k \in DOMAIN r : r[k] = t}
             n == Len(q)
  <1>1. /\ n \in Nat \ {0} /\ DOMAIN q = 1 .. n /\ DOMAIN r = 1 .. n - 1 /\ Head(q) = q[1]
        /\ r \in Seq(S) /\ \A k \in 1 .. n - 1 : r[k] = q[k + 1]
    BY LenProperties, HeadTailProperties
  <1>2. IsFiniteSet(P) /\ IsFiniteSet(T)
    <2>1. IsFiniteSet(P)
      BY CountFinite
    <2>2. r \in Seq(S)
      BY <1>1
    <2>3. IsFiniteSet(T)
      BY <2>2, CountFinite
    <2> QED BY <2>1, <2>3
  <1>3. Cardinality(T) = Cardinality(P \ {1})
    <2> DEFINE f == [k \in T |-> k + 1]
    <2>1. \A k \in T : k \in 1 .. n - 1 /\ k + 1 \in P \ {1}
      BY <1>1
    <2>2. \A k \in P \ {1} : k - 1 \in T /\ (k - 1) + 1 = k
      BY <1>1
    <2> HIDE DEF T, P
    <2>3. f \in [T -> P \ {1}] /\ \A k \in T : f[k] = k + 1
      BY <2>1
    <2>4. \A j, k \in T : f[j] = f[k] => j = k
      BY <2>1, <2>3
    <2>5. \A k \in P \ {1} : \E j \in T : f[j] = k
      BY <2>2, <2>3
    <2> HIDE DEF f
    <2>6. f \in Bijection(T, P \ {1})
      BY <2>3, <2>4, <2>5 DEF Bijection, Injection, Surjection, IsInjective
    <2>7. ExistsBijection(T, P \ {1})
      BY <2>6 DEF ExistsBijection
    <2> QED BY <1>2, <2>7, FS_Bijection
  <1>4. 1 \in P <=> Head(q) = t
    BY <1>1
  <1> QED BY <1>2, <1>3, <1>4, FS_RemoveElement DEF Count

-------------------------------------------------------------------------------
(* What the scheduler does to the queue.                                   *)

\* Going to the thread at the head of q keeps its elements.
LEMMA DispatchQueue ==
    ASSUME NEW q \in Seq(All), NEW j, Dispatch(q, j), running_tcb \in All
    PROVE  /\ ready' \in Seq(All) /\ \A t : Count(ready', t) = Count(q, t)
           /\ running_tcb' \in All /\ where' \in {"thread", "resume", "stuck", "corrupt"}
           /\ where' \in {"thread", "resume"} => ready' # <<>> /\ Head(ready') = running_tcb'
  <1> DEFINE held == q # <<>> /\ Head(q) = Main /\ HeldBack(j)
             queue == IF held THEN Append(Tail(q), Main) ELSE q
  <1>1. /\ ready' = queue
        /\ running_tcb' = IF queue = <<>> THEN running_tcb ELSE Head(queue)
        /\ where' = CASE queue = <<>> -> "corrupt"
                      [] queue # <<>> /\ held /\ Head(queue) = Main -> "stuck"
                      [] queue # <<>> /\ ~held /\ Head(queue) = Main -> "thread"
                      [] OTHER -> "resume"
    BY DEF Dispatch
  <1>2. queue \in Seq(All) /\ \A t : Count(queue, t) = Count(q, t)
    <2>1. CASE held
      <3> DEFINE rest == Tail(q)
      <3>1. rest \in Seq(All) /\ Main \in All
        BY <2>1, HeadTailProperties DEF All
      <3>2. \A t : /\ Count(rest, t) = IF Main = t THEN Count(q, t) - 1 ELSE Count(q, t)
                   /\ Count(q, t) \in Nat
        BY <2>1, CountTail, CountFinite
      <3>3. queue = Append(rest, Main) /\ Pushed(queue, rest, Main)
        BY <2>1 DEF Pushed
      <3> HIDE DEF rest, queue
      <3>4. ASSUME NEW t
            PROVE  Count(queue, t) = IF Main = t THEN Count(rest, t) + 1 ELSE Count(rest, t)
        <4>1. Pushed(queue, rest, Main)
          BY <3>3
        <4> QED BY <3>1, <4>1, CountAppend
      <3>5. queue \in Seq(All)
        BY <3>1, <3>3, AppendProperties
      <3> QED BY <3>2, <3>4, <3>5
    <2>2. CASE ~held
      BY <2>2
    <2> QED BY <2>1, <2>2
  <1> HIDE DEF queue, held
  <1>3. queue # <<>> => Head(queue) \in All
    BY <1>2, HeadTailProperties
  <1>4. where' \in {"thread", "resume", "stuck", "corrupt"} /\ (queue = <<>> => where' = "corrupt")
    BY <1>1
  <1> QED BY <1>1, <1>2, <1>3, <1>4

\* The scheduler turns the queue, or takes the thread at its head out.
LEMMA SchedulerQueue ==
    ASSUME Shape, ready # <<>>, NEW s, NEW j, Scheduler(s, j)
    PROVE  /\ ready' \in Seq(All) /\ running_tcb' \in All
           /\ where' \in {"thread", "resume", "stuck", "corrupt"}
           /\ where' \in {"thread", "resume"} => ready' # <<>> /\ Head(ready') = running_tcb'
           /\ \A t : Count(ready, t) \in Nat /\ Count(ready', t) \in Nat
           /\ Drop(s, running_tcb) =>
                 \A t : Count(ready', t) = IF Head(ready) = t THEN Count(ready, t) - 1
                                                              ELSE Count(ready, t)
           /\ ~ Drop(s, running_tcb) /\ Head(ready) = running_tcb =>
                 \A t : Count(ready', t) = Count(ready, t)
  <1> DEFINE rest == Tail(ready)
             long == Append(rest, running_tcb)
             q == IF Drop(s, running_tcb) THEN rest ELSE long
  <1>1. Dispatch(q, j)
    BY DEF Scheduler
  <1>2. ready \in Seq(All) /\ running_tcb \in All
    BY DEF Shape
  <1>3. rest \in Seq(All) /\ Head(ready) \in All
    BY <1>2, HeadTailProperties
  <1>4. \A t : /\ Count(rest, t) = IF Head(ready) = t THEN Count(ready, t) - 1 ELSE Count(ready, t)
               /\ Count(ready, t) \in Nat
    BY <1>2, CountTail, CountFinite
  <1> HIDE DEF rest
  <1>5. long \in Seq(All)
    BY <1>2, <1>3, AppendProperties
  <1>6. ASSUME NEW t
        PROVE  Count(long, t) = IF running_tcb = t THEN Count(rest, t) + 1 ELSE Count(rest, t)
    <2>1. Pushed(long, rest, running_tcb)
      BY DEF Pushed
    <2> HIDE DEF long
    <2> QED BY <1>2, <1>3, <2>1, CountAppend
  <1>7. q \in Seq(All)
    BY <1>3, <1>5
  <1> HIDE DEF long, q
  <1>8. /\ ready' \in Seq(All) /\ \A t : Count(ready', t) = Count(q, t)
        /\ running_tcb' \in All /\ where' \in {"thread", "resume", "stuck", "corrupt"}
        /\ where' \in {"thread", "resume"} => ready' # <<>> /\ Head(ready') = running_tcb'
    BY <1>1, <1>2, <1>7, DispatchQueue
  <1>9. \A t : Count(ready', t) \in Nat
    BY <1>8, CountFinite
  <1> QED BY <1>4, <1>6, <1>8, <1>9 DEF q

\* The thread that runs is in the queue.
LEMMA RunningInQueue ==
    ASSUME Queue, NEW t \in Threads, where = "thread", running_tcb = t
    PROVE  /\ ready # <<>> /\ Head(ready) = t /\ Head(ready) = running_tcb
           /\ Count(ready, t) \in Nat /\ Count(ready, t) >= 1
  <1>1. ready # <<>> /\ Head(ready) = t
    BY MainAssumption DEF Queue, AtFront
  <1>2. ready \in Seq(All)
    BY DEF Queue, Shape
  <1> DEFINE rest == Tail(ready)
  <1>3. rest \in Seq(All)
    BY <1>1, <1>2, HeadTailProperties
  <1>4. Count(rest, t) = Count(ready, t) - 1
    BY <1>1, <1>2, CountTail
  <1> HIDE DEF rest
  <1>5. Count(rest, t) \in Nat /\ Count(ready, t) \in Nat
    BY <1>2, <1>3, CountFinite
  <1> QED BY <1>1, <1>4, <1>5

-------------------------------------------------------------------------------
(* Steps that keep the queue right.                                        *)

\* What a step outside the library leaves as it was.
LEMMA OutsideFacts ==
    ASSUME Inv, Outside, NEW t \in Threads
    PROVE  /\ Created(t)' <=> Created(t)
           /\ pc'[t] \in CondPlaces <=> pc[t] \in CondPlaces
           /\ pc'[t] = "exit" <=> pc[t] = "exit"
           /\ pc'[t] \in {"sig_push", "bc_push"} <=> pc[t] \in {"sig_push", "bc_push"}
           /\ Most(t)' = Most(t) /\ Most(t) \in Nat
  <1>1. pc \in [Threads -> Places]
    BY DEF Inv, Typed
  <1>2. \/ pc'[t] = pc[t]
        \/ pc[t] = "start" /\ pc'[t] = "run"
        \/ pc[t] = "none" /\ pc'[t] = "uncreated"
    BY <1>1 DEF Outside
  <1> QED BY <1>2 DEF CondPlaces, Most

\* A step that moves nobody in the library, keeps who is owed a place, and at most
\* loses elements of ready: only after myThread_exit those of threads that go on.
LEMMA TurnKeeps ==
    ASSUME Inv, Queue, Shape', AtFront', Outside, UNCHANGED <<uses, status, waiting, temp>>,
           \A t : /\ Count(ready', t) \in Nat /\ Count(ready, t) \in Nat
                  /\ Count(ready', t) <= Count(ready, t)
                  /\ "exit" \notin uses /\ status[t] = 0 => Count(ready', t) = Count(ready, t),
           ready # <<>> \/ "exit" \in uses
    PROVE  Queue'
  <1>1. \A t : Owed(t)' <=> Owed(t)
    BY DEF Owed
  <1>2. \A t \in Threads :
            /\ Created(t)' <=> Created(t)
            /\ pc'[t] \in CondPlaces <=> pc[t] \in CondPlaces
            /\ pc'[t] = "exit" <=> pc[t] = "exit"
            /\ pc'[t] \in {"sig_push", "bc_push"} <=> pc[t] \in {"sig_push", "bc_push"}
            /\ Most(t)' = Most(t) /\ Most(t) \in Nat
    BY OutsideFacts
  <1> HIDE DEF Created
  <1>3. Calls' /\ Waiters'
    BY <1>2 DEF Queue, Calls, Waiters
  <1>4. Bounded'
    <2>1. Count(ready', Main) <= 1
      BY DEF Queue, Bounded
    <2>2. ASSUME NEW t \in Threads
          PROVE  /\ Count(ready', t) <= Most(t)'
                 /\ Owed(t)' => Count(ready', t) < Most(t)'
                 /\ ~ Created(t)' => Count(ready', t) = 0 /\ ~ Owed(t)'
      BY <1>1, <1>2 DEF Queue, Bounded
    <2> QED BY <2>1, <2>2 DEF Bounded
  <1>5. Present'
    <2>1. status[Main] = 0
      BY DEF Queue, Calls
    <2> QED BY <1>2, <2>1 DEF Queue, Present
  <1> QED BY <1>3, <1>4, <1>5 DEF Queue

\* A step of t from one place to another that leaves the queues alone.
LEMMA WalkQueue ==
    ASSUME Inv, Queue, NEW t \in Threads, NEW l \in Places, pc' = [pc EXCEPT ![t] = l],
           UNCHANGED <<uses, status, ready, running_tcb, waiting, temp>>,
           lost' \subseteq Threads,
           pc[t] \notin {"none", "uncreated", "sig_push", "bc_push"},
           l \notin {"none", "uncreated", "sig_push", "bc_push", "exit"},
           pc[t] \in {"wait_release", "wait_sleep"} <=> l \in {"wait_release", "wait_sleep"},
           l \in CondPlaces => "cond" \in uses,
           where' \in {"thread", "corrupt"} /\ where \in {"thread", "resume"}
    PROVE  Queue'
  <1>1. pc'[t] = l /\ \A u \in Threads : u # t => pc'[u] = pc[u]
    BY MoveFacts DEF Inv
  <1>2. Shape'
    BY DEF Queue, Shape
  <1>3. Calls' /\ Waiters'
    BY <1>1 DEF Queue, Calls, Waiters
  <1>4. AtFront'
    BY <1>1 DEF Queue, AtFront
  <1>5. \A u \in Threads : Owed(u)' <=> Owed(u)
    BY DEF Owed
  <1>6. Bounded'
    <2>1. Count(ready', Main) <= 1
      BY DEF Queue, Bounded
    <2>2. ASSUME NEW u \in Threads
          PROVE  /\ Count(ready', u) <= Most(u)'
                 /\ Owed(u)' => Count(ready', u) < Most(u)'
                 /\ ~ Created(u)' => Count(ready', u) = 0 /\ ~ Owed(u)'
      BY <1>1, <1>5 DEF Queue, Bounded, Most
    <2> QED BY <2>1, <2>2 DEF Bounded
  <1>7. Present'
    BY <1>1 DEF Queue, Present
  <1> QED BY <1>2, <1>3, <1>4, <1>6, <1>7 DEF Queue

\* t leaves the queue: it has finished, or goes to sleep.
LEMMA LeaveKeeps ==
    ASSUME Inv, Queue, NEW t \in Threads, NEW l \in {"end", "acquire"}, NEW n \in 1 .. 2,
           pc[t] \in {"run", "wait_sleep"}, pc' = [pc EXCEPT ![t] = l],
           status' = [status EXCEPT ![t] = n], n = 2 => "cond" \in uses,
           Shape', AtFront', UNCHANGED <<uses, waiting, temp>>,
           Count(ready, t) >= 1, ready # <<>>,
           \A u : /\ Count(ready, u) \in Nat
                  /\ Count(ready', u) = IF t = u THEN Count(ready, u) - 1 ELSE Count(ready, u)
    PROVE  Queue'
  <1>1. /\ pc'[t] = l /\ \A u \in Threads : u # t => pc'[u] = pc[u]
        /\ l \in Places
    <2>1. l \in Places
      BY DEF Places
    <2> QED BY <2>1, MoveFacts DEF Inv
  <1>2. /\ status'[t] = n /\ \A u \in All : u # t => status'[u] = status[u]
    BY DEF Inv, Typed, All
  <1>3. t # Main /\ Main \in All /\ Threads \subseteq All
    BY MainAssumption DEF All
  <1>4. Calls'
    BY <1>1, <1>2, <1>3 DEF Queue, Calls, CondPlaces
  <1>5. Waiters'
    BY <1>1 DEF Queue, Waiters
  <1>6. \A u \in Threads : Owed(u)' <=> Owed(u)
    BY DEF Owed
  <1>7. Bounded'
    <2>1. Count(ready', Main) <= 1
      BY <1>3 DEF Queue, Bounded
    <2>2. ASSUME NEW u \in Threads
          PROVE  /\ Count(ready', u) <= Most(u)'
                 /\ Owed(u)' => Count(ready', u) < Most(u)'
                 /\ ~ Created(u)' => Count(ready', u) = 0 /\ ~ Owed(u)'
      <3>1. /\ Count(ready, u) <= Most(u)
            /\ Owed(u) => Count(ready, u) < Most(u)
            /\ ~ Created(u) => Count(ready, u) = 0 /\ ~ Owed(u)
        BY DEF Queue, Bounded
      <3>2. CASE u # t
        BY <1>1, <1>6, <3>1, <3>2 DEF Most
      <3>3. CASE u = t
        <4>1. Most(u)' = 1 /\ Most(u) <= 2 /\ Most(u) \in Nat /\ Created(u)'
          BY <1>1, <3>3 DEF Most
        <4> QED BY <1>6, <3>1, <3>3, <4>1
      <3> QED BY <3>2, <3>3
    <2> QED BY <2>1, <2>2 DEF Bounded
  <1>8. Present'
    <2>1. "exit" \notin uses =>
              /\ ready' # <<>> => Count(ready', Main) = 1
              /\ \A u \in Threads : Created(u)' /\ status'[u] = 0 => Count(ready', u) >= 1
      BY <1>1, <1>2, <1>3 DEF Queue, Present
    <2>2. ASSUME uses = {}, NEW u \in Threads
          PROVE  Count(ready', u) = IF Created(u)' /\ status'[u] = 0 THEN 1 ELSE 0
      <3>1. Count(ready, u) = IF Created(u) /\ status[u] = 0 THEN 1 ELSE 0
        BY <2>2 DEF Queue, Present
      <3>2. CASE u # t
        BY <1>1, <1>2, <1>3, <3>1, <3>2
      <3>3. CASE u = t
        BY <1>1, <1>2, <3>1, <3>3
      <3> QED BY <3>2, <3>3
    <2> QED BY <2>1, <2>2 DEF Present
  <1> QED BY <1>4, <1>5, <1>7, <1>8 DEF Queue

\* The scheduler is reached with the running thread at the head of ready.
LEMMA TurnsQueue ==
    ASSUME Inv, Queue, ready # <<>>, Head(ready) = running_tcb, NEW j, Scheduler(status, j),
           Outside, UNCHANGED <<uses, status, waiting, temp>>, lost' \subseteq Threads
    PROVE  Queue'
  <1>1. Shape
    BY DEF Queue
  <1>2. /\ ready' \in Seq(All) /\ running_tcb' \in All
        /\ where' \in {"thread", "resume", "stuck", "corrupt"}
        /\ where' \in {"thread", "resume"} => ready' # <<>> /\ Head(ready') = running_tcb'
        /\ \A t : Count(ready, t) \in Nat /\ Count(ready', t) \in Nat
        /\ Drop(status, running_tcb) =>
              \A t : Count(ready', t) = IF Head(ready) = t THEN Count(ready, t) - 1
                                                           ELSE Count(ready, t)
        /\ ~ Drop(status, running_tcb) => \A t : Count(ready', t) = Count(ready, t)
    BY <1>1, SchedulerQueue
  <1>3. Shape' /\ AtFront'
    BY <1>1, <1>2 DEF Shape, AtFront
  <1>4. ASSUME NEW t
        PROVE  /\ Count(ready', t) <= Count(ready, t)
               /\ status[t] = 0 => Count(ready', t) = Count(ready, t)
    <2>1. CASE Drop(status, running_tcb)
      <3>1. status[running_tcb] # 0
        BY <2>1 DEF Drop
      <3> QED BY <1>2, <2>1, <3>1
    <2>2. CASE ~ Drop(status, running_tcb)
      BY <1>2, <2>2
    <2> QED BY <2>1, <2>2
  <1> QED BY <1>2, <1>3, <1>4, TurnKeeps

\* A step that changes only where.
LEMMA HaltQueue ==
    ASSUME Queue, where' \in {"corrupt", "exited"},
           UNCHANGED <<uses, status, pc, waiting, temp, ready, running_tcb, lost>>
    PROVE  Queue'
  <1>1. Shape' /\ AtFront'
    BY DEF Queue, Shape, AtFront
  <1>2. \A t : Owed(t)' = Owed(t) /\ Most(t)' = Most(t)
    BY DEF Owed, Most
  <1>3. Calls' /\ Waiters' /\ Present'
    BY DEF Queue, Calls, Waiters, Present
  <1>4. Bounded'
    BY <1>2 DEF Queue, Bounded
  <1> QED BY <1>1, <1>3, <1>4 DEF Queue

\* SIGALRM stops whatever runs.
LEMMA SignalQueue == ASSUME Inv, Queue, Signal PROVE Queue'
  <1>1. UNCHANGED <<uses, status, waiting, temp>>
    BY DEF Signal, Preempt, PreemptPush, PreemptResume, PreemptExit, tcb, cond
  <1>6. Outside
    BY ResumeKeeps DEF Signal, Preempt, PreemptPush, PreemptExit, Outside
  <1>2. CASE Preempt
    <2>1. Head(ready) = running_tcb /\ ready # <<>> /\ Scheduler(status, join)
      BY <1>2 DEF Preempt, Queue, AtFront
    <2>2. lost' \subseteq Threads
      BY <1>2 DEF Preempt, Queue, Shape
    <2> QED BY <1>1, <1>6, <2>1, <2>2, TurnsQueue
  <1>3. CASE PreemptPush
    BY <1>1, <1>3, HaltQueue DEF PreemptPush
  <1>4. CASE PreemptResume
    <2>1. ready # <<>> /\ Head(ready) = running_tcb /\ Scheduler(status, join)
      BY <1>4 DEF PreemptResume, Queue, AtFront
    <2>2. running_tcb \in Threads
      BY <1>4 DEF PreemptResume, Queue, Shape, Inv, MainFree, All
    <2>3. lost' \subseteq Threads
      BY <1>4, <2>2 DEF PreemptResume, Queue, Shape
    <2> QED BY <1>1, <1>6, <2>1, <2>3, TurnsQueue
  <1>5. CASE PreemptExit
    <2>1. /\ where \in {"exiting", "popped"} /\ lost' = lost
          /\ "exit" \in uses /\ status[running_tcb] = 1
      BY <1>5 DEF PreemptExit, Queue, AtFront
    <2>2. Drop(status, running_tcb)
      BY <2>1 DEF Drop
    <2>3. CASE ready = <<>>
      <3>1. Dispatch(ready, join) /\ ready \in Seq(All) /\ running_tcb \in All
        BY <1>5, <2>3 DEF PreemptExit, Queue, Shape
      <3>2. /\ ready' \in Seq(All) /\ \A t : Count(ready', t) = Count(ready, t)
            /\ running_tcb' \in All /\ where' \in {"thread", "resume", "stuck", "corrupt"}
            /\ where' \in {"thread", "resume"} => ready' # <<>> /\ Head(ready') = running_tcb'
        BY <3>1, DispatchQueue
      <3>3. \A t : Count(ready, t) \in Nat
        BY <3>1, CountFinite
      <3>4. Shape' /\ AtFront'
        BY <1>1, <2>1, <3>2 DEF Queue, Shape, AtFront
      <3> QED BY <1>1, <1>6, <2>1, <3>2, <3>3, <3>4, TurnKeeps
    <2>4. CASE ready # <<>>
      <3>1. Scheduler(status, join) /\ Shape
        BY <1>5, <2>4 DEF PreemptExit, Queue
      <3>2. /\ ready' \in Seq(All) /\ running_tcb' \in All
            /\ where' \in {"thread", "resume", "stuck", "corrupt"}
            /\ where' \in {"thread", "resume"} => ready' # <<>> /\ Head(ready') = running_tcb'
            /\ \A t : Count(ready, t) \in Nat /\ Count(ready', t) \in Nat
            /\ \A t : Count(ready', t) = IF Head(ready) = t THEN Count(ready, t) - 1
                                                            ELSE Count(ready, t)
        BY <2>2, <2>4, <3>1, SchedulerQueue
      <3>3. Shape' /\ AtFront'
        BY <1>1, <2>1, <3>1, <3>2 DEF Shape, AtFront
      <3>4. \A t : Count(ready', t) <= Count(ready, t)
        BY <3>2
      <3> QED BY <1>1, <1>6, <2>1, <3>2, <3>3, <3>4, TurnKeeps
    <2> QED BY <2>3, <2>4
  <1> QED BY <1>2, <1>3, <1>4, <1>5 DEF Signal

\* The scheduler's own steps.
LEMMA SchedulerStepQueue == ASSUME Inv, Queue, SchedulerStep PROVE Queue'
  <1>1. CASE Resume
    <2>1. /\ where = "resume" /\ where' \in {"thread", "corrupt"}
          /\ pc' = [pc EXCEPT ![running_tcb] = IF pc[running_tcb] = "start" THEN "run"
                                               ELSE pc[running_tcb]]
          /\ UNCHANGED <<uses, status, ready, running_tcb, waiting, temp, lost>>
      BY <1>1 DEF Resume, tcb, cond
    <2>2. running_tcb \in Threads /\ lost' \subseteq Threads
      BY <2>1 DEF Queue, Shape, Inv, MainFree, All
    <2>3. CASE pc[running_tcb] = "start"
      <3>1. pc' = [pc EXCEPT ![running_tcb] = "run"] /\ "run" \in Places
        BY <2>1, <2>3 DEF Places
      <3> QED BY <2>1, <2>2, <2>3, <3>1, WalkQueue DEF CondPlaces
    <2>4. CASE pc[running_tcb] # "start"
      <3>1. pc' = pc
        BY <2>1, <2>2, <2>4 DEF Inv, Typed
      <3>2. Shape' /\ AtFront'
        BY <2>1, <3>1 DEF Queue, Shape, AtFront
      <3>3. ready # <<>>
        BY <2>1 DEF Queue, AtFront
      <3>4. \A t : Count(ready, t) \in Nat
        BY CountFinite DEF Queue, Shape
      <3> QED BY <2>1, <3>1, <3>2, <3>3, <3>4, TurnKeeps DEF Outside
    <2> QED BY <2>3, <2>4
  <1>2. CASE ExitPop
    <2>1. /\ where = "exiting" /\ where' = "popped" /\ ready' = Tail(ready)
          /\ UNCHANGED <<uses, status, pc, running_tcb, waiting, temp, lost>>
      BY <1>2 DEF ExitPop, tcb, cond
    <2>2. /\ ready # <<>> /\ "exit" \in uses /\ ready \in Seq(All)
      BY <2>1 DEF Queue, Shape, AtFront
    <2>3. ready' \in Seq(All)
      BY <2>1, <2>2, HeadTailProperties
    <2>4. \A t : Count(ready', t) = IF Head(ready) = t THEN Count(ready, t) - 1 ELSE Count(ready, t)
      BY <2>1, <2>2, CountTail
    <2>5. \A t : Count(ready, t) \in Nat /\ Count(ready', t) \in Nat
      BY <2>2, <2>3, CountFinite
    <2>6. Shape' /\ AtFront'
      BY <2>1, <2>3 DEF Queue, Shape, AtFront
    <2>7. \A t : Count(ready', t) <= Count(ready, t)
      BY <2>4, <2>5
    <2> QED BY <2>1, <2>2, <2>5, <2>6, <2>7, TurnKeeps DEF Outside
  <1>3. CASE ExitDispatch
    <2>1. /\ where = "popped" /\ Dispatch(ready, join) /\ lost' = lost
          /\ UNCHANGED <<uses, status, pc, waiting, temp>>
      BY <1>3 DEF ExitDispatch, tcb, cond
    <2>2. ready \in Seq(All) /\ running_tcb \in All /\ "exit" \in uses
      BY <2>1 DEF Queue, Shape, AtFront
    <2>3. /\ ready' \in Seq(All) /\ \A t : Count(ready', t) = Count(ready, t)
          /\ running_tcb' \in All /\ where' \in {"thread", "resume", "stuck", "corrupt"}
          /\ where' \in {"thread", "resume"} => ready' # <<>> /\ Head(ready') = running_tcb'
      BY <2>1, <2>2, DispatchQueue
    <2>4. \A t : Count(ready, t) \in Nat
      BY <2>2, CountFinite
    <2>5. Shape' /\ AtFront'
      BY <2>1, <2>3 DEF Queue, Shape, AtFront
    <2> QED BY <2>1, <2>2, <2>3, <2>4, <2>5, TurnKeeps DEF Outside
  <1> QED BY <1>1, <1>2, <1>3 DEF SchedulerStep

\* main: the first thread it creates starts the queue, the others are pushed.
LEMMA CreateQueue == ASSUME Inv, Queue, NEW t \in Threads, Create(t) PROVE Queue'
  <1>1. /\ where = "thread" /\ running_tcb = Main /\ pc[t] = "none"
        /\ pc' = [pc EXCEPT ![t] = "start"]
        /\ UNCHANGED <<uses, status, waiting, temp, lost>>
    BY DEF Create, MainRuns, tcb, cond
  <1>2. /\ pc'[t] = "start" /\ \A u \in Threads : u # t => pc'[u] = pc[u]
    <2>1. "start" \in Places
      BY DEF Places
    <2> QED BY <1>1, <2>1, MoveFacts DEF Inv
  <1>3. ready \in Seq(All) /\ t \in All /\ Main \in All /\ t # Main /\ Shape
    BY MainAssumption DEF Queue, Shape, All
  <1>4. \A u : Count(ready, u) \in Nat /\ Count(<<>>, u) = 0
    BY <1>3, CountFinite
  <1>5. Calls' /\ Waiters'
    BY <1>1, <1>2 DEF Queue, Calls, Waiters, CondPlaces
  <1>6. \A u \in Threads : Owed(u)' <=> Owed(u)
    BY <1>1 DEF Owed
  <1>7. Count(ready, t) = 0 /\ ~ Owed(t)
    BY <1>1 DEF Queue, Bounded
  <1>8. /\ Shape' /\ AtFront' /\ ready' # <<>>
        /\ Count(ready', t) = 1 /\ Count(ready', Main) = 1
        /\ \A u \in Threads \ {t} : Count(ready', u) = Count(ready, u)
    <2>1. CASE ready = <<>>
      <3> DEFINE zero == <<>>
                 one == <<t>>
                 two == <<t, Main>>
      <3>1. zero \in Seq(All) /\ one \in Seq(All) /\ two \in Seq(All)
        BY <1>3
      <3>2. Pushed(one, zero, t) /\ Pushed(two, one, Main)
        BY DEF Pushed
      <3>3. Dispatch(two, join)
        BY <2>1 DEF Create
      <3>0. \A u : Count(zero, u) = 0
        BY <1>4
      <3> HIDE DEF zero, one, two
      <3>4. \A u : Count(one, u) = IF t = u THEN Count(zero, u) + 1 ELSE Count(zero, u)
        BY <1>3, <3>1, <3>2, CountAppend
      <3>5. \A u : Count(two, u) = IF Main = u THEN Count(one, u) + 1 ELSE Count(one, u)
        BY <1>3, <3>1, <3>2, CountAppend
      <3>6. /\ ready' \in Seq(All) /\ \A u : Count(ready', u) = Count(two, u)
            /\ running_tcb' \in All /\ where' \in {"thread", "resume", "stuck", "corrupt"}
            /\ where' \in {"thread", "resume"} => ready' # <<>> /\ Head(ready') = running_tcb'
        BY <1>3, <3>1, <3>3, DispatchQueue DEF Shape
      <3>7. /\ Count(ready', t) = 1 /\ Count(ready', Main) = 1
            /\ \A u \in Threads \ {t} : Count(ready', u) = 0
        BY <1>3, <3>0, <3>4, <3>5, <3>6, MainAssumption
      <3>8. ready' # <<>>
        BY <1>4, <3>7
      <3>9. Shape' /\ AtFront'
        BY <1>1, <1>3, <3>6 DEF Shape, AtFront
      <3> QED BY <1>4, <2>1, <3>7, <3>8, <3>9
    <2>2. CASE ready # <<>>
      <3>1. ready' = Append(ready, t) /\ UNCHANGED <<running_tcb, where>>
        BY <2>2 DEF Create
      <3>2. Pushed(ready', ready, t)
        BY <3>1 DEF Pushed
      <3>3. \A u : Count(ready', u) = IF t = u THEN Count(ready, u) + 1 ELSE Count(ready, u)
        BY <1>3, <3>2, CountAppend
      <3>4. ready' \in Seq(All) /\ ready' # <<>> /\ Head(ready') = Head(ready)
        BY <1>3, <2>2, <3>1
      <3>5. Shape' /\ AtFront'
        BY <1>1, <1>3, <2>2, <3>1, <3>4 DEF Queue, Shape, AtFront
      <3>6. Count(ready, Main) = 1
        <4> DEFINE rest == Tail(ready)
        <4>1. Head(ready) = Main
          BY <1>1, <2>2 DEF Queue, AtFront
        <4>2. rest \in Seq(All) /\ Count(rest, Main) = Count(ready, Main) - 1
          BY <1>3, <2>2, <4>1, HeadTailProperties, CountTail
        <4> HIDE DEF rest
        <4>3. Count(rest, Main) \in Nat
          BY <4>2, CountFinite
        <4>4. Count(ready, Main) <= 1
          BY DEF Queue, Bounded
        <4> QED BY <1>4, <4>2, <4>3, <4>4
      <3> QED BY <1>3, <1>7, <3>3, <3>4, <3>5, <3>6
    <2> QED BY <2>1, <2>2
  <1>9. Bounded'
    <2>1. ASSUME NEW u \in Threads
          PROVE  /\ Count(ready', u) <= Most(u)'
                 /\ Owed(u)' => Count(ready', u) < Most(u)'
                 /\ ~ Created(u)' => Count(ready', u) = 0 /\ ~ Owed(u)'
      <3>1. CASE u = t
        BY <1>2, <1>6, <1>7, <1>8, <3>1 DEF Most
      <3>2. CASE u # t
        BY <1>2, <1>6, <1>8, <3>2 DEF Queue, Bounded, Most
      <3> QED BY <3>1, <3>2
    <2> QED BY <1>8, <2>1 DEF Bounded
  <1>10. Present'
    <2>1. status[t] = 0
      BY <1>1 DEF Queue, Calls
    <2>2. ASSUME NEW u \in Threads, u # t
          PROVE  /\ pc'[u] = pc[u] /\ status'[u] = status[u]
                 /\ Count(ready', u) = Count(ready, u)
      BY <1>1, <1>2, <1>8, <2>2
    <2> QED BY <1>1, <1>2, <1>8, <2>1, <2>2 DEF Queue, Present
  <1> QED BY <1>5, <1>8, <1>9, <1>10 DEF Queue

LEMMA MainQueue == ASSUME Inv, Queue, MainStep PROVE Queue'
  <1>1. ASSUME NEW t \in Threads, Join(t) PROVE Queue'
    <2>1. /\ where = "thread" /\ Scheduler(status, join + 1) /\ pc[t] # "none"
          /\ UNCHANGED <<uses, status, pc, waiting, temp, lost>>
      BY <1>1 DEF Join, MayJoin, MainRuns, cond
    <2>2. ready # <<>> /\ Head(ready) = running_tcb /\ lost' \subseteq Threads
      BY <2>1 DEF Queue, Shape, AtFront
    <2> QED BY <2>1, <2>2, TurnsQueue DEF Outside
  <1>2. ASSUME NEW t \in Threads, JoinFinished(t) PROVE Queue'
    <2>1. UNCHANGED <<uses, ready, running_tcb, where, status, pc, waiting, temp, lost>>
      BY <1>2 DEF JoinFinished, tcb, cond
    <2>2. Shape' /\ AtFront'
      BY <2>1 DEF Queue, Shape, AtFront
    <2>3. \A u : Owed(u)' = Owed(u) /\ Most(u)' = Most(u)
      BY <2>1 DEF Owed, Most
    <2>4. Calls' /\ Waiters' /\ Present'
      BY <2>1 DEF Queue, Calls, Waiters, Present
    <2>5. Bounded'
      BY <2>1, <2>3 DEF Queue, Bounded
    <2> QED BY <2>2, <2>4, <2>5 DEF Queue
  <1>3. CASE MainReturn
    BY <1>3, HaltQueue DEF MainReturn, tcb, cond
  <1>4. ASSUME NEW t \in Threads, PreemptCreate(t) \/ PreemptJoin(t) PROVE Queue'
    <2>1. /\ where = "thread" /\ ready # <<>> /\ Scheduler(status, join) /\ Outside
          /\ UNCHANGED <<uses, status, waiting, temp, lost>>
      BY <1>4 DEF PreemptCreate, PreemptJoin, MayJoin, MainRuns, Outside, tcb, cond
    <2>2. Head(ready) = running_tcb /\ lost' \subseteq Threads
      BY <2>1 DEF Queue, Shape, AtFront
    <2> QED BY <2>1, <2>2, TurnsQueue
  <1> QED BY <1>1, <1>2, <1>3, <1>4, CreateQueue DEF MainStep

\* Yield, return and exit.
LEMMA EndQueue ==
    ASSUME Inv, Queue, NEW t \in Threads, Yield(t) \/ Return(t) \/ Exit(t) \/ ExitJoin(t)
    PROVE  Queue'
  <1>1. where = "thread" /\ running_tcb = t
    BY DEF Yield, Return, Exit, ExitJoin, At
  <1>2. /\ ready # <<>> /\ Head(ready) = t /\ Head(ready) = running_tcb
        /\ Count(ready, t) \in Nat /\ Count(ready, t) >= 1
    BY <1>1, RunningInQueue
  <1>3. Shape /\ t \in All /\ t # Main
    BY MainAssumption DEF Queue, All
  <1>4. CASE Yield(t)
    <2>1. Scheduler(status, join) /\ UNCHANGED <<uses, status, pc, waiting, temp, lost>>
      BY <1>4 DEF Yield, tcb, cond
    <2> QED BY <1>2, <1>3, <2>1, TurnsQueue DEF Shape, Outside
  <1>5. CASE Return(t)
    <2>1. /\ pc[t] = "run" /\ pc' = [pc EXCEPT ![t] = "end"] /\ status' = [status EXCEPT ![t] = 1]
          /\ Scheduler(status', JoinAfter(t)) /\ UNCHANGED <<uses, waiting, temp, lost>>
      BY <1>5 DEF Return, At, Goto, cond
    <2>2. Drop(status', running_tcb)
      BY <1>1, <1>3, <2>1 DEF Drop, Inv, Typed, All
    <2>3. /\ ready' \in Seq(All) /\ running_tcb' \in All
          /\ where' \in {"thread", "resume", "stuck", "corrupt"}
          /\ where' \in {"thread", "resume"} => ready' # <<>> /\ Head(ready') = running_tcb'
          /\ \A u : Count(ready, u) \in Nat
          /\ \A u : Count(ready', u) = IF t = u THEN Count(ready, u) - 1 ELSE Count(ready, u)
      BY <1>2, <1>3, <2>1, <2>2, SchedulerQueue
    <2>4. Shape' /\ AtFront'
      BY <1>3, <2>1, <2>3 DEF Shape, AtFront
    <2>5. "end" \in {"end", "acquire"} /\ 1 \in 1 .. 2 /\ (1 = 2 => "cond" \in uses)
      OBVIOUS
    <2>6. /\ pc[t] \in {"run", "wait_sleep"} /\ Count(ready, t) >= 1 /\ ready # <<>>
          /\ UNCHANGED <<uses, waiting, temp>>
      BY <1>2, <2>1
    <2>7. pc' = [pc EXCEPT ![t] = "end"] /\ status' = [status EXCEPT ![t] = 1]
      BY <2>1
    <2>8. \A u : /\ Count(ready, u) \in Nat
                /\ Count(ready', u) = IF t = u THEN Count(ready, u) - 1 ELSE Count(ready, u)
      BY <2>3
    <2> QED BY <2>4, <2>5, <2>6, <2>7, <2>8, LeaveKeeps
  <1>6. CASE Exit(t)
    <2>1. /\ pc[t] = "run" /\ pc' = [pc EXCEPT ![t] = "exit"] /\ status' = [status EXCEPT ![t] = 1]
          /\ "exit" \in uses
          /\ UNCHANGED <<uses, ready, running_tcb, where, waiting, temp, lost>>
      BY <1>6 DEF Exit, At, Goto, Stay, cond
    <2>2. /\ pc'[t] = "exit" /\ \A u \in Threads : u # t => pc'[u] = pc[u]
      BY <2>1 DEF Inv, Typed
    <2>3. /\ status'[t] = 1 /\ \A u \in All : u # t => status'[u] = status[u]
      BY <2>1 DEF Inv, Typed, All
    <2>4. Main \in All /\ Threads \subseteq All
      BY DEF All
    <2>5. Calls'
      BY <1>3, <2>1, <2>2, <2>3, <2>4 DEF Queue, Calls, CondPlaces
    <2>6. Shape' /\ Waiters'
      BY <2>1, <2>2 DEF Queue, Shape, Waiters
    <2>7. AtFront'
      BY <1>1, <1>2, <2>1 DEF AtFront
    <2>8. Present'
      BY <2>1 DEF Present
    <2>9. Bounded'
      <3>1. \A u \in Threads : Owed(u)' = Owed(u) /\ Most(u)' = Most(u)
        BY <2>1, <2>2 DEF Owed, Most
      <3> QED BY <2>1, <2>2, <3>1 DEF Queue, Bounded
    <2> QED BY <2>5, <2>6, <2>7, <2>8, <2>9 DEF Queue
  <1>7. CASE ExitJoin(t)
    <2>1. /\ pc[t] = "exit" /\ pc' = [pc EXCEPT ![t] = "end"] /\ where' = "exiting"
          /\ UNCHANGED <<uses, status, ready, running_tcb, waiting, temp, lost>>
      BY <1>7 DEF ExitJoin, At, Goto, cond
    <2>2. /\ pc'[t] = "end" /\ \A u \in Threads : u # t => pc'[u] = pc[u]
      BY <2>1 DEF Inv, Typed
    <2>3. "exit" \in uses /\ status[t] = 1
      BY <2>1 DEF Queue, Calls, Inv, Joins
    <2>4. Calls' /\ Waiters' /\ Shape'
      BY <2>1, <2>2 DEF Queue, Calls, Waiters, Shape, CondPlaces
    <2>5. AtFront'
      BY <1>1, <1>2, <2>1, <2>3 DEF AtFront
    <2>6. Present'
      BY <2>1, <2>3 DEF Present
    <2>7. Bounded'
      <3>1. \A u \in Threads : Owed(u)' = Owed(u) /\ Most(u)' = Most(u)
        BY <2>1, <2>2 DEF Owed, Most
      <3> QED BY <2>1, <2>2, <3>1 DEF Queue, Bounded
    <2> QED BY <2>4, <2>5, <2>6, <2>7 DEF Queue
  <1> QED BY <1>4, <1>5, <1>6, <1>7

\* t puts itself into the queue of the condition variable.
LEMMA PushQueue == ASSUME Inv, Queue, NEW t \in Threads, WaitPush(t) PROVE Queue'
  <1>1. /\ where = "thread" /\ running_tcb = t /\ pc[t] = "wait_push"
        /\ pc' = [pc EXCEPT ![t] = "wait_release"] /\ waiting' = Append(waiting, t)
        /\ UNCHANGED <<uses, status, ready, running_tcb, where, temp, lost>>
    BY DEF WaitPush, At, Goto, Stay, tcb
  <1>2. /\ pc'[t] = "wait_release" /\ \A u \in Threads : u # t => pc'[u] = pc[u]
    <2>1. "wait_release" \in Places
      BY DEF Places, InGuard
    <2> QED BY <1>1, <2>1, MoveFacts DEF Inv
  <1>3. Count(ready, t) \in Nat /\ Count(ready, t) >= 1 /\ ready # <<>>
    BY <1>1, RunningInQueue
  <1>4. Count(ready, t) = 1 /\ ~ Owed(t)
    BY <1>1, <1>3 DEF Queue, Bounded, Most
  <1>5. /\ waiting' \in Seq(Threads) /\ ToSet(waiting') = ToSet(waiting) \cup {t}
        /\ IsInjective(waiting')
    <2>1. /\ waiting \in Seq(Threads) /\ NoDuplicates(waiting) /\ t \notin ToSet(waiting)
      BY <1>4 DEF Queue, Shape, Waiters, Owed, NoDuplicates
    <2> QED BY <1>1, <2>1, PushBack DEF NoDuplicates
  <1>6. Shape' /\ AtFront'
    BY <1>1, <1>2, <1>3, <1>5 DEF Queue, Shape, AtFront
  <1>7. Calls'
    BY <1>1, <1>2 DEF Queue, Calls, CondPlaces
  <1>8. Waiters'
    <2>1. \A u \in Threads : temp[u] # t
      BY <1>4 DEF Owed
    <2> QED BY <1>1, <1>2, <1>5, <2>1 DEF Queue, Waiters
  <1>9. Bounded'
    <2>1. \A u \in Threads \ {t} : /\ Owed(u)' <=> Owed(u)
                                   /\ Most(u)' = Most(u)
      BY <1>1, <1>2, <1>5 DEF Owed, Most
    <2>2. Most(t)' = 2
      BY <1>2 DEF Most
    <2> QED BY <1>1, <1>2, <1>4, <2>1, <2>2 DEF Queue, Bounded
  <1>10. Present'
    BY <1>1, <1>2 DEF Queue, Present
  <1> QED BY <1>6, <1>7, <1>8, <1>9, <1>10 DEF Queue

\* A signaller takes the first waiter.
LEMMA PopQueue == ASSUME Inv, Queue, NEW t \in Threads, SignalPop(t) PROVE Queue'
  <1>1. PICK p \in {<<"sig_pop", "sig_push">>, <<"bc_pop", "bc_push">>} :
            /\ where = "thread" /\ running_tcb = t /\ pc[t] = p[1]
            /\ IF waiting = <<>>
               THEN pc' = [pc EXCEPT ![t] = "sig_release"] /\ UNCHANGED <<waiting, temp>>
               ELSE /\ temp' = [temp EXCEPT ![t] = Head(waiting)]
                    /\ waiting' = Tail(waiting)
                    /\ pc' = [pc EXCEPT ![t] = p[2]]
            /\ UNCHANGED <<uses, status, ready, running_tcb, where, lost>>
    BY DEF SignalPop, At, Goto, Stay, tcb
  <1>2. "cond" \in uses
    BY <1>1 DEF Queue, Calls, CondPlaces
  <1>3. CASE waiting = <<>>
    <2>1. "sig_release" \in Places /\ lost' \subseteq Threads
      BY <1>1 DEF Places, InGuard, Queue, Shape
    <2> QED BY <1>1, <1>2, <1>3, <2>1, WalkQueue
  <1>4. CASE waiting # <<>>
    <2> DEFINE x == Head(waiting)
               rest == Tail(waiting)
    <2>1. /\ temp' = [temp EXCEPT ![t] = x] /\ waiting' = rest
          /\ pc' = [pc EXCEPT ![t] = p[2]]
      BY <1>1, <1>4
    <2>2. /\ waiting \in Seq(Threads) /\ NoDuplicates(waiting)
          /\ temp \in [Threads -> Threads \cup {NULL}]
      BY DEF Queue, Shape, Waiters, NoDuplicates
    <2>3. /\ x \in ToSet(waiting) /\ rest \in Seq(Threads)
          /\ ToSet(waiting) = ToSet(rest) \cup {x}
          /\ NoDuplicates(rest) /\ x \notin ToSet(rest)
      BY <1>4, <2>2, PopFront
    <2>4. x \in Threads
      BY <2>2, <2>3, MemberOfList
    <2> HIDE DEF x, rest
    <2>5. /\ temp'[t] = x /\ \A u \in Threads : u # t => temp'[u] = temp[u]
          /\ temp' \in [Threads -> Threads \cup {NULL}]
      BY <2>1, <2>2, <2>4
    <2>6. /\ pc'[t] = p[2] /\ \A u \in Threads : u # t => pc'[u] = pc[u]
      BY <2>1 DEF Inv, Typed
    <2>7. temp[t] = NULL
      BY <1>1 DEF Queue, Waiters
    <2>8. \A u \in Threads : Owed(u)' <=> Owed(u)
      <3>1. x # NULL
        BY <2>4, NullAssumption
      <3>2. ASSUME NEW u \in Threads
            PROVE  (\E v \in Threads : temp'[v] = u) <=> u = x \/ \E v \in Threads : temp[v] = u
        <4>1. u # NULL
          BY NullAssumption
        <4> QED BY <2>5, <2>7, <4>1
      <3> QED BY <2>1, <2>3, <3>2 DEF Owed
    <2>9. Shape'
      BY <1>1, <2>1, <2>3, <2>5 DEF Queue, Shape
    <2>10. AtFront'
      BY <1>1, <2>6 DEF Queue, AtFront
    <2>11. Calls'
      BY <1>1, <1>2, <2>6 DEF Queue, Calls
    <2>12. Waiters'
      <3>1. x # NULL
        BY <2>4, NullAssumption
      <3>2. \A u \in Threads : temp[u] # x
        BY <2>3 DEF Queue, Waiters
      <3>3. \A u \in Threads : temp'[u] # NULL <=> pc'[u] \in {"sig_push", "bc_push"}
        BY <1>1, <2>5, <2>6, <3>1 DEF Queue, Waiters
      <3>4. \A u, v \in Threads : temp'[u] = temp'[v] /\ temp'[u] # NULL => u = v
        BY <2>5, <3>2 DEF Queue, Waiters
      <3>5. \A u \in Threads : temp'[u] \notin ToSet(waiting')
        BY <2>1, <2>3, <2>5 DEF Queue, Waiters
      <3> QED BY <2>1, <2>3, <3>3, <3>4, <3>5 DEF Waiters, NoDuplicates
    <2>13. Bounded'
      <3>1. \A u \in Threads : Most(u)' = Most(u) /\ (~ Created(u)' => ~ Created(u))
        BY <1>1, <2>6 DEF Most
      <3> QED BY <1>1, <2>8, <3>1 DEF Queue, Bounded
    <2>14. Present'
      BY <1>1, <1>2, <2>6 DEF Queue, Present
    <2> QED BY <2>9, <2>10, <2>11, <2>12, <2>13, <2>14 DEF Queue
  <1> QED BY <1>3, <1>4

\* The signalled waiter is ready again.
LEMMA WakeQueue == ASSUME Inv, Queue, NEW t \in Threads, SignalPush(t) PROVE Queue'
  <1>1. PICK p \in {<<"sig_push", "sig_release">>, <<"bc_push", "bc_pop">>} :
            /\ where = "thread" /\ running_tcb = t /\ pc[t] = p[1]
            /\ ready' = Append(ready, temp[t]) /\ temp' = [temp EXCEPT ![t] = NULL]
            /\ pc' = [pc EXCEPT ![t] = p[2]]
            /\ UNCHANGED <<uses, status, waiting, running_tcb, where, lost>>
    BY DEF SignalPush, At, Goto, tcb
  <1>2. /\ ready # <<>> /\ Head(ready) = running_tcb
    BY <1>1, RunningInQueue
  <1>0. PICK x \in Threads : temp[t] = x
    BY <1>1 DEF Queue, Waiters, Shape
  <1>3. x # NULL /\ ready \in Seq(All) /\ x \in All /\ x # Main
    BY MainAssumption, NullAssumption DEF Queue, Shape, All
  <1>4. pc'[t] = p[2] /\ \A u \in Threads : u # t => pc'[u] = pc[u]
    BY <1>1 DEF Inv, Typed
  <1>5. /\ temp'[t] = NULL /\ \A u \in Threads : u # t => temp'[u] = temp[u]
        /\ temp' \in [Threads -> Threads \cup {NULL}]
    BY <1>1 DEF Queue, Shape
  <1>6. "cond" \in uses
    BY <1>1 DEF Queue, Calls, CondPlaces
  <1>7. /\ \A u \in Threads : temp[u] = x => u = t
        /\ x \notin ToSet(waiting)
    BY <1>0, <1>3 DEF Queue, Waiters
  <1>8. Owed(x)
    BY <1>0 DEF Owed
  <1>9. Pushed(ready', ready, x)
    BY <1>0, <1>1 DEF Pushed
  <1>10. ready' \in Seq(All) /\ ready' # <<>> /\ Head(ready') = Head(ready)
    BY <1>0, <1>1, <1>2, <1>3
  <1>11. \A u : /\ Count(ready', u) = IF x = u THEN Count(ready, u) + 1 ELSE Count(ready, u)
                /\ Count(ready, u) \in Nat
    <2>1. \A u : Count(ready', u) = IF x = u THEN Count(ready, u) + 1 ELSE Count(ready, u)
      BY <1>3, <1>9, CountAppend
    <2> QED BY <1>3, <2>1, CountFinite
  <1>12. ~ Owed(x)' /\ \A u \in Threads \ {x} : Owed(u)' <=> Owed(u)
    <2>1. ASSUME NEW u \in Threads
          PROVE  (\E v \in Threads : temp'[v] = u) <=> u # x /\ \E v \in Threads : temp[v] = u
      <3>1. u # NULL
        BY NullAssumption
      <3> QED BY <1>0, <1>5, <1>7, <3>1
    <2> QED BY <1>1, <1>3, <1>7, <2>1 DEF Owed
  <1>13. Shape' /\ AtFront'
    BY <1>1, <1>2, <1>4, <1>5, <1>10 DEF Queue, Shape, AtFront
  <1>14. Calls'
    BY <1>1, <1>4, <1>6 DEF Queue, Calls
  <1>15. Waiters'
    <2>1. \A u \in Threads : temp'[u] # NULL <=> pc'[u] \in {"sig_push", "bc_push"}
      BY <1>1, <1>4, <1>5 DEF Queue, Waiters
    <2>2. \A u, v \in Threads : temp'[u] = temp'[v] /\ temp'[u] # NULL => u = v
      BY <1>5 DEF Queue, Waiters
    <2>3. NULL \notin ToSet(waiting)
      <3>1. ToSet(waiting) \subseteq Threads
        BY MemberOfList DEF Queue, Shape
      <3> QED BY <3>1, NullAssumption
    <2>4. \A u \in Threads : temp'[u] \notin ToSet(waiting')
      BY <1>1, <1>5, <2>3 DEF Queue, Waiters
    <2> QED BY <1>1, <2>1, <2>2, <2>4 DEF Queue, Waiters
  <1>16. Bounded'
    <2>1. Count(ready', Main) <= 1
      BY <1>3, <1>11 DEF Queue, Bounded
    <2>2. ASSUME NEW u \in Threads
          PROVE  /\ Count(ready', u) <= Most(u)'
                 /\ Owed(u)' => Count(ready', u) < Most(u)'
                 /\ ~ Created(u)' => Count(ready', u) = 0 /\ ~ Owed(u)'
      <3>1. Most(u)' = Most(u) /\ Most(u) \in Nat /\ (~ Created(u)' => ~ Created(u))
        BY <1>1, <1>4 DEF Most
      <3>2. /\ Count(ready, u) <= Most(u)
            /\ Owed(u) => Count(ready, u) < Most(u)
            /\ ~ Created(u) => Count(ready, u) = 0 /\ ~ Owed(u)
        BY DEF Queue, Bounded
      <3>3. CASE u = x
        BY <1>8, <1>11, <1>12, <3>1, <3>2, <3>3
      <3>4. CASE u # x
        BY <1>11, <1>12, <3>1, <3>2, <3>4
      <3> QED BY <3>3, <3>4
    <2> QED BY <2>1, <2>2 DEF Bounded
  <1>17. Present'
    <2>4. pc[t] \notin {"none", "uncreated"} /\ pc'[t] \notin {"none", "uncreated"}
      BY <1>1, <1>4
    <2>1. \A u \in Threads : Created(u)' <=> Created(u)
      BY <1>4, <2>4
    <2>3. \A u \in Threads : Count(ready, u) >= 1 => Count(ready', u) >= 1
      <3> TAKE u \in Threads
      <3>1. /\ Count(ready, u) \in Nat
            /\ Count(ready', u) = IF x = u THEN Count(ready, u) + 1 ELSE Count(ready, u)
        BY <1>11
      <3> QED BY <3>1
    <2>2. Count(ready', Main) = Count(ready, Main)
      BY <1>3, <1>11
    <2> HIDE DEF Created
    <2> QED BY <1>1, <1>2, <1>6, <2>1, <2>2, <2>3 DEF Queue, Present
  <1> QED BY <1>13, <1>14, <1>15, <1>16, <1>17 DEF Queue

\* A waiter goes to sleep: the scheduler takes one of its places in ready.
LEMMA SleepQueue == ASSUME Inv, Queue, NEW t \in Threads, WaitSleep(t) PROVE Queue'
  <1>1. /\ where = "thread" /\ running_tcb = t /\ pc[t] = "wait_sleep"
        /\ pc' = [pc EXCEPT ![t] = "acquire"] /\ status' = [status EXCEPT ![t] = 2]
        /\ Scheduler(status', join) /\ UNCHANGED <<uses, waiting, temp, lost>>
    BY DEF WaitSleep, At, Goto, cond
  <1>2. /\ ready # <<>> /\ Head(ready) = t /\ Count(ready, t) >= 1
    BY <1>1, RunningInQueue
  <1>3. Shape /\ "cond" \in uses
    BY <1>1 DEF Queue, Calls, CondPlaces
  <1>4. Drop(status', running_tcb)
    BY <1>1 DEF Drop, Inv, Typed
  <1>5. /\ ready' \in Seq(All) /\ running_tcb' \in All
        /\ where' \in {"thread", "resume", "stuck", "corrupt"}
        /\ where' \in {"thread", "resume"} => ready' # <<>> /\ Head(ready') = running_tcb'
        /\ \A u : Count(ready, u) \in Nat
        /\ \A u : Count(ready', u) = IF t = u THEN Count(ready, u) - 1 ELSE Count(ready, u)
    BY <1>1, <1>2, <1>3, <1>4, SchedulerQueue
  <1>6. Shape' /\ AtFront'
    BY <1>1, <1>3, <1>5 DEF Shape, AtFront
  <1>7. "acquire" \in {"end", "acquire"} /\ 2 \in 1 .. 2
    OBVIOUS
  <1>8. /\ pc[t] \in {"run", "wait_sleep"} /\ UNCHANGED <<uses, waiting, temp>>
        /\ pc' = [pc EXCEPT ![t] = "acquire"] /\ status' = [status EXCEPT ![t] = 2]
    BY <1>1
  <1>9. \A u : /\ Count(ready, u) \in Nat
               /\ Count(ready', u) = IF t = u THEN Count(ready, u) - 1 ELSE Count(ready, u)
    BY <1>5
  <1> QED BY <1>2, <1>3, <1>6, <1>7, <1>8, <1>9, LeaveKeeps

\* The other steps of a thread leave the queues alone.
LEMMA ThreadQueue == ASSUME Inv, Queue, NEW t \in Threads, ThreadStep(t) PROVE Queue'
  <1> DEFINE Walk(here, there) ==
                /\ where = "thread" /\ pc[t] = here /\ pc' = [pc EXCEPT ![t] = there]
                /\ UNCHANGED <<uses, status, ready, running_tcb, where, waiting, temp, lost>>
  <1>1. ASSUME NEW here, NEW there \in Places, Walk(here, there),
               here \notin {"none", "uncreated", "sig_push", "bc_push"},
               there \notin {"none", "uncreated", "sig_push", "bc_push", "exit"},
               here \in {"wait_release", "wait_sleep"} <=> there \in {"wait_release", "wait_sleep"},
               there \in CondPlaces => "cond" \in uses
        PROVE  Queue'
    <2>1. lost' \subseteq Threads
      BY <1>1 DEF Queue, Shape
    <2> QED BY <1>1, <2>1, WalkQueue
  <1>2. /\ {"acquire", "run", "wait_acquire", "sig_acquire", "bc_acquire", "wait_push", "sig_pop",
            "bc_pop", "wait_sleep"} \subseteq Places
        /\ "acquire" \notin CondPlaces /\ "run" \notin CondPlaces
    BY DEF Places, InGuard, CondPlaces
  <1>3. pc[t] \in CondPlaces => "cond" \in uses
    BY DEF Queue, Calls
  <1>4. CASE LockCall(t) \/ LockTaken(t)
    <2>1. Walk("run", "acquire") \/ Walk("acquire", "run")
      BY <1>4 DEF LockCall, LockTaken, At, Goto, Stay, tcb, cond
    <2> HIDE DEF Walk
    <2> QED BY <1>1, <1>2, <2>1
  <1>5. CASE Unlock(t)
    <2>1. UNCHANGED <<uses, ready, running_tcb, where, status, pc, waiting, temp, lost>>
      BY <1>5 DEF Unlock, Stay, tcb, cond
    <2>2. \A u : Owed(u)' = Owed(u) /\ Most(u)' = Most(u)
      BY <2>1 DEF Owed, Most
    <2>3. Shape' /\ AtFront' /\ Calls' /\ Waiters' /\ Present'
      BY <2>1 DEF Queue, Shape, AtFront, Calls, Waiters, Present
    <2>4. Bounded'
      BY <2>1, <2>2 DEF Queue, Bounded
    <2> QED BY <2>3, <2>4 DEF Queue
  <1>6. CASE WaitCall(t) \/ SignalCall(t) \/ BroadcastCall(t)
    <2>1. /\ "cond" \in uses
          /\ Walk("run", "wait_acquire") \/ Walk("run", "sig_acquire") \/ Walk("run", "bc_acquire")
      BY <1>6 DEF WaitCall, SignalCall, BroadcastCall, Enter, At, Goto, Stay, tcb, cond
    <2> HIDE DEF Walk
    <2> QED BY <1>1, <1>2, <2>1
  <1>7. CASE GuardAcquire(t)
    <2>1. \/ Walk("wait_acquire", "wait_push") \/ Walk("sig_acquire", "sig_pop")
          \/ Walk("bc_acquire", "bc_pop")
      BY <1>7 DEF GuardAcquire, GuardTaken, At, Goto, Stay, tcb
    <2>2. "cond" \in uses
      BY <1>3, <2>1 DEF CondPlaces
    <2> HIDE DEF Walk
    <2> QED BY <1>1, <1>2, <2>1, <2>2
  <1>8. CASE GuardRelease(t)
    <2>1. Walk("wait_release", "wait_sleep") \/ Walk("sig_release", "run")
      BY <1>8 DEF GuardRelease, GuardReleased, At, Goto, Stay, tcb
    <2>2. "cond" \in uses
      BY <1>3, <2>1 DEF CondPlaces
    <2> HIDE DEF Walk
    <2> QED BY <1>1, <1>2, <2>1, <2>2
  <1> QED BY <1>4, <1>5, <1>6, <1>7, <1>8, EndQueue, PushQueue, SleepQueue, PopQueue, WakeQueue
          DEF ThreadStep

-------------------------------------------------------------------------------
(* The invariant and the theorems about the queue.                         *)

LEMMA InitQueue == Init => Queue
  <1> SUFFICES ASSUME Init PROVE Queue
    OBVIOUS
  <1> DEFINE zero == <<>>
  <1>1. /\ uses \in SUBSET {"cond", "exit"} /\ ready = zero /\ running_tcb = Main
        /\ where = "thread" /\ lost = {} /\ waiting = <<>>
        /\ status = [t \in Threads \cup {Main} |-> 0]
        /\ pc = [t \in Threads |-> "none"] /\ temp = [t \in Threads |-> NULL]
    BY DEF Init
  <1>2. zero \in Seq(All) /\ \A t : Count(zero, t) = 0
    <2>1. zero \in Seq(All)
      OBVIOUS
    <2> QED BY <2>1, CountFinite
  <1>3. Shape
    BY <1>1 DEF Shape, All
  <1>4. Calls /\ AtFront
    BY <1>1 DEF Calls, AtFront, CondPlaces
  <1>5. ToSet(waiting) = {} /\ IsInjective(waiting)
    BY <1>1 DEF ToSet, IsInjective
  <1>6. Waiters
    BY <1>1, <1>5 DEF Waiters
  <1>7. \A t \in Threads : ~ Owed(t) /\ Most(t) = 1
    BY <1>1, <1>5, NullAssumption DEF Owed, Most
  <1>8. \A t : Count(ready, t) = 0
    BY <1>1, <1>2
  <1>9. Bounded
    BY <1>7, <1>8 DEF Bounded
  <1>10. Present
    BY <1>1, <1>8 DEF Present
  <1> QED BY <1>3, <1>4, <1>6, <1>9, <1>10 DEF Queue

LEMMA StepQueue == Inv /\ Queue /\ [Next]_vars => Queue'
  <1> SUFFICES ASSUME Inv, Queue, [Next]_vars PROVE Queue'
    OBVIOUS
  <1>1. CASE Next
    BY <1>1, SchedulerStepQueue, SignalQueue, MainQueue, ThreadQueue DEF Next
  <1>2. CASE UNCHANGED vars
    <2>1. UNCHANGED <<uses, ready, running_tcb, where, status, pc, waiting, temp, lost>>
      BY <1>2 DEF vars, tcb, cond
    <2>2. \A u : Owed(u)' = Owed(u) /\ Most(u)' = Most(u)
      BY <2>1 DEF Owed, Most
    <2>3. Shape' /\ AtFront' /\ Calls' /\ Waiters' /\ Present'
      BY <2>1 DEF Queue, Shape, AtFront, Calls, Waiters, Present
    <2>4. Bounded'
      BY <2>1, <2>2 DEF Queue, Bounded
    <2> QED BY <2>3, <2>4 DEF Queue
  <1> QED BY <1>1, <1>2

(***************************************************************************)
(* The invariant of the queue holds with any number of threads.            *)
(***************************************************************************)
THEOREM QueueInvHolds == Spec => [](Inv /\ Queue)
  <1>1. Init => Inv /\ Queue
    BY InitInv, InitQueue
  <1>2. (Inv /\ Queue) /\ [Next]_vars => (Inv /\ Queue)'
    BY StepInv, StepQueue
  <1> QED BY <1>1, <1>2, PTL DEF Spec

(***************************************************************************)
(* Every variable keeps its type, and no thread is in ready more than      *)
(* twice: the places qpush needs.                                          *)
(***************************************************************************)
THEOREM LibraryTypes == Spec => []TypeOK
  <1>1. Inv /\ Queue => TypeOK
    <2> SUFFICES ASSUME Inv, Queue PROVE TypeOK
      OBVIOUS
    <2>1. ASSUME NEW t \in Threads \cup {Main}
          PROVE  Times(t) <= IF t # Main /\ "cond" \in uses THEN 2 ELSE 1
      <3>1. Times(t) = Count(ready, t)
        BY DEF Times, Count
      <3>2. Count(ready, t) \in Nat
        BY CountFinite DEF Queue, Shape
      <3>3. CASE t = Main
        BY <3>1, <3>3 DEF Queue, Bounded
      <3>4. CASE t \in Threads /\ t # Main
        <4>1. Count(ready, t) <= Most(t)
          BY <3>4 DEF Queue, Bounded
        <4>2. Most(t) = 1 \/ (Most(t) = 2 /\ "cond" \in uses)
          BY <3>4 DEF Most, Queue, Calls, CondPlaces
        <4> QED BY <3>1, <3>2, <3>4, <4>1, <4>2
      <3> QED BY <3>3, <3>4
    <2> QED BY <2>1 DEF TypeOK, Inv, Typed, Queue, Shape, Waiters, All
  <1> QED BY <1>1, QueueInvHolds, PTL

(***************************************************************************)
(* The scheduler comes from the head of ready, and without myThread_exit   *)
(* no thread that is neither finished nor waiting gets lost.               *)
(***************************************************************************)
THEOREM QueueCorrect == Spec => []QueueOK
  <1>1. Inv /\ Queue => QueueOK
    <2> SUFFICES ASSUME Inv, Queue PROVE QueueOK
      OBVIOUS
    <2>1. \A t : Times(t) = Count(ready, t)
      BY DEF Times, Count
    <2> QED BY <2>1 DEF QueueOK, Queue, AtFront, Present
  <1> QED BY <1>1, QueueInvHolds, PTL
===============================================================================
