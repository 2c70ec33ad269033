---------------------------- MODULE ProcessesProofs ----------------------------
(***************************************************************************)
(* Proofs, for any number of processes, blocks and files: file_lock        *)
(* excludes although the first system call initializes it; the records of  *)
(* children and the lists that hold them agree; exec returns after the     *)
(* load; wait returns the status the child left; no wake-up is lost.       *)
(*                                                                         *)
(* Control, about file_lock, is inductive by itself.  Inv adds the family. *)
(***************************************************************************)
EXTENDS Processes, KernelListProofs

(***************************************************************************)
(* The inductive invariant.                                                *)
(***************************************************************************)
MainPlaces == {"task", "exec_sleep", "task_wait", "wait_sleep", "hung", "dead"}

\* The main thread creates one process and makes no system call.
Places ==
    /\ pc \in [Threads -> Locations]
    /\ pc[Main] \in MainPlaces
    /\ pc[Main] = "task" => \A p \in Procs : pc[p] = "unused"
    /\ \A p \in Procs : pc[p] \notin {"task", "task_wait"}

\* Until lock_flag is reset there is one process, which has not got past it.
FirstCall ==
    /\ \A p \in Procs : pc[p] \in {"lock_init", "lock_flag"} => lock_flag
    /\ lock_flag =>
          /\ \A p, q \in Procs : pc[p] # "unused" /\ pc[q] # "unused" => p = q
          /\ \A p \in Procs : pc[p] \notin {"syscall", "file", "file_want"}

Holder == \A p \in Procs : pc[p] = "file" => file_lock = p

Control == Places /\ FirstCall /\ Holder

USE ProcessAssumption DEF Threads

-------------------------------------------------------------------------------
(* The steps.                                                              *)

\* The machine stops: nobody is anywhere any more.
LEMMA StopKeeps == ASSUME PowerOff PROVE Control'
  BY DEF PowerOff, Control, Places, MainPlaces, Locations, FirstCall, Holder

LEMMA MoveFacts ==
    ASSUME Control, NEW p \in Threads, NEW l \in Locations, Goto(p, l)
    PROVE  /\ pc' \in [Threads -> Locations] /\ pc'[p] = l
           /\ \A q \in Threads : q # p => pc'[q] = pc[q]
  BY DEF Control, Places, Goto

\* A step of p alone, which leaves the flag and the lock as they are, and leads
\* to none of the places the invariant speaks of.
LEMMA WalkKeeps ==
    ASSUME Control, NEW p \in Threads, NEW l \in Locations, Goto(p, l),
           UNCHANGED <<file_lock, lock_flag>>,
           l \notin {"task", "lock_init", "lock_flag", "syscall", "file", "file_want"},
           IF p = Main THEN l \in MainPlaces ELSE l # "task_wait" /\ pc[p] # "unused"
    PROVE  Control'
  <1>1. /\ pc' \in [Threads -> Locations] /\ pc'[p] = l
        /\ \A q \in Threads : q # p => pc'[q] = pc[q]
    BY MoveFacts
  <1>2. Places'
    BY <1>1 DEF Control, Places
  <1>3. FirstCall'
    BY <1>1 DEF Control, FirstCall
  <1>4. Holder'
    BY <1>1 DEF Control, Holder
  <1> QED BY <1>2, <1>3, <1>4 DEF Control

\* Only processes make system calls, and only after the flag has been reset.
LEMMA CallsOfProcesses ==
    ASSUME Control, NEW p \in Threads, InSyscall(p)
    PROVE  p \in Procs /\ ~lock_flag /\ pc[p] # "unused"
  <1>1. p \in Procs
    BY DEF Control, Places, MainPlaces, InSyscall
  <1> QED BY <1>1 DEF Control, FirstCall, InSyscall

\* The first system call.
LEMMA FirstCallKeeps ==
    ASSUME Control, NEW p \in Threads, SyscallEnter(p) \/ LockInit(p) \/ ClearFlag(p)
    PROVE  Control'
  <1>0. p \in Procs
    BY DEF SyscallEnter, LockInit, ClearFlag, Control, Places, MainPlaces
  <1>1. {"lock_init", "lock_flag", "syscall"} \subseteq Locations
    BY DEF Locations
  <1>2. CASE SyscallEnter(p)
    <2>1. /\ pc[p] = "user" /\ lock_flag /\ Goto(p, "lock_init")
          /\ UNCHANGED <<file_lock, lock_flag>>
      BY <1>2 DEF SyscallEnter, files
    <2>2. /\ pc' \in [Threads -> Locations] /\ pc'[p] = "lock_init"
          /\ \A q \in Threads : q # p => pc'[q] = pc[q]
      BY <1>1, <2>1, MoveFacts
    <2>3. Places'
      BY <1>0, <2>1, <2>2 DEF Control, Places
    <2>4. FirstCall' /\ Holder'
      BY <1>0, <2>1, <2>2 DEF Control, FirstCall, Holder
    <2> QED BY <2>3, <2>4 DEF Control
  <1>3. CASE LockInit(p)
    <2>1. pc[p] = "lock_init" /\ Goto(p, "lock_flag") /\ UNCHANGED lock_flag
      BY <1>3 DEF LockInit
    <2>2. /\ pc' \in [Threads -> Locations] /\ pc'[p] = "lock_flag"
          /\ \A q \in Threads : q # p => pc'[q] = pc[q]
      BY <1>1, <2>1, MoveFacts
    <2>3. Places'
      BY <1>0, <2>1, <2>2 DEF Control, Places
    <2>4. FirstCall'
      BY <1>0, <2>1, <2>2 DEF Control, FirstCall
    <2>5. Holder'
      BY <1>0, <2>1, <2>2 DEF Control, FirstCall, Holder
    <2> QED BY <2>3, <2>4, <2>5 DEF Control
  <1>4. CASE ClearFlag(p)
    <2>1. /\ pc[p] = "lock_flag" /\ Goto(p, "syscall") /\ ~lock_flag'
          /\ UNCHANGED file_lock
      BY <1>4 DEF ClearFlag
    <2>2. /\ pc' \in [Threads -> Locations] /\ pc'[p] = "syscall"
          /\ \A q \in Threads : q # p => pc'[q] = pc[q]
      BY <1>1, <2>1, MoveFacts
    <2>3. Places'
      BY <1>0, <2>1, <2>2 DEF Control, Places
    <2>4. FirstCall'
      BY <1>0, <2>1, <2>2 DEF Control, FirstCall
    <2>5. Holder'
      BY <2>1, <2>2 DEF Control, Holder
    <2> QED BY <2>3, <2>4, <2>5 DEF Control
  <1> QED BY <1>2, <1>3, <1>4

\* exec creates a process: the first one, or one after the first system call.
LEMMA ExecKeeps ==
    ASSUME Control, NEW p \in Threads, NEW c \in Procs, NEW b \in Blocks, Exec(p, c, b)
    PROVE  Control'
  <1>1. /\ InSyscall(p) \/ pc[p] = "task"
        /\ pc[c] = "unused"
        /\ pc' = [pc EXCEPT ![p] = "exec_sleep", ![c] = "load"]
        /\ UNCHANGED <<file_lock, lock_flag>>
    BY DEF Exec, NextTid, files
  <1>2. p # c
    BY <1>1 DEF InSyscall
  <1>3. {"exec_sleep", "load"} \subseteq Locations
    BY DEF Locations
  <1>4. /\ pc' \in [Threads -> Locations] /\ pc'[p] = "exec_sleep" /\ pc'[c] = "load"
        /\ \A q \in Threads : q \notin {p, c} => pc'[q] = pc[q]
    BY <1>1, <1>2, <1>3 DEF Control, Places
  <1>5. CASE pc[p] = "task"
    <2>1. p = Main /\ \A q \in Procs : pc[q] = "unused"
      BY <1>5 DEF Control, Places
    <2>2. Places'
      BY <1>4, <2>1 DEF Control, Places, MainPlaces
    <2>3. FirstCall' /\ Holder'
      BY <1>1, <1>4, <2>1 DEF Control, FirstCall, Holder
    <2> QED BY <2>2, <2>3 DEF Control
  <1>6. CASE InSyscall(p)
    <2>1. p \in Procs /\ ~lock_flag
      BY <1>6, CallsOfProcesses
    <2>2. pc[Main] # "task"
      BY <1>6, <2>1 DEF Control, Places, InSyscall
    <2>3. Places'
      BY <1>4, <2>1, <2>2 DEF Control, Places
    <2>4. FirstCall' /\ Holder'
      BY <1>1, <1>4, <2>1 DEF Control, FirstCall, Holder
    <2> QED BY <2>3, <2>4 DEF Control
  <1> QED BY <1>1, <1>5, <1>6

\* A wait returns: main powers off then.
LEMMA WaitReturnKeeps ==
    ASSUME Control, NEW p \in Threads, pc[p] # "unused", WaitReturn(p)
    PROVE  Control'
  <1>1. CASE p = Main
    BY <1>1, StopKeeps DEF WaitReturn
  <1>2. CASE p # Main
    <2>1. "user" \in Locations
      BY DEF Locations
    <2> QED BY <1>2, <2>1, WalkKeeps DEF WaitReturn, files
  <1> QED BY <1>1, <1>2

LEMMA WaitKeeps ==
    ASSUME Control, NEW p \in Threads, NEW c \in Procs,
           WaitRefused(p, c) \/ WaitGone(p, c) \/ WaitSleep(p, c)
    PROVE  Control'
  <1>1. pc[p] # "unused"
    BY DEF WaitRefused, WaitGone, WaitSleep, InSyscall
  <1>2. CASE WaitSleep(p, c)
    <2>1. "wait_sleep" \in Locations
      BY DEF Locations
    <2> QED BY <1>1, <1>2, <2>1, WalkKeeps DEF WaitSleep, files, MainPlaces
  <1> QED BY <1>1, <1>2, WaitReturnKeeps DEF WaitRefused, WaitGone

\* The rest of exec, load and exit.
LEMMA LifeKeeps ==
    ASSUME Control, NEW p \in Threads,
           \/ ExecNoCopy(p) \/ ExecNoThread(p) \/ LoadOpen(p) \/ Load(p)
           \/ ExecReturn(p) \/ Kill(p)
           \/ \E s \in ExitCodes : Exit(p, s)
           \/ ExitUp(p) \/ ExitClose(p) \/ ExitChild(p) \/ ExitNextChild(p) \/ ExitMark(p)
    PROVE  Control'
  <1>0. {"user", "hung", "task_wait", "exec_sleep", "load_file", "exit_up", "exit_files", "exit_next_file",
         "exit_next_child", "dead"} \subseteq Locations
    BY DEF Locations
  <1>1. InSyscall(p) => p # Main /\ pc[p] # "unused"
    BY CallsOfProcesses
  <1>2. CASE ExecNoCopy(p)
    BY <1>0, <1>1, <1>2, WalkKeeps DEF ExecNoCopy, files
  <1>3. CASE ExecNoThread(p)
    BY <1>0, <1>1, <1>3, WalkKeeps DEF ExecNoThread, files, MainPlaces
  <1>4. CASE LoadOpen(p) \/ Load(p)
    <2>1. p # Main
      BY <1>4 DEF LoadOpen, Load, Control, Places, MainPlaces
    <2> QED BY <1>0, <1>4, <2>1, WalkKeeps DEF LoadOpen, Load, files
  <1>5. CASE ExecReturn(p)
    BY <1>0, <1>5, WalkKeeps DEF ExecReturn, files, MainPlaces
  <1>6. CASE \E s \in ExitCodes : Exit(p, s)
    BY <1>0, <1>1, <1>6, WalkKeeps DEF Exit, files
  <1>7. CASE Kill(p) \/ ExitUp(p) \/ ExitClose(p) \/ ExitChild(p) \/ ExitMark(p)
    <2>1. p # Main
      BY <1>7 DEF Kill, ExitUp, ExitClose, ExitChild, ExitMark, Control, Places, MainPlaces
    <2>2. CASE Kill(p)
      BY <1>0, <2>1, <2>2, WalkKeeps DEF Kill, files
    <2>3. CASE ExitUp(p)
      BY <1>0, <2>1, <2>3, WalkKeeps DEF ExitUp, files
    <2>4. CASE ExitClose(p)
      BY <1>0, <2>1, <2>4, WalkKeeps DEF ExitClose
    <2>5. CASE ExitChild(p)
      BY <1>0, <2>1, <2>5, WalkKeeps DEF ExitChild, files
    <2>6. CASE ExitMark(p)
      BY <1>0, <2>1, <2>6, WalkKeeps DEF ExitMark, files
    <2> QED BY <1>7, <2>2, <2>3, <2>4, <2>5, <2>6
  <1>8. CASE ExitNextChild(p)
    <2>1. p # Main
      BY <1>8 DEF ExitNextChild, Control, Places, MainPlaces
    <2>2. CASE UNCHANGED pc
      BY <1>8, <2>2 DEF ExitNextChild, files, Control, Places, FirstCall, Holder
    <2>3. CASE Goto(p, "hung") /\ UNCHANGED files
      BY <1>0, <1>8, <2>1, <2>3, WalkKeeps DEF ExitNextChild, files
    <2> QED BY <1>8, <2>2, <2>3 DEF ExitNextChild
  <1> QED BY <1>2, <1>3, <1>4, <1>5, <1>6, <1>7, <1>8

\* The steps that take and release file_lock.
LEMMA FileKeeps ==
    ASSUME Control, NEW p \in Threads,
           FileWait(p) \/ FileAcquire(p) \/ FileEnd(p) \/ ExitNextFile(p)
    PROVE  Control'
  <1>0. {"file", "file_want", "user", "hung"} \subseteq Locations
    BY DEF Locations
  <1>1. p \in Procs
    BY CallsOfProcesses DEF FileWait, FileAcquire, FileEnd, ExitNextFile, Control, Places, MainPlaces
  <1>2. PICK l \in {"file", "file_want", "user", "hung"} : Goto(p, l)
    BY DEF FileWait, FileAcquire, FileEnd, ExitNextFile
  <1>3. /\ pc' \in [Threads -> Locations] /\ pc'[p] = l
        /\ \A q \in Threads : q # p => pc'[q] = pc[q]
    BY <1>0, <1>2, MoveFacts
  <1>4. lock_flag' = lock_flag /\ pc[p] # "unused"
    BY CallsOfProcesses DEF FileWait, FileAcquire, FileEnd, ExitNextFile, files
  <1>5. l \in {"file", "file_want"} => ~lock_flag
    BY <1>1, <1>2, <1>3, CallsOfProcesses
    DEF FileWait, FileAcquire, FileEnd, ExitNextFile, Goto, Control, Places, FirstCall
  <1>6. Places'
    BY <1>1, <1>2, <1>3, <1>4 DEF Control, Places
  <1>7. FirstCall'
    BY <1>1, <1>2, <1>3, <1>4, <1>5 DEF Control, FirstCall
  <1>8. Holder'
    <2>1. CASE FileWait(p)
      BY <1>0, <1>3, <2>1, MoveFacts DEF FileWait, files, Control, Holder
    <2>2. CASE FileAcquire(p)
      BY <1>0, <1>3, <2>2 DEF FileAcquire, Control, Holder
    <2>3. CASE FileEnd(p)
      BY <1>0, <1>1, <1>3, <2>3, MoveFacts DEF FileEnd, Control, Holder
    <2>4. CASE ExitNextFile(p)
      BY <1>0, <1>1, <1>3, <2>4, MoveFacts DEF ExitNextFile, Control, Holder
    <2> QED BY <2>1, <2>2, <2>3, <2>4
  <1> QED BY <1>6, <1>7, <1>8 DEF Control

-------------------------------------------------------------------------------
(* The theorem.                                                            *)

LEMMA InitControl == Init => Control
  BY DEF Init, Control, Places, MainPlaces, Locations, FirstCall, Holder

LEMMA StepControl == Control /\ [Next]_vars => Control'
  <1> SUFFICES ASSUME Control, [Next]_vars PROVE Control'
    OBVIOUS
  <1>1. ASSUME NEW p \in Threads, SystemCall(p) PROVE Control'
    <2>1. CASE Halt(p)
      BY <2>1, StopKeeps DEF Halt
    <2> QED BY <1>1, <2>1, FirstCallKeeps, ExecKeeps, WaitKeeps, LifeKeeps, FileKeeps
            DEF SystemCall
  <1>2. ASSUME NEW p \in Threads, KernelStep(p) PROVE Control'
    <2>1. CASE WaitEnd(p)
      BY <2>1, WaitReturnKeeps DEF WaitEnd
    <2> QED BY <1>2, <2>1, FirstCallKeeps, LifeKeeps, FileKeeps DEF KernelStep
  <1>3. CASE UNCHANGED vars
    BY <1>3 DEF vars, files, Control, Places, FirstCall, Holder
  <1> QED BY <1>1, <1>2, <1>3 DEF Next

LEMMA ControlHolds == Spec => []Control
  BY InitControl, StepControl, PTL DEF Spec

(***************************************************************************)
(* Of the system calls on files one at a time is in the file system, for   *)
(* any number of processes, although the first call of all initializes     *)
(* file_lock: until then there is only one process, since the main thread  *)
(* runs one task.  load, which takes no lock, is not among them.           *)
(***************************************************************************)
THEOREM FileLockExcludes == Spec => []FileLockSafe
  <1>1. Control => FileLockSafe
    BY DEF Control, FirstCall, Holder, FileLockSafe
  <1> QED BY <1>1, ControlHolds, PTL

-------------------------------------------------------------------------------
(***************************************************************************)
(* Records and lists.  Whose creator sleeps in exec: it keeps the record   *)
(* of a process that loads, since it does nothing else meanwhile.          *)
(***************************************************************************)
Loading == {"load", "load_file"}

Lists ==
    /\ \A p \in Threads : NoDuplicates(children[p])
    /\ \A p, q \in Threads : Listed(p) \cap Listed(q) # {} => p = q
    /\ \A b \in Blocks : Live(b) <=> \E p \in Threads : b \in Listed(p)

Children ==
    /\ \A b \in Blocks : Live(b) => corresp[rec[b].pid] = b /\ pc[rec[b].pid] # "unused"
    /\ \A p \in Procs : pc[p] \in {"unused"} \cup Loading => loaded[p] = "no"
    /\ \A p \in Procs : pc[p] \notin {"unused", "dead"} => corresp[p] \in Blocks

Sleepers ==
    /\ \A p \in Threads : pc[p] = "wait_sleep" =>
          target[p] \in Listed(p) /\ rec[target[p]].waiting
    /\ \A c \in Procs : pc[c] \in Loading =>
          \E p \in Threads : pc[p] = "exec_sleep" /\ target[p] = c /\ corresp[c] \in Listed(p)

\* Who sleeps in exec has the record of its child, and the child notes in it
\* that it has loaded before it says so.
Callers ==
    \A p \in Threads : pc[p] = "exec_sleep" /\ target[p] # NoOne =>
        /\ target[p] \in Procs /\ corresp[target[p]] \in Listed(p)
        /\ rec[corresp[target[p]]].pid = target[p]
        /\ loaded[target[p]] = "yes" => rec[corresp[target[p]]].load_status

\* A semaphore that only its own process has upped has been upped after that
\* process left its status.
Answered(b) == left[rec[b].pid] # NoOne /\ rec[b].status = left[rec[b].pid]

Answers ==
    \A b \in Blocks : Live(b) /\ b \notin foreign =>
        /\ rec[b].waitLock > 0 => pc[rec[b].pid] \notin Loading
        /\ rec[b].waitLock > 0 \/ pc[rec[b].pid] = "exit_up" => Answered(b)

Inv == TypeOK /\ Control /\ Lists /\ Children /\ Sleepers /\ Callers /\ Answers

\* What the invariant says of a list.
LEMMA ListFacts ==
    ASSUME Inv, NEW p \in Threads
    PROVE  /\ children[p] \in Seq(Blocks) /\ NoDuplicates(children[p])
           /\ Listed(p) = ToSet(children[p]) /\ Listed(p) \subseteq Blocks
           /\ \A b \in Listed(p) : Live(b) /\ rec[b] \in ChildProcess
  <1>1. children[p] \in Seq(Blocks) /\ NoDuplicates(children[p])
    BY DEF Inv, TypeOK, Lists
  <1>2. Listed(p) = ToSet(children[p])
    BY DEF Listed, ToSet
  <1>3. Listed(p) \subseteq Blocks
    BY <1>1, <1>2, MemberOfList
  <1>4. \A b \in Listed(p) : Live(b)
    BY <1>3 DEF Inv, Lists
  <1> QED BY <1>1, <1>2, <1>3, <1>4 DEF Inv, TypeOK, Live

\* searchChild finds the record of c, if the caller has one.
LEMMA SearchFinds ==
    ASSUME Inv, NEW p \in Threads, NEW c \in Procs, SearchChild(p, c) # 0
    PROVE  Record(p, c) \in Listed(p) /\ rec[Record(p, c)].pid = c
  <1> DEFINE I == {i \in 1 .. Len(children[p]) : rec[children[p][i]].pid = c}
  <1>1. SearchChild(p, c) = IF I # {} THEN Min(I) ELSE 0
    BY DEF SearchChild, SelectInSeq
  <1>2. PICK i \in I : TRUE
    BY <1>1
  <1>3. /\ children[p] \in Seq(Blocks) /\ DOMAIN children[p] = 1 .. Len(children[p])
        /\ Len(children[p]) \in Nat
    BY ListFacts
  <1>4. \A j \in I : j = i
    <2>1. \A j \in I : children[p][j] \in Listed(p) /\ rec[children[p][j]].pid = c
      BY <1>3 DEF Listed
    <2>2. \A j \in I : children[p][j] \in Blocks /\ Live(children[p][j])
      BY <2>1, ListFacts
    <2>3. \A j \in I : children[p][j] = corresp[c]
      BY <2>1, <2>2 DEF Inv, Children
    <2> QED BY <1>3, <2>3, ListFacts DEF NoDuplicates, IsInjective
  <1>5. Min(I) = i
    <2>1. i \in Int /\ I = {i}
      BY <1>3, <1>4
    <2> HIDE DEF I
    <2> QED BY <2>1 DEF Min
  <1>6. Record(p, c) = children[p][i]
    BY <1>1, <1>2, <1>5 DEF Record
  <1> QED BY <1>2, <1>3, <1>6 DEF Listed

(***************************************************************************)
(* Steps that change no list.                                              *)
(***************************************************************************)
RecordsKept ==
    \A b \in Blocks : /\ rec'[b] # Freed <=> rec[b] # Freed
                      /\ rec[b] # Freed => /\ rec'[b].pid = rec[b].pid
                                           /\ rec[b].waiting => rec'[b].waiting
                                           /\ rec[b].load_status => rec'[b].load_status

\* A store into a record in use.
LEMMA SetKeeps ==
    ASSUME Inv, NEW b \in Blocks, Live(b),
           \/ Set(b, "waiting", TRUE)
           \/ Set(b, "load_status", TRUE)
           \/ Set(b, "exit_status", TRUE)
           \/ Set(b, "waitLock", rec[b].waitLock + 1)
           \/ \E s \in Status : Set(b, "status", s)
    PROVE  /\ RecordsKept /\ rec' \in [Blocks -> ChildProcess \cup {Freed}]
           /\ Set(b, "waiting", TRUE) => rec'[b].waiting
  <1>1. rec \in [Blocks -> ChildProcess \cup {Freed}] /\ rec[b] \in ChildProcess
    BY DEF Inv, TypeOK, Live
  <1>2. PICK r \in ChildProcess :
            /\ rec' = [rec EXCEPT ![b] = r]
            /\ r.pid = rec[b].pid /\ (rec[b].waiting => r.waiting)
            /\ rec[b].load_status => r.load_status
            /\ Set(b, "waiting", TRUE) => r.waiting
    <2>1. CASE Set(b, "waiting", TRUE)
      <3>1. [rec[b] EXCEPT !.waiting = TRUE] \in ChildProcess
        BY <1>1 DEF ChildProcess
      <3> QED BY <1>1, <2>1, <3>1 DEF Set, ChildProcess
    <2>2. CASE Set(b, "load_status", TRUE)
      <3>1. [rec[b] EXCEPT !.load_status = TRUE] \in ChildProcess
        BY <1>1 DEF ChildProcess
      <3>2. rec' = [rec EXCEPT ![b] = [rec[b] EXCEPT !.load_status = TRUE]]
        BY <1>1, <2>2 DEF Set
      <3> QED BY <1>1, <2>1, <3>1, <3>2 DEF ChildProcess
    <2>3. CASE Set(b, "exit_status", TRUE)
      <3>1. [rec[b] EXCEPT !.exit_status = TRUE] \in ChildProcess
        BY <1>1 DEF ChildProcess
      <3>2. rec' = [rec EXCEPT ![b] = [rec[b] EXCEPT !.exit_status = TRUE]]
        BY <1>1, <2>3 DEF Set
      <3> QED BY <1>1, <2>1, <3>1, <3>2 DEF ChildProcess
    <2>4. CASE Set(b, "waitLock", rec[b].waitLock + 1)
      <3>1. [rec[b] EXCEPT !.waitLock = rec[b].waitLock + 1] \in ChildProcess
        BY <1>1 DEF ChildProcess
      <3>2. rec' = [rec EXCEPT ![b] = [rec[b] EXCEPT !.waitLock = rec[b].waitLock + 1]]
        BY <1>1, <2>4 DEF Set
      <3> QED BY <1>1, <2>1, <3>1, <3>2 DEF ChildProcess
    <2>5. CASE \E s \in Status : Set(b, "status", s)
      <3>0. PICK s \in Status : Set(b, "status", s)
        BY <2>5
      <3>1. [rec[b] EXCEPT !.status = s] \in ChildProcess
        BY <1>1, <3>0 DEF ChildProcess
      <3>2. rec' = [rec EXCEPT ![b] = [rec[b] EXCEPT !.status = s]]
        BY <1>1, <3>0 DEF Set
      <3> QED BY <1>1, <2>1, <3>1, <3>2 DEF ChildProcess
    <2> QED BY <2>1, <2>2, <2>3, <2>4, <2>5
  <1>3. r # Freed
    BY RecordAssumption
  <1> QED BY <1>1, <1>2, <1>3 DEF RecordsKept, Live

\* What a store leaves as it was: of the flags, ...
LEMMA SetFlag ==
    ASSUME Inv, NEW b \in Blocks, Live(b),
           \/ Set(b, "waiting", TRUE)
           \/ Set(b, "load_status", TRUE)
           \/ Set(b, "exit_status", TRUE)
    PROVE  /\ \A a \in Blocks : rec'[a] # Freed =>
                 /\ rec[a] # Freed /\ rec'[a].pid = rec[a].pid
                 /\ rec'[a].waitLock = rec[a].waitLock /\ rec'[a].status = rec[a].status
           /\ Set(b, "load_status", TRUE) => rec'[b].load_status
  <1>1. rec \in [Blocks -> ChildProcess \cup {Freed}] /\ rec[b] \in ChildProcess
    BY DEF Inv, TypeOK, Live
  <1>2. CASE Set(b, "waiting", TRUE)
    <2>1. rec' = [rec EXCEPT ![b] = [rec[b] EXCEPT !.waiting = TRUE]]
      BY <1>1, <1>2 DEF Set
    <2>2. \A a \in Blocks : a # b => rec'[a] = rec[a]
      BY <1>1, <2>1
    <2>3. /\ rec'[b] = [rec[b] EXCEPT !.waiting = TRUE]
          /\ rec'[b].pid = rec[b].pid /\ rec'[b].waitLock = rec[b].waitLock
          /\ rec'[b].status = rec[b].status
      BY <1>1, <2>1 DEF ChildProcess
    <2>4. Set(b, "load_status", TRUE) => rec'[b].load_status
      BY <1>1 DEF Set, ChildProcess
    <2> QED BY <2>2, <2>3, <2>4 DEF Live
  <1>3. CASE Set(b, "load_status", TRUE)
    <2>1. rec' = [rec EXCEPT ![b] = [rec[b] EXCEPT !.load_status = TRUE]]
      BY <1>1, <1>3 DEF Set
    <2>2. \A a \in Blocks : a # b => rec'[a] = rec[a]
      BY <1>1, <2>1
    <2>3. /\ rec'[b] = [rec[b] EXCEPT !.load_status = TRUE]
          /\ rec'[b].pid = rec[b].pid /\ rec'[b].waitLock = rec[b].waitLock
          /\ rec'[b].status = rec[b].status
      BY <1>1, <2>1 DEF ChildProcess
    <2>4. Set(b, "load_status", TRUE) => rec'[b].load_status
      BY <1>1 DEF Set, ChildProcess
    <2> QED BY <2>2, <2>3, <2>4 DEF Live
  <1>4. CASE Set(b, "exit_status", TRUE)
    <2>1. rec' = [rec EXCEPT ![b] = [rec[b] EXCEPT !.exit_status = TRUE]]
      BY <1>1, <1>4 DEF Set
    <2>2. \A a \in Blocks : a # b => rec'[a] = rec[a]
      BY <1>1, <2>1
    <2>3. /\ rec'[b] = [rec[b] EXCEPT !.exit_status = TRUE]
          /\ rec'[b].pid = rec[b].pid /\ rec'[b].waitLock = rec[b].waitLock
          /\ rec'[b].status = rec[b].status
      BY <1>1, <2>1 DEF ChildProcess
    <2>4. Set(b, "load_status", TRUE) => rec'[b].load_status
      BY <1>1 DEF Set, ChildProcess
    <2> QED BY <2>2, <2>3, <2>4 DEF Live
  <1> QED BY <1>2, <1>3, <1>4

\* ... of the semaphore, ...
LEMMA SetLock ==
    ASSUME Inv, NEW b \in Blocks, Live(b), Set(b, "waitLock", rec[b].waitLock + 1)
    PROVE  \A a \in Blocks : rec'[a] # Freed =>
              /\ rec[a] # Freed /\ rec'[a].pid = rec[a].pid
              /\ rec'[a].status = rec[a].status
              /\ a # b => rec'[a].waitLock = rec[a].waitLock
  <1>1. rec \in [Blocks -> ChildProcess \cup {Freed}] /\ rec[b] \in ChildProcess
    BY DEF Inv, TypeOK, Live
  <1>2. rec' = [rec EXCEPT ![b] = [rec[b] EXCEPT !.waitLock = rec[b].waitLock + 1]]
    BY <1>1 DEF Set
  <1> QED BY <1>1, <1>2 DEF ChildProcess, Live

\* ... and of the status.
LEMMA SetStatus ==
    ASSUME Inv, NEW b \in Blocks, Live(b), NEW n, Set(b, "status", n)
    PROVE  /\ rec'[b].status = n
           /\ \A a \in Blocks : rec'[a] # Freed =>
                 /\ rec[a] # Freed /\ rec'[a].pid = rec[a].pid
                 /\ rec'[a].waitLock = rec[a].waitLock
                 /\ a # b => rec'[a].status = rec[a].status
  <1>1. rec \in [Blocks -> ChildProcess \cup {Freed}] /\ rec[b] \in ChildProcess
    BY DEF Inv, TypeOK, Live
  <1>2. rec' = [rec EXCEPT ![b] = [rec[b] EXCEPT !.status = n]]
    BY <1>1 DEF Set
  <1> QED BY <1>1, <1>2 DEF ChildProcess, Live

LEMMA SameRecords == ASSUME UNCHANGED rec PROVE RecordsKept
  BY DEF RecordsKept

\* p goes from one place to another.
LEMMA FamilyFrame ==
    ASSUME Inv, RecordsKept, UNCHANGED <<children, corresp>>,
           NEW p \in Threads, NEW l, Goto(p, l), l # "unused",
           l \in Loading => pc[p] \in Loading, l = "exec_sleep" => target'[p] = NoOne,
           pc[p] \notin {"unused", "dead"},
           \A q \in Threads : q # p => target'[q] = target[q],
           l = "wait_sleep" => target'[p] \in Listed(p) /\ rec'[target'[p]].waiting,
           \A c \in Procs : pc[p] = "exec_sleep" /\ target[p] = c => pc[c] \notin Loading,
           \A c \in Procs : (c # p \/ l \in Loading) /\ loaded[c] = "no" => loaded'[c] = "no",
           \A c \in Procs : loaded'[c] = "yes" => loaded[c] = "yes" \/ rec'[corresp[c]].load_status
    PROVE  Lists' /\ Children' /\ Sleepers' /\ Callers'
  <1>1. pc'[p] = l /\ \A q \in Threads : q # p => pc'[q] = pc[q]
    BY DEF Inv, TypeOK, Goto
  <1>2. \A q \in Threads : Listed(q)' = Listed(q)
    BY DEF Listed
  <1>3. Lists'
    BY <1>2 DEF Inv, Lists, RecordsKept, Live
  <1>4. Children'
    <2>1. ASSUME NEW b \in Blocks, Live(b)'
          PROVE  corresp'[rec'[b].pid] = b /\ pc'[rec'[b].pid] # "unused"
      <3>1. Live(b) /\ rec'[b].pid = rec[b].pid
        BY <2>1 DEF RecordsKept, Live
      <3>2. rec[b].pid \in Procs
        BY <3>1 DEF Inv, TypeOK, ChildProcess, Live
      <3>3. corresp[rec[b].pid] = b /\ pc[rec[b].pid] # "unused"
        BY <3>1 DEF Inv, Children
      <3>4. pc'[rec[b].pid] # "unused"
        BY <1>1, <3>2, <3>3
      <3> QED BY <3>1, <3>3, <3>4
    <2>2. ASSUME NEW c \in Procs, pc'[c] \in {"unused"} \cup Loading PROVE loaded'[c] = "no"
      BY <1>1, <2>2 DEF Inv, Children, Loading
    <2>3. ASSUME NEW c \in Procs, pc'[c] \notin {"unused", "dead"} PROVE corresp'[c] \in Blocks
      BY <1>1, <2>3 DEF Inv, Children
    <2> QED BY <2>1, <2>2, <2>3 DEF Children
  <1>5. Sleepers'
    <2>1. ASSUME NEW q \in Threads, pc'[q] = "wait_sleep"
          PROVE  target'[q] \in Listed(q) /\ rec'[target'[q]].waiting
      <3>1. CASE q = p
        BY <1>1, <2>1, <3>1
      <3>2. CASE q # p
        <4>1. target'[q] = target[q] /\ target[q] \in Listed(q) /\ rec[target[q]].waiting
          BY <1>1, <2>1, <3>2 DEF Inv, Sleepers
        <4>2. target[q] \in Blocks /\ Live(target[q])
          BY <4>1, ListFacts
        <4> QED BY <4>1, <4>2 DEF RecordsKept, Live
      <3> QED BY <3>1, <3>2
    <2>2. ASSUME NEW c \in Procs, pc'[c] \in Loading
          PROVE  \E q \in Threads : pc'[q] = "exec_sleep" /\ target'[q] = c /\ corresp[c] \in Listed(q)
      <3>1. pc[c] \in Loading
        BY <1>1, <2>2
      <3>2. PICK q \in Threads : pc[q] = "exec_sleep" /\ target[q] = c /\ corresp[c] \in Listed(q)
        BY <3>1 DEF Inv, Sleepers
      <3>3. q # p
        BY <3>1, <3>2
      <3> QED BY <1>1, <3>2, <3>3
    <2> QED BY <1>2, <2>1, <2>2 DEF Sleepers
  <1>6. Callers'
    <2>1. SUFFICES ASSUME NEW q \in Threads, pc'[q] = "exec_sleep", target'[q] # NoOne
                   PROVE  LET c == target'[q]
                          IN  /\ c \in Procs /\ corresp'[c] \in Listed(q)'
                              /\ rec'[corresp'[c]].pid = c
                              /\ loaded'[c] = "yes" => rec'[corresp'[c]].load_status
      BY DEF Callers
    <2>2. pc[q] = "exec_sleep" /\ target'[q] = target[q]
      BY <1>1, <2>1
    <2>3. /\ target[q] \in Procs /\ corresp[target[q]] \in Listed(q)
          /\ rec[corresp[target[q]]].pid = target[q]
          /\ loaded[target[q]] = "yes" => rec[corresp[target[q]]].load_status
      BY <2>1, <2>2 DEF Inv, Callers
    <2>4. corresp[target[q]] \in Blocks /\ Live(corresp[target[q]])
      BY <2>3, ListFacts
    <2> QED BY <1>2, <2>2, <2>3, <2>4 DEF RecordsKept, Live
  <1> QED BY <1>3, <1>4, <1>5, <1>6

\* A step of p that changes neither statuses nor semaphores of records in use.
LEMMA AnswersFrame ==
    ASSUME Inv, UNCHANGED corresp,
           NEW p \in Threads, NEW l, Goto(p, l), l # "exit_up", l \in Loading => pc[p] \in Loading,
           \A b \in Blocks : rec'[b] # Freed =>
              /\ b \in foreign => b \in foreign'
              /\ rec[b] # Freed /\ rec'[b].pid = rec[b].pid
              /\ rec'[b].waitLock = rec[b].waitLock /\ rec'[b].status = rec[b].status
              /\ left'[rec[b].pid] = left[rec[b].pid]
    PROVE  Answers'
  <1>1. pc'[p] = l /\ \A q \in Threads : q # p => pc'[q] = pc[q]
    BY DEF Inv, TypeOK, Goto
  <1>2. SUFFICES ASSUME NEW b \in Blocks, Live(b)', b \notin foreign'
        PROVE  /\ rec'[b].waitLock > 0 => pc'[rec'[b].pid] \notin Loading
               /\ rec'[b].waitLock > 0 \/ pc'[rec'[b].pid] = "exit_up" => Answered(b)'
    BY DEF Answers
  <1>3. /\ Live(b) /\ rec'[b].pid = rec[b].pid /\ b \notin foreign
        /\ rec'[b].waitLock = rec[b].waitLock /\ rec'[b].status = rec[b].status
        /\ left'[rec[b].pid] = left[rec[b].pid]
    BY <1>2 DEF Live
  <1>4. rec[b].pid \in Threads
    BY <1>3 DEF Live, Inv, TypeOK, ChildProcess
  <1>5. /\ pc'[rec[b].pid] \in Loading => pc[rec[b].pid] \in Loading
        /\ pc'[rec[b].pid] = "exit_up" => pc[rec[b].pid] = "exit_up"
    BY <1>1, <1>4
  <1>6. /\ rec[b].waitLock > 0 => pc[rec[b].pid] \notin Loading
        /\ rec[b].waitLock > 0 \/ pc[rec[b].pid] = "exit_up" => Answered(b)
    BY <1>3 DEF Inv, Answers
  <1> QED BY <1>3, <1>5, <1>6 DEF Answered

\* A step of p that changes its own status, or the semaphore of its own record.
LEMMA AnswersOfOne ==
    ASSUME Inv, UNCHANGED corresp,
           NEW p \in Procs, NEW l, Goto(p, l), l \notin Loading,
           \A b \in Blocks : rec'[b] # Freed =>
              /\ b \in foreign => b \in foreign'
              /\ rec[b] # Freed /\ rec'[b].pid = rec[b].pid
              /\ b # corresp[p] => /\ rec'[b].waitLock = rec[b].waitLock
                                   /\ rec'[b].status = rec[b].status,
           \A c \in Procs : c # p => left'[c] = left[c],
           rec'[corresp[p]] # Freed /\ corresp[p] \notin foreign' =>
              /\ rec[corresp[p]].pid = p
              /\ rec'[corresp[p]].waitLock > 0 \/ l = "exit_up"
                 => left'[p] # NoOne /\ rec'[corresp[p]].status = left'[p]
    PROVE  Answers'
  <1>1. pc'[p] = l /\ \A q \in Threads : q # p => pc'[q] = pc[q]
    BY DEF Inv, TypeOK, Goto
  <1>2. SUFFICES ASSUME NEW b \in Blocks, Live(b)', b \notin foreign'
        PROVE  /\ rec'[b].waitLock > 0 => pc'[rec'[b].pid] \notin Loading
               /\ rec'[b].waitLock > 0 \/ pc'[rec'[b].pid] = "exit_up" => Answered(b)'
    BY DEF Answers
  <1>3. Live(b) /\ rec'[b].pid = rec[b].pid /\ rec[b].pid \in Procs /\ b \notin foreign
    BY <1>2 DEF Live, Inv, TypeOK, ChildProcess
  <1>4. corresp[rec[b].pid] = b
    BY <1>3 DEF Inv, Children
  <1>5. CASE b = corresp[p]
    <2>1. rec[b].pid = p
      BY <1>2, <1>5 DEF Live
    <2> QED BY <1>1, <1>2, <1>3, <1>5, <2>1 DEF Answered, Live
  <1>6. CASE b # corresp[p]
    <2>1. /\ rec[b].pid # p /\ pc'[rec[b].pid] = pc[rec[b].pid]
          /\ left'[rec[b].pid] = left[rec[b].pid]
          /\ rec'[b].waitLock = rec[b].waitLock /\ rec'[b].status = rec[b].status
      BY <1>1, <1>2, <1>3, <1>4, <1>6 DEF Live
    <2>2. /\ rec[b].waitLock > 0 => pc[rec[b].pid] \notin Loading
          /\ rec[b].waitLock > 0 \/ pc[rec[b].pid] = "exit_up" => Answered(b)
      BY <1>3 DEF Inv, Answers
    <2> QED BY <1>3, <2>1, <2>2 DEF Answered
  <1> QED BY <1>5, <1>6

\* p takes the record b out of its list and frees it.
LEMMA RemoveFrame ==
    ASSUME Inv, NEW p \in Threads, NEW b \in Listed(p), NEW l, Goto(p, l),
           l \notin {"unused", "exec_sleep", "wait_sleep"} \cup Loading,
           pc[p] \notin {"unused", "dead", "exec_sleep"},
           \A q \in Threads : q # p => target'[q] = target[q] /\ children'[q] = children[q],
           children'[p] \in Seq(Blocks), NoDuplicates(children'[p]),
           ToSet(children'[p]) = Listed(p) \ {b},
           rec' = [rec EXCEPT ![b] = Freed],
           UNCHANGED <<corresp, loaded>>
    PROVE  Lists' /\ Children' /\ Sleepers' /\ Callers'
  <1>1. pc'[p] = l /\ \A q \in Threads : q # p => pc'[q] = pc[q]
    BY DEF Inv, TypeOK, Goto
  <1>2. /\ Listed(p)' = Listed(p) \ {b}
        /\ \A q \in Threads : q # p => Listed(q)' = Listed(q)
    <2>1. Listed(p)' = ToSet(children'[p])
      BY DEF Listed, ToSet
    <2>2. ASSUME NEW q \in Threads, q # p PROVE Listed(q)' = Listed(q)
      <3>1. children'[q] = children[q]
        BY <2>2
      <3> QED BY <3>1 DEF Listed
    <2> QED BY <2>1, <2>2
  <1>3. b \in Blocks /\ rec \in [Blocks -> ChildProcess \cup {Freed}]
    BY ListFacts DEF Inv, TypeOK
  <1>4. \A a \in Blocks : rec'[a] = IF a = b THEN Freed ELSE rec[a]
    BY <1>3
  <1>5. \A q \in Threads : q # p => b \notin Listed(q)
    BY DEF Inv, Lists
  <1>6. Lists'
    <2>1. \A q \in Threads : NoDuplicates(children'[q])
      BY DEF Inv, Lists
    <2>2. \A q, r \in Threads : Listed(q)' \cap Listed(r)' # {} => q = r
      BY <1>2 DEF Inv, Lists
    <2>3. \A a \in Blocks : Live(a)' <=> \E q \in Threads : a \in Listed(q)'
      BY <1>2, <1>4, <1>5 DEF Inv, Lists, Live
    <2> QED BY <2>1, <2>2, <2>3 DEF Lists
  <1>7. Children'
    <2>1. ASSUME NEW a \in Blocks, Live(a)'
          PROVE  corresp'[rec'[a].pid] = a /\ pc'[rec'[a].pid] # "unused"
      <3>1. Live(a) /\ rec'[a] = rec[a]
        BY <1>4, <2>1 DEF Live
      <3>2. rec[a].pid \in Procs
        BY <3>1 DEF Inv, TypeOK, ChildProcess, Live
      <3> QED BY <1>1, <3>1, <3>2 DEF Inv, Children
    <2>2. ASSUME NEW c \in Procs, pc'[c] \in {"unused"} \cup Loading PROVE loaded'[c] = "no"
      BY <1>1, <2>2 DEF Inv, Children
    <2>3. ASSUME NEW c \in Procs, pc'[c] \notin {"unused", "dead"} PROVE corresp'[c] \in Blocks
      BY <1>1, <2>3 DEF Inv, Children
    <2> QED BY <2>1, <2>2, <2>3 DEF Children
  <1>8. Sleepers'
    <2>1. ASSUME NEW q \in Threads, pc'[q] = "wait_sleep"
          PROVE  target'[q] \in Listed(q)' /\ rec'[target'[q]].waiting
      <3>1. q # p /\ target'[q] = target[q] /\ target[q] \in Listed(q) /\ rec[target[q]].waiting
        BY <1>1, <2>1 DEF Inv, Sleepers
      <3>2. target[q] # b /\ target[q] \in Blocks
        BY <1>5, <3>1, ListFacts
      <3> QED BY <1>2, <1>4, <3>1, <3>2
    <2>2. ASSUME NEW c \in Procs, pc'[c] \in Loading
          PROVE  \E q \in Threads : pc'[q] = "exec_sleep" /\ target'[q] = c /\ corresp'[c] \in Listed(q)'
      <3>1. pc[c] \in Loading
        BY <1>1, <2>2
      <3>2. PICK q \in Threads : pc[q] = "exec_sleep" /\ target[q] = c /\ corresp[c] \in Listed(q)
        BY <3>1 DEF Inv, Sleepers
      <3>3. q # p
        BY <3>2
      <3> QED BY <1>1, <1>2, <3>2, <3>3
    <2> QED BY <2>1, <2>2 DEF Sleepers
  <1>9. Callers'
    <2>1. SUFFICES ASSUME NEW q \in Threads, pc'[q] = "exec_sleep", target'[q] # NoOne
                   PROVE  LET c == target'[q]
                          IN  /\ c \in Procs /\ corresp'[c] \in Listed(q)'
                              /\ rec'[corresp'[c]].pid = c
                              /\ loaded'[c] = "yes" => rec'[corresp'[c]].load_status
      BY DEF Callers
    <2>2. q # p /\ pc[q] = "exec_sleep" /\ target'[q] = target[q]
      BY <1>1, <2>1
    <2>3. /\ target[q] \in Procs /\ corresp[target[q]] \in Listed(q)
          /\ rec[corresp[target[q]]].pid = target[q]
          /\ loaded[target[q]] = "yes" => rec[corresp[target[q]]].load_status
      BY <2>1, <2>2 DEF Inv, Callers
    <2>4. corresp[target[q]] \in Blocks /\ corresp[target[q]] # b
      BY <1>5, <2>2, <2>3, ListFacts
    <2> QED BY <1>2, <1>4, <2>2, <2>3, <2>4
  <1> QED BY <1>6, <1>7, <1>8, <1>9

-------------------------------------------------------------------------------
(* The steps, once more.                                                   *)

LEMMA StopInv == ASSUME PowerOff PROVE Inv'
  <1>1. Control'
    BY StopKeeps
  <1>2. TypeOK'
    <2>1. 0 \in 0 .. MaxFiles /\ <<>> \in Seq(Blocks)
      OBVIOUS
    <2>2. /\ pc' \in [Threads -> Locations] /\ children' \in [Threads -> Seq(Blocks)]
          /\ nfiles' \in [Procs -> 0 .. MaxFiles]
      BY <2>1 DEF PowerOff, Locations
    <2> QED BY <2>2 DEF PowerOff, TypeOK
  <1>3. \A p \in Threads : children'[p] = <<>> /\ Listed(p)' = {} /\ NoDuplicates(children'[p])
    BY DEF PowerOff, Listed, NoDuplicates, IsInjective
  <1>4. \A b \in Blocks : ~Live(b)'
    BY DEF PowerOff, Live
  <1>5. \A p \in Threads : pc'[p] = "dead"
    BY DEF PowerOff
  <1> QED BY <1>1, <1>2, <1>3, <1>4, <1>5
          DEF Inv, Lists, Children, Sleepers, Callers, Answers, Loading

\* Nothing happens, or the machine stops as it is.
LEMMA SameInv ==
    ASSUME Inv, Control', kernel' \in {"up", "off", "corrupt"},
           UNCHANGED <<pc, family, target, loaded, files, history>>
    PROVE  Inv'
  <1>1. \A p \in Threads : Listed(p)' = Listed(p)
    BY DEF family, Listed
  <1>2. TypeOK'
    BY DEF family, files, history, Inv, TypeOK
  <1>3. Lists'
    BY <1>1 DEF family, Inv, Lists, Live
  <1>4. Children'
    BY DEF family, Inv, Children, Live
  <1>5. Sleepers'
    BY <1>1 DEF family, Inv, Sleepers
  <1>6. Callers'
    BY <1>1 DEF family, Inv, Callers
  <1>7. Answers'
    BY DEF family, history, Inv, Answers, Answered, Live
  <1> QED BY <1>2, <1>3, <1>4, <1>5, <1>6, <1>7 DEF Inv

\* Steps that leave the records and the exit statuses alone.
LEMMA QuietInv ==
    ASSUME Inv, Control', NEW p \in Threads, NEW l, Goto(p, l),
           l \notin {"unused", "wait_sleep", "exit_up"}, l \in Loading => pc[p] \in Loading,
           pc[p] \notin {"unused", "dead", "exec_sleep"},
           UNCHANGED <<kernel, family, loaded, history>>,
           l = "exec_sleep" => target' = [target EXCEPT ![p] = NoOne],
           target' = target \/ target' = [target EXCEPT ![p] = NoOne],
           nfiles' \in [Procs -> 0 .. MaxFiles],
           file_lock' \in Threads \cup {NoOne}, lock_flag' \in BOOLEAN
    PROVE  Inv'
  <1>1. RecordsKept
    BY SameRecords DEF family
  <1>2. /\ \A q \in Threads : q # p => target'[q] = target[q]
        /\ l = "exec_sleep" => target'[p] = NoOne
    BY DEF Inv, TypeOK
  <1>3. Lists' /\ Children' /\ Sleepers' /\ Callers'
    BY <1>1, <1>2, FamilyFrame DEF family
  <1>4. TypeOK'
    BY DEF Inv, TypeOK, Control, Places, family, history
  <1>5. Answers'
    BY AnswersFrame DEF family, history
  <1> QED BY <1>3, <1>4, <1>5 DEF Inv

\* Steps that store into records in use.
LEMMA StoreInv ==
    ASSUME Inv, Control', NEW p \in Threads, NEW l, Goto(p, l),
           l \notin {"unused", "exec_sleep", "wait_sleep"} \cup Loading,
           pc[p] \notin {"unused", "dead", "exec_sleep"},
           RecordsKept, rec' \in [Blocks -> ChildProcess \cup {Freed}],
           left' \in [Procs -> Status \cup {NoOne}], foreign' \subseteq Blocks,
           loaded' \in [Procs -> {"no", "yes", "failed"}],
           \A c \in Procs : c # p => loaded'[c] = loaded[c],
           \A c \in Procs : loaded'[c] = "yes" => loaded[c] = "yes" \/ rec'[corresp[c]].load_status,
           Answers',
           UNCHANGED <<kernel, children, corresp, target, files>>
    PROVE  Inv'
  <1>1. Lists' /\ Children' /\ Sleepers' /\ Callers'
    BY FamilyFrame
  <1>2. TypeOK'
    BY DEF Inv, TypeOK, Control, Places, files
  <1> QED BY <1>1, <1>2 DEF Inv

LEMMA QuietSteps ==
    ASSUME Inv, Control', NEW p \in Threads,
           \/ SyscallEnter(p) \/ LockInit(p) \/ ClearFlag(p)
           \/ ExecNoCopy(p) \/ ExecNoThread(p) \/ LoadOpen(p) \/ Kill(p)
           \/ ExitClose(p) \/ ExitNextFile(p)
           \/ FileWait(p) \/ FileAcquire(p) \/ FileEnd(p)
    PROVE  Inv'
  <1> USE DEF Loading
  <1>0. /\ nfiles \in [Procs -> 0 .. MaxFiles] /\ file_lock \in Threads \cup {NoOne}
        /\ lock_flag \in BOOLEAN /\ pc[Main] \in MainPlaces
    BY DEF Inv, TypeOK, Control, Places
  <1>1. CASE SyscallEnter(p)
    BY <1>0, <1>1, QuietInv DEF SyscallEnter, files
  <1>2. CASE LockInit(p)
    BY <1>0, <1>2, QuietInv DEF LockInit
  <1>3. CASE ClearFlag(p)
    BY <1>0, <1>3, QuietInv DEF ClearFlag
  <1>4. CASE ExecNoCopy(p)
    BY <1>0, <1>4, QuietInv DEF ExecNoCopy, files, InSyscall
  <1>5. CASE ExecNoThread(p)
    BY <1>0, <1>5, QuietInv DEF ExecNoThread, files, InSyscall
  <1>12. CASE LoadOpen(p)
    BY <1>0, <1>12, QuietInv DEF LoadOpen, files
  <1>6. CASE Kill(p)
    BY <1>0, <1>6, QuietInv DEF Kill, files
  <1>7. CASE ExitClose(p)
    <2>1. p \in Procs
      BY <1>0, <1>7 DEF ExitClose, MainPlaces
    <2>2. nfiles' \in [Procs -> 0 .. MaxFiles]
      BY <1>0, <1>7, <2>1 DEF ExitClose
    <2> QED BY <1>0, <1>7, <2>2, QuietInv DEF ExitClose
  <1>8. CASE ExitNextFile(p)
    BY <1>0, <1>8, QuietInv DEF ExitNextFile
  <1>9. CASE FileWait(p)
    BY <1>0, <1>9, QuietInv DEF FileWait, files, InSyscall
  <1>10. CASE FileAcquire(p)
    BY <1>0, <1>10, QuietInv DEF FileAcquire, InSyscall
  <1>11. CASE FileEnd(p)
    <2>1. nfiles' \in [Procs -> 0 .. MaxFiles]
      BY <1>0, <1>11 DEF FileEnd
    <2> QED BY <1>0, <1>11, <2>1, QuietInv DEF FileEnd
  <1> QED BY <1>1, <1>2, <1>3, <1>4, <1>5, <1>6, <1>7, <1>8, <1>9, <1>10, <1>11, <1>12

\* load and exit store into the record of the process.
LEMMA StoreSteps ==
    ASSUME Inv, Control', NEW p \in Threads,
           \/ Load(p) \/ (\E s \in ExitCodes : Exit(p, s)) \/ ExitUp(p) \/ ExitMark(p)
    PROVE  Inv'
  <1> USE DEF Loading
  <1>0. p \in Procs
    BY CallsOfProcesses
    DEF Load, Exit, ExitUp, ExitMark, Inv, Control, Places, MainPlaces
  <1>1. corresp[p] \in Blocks /\ pc[p] \notin {"unused", "dead", "exec_sleep"}
    BY <1>0 DEF Load, Exit, ExitUp, ExitMark, InSyscall, Inv, Children
  <1>2. /\ rec \in [Blocks -> ChildProcess \cup {Freed}]
        /\ left \in [Procs -> Status \cup {NoOne}]
        /\ loaded \in [Procs -> {"no", "yes", "failed"}] /\ foreign \subseteq Blocks
    BY DEF Inv, TypeOK
  <1>3. CASE Load(p)
    <2>1. PICK q \in Threads : pc[q] = "exec_sleep" /\ target[q] = p /\ corresp[p] \in Listed(q)
      BY <1>0, <1>3 DEF Load, Inv, Sleepers
    <2>2. Live(corresp[p]) /\ -1 \in Status /\ rec[corresp[p]].pid = p
      <3>1. target[q] # NoOne
        BY <1>0, <2>1
      <3> QED BY <2>1, <3>1, ListFacts DEF Status, Inv, Callers
    <2>3. RecordsKept /\ rec' \in [Blocks -> ChildProcess \cup {Freed}]
      BY <1>1, <1>3, <2>2, SetKeeps DEF Load
    <2>4. /\ loaded' \in [Procs -> {"no", "yes", "failed"}]
          /\ \A c \in Procs : c # p => loaded'[c] = loaded[c]
      BY <1>0, <1>2, <1>3 DEF Load
    <2>5. \E l \in {"user", "exit_files"} : Goto(p, l)
      BY <1>3 DEF Load
    <2>6. UNCHANGED <<kernel, children, corresp, target, files, left, foreign>>
      BY <1>3 DEF Load, history
    <2>7. /\ \A b \in Blocks : rec'[b] # Freed =>
                /\ rec[b] # Freed /\ rec'[b].pid = rec[b].pid
                /\ rec'[b].waitLock = rec[b].waitLock
                /\ b # corresp[p] => rec'[b].status = rec[b].status
          /\ loaded'[p] = "yes" => rec'[corresp[p]].load_status
      <3>1. CASE Set(corresp[p], "load_status", TRUE)
        BY <1>1, <2>2, <3>1, SetFlag
      <3>2. CASE Set(corresp[p], "status", -1) /\ loaded' = [loaded EXCEPT ![p] = "failed"]
        <4>1. loaded'[p] = "failed"
          BY <1>0, <1>2, <3>2
        <4> QED BY <1>1, <2>2, <3>2, <4>1, SetStatus
      <3> QED BY <1>3, <3>1, <3>2 DEF Load
    <2>8. \A c \in Procs : loaded'[c] = "yes" => loaded[c] = "yes" \/ rec'[corresp[c]].load_status
      BY <2>4, <2>7
    <2>9. Answers'
      <3>1. corresp[p] \notin foreign => ~(rec[corresp[p]].waitLock > 0)
        <4>1. pc[p] \in Loading
          BY <1>3 DEF Load
        <4> QED BY <1>1, <2>2, <4>1 DEF Inv, Answers
      <3> QED BY <1>0, <1>1, <2>2, <2>5, <2>6, <2>7, <3>1, AnswersOfOne
    <2> QED BY <1>1, <1>2, <2>3, <2>4, <2>5, <2>6, <2>8, <2>9, StoreInv
  <1>4. CASE \E s \in ExitCodes : Exit(p, s)
    <2>1. PICK s \in ExitCodes : Exit(p, s)
      BY <1>4
    <2>2. RecordsKept /\ rec' \in [Blocks -> ChildProcess \cup {Freed}]
      <3>1. CASE ~Live(corresp[p])
        BY <1>2, <2>1, <3>1, SameRecords DEF Exit
      <3>2. CASE Live(corresp[p])
        <4>1. \E n \in Status : Set(corresp[p], "status", n)
          BY <2>1, <3>2 DEF Exit, Status
        <4> QED BY <1>1, <3>2, <4>1, SetKeeps
      <3> QED BY <3>1, <3>2
    <2>3. left' \in [Procs -> Status \cup {NoOne}] /\ foreign' \subseteq Blocks
      BY <1>1, <1>2, <2>1 DEF Exit, Status, Mark, history
    <2>4. Goto(p, "exit_up") /\ UNCHANGED <<kernel, children, corresp, target, loaded, files>>
      BY <2>1 DEF Exit
    <2>5. Answers'
      <3>1. CASE ~Live(corresp[p])
        BY <1>0, <1>1, <2>1, <2>4, <3>1, AnswersOfOne DEF Exit, Live, history
      <3>2. CASE Live(corresp[p])
        <4>1. PICK n \in Status : /\ Set(corresp[p], "status", n) /\ Mark(p)
                                  /\ left' = IF Own(p) THEN [left EXCEPT ![p] = n] ELSE left
          BY <2>1, <3>2 DEF Exit, Status
        <4>2. /\ \A b \in Blocks : rec'[b] # Freed =>
                    /\ rec[b] # Freed /\ rec'[b].pid = rec[b].pid
                    /\ rec'[b].waitLock = rec[b].waitLock
                    /\ b # corresp[p] => rec'[b].status = rec[b].status
              /\ rec'[corresp[p]].status = n
          BY <1>1, <3>2, <4>1, SetStatus
        <4>3. /\ Own(p) => left'[p] = n /\ n # NoOne
              /\ \A c \in Procs : c # p => left'[c] = left[c]
          BY <1>0, <1>2, <4>1, RecordAssumption
        <4>4. foreign \subseteq foreign' /\ (corresp[p] \notin foreign' => Own(p))
          BY <4>1 DEF Mark
        <4> QED BY <1>0, <1>1, <2>4, <4>2, <4>3, <4>4, AnswersOfOne DEF Own
      <3> QED BY <3>1, <3>2
    <2> QED BY <1>1, <1>2, <2>2, <2>3, <2>4, <2>5, StoreInv
  <1>5. CASE ExitUp(p)
    <2>1. RecordsKept /\ rec' \in [Blocks -> ChildProcess \cup {Freed}]
      BY <1>1, <1>2, <1>5, SetKeeps, SameRecords DEF ExitUp
    <2>2. \E l \in {"exit_files", "hung"} : Goto(p, l)
      BY <1>5 DEF ExitUp
    <2>3. UNCHANGED <<kernel, children, corresp, target, loaded, files, left>>
      BY <1>5 DEF ExitUp
    <2>5. /\ foreign \subseteq foreign' /\ foreign' \subseteq Blocks
          /\ Live(corresp[p]) /\ corresp[p] \notin foreign' => Own(p)
      BY <1>1, <1>2, <1>5 DEF ExitUp, Mark
    <2>4. Answers'
      <3>1. \A b \in Blocks : rec'[b] # Freed =>
               /\ rec[b] # Freed /\ rec'[b].pid = rec[b].pid
               /\ rec'[b].status = rec[b].status
               /\ b # corresp[p] => rec'[b].waitLock = rec[b].waitLock
        <4>1. CASE Live(corresp[p])
          BY <1>1, <1>5, <4>1, SetLock DEF ExitUp
        <4>2. CASE ~Live(corresp[p])
          BY <1>5, <4>2 DEF ExitUp
        <4> QED BY <4>1, <4>2
      <3>2. corresp[p] \notin foreign' /\ Live(corresp[p]) =>
               left[p] # NoOne /\ rec[corresp[p]].status = left[p]
        <4>1. pc[p] = "exit_up"
          BY <1>5 DEF ExitUp
        <4> QED BY <1>1, <2>5, <4>1 DEF Inv, Answers, Answered, Own
      <3> QED BY <1>0, <1>1, <2>2, <2>3, <2>5, <3>1, <3>2, AnswersOfOne DEF Live, Own
    <2> QED BY <1>1, <1>2, <2>1, <2>2, <2>3, <2>4, <2>5, StoreInv
  <1>6. CASE ExitMark(p)
    <2>1. RecordsKept /\ rec' \in [Blocks -> ChildProcess \cup {Freed}]
      BY <1>1, <1>2, <1>6, SetKeeps, SameRecords DEF ExitMark
    <2>2. Goto(p, "dead") /\ UNCHANGED <<kernel, children, corresp, target, loaded, files, left>>
      BY <1>6 DEF ExitMark
    <2>4. foreign \subseteq foreign' /\ foreign' \subseteq Blocks
      BY <1>1, <1>2, <1>6 DEF ExitMark, Mark
    <2>3. Answers'
      <3>1. \A b \in Blocks : rec'[b] # Freed =>
               /\ rec[b] # Freed /\ rec'[b].pid = rec[b].pid
               /\ rec'[b].waitLock = rec[b].waitLock /\ rec'[b].status = rec[b].status
        <4>1. CASE Live(corresp[p]) /\ Set(corresp[p], "exit_status", TRUE)
          BY <1>1, <4>1, SetFlag
        <4>2. CASE UNCHANGED rec
          BY <4>2
        <4> QED BY <1>6, <4>1, <4>2 DEF ExitMark
      <3> QED BY <2>2, <2>4, <3>1, AnswersFrame
    <2> QED BY <1>1, <1>2, <2>1, <2>2, <2>3, <2>4, StoreInv
  <1> QED BY <1>3, <1>4, <1>5, <1>6

\* exec returns, and a wait begins.
LEMMA SleepSteps ==
    ASSUME Inv, Control', NEW p \in Threads,
           ExecReturn(p) \/ \E c \in Procs : WaitSleep(p, c)
    PROVE  Inv'
  <1> USE DEF Loading
  <1>0. /\ rec \in [Blocks -> ChildProcess \cup {Freed}]
        /\ target \in [Threads -> Procs \cup Blocks \cup {NoOne}]
        /\ loaded \in [Procs -> {"no", "yes", "failed"}]
    BY DEF Inv, TypeOK
  <1>1. CASE ExecReturn(p)
    <2>1. /\ pc[p] = "exec_sleep" /\ loaded[target[p]] # "no"
          /\ target' = target \/ target' = [target EXCEPT ![p] = NoOne]
          /\ loaded' = [loaded EXCEPT ![target[p]] = "no"]
          /\ UNCHANGED <<kernel, children, corresp, rec, files, left, foreign>>
      BY <1>1 DEF ExecReturn, family, history
    <2>2. PICK l \in {"task_wait", "user"} : Goto(p, l)
      BY <1>1 DEF ExecReturn
    <2>3. \A c \in Procs : target[p] = c => pc[c] \notin Loading
      BY <2>1 DEF Inv, Children
    <2>4. \A q \in Threads : q # p => target'[q] = target[q]
      BY <1>0, <2>1
    <2>5. \A c \in Procs : loaded[c] = "no" => loaded'[c] = "no"
      BY <1>0, <2>1
    <2>6. Lists' /\ Children' /\ Sleepers' /\ Callers'
      <3>1. \A c \in Procs : loaded'[c] = "yes" => loaded[c] = "yes"
        BY <1>0, <2>1
      <3> QED BY <2>1, <2>2, <2>3, <2>4, <2>5, <3>1, SameRecords, FamilyFrame
    <2>7. TypeOK'
      BY <1>0, <2>1 DEF Inv, TypeOK, Control, Places, files
    <2>8. Answers'
      BY <2>1, <2>2, AnswersFrame
    <2> QED BY <2>6, <2>7, <2>8 DEF Inv
  <1>2. ASSUME NEW c \in Procs, WaitSleep(p, c) PROVE Inv'
    <2> DEFINE b == Record(p, c)
    <2>1. /\ Set(b, "waiting", TRUE) /\ target' = [target EXCEPT ![p] = b]
          /\ Goto(p, "wait_sleep") /\ pc[p] \notin {"unused", "dead", "exec_sleep"}
          /\ UNCHANGED <<kernel, children, corresp, loaded, files, left, foreign>>
      BY <1>2 DEF WaitSleep, InSyscall, history
    <2>2. b \in Listed(p)
      BY <1>2, SearchFinds DEF WaitSleep, Waitable
    <2>3. b \in Blocks /\ Live(b)
      BY <2>2, ListFacts
    <2> HIDE DEF b
    <2>4. /\ RecordsKept /\ rec' \in [Blocks -> ChildProcess \cup {Freed}]
          /\ rec'[b].waiting
      BY <2>1, <2>3, SetKeeps
    <2>5. target'[p] = b /\ \A q \in Threads : q # p => target'[q] = target[q]
      BY <1>0, <2>1
    <2>6. Lists' /\ Children' /\ Sleepers' /\ Callers'
      BY <2>1, <2>2, <2>4, <2>5, FamilyFrame
    <2>7. target' \in [Threads -> Procs \cup Blocks \cup {NoOne}]
      BY <1>0, <2>1, <2>3
    <2>8. TypeOK'
      BY <2>1, <2>4, <2>7 DEF Inv, TypeOK, Control, Places, files
    <2>9. Answers'
      <3>1. \A a \in Blocks : rec'[a] # Freed =>
               /\ rec[a] # Freed /\ rec'[a].pid = rec[a].pid
               /\ rec'[a].waitLock = rec[a].waitLock /\ rec'[a].status = rec[a].status
        BY <2>1, <2>3, SetFlag
      <3> QED BY <2>1, <3>1, AnswersFrame
    <2> QED BY <2>6, <2>8, <2>9 DEF Inv
  <1> QED BY <1>1, <1>2

\* A wait ends, and the records of a process that exits are freed.
LEMMA FreeInv ==
    ASSUME Inv, Control', NEW p \in Threads, NEW b \in Listed(p), NEW l, Goto(p, l),
           l \in {"user", "exit_next_child"},
           pc[p] \notin {"unused", "dead", "exec_sleep"},
           \E s \in Seq(Blocks) : /\ NoDuplicates(s) /\ ToSet(s) = Listed(p) \ {b}
                                  /\ children' = [children EXCEPT ![p] = s],
           Free(b),
           \E x \in Blocks \cup {NoOne} : target' = [target EXCEPT ![p] = x],
           UNCHANGED <<kernel, corresp, loaded, files>>
    PROVE  Inv'
  <1>0. /\ rec \in [Blocks -> ChildProcess \cup {Freed}] /\ children \in [Threads -> Seq(Blocks)]
        /\ target \in [Threads -> Procs \cup Blocks \cup {NoOne}]
        /\ left \in [Procs -> Status \cup {NoOne}] /\ foreign \subseteq Blocks
    BY DEF Inv, TypeOK
  <1>1. b \in Blocks /\ rec[b].pid \in Procs
    BY ListFacts DEF ChildProcess
  <1>2. /\ rec' = [rec EXCEPT ![b] = Freed] /\ left' = [left EXCEPT ![rec[b].pid] = NoOne]
        /\ foreign' = foreign \ {b}
    BY DEF Free
  <1>3. PICK s \in Seq(Blocks) : /\ NoDuplicates(s) /\ ToSet(s) = Listed(p) \ {b}
                                 /\ children' = [children EXCEPT ![p] = s]
    OBVIOUS
  <1>4. /\ children'[p] = s
        /\ \A q \in Threads : q # p => target'[q] = target[q] /\ children'[q] = children[q]
    BY <1>0, <1>3
  <1>5. Lists' /\ Children' /\ Sleepers' /\ Callers'
    BY <1>2, <1>3, <1>4, RemoveFrame DEF Loading
  <1>6. /\ rec' \in [Blocks -> ChildProcess \cup {Freed}] /\ children' \in [Threads -> Seq(Blocks)]
        /\ target' \in [Threads -> Procs \cup Blocks \cup {NoOne}]
        /\ left' \in [Procs -> Status \cup {NoOne}] /\ foreign' \subseteq Blocks
    BY <1>0, <1>1, <1>2, <1>3
  <1>7. TypeOK'
    BY <1>6 DEF Inv, TypeOK, Control, Places, files
  <1>8. Answers'
    <2>1. ASSUME NEW a \in Blocks, rec'[a] # Freed
          PROVE  /\ rec[a] # Freed /\ rec'[a] = rec[a] /\ left'[rec[a].pid] = left[rec[a].pid]
                 /\ a \in foreign => a \in foreign'
      <3>1. a # b /\ rec'[a] = rec[a]
        BY <1>0, <1>1, <1>2, <2>1
      <3>2. rec[a].pid # rec[b].pid
        <4>1. Live(a) /\ Live(b)
          BY <2>1, <3>1, ListFacts DEF Live
        <4>2. corresp[rec[a].pid] = a /\ corresp[rec[b].pid] = b
          BY <1>1, <4>1 DEF Inv, Children
        <4> QED BY <3>1, <4>2
      <3>3. rec[a].pid \in Procs
        <4>1. rec[a] \in ChildProcess
          BY <1>0, <2>1, <3>1
        <4> QED BY <4>1 DEF ChildProcess
      <3> QED BY <1>0, <1>2, <2>1, <3>1, <3>2, <3>3
    <2> QED BY <2>1, AnswersFrame DEF Loading
  <1> QED BY <1>5, <1>7, <1>8 DEF Inv

\* removeChild and the end of the wait.
LEMMA WaitReturnInv ==
    ASSUME Inv, Control', NEW p \in Threads, NEW b \in Listed(p),
           WaitReturn(p), p # Main => RemoveChild(p, b),
           pc[p] \notin {"unused", "dead", "exec_sleep"}
    PROVE  Inv'
  <1>1. CASE p = Main
    BY <1>1, StopInv DEF WaitReturn
  <1>2. CASE p # Main
    <2>1. /\ Goto(p, "user") /\ target' = [target EXCEPT ![p] = NoOne]
          /\ UNCHANGED <<kernel, corresp, loaded, files>>
          /\ children' = [children EXCEPT ![p] = RemoveFirst(children[p], b)] /\ Free(b)
      BY <1>2 DEF WaitReturn, RemoveChild
    <2>2. /\ children[p] \in Seq(Blocks) /\ NoDuplicates(children[p]) /\ Listed(p) = ToSet(children[p])
      BY ListFacts
    <2>3. /\ RemoveFirst(children[p], b) \in Seq(Blocks) /\ NoDuplicates(RemoveFirst(children[p], b))
          /\ ToSet(RemoveFirst(children[p], b)) = Listed(p) \ {b}
      BY <2>2, RemoveFound
    <2> QED BY <2>1, <2>3, FreeInv
  <1> QED BY <1>1, <1>2

LEMMA FreeSteps ==
    ASSUME Inv, Control', NEW p \in Threads,
           \/ \E c \in Procs : WaitRefused(p, c) \/ WaitGone(p, c)
           \/ WaitEnd(p) \/ ExitChild(p) \/ ExitNextChild(p)
    PROVE  Inv'
  <1>0. nfiles \in [Procs -> 0 .. MaxFiles] /\ file_lock \in Threads \cup {NoOne} /\ lock_flag \in BOOLEAN
    BY DEF Inv, TypeOK
  <1>1. ASSUME NEW c \in Procs, WaitRefused(p, c) PROVE Inv'
    <2>1. CASE p = Main
      BY <1>1, <2>1, StopInv DEF WaitRefused, WaitReturn
    <2>2. CASE p # Main
      BY <1>0, <1>1, <2>2, QuietInv DEF WaitRefused, WaitReturn, InSyscall, family, files, Loading
    <2> QED BY <2>1, <2>2
  <1>2. ASSUME NEW c \in Procs, WaitGone(p, c) PROVE Inv'
    <2>1. Record(p, c) \in Listed(p)
      BY <1>2, SearchFinds DEF WaitGone, Waitable
    <2> QED BY <1>2, <2>1, WaitReturnInv DEF WaitGone, InSyscall
  <1>3. CASE WaitEnd(p)
    <2>1. target[p] \in Listed(p)
      BY <1>3 DEF WaitEnd, Inv, Sleepers
    <2> QED BY <1>3, <2>1, WaitReturnInv DEF WaitEnd
  <1>4. CASE ExitChild(p)
    <2>1. /\ children[p] # <<>> /\ children[p] \in Seq(Blocks) /\ NoDuplicates(children[p])
          /\ Listed(p) = ToSet(children[p]) /\ Listed(p) \subseteq Blocks
      BY <1>4, ListFacts DEF ExitChild
    <2>2. /\ Head(children[p]) \in Listed(p) /\ Tail(children[p]) \in Seq(Blocks)
          /\ NoDuplicates(Tail(children[p]))
          /\ ToSet(Tail(children[p])) = Listed(p) \ {Head(children[p])}
      BY <2>1, PopFront
    <2> QED BY <1>4, <2>1, <2>2, FreeInv DEF ExitChild
  <1>5. CASE ExitNextChild(p)
    <2>1. CASE Live(target[p])
      BY <1>5, <2>1, SameInv DEF ExitNextChild
    <2>2. CASE ~Live(target[p])
      BY <1>0, <1>5, <2>2, QuietInv DEF ExitNextChild, files, Loading
    <2> QED BY <2>1, <2>2
  <1> QED BY <1>1, <1>2, <1>3, <1>4, <1>5

\* exec: the new record is in one list, and the child points to it.
LEMMA ExecInv ==
    ASSUME Inv, Control', NEW p \in Threads, NEW c \in Procs, NEW b \in Blocks, Exec(p, c, b)
    PROVE  Inv'
  <1>0. /\ rec \in [Blocks -> ChildProcess \cup {Freed}] /\ children \in [Threads -> Seq(Blocks)]
        /\ target \in [Threads -> Procs \cup Blocks \cup {NoOne}]
        /\ corresp \in [Procs -> Blocks \cup {NoOne}] /\ pc \in [Threads -> Locations]
    BY DEF Inv, TypeOK
  <1>1. PICK e, l \in BOOLEAN : rec' = [rec EXCEPT ![b] = NewChild(c, e, l)]
    BY DEF Exec
  <1>2. /\ pc[p] \notin {"unused", "dead", "exec_sleep"} \cup Loading
        /\ pc[c] = "unused" /\ ~Live(b)
        /\ children' = [children EXCEPT ![p] = Append(@, b)]
        /\ corresp' = [corresp EXCEPT ![c] = b]
        /\ target' = [target EXCEPT ![p] = c]
        /\ pc' = [pc EXCEPT ![p] = "exec_sleep", ![c] = "load"]
        /\ foreign' = foreign \ {b}
        /\ UNCHANGED <<kernel, loaded, files, left>>
    BY DEF Exec, InSyscall, NextTid, MayAllocate, Loading
  <1>3. NewChild(c, e, l) \in ChildProcess /\ NewChild(c, e, l).pid = c /\ NewChild(c, e, l) # Freed
    <2>1. NewChild(c, e, l).pid = c
      BY DEF NewChild
    <2>2. 0 \in Status
      BY DEF Status
    <2>3. NewChild(c, e, l) \in ChildProcess
      BY <2>2 DEF NewChild, ChildProcess
    <2> QED BY <2>1, <2>3, RecordAssumption
  <1>4. /\ rec'[b] = NewChild(c, e, l)
        /\ \A a \in Blocks : a # b => rec'[a] = rec[a]
    BY <1>0, <1>1
  <1>5. b \notin Listed(p) /\ \A q \in Threads : b \notin Listed(q)
    BY <1>2 DEF Inv, Lists
  <1>6. /\ children'[p] = Append(children[p], b) /\ children'[p] \in Seq(Blocks)
        /\ NoDuplicates(children'[p]) /\ Listed(p)' = Listed(p) \cup {b}
    <2>1. /\ children[p] \in Seq(Blocks) /\ NoDuplicates(children[p]) /\ Listed(p) = ToSet(children[p])
      BY ListFacts
    <2>2. children'[p] = Append(children[p], b)
      BY <1>0, <1>2
    <2>3. Listed(p)' = ToSet(children'[p])
      BY DEF Listed, ToSet
    <2> QED BY <1>5, <2>1, <2>2, <2>3, PushBack
  <1>7. \A q \in Threads : q # p => children'[q] = children[q] /\ Listed(q)' = Listed(q)
    BY <1>0, <1>2 DEF Listed
  <1>8. /\ p # c /\ pc'[p] = "exec_sleep" /\ pc'[c] = "load"
        /\ \A q \in Threads : q \notin {p, c} => pc'[q] = pc[q]
        /\ target'[p] = c /\ \A q \in Threads : q # p => target'[q] = target[q]
        /\ corresp'[c] = b /\ \A d \in Procs : d # c => corresp'[d] = corresp[d]
    BY <1>0, <1>2
  <1>9. Lists'
    <2>1. \A q \in Threads : NoDuplicates(children'[q])
      BY <1>6, <1>7 DEF Inv, Lists
    <2>2. \A q, r \in Threads : Listed(q)' \cap Listed(r)' # {} => q = r
      <3>1. ASSUME NEW q \in Threads, NEW r \in Threads, NEW a,
                   a \in Listed(q)', a \in Listed(r)'
            PROVE  q = r
        <4>1. CASE a = b
          BY <1>5, <1>7, <3>1, <4>1
        <4>2. CASE a # b
          <5>1. a \in Listed(q) /\ a \in Listed(r)
            BY <1>6, <1>7, <3>1, <4>2
          <5> QED BY <5>1 DEF Inv, Lists
        <4> QED BY <4>1, <4>2
      <3> QED BY <3>1
    <2>3. \A a \in Blocks : Live(a)' <=> \E q \in Threads : a \in Listed(q)'
      <3>1. Live(b)' /\ b \in Listed(p)'
        BY <1>3, <1>4, <1>6 DEF Live
      <3>2. ASSUME NEW a \in Blocks, a # b
            PROVE  Live(a)' <=> \E q \in Threads : a \in Listed(q)'
        <4>1. Live(a)' <=> Live(a)
          BY <1>4, <3>2 DEF Live
        <4>2. \A q \in Threads : a \in Listed(q)' <=> a \in Listed(q)
          BY <1>6, <1>7, <3>2
        <4> QED BY <4>1, <4>2 DEF Inv, Lists
      <3> QED BY <3>1, <3>2
    <2> QED BY <2>1, <2>2, <2>3 DEF Lists
  <1>10. Children'
    <2>1. ASSUME NEW a \in Blocks, Live(a)'
          PROVE  corresp'[rec'[a].pid] = a /\ pc'[rec'[a].pid] # "unused"
      <3>1. CASE a = b
        BY <1>3, <1>4, <1>8, <3>1
      <3>2. CASE a # b
        <4>1. Live(a) /\ rec'[a] = rec[a]
          BY <1>4, <2>1, <3>2 DEF Live
        <4>2. rec[a].pid \in Procs
          BY <1>0, <4>1 DEF ChildProcess, Live
        <4>3. corresp[rec[a].pid] = a /\ pc[rec[a].pid] # "unused"
          BY <4>1 DEF Inv, Children
        <4>4. rec[a].pid # c
          BY <1>2, <4>3
        <4>5. pc'[rec[a].pid] # "unused" /\ corresp'[rec[a].pid] = a
          BY <1>8, <4>2, <4>3, <4>4
        <4> QED BY <4>1, <4>5
      <3> QED BY <3>1, <3>2
    <2>2. ASSUME NEW d \in Procs, pc'[d] \in {"unused"} \cup Loading PROVE loaded'[d] = "no"
      BY <1>2, <1>8, <2>2 DEF Inv, Children, Loading
    <2>3. ASSUME NEW d \in Procs, pc'[d] \notin {"unused", "dead"} PROVE corresp'[d] \in Blocks
      BY <1>2, <1>8, <2>3 DEF Inv, Children
    <2> QED BY <2>1, <2>2, <2>3 DEF Children
  <1>11. Sleepers'
    <2>1. ASSUME NEW q \in Threads, pc'[q] = "wait_sleep"
          PROVE  target'[q] \in Listed(q)' /\ rec'[target'[q]].waiting
      <3>1. q \notin {p, c} /\ target[q] \in Listed(q) /\ rec[target[q]].waiting
        BY <1>8, <2>1 DEF Inv, Sleepers
      <3>2. target[q] \in Blocks /\ target[q] # b
        BY <1>5, <3>1, ListFacts
      <3>3. target'[q] = target[q] /\ Listed(q)' = Listed(q) /\ rec'[target[q]] = rec[target[q]]
        BY <1>4, <1>7, <1>8, <3>1, <3>2
      <3> QED BY <3>1, <3>3
    <2>2. ASSUME NEW d \in Procs, pc'[d] \in Loading
          PROVE  \E q \in Threads : pc'[q] = "exec_sleep" /\ target'[q] = d /\ corresp'[d] \in Listed(q)'
      <3>1. CASE d = c
        BY <1>6, <1>8, <3>1
      <3>2. CASE d # c
        <4>1. pc[d] \in Loading
          BY <1>8, <2>2, <3>2 DEF Loading
        <4>2. PICK q \in Threads : pc[q] = "exec_sleep" /\ target[q] = d /\ corresp[d] \in Listed(q)
          BY <4>1 DEF Inv, Sleepers
        <4>3. q \notin {p, c}
          BY <1>2, <4>2
        <4> QED BY <1>7, <1>8, <3>2, <4>2, <4>3
      <3> QED BY <3>1, <3>2
    <2> QED BY <2>1, <2>2 DEF Sleepers
  <1>12. TypeOK'
    <2>1. children' \in [Threads -> Seq(Blocks)]
      BY <1>0, <1>2, <1>6
    <2>2. rec' \in [Blocks -> ChildProcess \cup {Freed}]
      BY <1>0, <1>1, <1>3
    <2>3. /\ target' \in [Threads -> Procs \cup Blocks \cup {NoOne}]
          /\ corresp' \in [Procs -> Blocks \cup {NoOne}]
      BY <1>0, <1>2
    <2>4. pc' \in [Threads -> Locations] /\ foreign' \subseteq Blocks
      BY <1>2 DEF Inv, TypeOK, Control, Places
    <2> QED BY <1>2, <2>1, <2>2, <2>3, <2>4 DEF Inv, TypeOK, files
  <1>13. Callers'
    <2>1. SUFFICES ASSUME NEW q \in Threads, pc'[q] = "exec_sleep", target'[q] # NoOne
                   PROVE  LET d == target'[q]
                          IN  /\ d \in Procs /\ corresp'[d] \in Listed(q)'
                              /\ rec'[corresp'[d]].pid = d
                              /\ loaded'[d] = "yes" => rec'[corresp'[d]].load_status
      BY DEF Callers
    <2>2. CASE q = p
      <3>1. loaded'[c] = "no"
        BY <1>2 DEF Inv, Children
      <3> QED BY <1>3, <1>4, <1>6, <1>8, <2>2, <3>1
    <2>3. CASE q # p
      <3>1. pc[q] = "exec_sleep" /\ target'[q] = target[q] /\ Listed(q)' = Listed(q)
        BY <1>7, <1>8, <2>1, <2>3
      <3>2. /\ target[q] \in Procs /\ corresp[target[q]] \in Listed(q)
            /\ rec[corresp[target[q]]].pid = target[q]
            /\ loaded[target[q]] = "yes" => rec[corresp[target[q]]].load_status
        BY <2>1, <3>1 DEF Inv, Callers
      <3>3. corresp[target[q]] \in Blocks /\ Live(corresp[target[q]]) /\ corresp[target[q]] # b
        BY <1>5, <3>2, ListFacts
      <3>4. pc[target[q]] # "unused"
        BY <3>2, <3>3 DEF Inv, Children
      <3>5. target[q] # c
        BY <1>2, <3>4
      <3>6. /\ corresp'[target[q]] = corresp[target[q]]
            /\ rec'[corresp[target[q]]] = rec[corresp[target[q]]]
        BY <1>4, <1>8, <3>2, <3>3, <3>5
      <3> QED BY <1>2, <3>1, <3>2, <3>6
    <2> QED BY <2>2, <2>3
  <1>14. Answers'
    <2> SUFFICES ASSUME NEW a \in Blocks, Live(a)', a \notin foreign'
                 PROVE  /\ rec'[a].waitLock > 0 => pc'[rec'[a].pid] \notin Loading
                        /\ rec'[a].waitLock > 0 \/ pc'[rec'[a].pid] = "exit_up" => Answered(a)'
      BY DEF Answers
    <2>1. CASE a = b
      <3>1. rec'[a].pid = c /\ rec'[a].waitLock = 0
        BY <1>4, <2>1 DEF NewChild
      <3> QED BY <1>8, <3>1
    <2>2. CASE a # b
      <3>1. Live(a) /\ rec'[a] = rec[a] /\ rec[a].pid \in Procs /\ a \notin foreign
        BY <1>0, <1>2, <1>4, <2>2 DEF Live, ChildProcess
      <3>2. rec[a].pid # c
        BY <1>2, <3>1 DEF Inv, Children
      <3>3. /\ rec[a].waitLock > 0 => pc[rec[a].pid] \notin Loading
            /\ rec[a].waitLock > 0 \/ pc[rec[a].pid] = "exit_up" => Answered(a)
        BY <3>1 DEF Inv, Answers
      <3>4. \/ pc'[rec[a].pid] = pc[rec[a].pid]
            \/ pc'[rec[a].pid] = "exec_sleep"
        BY <1>8, <3>1, <3>2
      <3> QED BY <1>2, <3>1, <3>3, <3>4 DEF Answered, Loading
    <2> QED BY <2>1, <2>2
  <1> QED BY <1>9, <1>10, <1>11, <1>12, <1>13, <1>14 DEF Inv

-------------------------------------------------------------------------------
(* The theorems about records.                                             *)

LEMMA InitInv == Init => Inv
  <1> SUFFICES ASSUME Init PROVE Inv
    OBVIOUS
  <1>1. Control
    BY InitControl
  <1>2. /\ pc \in [Threads -> Locations]
        /\ \A p \in Threads : pc[p] \in {"task", "unused"}
    BY DEF Init, Locations
  <1>3. TypeOK
    <2>1. 0 \in 0 .. MaxFiles /\ <<>> \in Seq(Blocks)
      OBVIOUS
    <2>2. children \in [Threads -> Seq(Blocks)] /\ nfiles \in [Procs -> 0 .. MaxFiles]
      BY <2>1 DEF Init
    <2> QED BY <1>2, <2>2 DEF Init, TypeOK
  <1>4. \A p \in Threads : children[p] = <<>> /\ Listed(p) = {} /\ NoDuplicates(children[p])
    BY DEF Init, Listed, NoDuplicates, IsInjective
  <1>5. \A b \in Blocks : ~Live(b)
    BY DEF Init, Live
  <1>6. \A p \in Procs : pc[p] = "unused" /\ loaded[p] = "no"
    BY DEF Init
  <1> QED BY <1>1, <1>2, <1>3, <1>4, <1>5, <1>6
          DEF Inv, Lists, Children, Sleepers, Callers, Answers, Loading

LEMMA StepInv == Inv /\ [Next]_vars => Inv'
  <1> SUFFICES ASSUME Inv, [Next]_vars PROVE Inv'
    OBVIOUS
  <1>0. Control'
    BY StepControl DEF Inv
  <1>1. ASSUME NEW p \in Threads, SystemCall(p) PROVE Inv'
    <2>1. CASE Halt(p)
      BY <2>1, StopInv DEF Halt
    <2> QED BY <1>0, <1>1, <2>1, QuietSteps, StoreSteps, SleepSteps, FreeSteps, ExecInv
            DEF SystemCall
  <1>2. ASSUME NEW p \in Threads, KernelStep(p) PROVE Inv'
    BY <1>0, <1>2, QuietSteps, StoreSteps, SleepSteps, FreeSteps DEF KernelStep
  <1>3. CASE UNCHANGED vars
    <2>1. /\ UNCHANGED <<pc, family, target, loaded, files, history>>
          /\ kernel' \in {"up", "off", "corrupt"}
      BY <1>3 DEF vars, family, files, history, Inv, TypeOK
    <2> QED BY <1>0, <2>1, SameInv
  <1> QED BY <1>1, <1>2, <1>3 DEF Next

LEMMA InvHolds == Spec => []Inv
  BY InitInv, StepInv, PTL DEF Spec

(***************************************************************************)
(* Every variable keeps its type: no list of children ever holds anything  *)
(* but blocks, and a store never turns a record into something else.       *)
(***************************************************************************)
THEOREM ProcessTypes == Spec => []TypeOK
  <1>1. Inv => TypeOK
    BY DEF Inv
  <1> QED BY <1>1, InvHolds, PTL

(***************************************************************************)
(* A record in use is in one list, once, and is the one its process points *)
(* to; a parent asleep in process_wait keeps the record it sleeps on.  For *)
(* any number of processes, blocks and files.                              *)
(***************************************************************************)
THEOREM RecordsCorrect == Spec => []RecordsInOneList
  <1>1. ASSUME Inv PROVE RecordsInOneList
    <2>1. ASSUME NEW b \in Blocks
          PROVE  Cardinality({p \in Threads : b \in Listed(p)}) = IF Live(b) THEN 1 ELSE 0
      <3>1. CASE Live(b)
        <4>1. PICK p \in Threads : b \in Listed(p)
          BY <1>1, <3>1 DEF Inv, Lists
        <4>2. {q \in Threads : b \in Listed(q)} = {p}
          BY <1>1, <4>1 DEF Inv, Lists
        <4> QED BY <3>1, <4>2, FS_Singleton
      <3>2. CASE ~Live(b)
        <4>1. {q \in Threads : b \in Listed(q)} = {}
          BY <1>1, <3>2 DEF Inv, Lists
        <4> QED BY <3>2, <4>1, FS_EmptySet
      <3> QED BY <3>1, <3>2
    <2>2. \A p \in Threads : IsInjective(children[p])
      BY <1>1 DEF Inv, Lists, NoDuplicates
    <2>3. \A b \in Blocks : Live(b) => corresp[rec[b].pid] = b
      BY <1>1 DEF Inv, Children
    <2> QED BY <1>1, <2>1, <2>2, <2>3 DEF RecordsInOneList, Inv, Sleepers
  <1> QED BY <1>1, InvHolds, PTL

-------------------------------------------------------------------------------
(* Who sleeps in exec or in wait goes on through its own step only.        *)

LEMMA SleeperMoves ==
    ASSUME Inv, Next, NEW p \in Threads,
           pc[p] \in {"exec_sleep", "wait_sleep"}, pc'[p] \in {"user", "task_wait"}
    PROVE  \/ pc[p] = "exec_sleep" /\ ExecReturn(p)
           \/ pc[p] = "wait_sleep" /\ WaitEnd(p)
  <1>0. pc \in [Threads -> Locations]
    BY DEF Inv, TypeOK
  <1>1. PICK q \in Threads : SystemCall(q) \/ KernelStep(q)
    BY DEF Next
  <1>2. CASE q = p
    <2>1. ~SystemCall(p)
      BY DEF SystemCall, SyscallEnter, ExecNoCopy, ExecNoThread, WaitRefused, WaitGone,
             WaitSleep, Exec, Exit, Kill, FileWait, FileAcquire, Halt, InSyscall
    <2>2. KernelStep(p) => ExecReturn(p) \/ WaitEnd(p)
      BY DEF KernelStep, LockInit, ClearFlag, LoadOpen, Load, ExitUp, ExitClose,
             ExitNextFile, ExitChild, ExitNextChild, ExitMark, FileEnd
    <2> QED BY <1>1, <1>2, <2>1, <2>2 DEF ExecReturn, WaitEnd
  <1>3. CASE q # p
    <2>1. ~PowerOff
      BY DEF PowerOff
    <2>2. ASSUME NEW l, Goto(q, l) PROVE FALSE
      <3>1. pc'[p] = pc[p]
        BY <1>0, <1>3, <2>2 DEF Goto
      <3> QED BY <3>1
    <2>3. ASSUME NEW c \in Procs, NEW b \in Blocks, Exec(q, c, b) PROVE FALSE
      <3>1. pc[c] = "unused" /\ pc' = [pc EXCEPT ![q] = "exec_sleep", ![c] = "load"]
        BY <2>3 DEF Exec, NextTid
      <3>2. pc'[p] = pc[p]
        BY <1>0, <1>3, <3>1
      <3> QED BY <3>2
    <2>4. ~WaitReturn(q)
      BY <2>1, <2>2 DEF WaitReturn
    <2>5. ~SystemCall(q)
      BY <2>1, <2>2, <2>3, <2>4
      DEF SystemCall, SyscallEnter, ExecNoCopy, ExecNoThread, WaitRefused, WaitGone,
          WaitSleep, Exit, Kill, FileWait, FileAcquire, Halt
    <2>6. ~ExitNextChild(q)
      BY <1>0, <2>2 DEF ExitNextChild
    <2>7. ~KernelStep(q)
      BY <2>1, <2>2, <2>4, <2>6
      DEF KernelStep, LockInit, ClearFlag, LoadOpen, Load, ExecReturn, WaitEnd, ExitUp,
          ExitClose, ExitNextFile, ExitChild, ExitMark, FileAcquire, FileEnd
    <2> QED BY <1>1, <2>5, <2>7
  <1> QED BY <1>2, <1>3

\* A record in the caller's list is found.
LEMMA SearchFound ==
    ASSUME Inv, NEW p \in Threads, NEW b \in Listed(p)
    PROVE  SearchChild(p, rec[b].pid) # 0 /\ Record(p, rec[b].pid) = b
  <1> DEFINE c == rec[b].pid
             I == {i \in 1 .. Len(children[p]) : rec[children[p][i]].pid = c}
  <1>1. SearchChild(p, c) = IF I # {} THEN Min(I) ELSE 0
    BY DEF SearchChild, SelectInSeq
  <1>2. /\ children[p] \in Seq(Blocks) /\ DOMAIN children[p] = 1 .. Len(children[p])
        /\ Len(children[p]) \in Nat
    BY ListFacts
  <1>3. PICK i \in 1 .. Len(children[p]) : children[p][i] = b
    BY <1>2 DEF Listed
  <1>4. \A j \in I : j = i
    <2>1. \A j \in I : /\ children[p][j] \in Listed(p)
                       /\ rec[children[p][j]].pid = c
      BY <1>2 DEF Listed
    <2>2. \A j \in I : children[p][j] \in Blocks /\ Live(children[p][j])
      BY <2>1, ListFacts
    <2>3. b \in Blocks /\ Live(b)
      BY ListFacts
    <2>4. \A j \in I : children[p][j] = b
      BY <2>1, <2>2, <2>3 DEF Inv, Children
    <2> QED BY <1>2, <1>3, <2>4, ListFacts DEF NoDuplicates, IsInjective
  <1>5. i \in Int /\ i # 0 /\ I = {i}
    BY <1>2, <1>3, <1>4
  <1>6. Min(I) = i
    <2> HIDE DEF I
    <2> QED BY <1>5 DEF Min
  <1> HIDE DEF I
  <1> QED BY <1>1, <1>3, <1>5, <1>6 DEF Record

(***************************************************************************)
(* exec returns after the load, and reports an error only for a child that *)
(* has failed to load, for any number of processes and blocks.             *)
(***************************************************************************)
THEOREM ExecWaitsForLoad == Spec => ExecAfterLoad
  <1>1. ASSUME Inv, [Next]_vars, NEW p \in Threads,
               pc[p] = "exec_sleep", pc'[p] \in {"user", "task_wait"}
        PROVE  LET c == target[p]
               IN  /\ pc[c] \notin {"load", "load_file"}
                   /\ SearchChild(p, c) # 0
                   /\ ~rec[Record(p, c)].load_status => loaded[c] = "failed"
    <2>1. Next
      BY <1>1 DEF vars
    <2>2. ExecReturn(p)
      BY <1>1, <2>1, SleeperMoves
    <2>3. /\ target[p] \in Procs /\ corresp[target[p]] \in Listed(p)
          /\ rec[corresp[target[p]]].pid = target[p]
          /\ loaded[target[p]] = "yes" => rec[corresp[target[p]]].load_status
      BY <1>1, <2>2 DEF Inv, Callers, ExecReturn
    <2>4. loaded[target[p]] \in {"yes", "failed"}
      BY <1>1, <2>2, <2>3 DEF ExecReturn, Inv, TypeOK
    <2>5. pc[target[p]] \notin {"load", "load_file"}
      BY <1>1, <2>3, <2>4 DEF Inv, Children, Loading
    <2>6. SearchChild(p, target[p]) # 0 /\ Record(p, target[p]) = corresp[target[p]]
      BY <1>1, <2>3, SearchFound
    <2> QED BY <2>3, <2>4, <2>5, <2>6
  <1>2. Inv /\ [Next]_vars => [LoadedFirst]_vars
    BY <1>1 DEF LoadedFirst
  <1> QED BY <1>2, InvHolds, PTL DEF Spec, ExecAfterLoad

(***************************************************************************)
(* A parent that has slept in process_wait gets the status its child left, *)
(* in a block used for the first time or again, unless a process that      *)
(* pointed to the block before has stored into the record meanwhile.       *)
(***************************************************************************)
THEOREM WaitGetsStatus == Spec => WaitStatus
  <1>1. ASSUME Inv, [Next]_vars, NEW p \in Procs,
               pc[p] = "wait_sleep", pc'[p] = "user"
        PROVE  LET b == target[p]
                   c == rec[b].pid
               IN  b \notin foreign => left[c] # NoOne /\ rec[b].status = left[c]
    <2>1. Next
      BY <1>1 DEF vars
    <2>2. WaitEnd(p)
      BY <1>1, <2>1, SleeperMoves
    <2>3. rec[target[p]].waitLock > 0
      BY <2>2 DEF WaitEnd
    <2>4. target[p] \in Listed(p)
      BY <1>1 DEF Inv, Sleepers
    <2>5. target[p] \in Blocks /\ Live(target[p])
      BY <1>1, <2>4, ListFacts
    <2> QED BY <1>1, <2>3, <2>5 DEF Inv, Answers, Answered
  <1>2. Inv /\ [Next]_vars => [StatusPassed]_vars
    BY <1>1 DEF StatusPassed
  <1> QED BY <1>2, InvHolds, PTL DEF Spec, WaitStatus

-------------------------------------------------------------------------------
(* No wake-up is lost.                                                     *)

\* Who has ended sys_exit and has a record has upped the semaphore in it; who is
\* not told of a load is so because the load goes on.
Told ==
    /\ \A c \in Procs : pc[c] = "unused" => left[c] = NoOne
    /\ \A b \in Blocks : Live(b) /\ left[rec[b].pid] # NoOne /\ pc[rec[b].pid] # "exit_up" =>
          rec[b].waitLock > 0
    /\ \A p \in Threads :
          pc[p] = "exec_sleep" /\ target[p] # NoOne /\ loaded[target[p]] = "no" =>
             pc[target[p]] \in Loading

\* A step of p that makes no record, takes no semaphore down, and reports nothing.
LEMMA ToldFrame ==
    ASSUME Inv, Told, NEW p \in Threads, NEW l, Goto(p, l), l # "unused", pc[p] # "exit_up",
           pc[p] \in Loading => l \in Loading \/ loaded'[p] # "no",
           l = "exec_sleep" => target'[p] = NoOne,
           \A q \in Threads : q # p => target'[q] = target[q],
           \A q \in Threads : q # p /\ pc[q] = "exec_sleep" /\ target[q] # NoOne
                              /\ loaded'[target[q]] = "no" => loaded[target[q]] = "no",
           \A c \in Procs : left'[c] # NoOne => left[c] # NoOne \/ (c = p /\ l = "exit_up"),
           \A b \in Blocks : rec'[b] # Freed =>
              /\ rec[b] # Freed /\ rec'[b].pid = rec[b].pid
              /\ rec'[b].waitLock = rec[b].waitLock
    PROVE  Told'
  <1>1. pc'[p] = l /\ \A q \in Threads : q # p => pc'[q] = pc[q]
    BY DEF Inv, TypeOK, Goto
  <1>2. \A b \in Blocks : rec[b] # Freed => rec[b].pid \in Procs
    BY DEF Inv, TypeOK, ChildProcess
  <1>3. \A c \in Procs : pc'[c] = "unused" => left'[c] = NoOne
    BY <1>1 DEF Told
  <1>4. ASSUME NEW b \in Blocks, rec'[b] # Freed, left'[rec'[b].pid] # NoOne,
               pc'[rec'[b].pid] # "exit_up"
        PROVE  rec'[b].waitLock > 0
    <2>1. /\ rec[b] # Freed /\ rec'[b].pid = rec[b].pid /\ rec[b].pid \in Procs
          /\ rec'[b].waitLock = rec[b].waitLock
      BY <1>2, <1>4
    <2>2. left[rec[b].pid] # NoOne /\ pc[rec[b].pid] # "exit_up"
      BY <1>1, <1>4, <2>1
    <2> QED BY <2>1, <2>2 DEF Told, Live
  <1>5. ASSUME NEW q \in Threads, pc'[q] = "exec_sleep", target'[q] # NoOne,
               loaded'[target'[q]] = "no"
        PROVE  pc'[target'[q]] \in Loading
    <2>1. q # p /\ pc[q] = "exec_sleep" /\ target'[q] = target[q] /\ loaded[target[q]] = "no"
      BY <1>1, <1>5
    <2>2. target[q] \in Procs /\ pc[target[q]] \in Loading
      BY <1>5, <2>1 DEF Told, Inv, Callers
    <2> QED BY <1>1, <1>5, <2>1, <2>2
  <1> QED BY <1>3, <1>4, <1>5 DEF Told, Live

LEMMA StopTold == ASSUME PowerOff PROVE Told'
  BY DEF PowerOff, Told, Live

\* The steps that leave the records as they are.
LEMMA QuietTold ==
    ASSUME Inv, Told, NEW p \in Threads,
           \/ SyscallEnter(p) \/ LockInit(p) \/ ClearFlag(p)
           \/ ExecNoCopy(p) \/ ExecNoThread(p) \/ LoadOpen(p) \/ Kill(p)
           \/ ExitClose(p) \/ ExitNextFile(p) \/ ExitNextChild(p)
           \/ FileWait(p) \/ FileAcquire(p) \/ FileEnd(p)
    PROVE  Told'
  <1>1. CASE ExitNextChild(p) /\ Live(target[p])
    BY <1>1 DEF ExitNextChild, Told, Live, family, history
  <1>2. CASE ~(ExitNextChild(p) /\ Live(target[p]))
    <2>1. \E l \in {"lock_init", "lock_flag", "syscall", "user", "exec_sleep", "exit_files",
                    "exit_next_file", "hung", "file_want", "file", "load_file"} :
             Goto(p, l) /\ (pc[p] \in Loading => l = "load_file")
                        /\ (l = "exec_sleep" => target' = [target EXCEPT ![p] = NoOne])
      BY <1>2 DEF SyscallEnter, LockInit, ClearFlag, ExecNoCopy, ExecNoThread, LoadOpen, Kill,
                  ExitClose, ExitNextFile, ExitNextChild, FileWait, FileAcquire, FileEnd,
                  InSyscall, Loading
    <2>2. /\ pc[p] # "exit_up" /\ UNCHANGED <<rec, loaded, left>>
          /\ target' = target \/ target' = [target EXCEPT ![p] = NoOne]
      BY DEF SyscallEnter, LockInit, ClearFlag, ExecNoCopy, ExecNoThread, LoadOpen, Kill,
             ExitClose, ExitNextFile, ExitNextChild, FileWait, FileAcquire, FileEnd,
             InSyscall, family, history
    <2>3. \A q \in Threads : q # p => target'[q] = target[q]
      BY <2>2 DEF Inv, TypeOK
    <2>4. target' = [target EXCEPT ![p] = NoOne] => target'[p] = NoOne
      BY DEF Inv, TypeOK
    <2> QED BY <2>1, <2>2, <2>3, <2>4, ToldFrame DEF Loading
  <1> QED BY <1>1, <1>2

\* load reports; its creator, and nobody else, sleeps until then.
LEMMA LoadTold ==
    ASSUME Inv, Told, NEW p \in Threads, Load(p) \/ ExecReturn(p)
    PROVE  Told'
  <1>1. CASE Load(p)
    <2>0. p \in Procs /\ corresp[p] \in Blocks
      BY <1>1 DEF Load, Loading, Inv, Control, Places, MainPlaces, Children
    <2>1. PICK q \in Threads : pc[q] = "exec_sleep" /\ target[q] = p /\ corresp[p] \in Listed(q)
      BY <1>1, <2>0 DEF Load, Loading, Inv, Sleepers
    <2>2. Live(corresp[p])
      BY <2>1, ListFacts
    <2>3. \A b \in Blocks : rec'[b] # Freed =>
             /\ rec[b] # Freed /\ rec'[b].pid = rec[b].pid
             /\ rec'[b].waitLock = rec[b].waitLock
      BY <1>1, <2>0, <2>2, SetFlag, SetStatus DEF Load
    <2>4. \E l \in {"user", "exit_files"}, r \in {"yes", "failed"} :
             Goto(p, l) /\ loaded' = [loaded EXCEPT ![p] = r]
      BY <1>1 DEF Load
    <2>5. pc[p] # "exit_up" /\ UNCHANGED <<target, left>>
      BY <1>1 DEF Load, history
    <2>6. loaded'[p] # "no" /\ \A c \in Procs : c # p => loaded'[c] = loaded[c]
      BY <2>0, <2>4 DEF Inv, TypeOK
    <2>7. \A t \in Threads : pc[t] = "exec_sleep" /\ target[t] # NoOne => target[t] \in Procs
      BY DEF Inv, Callers
    <2> QED BY <2>3, <2>4, <2>5, <2>6, <2>7, ToldFrame
  <1>2. CASE ExecReturn(p)
    <2>1. /\ pc[p] = "exec_sleep" /\ target[p] # NoOne
          /\ loaded' = [loaded EXCEPT ![target[p]] = "no"]
          /\ UNCHANGED <<rec, left>>
          /\ target' = target \/ target' = [target EXCEPT ![p] = NoOne]
      BY <1>2 DEF ExecReturn, family, history
    <2>2. \E l \in {"task_wait", "user"} : Goto(p, l)
      BY <1>2 DEF ExecReturn
    <2>3. target[p] \in Procs /\ corresp[target[p]] \in Listed(p)
      BY <2>1 DEF Inv, Callers
    <2>4. ASSUME NEW q \in Threads, q # p, pc[q] = "exec_sleep", target[q] # NoOne
          PROVE  loaded'[target[q]] = loaded[target[q]]
      <3>1. target[q] \in Procs /\ corresp[target[q]] \in Listed(q)
        BY <2>4 DEF Inv, Callers
      <3>2. target[q] # target[p]
        <4>1. ASSUME target[q] = target[p] PROVE FALSE
          <5>1. Listed(p) \cap Listed(q) # {}
            BY <2>3, <3>1, <4>1
          <5> QED BY <2>4, <5>1 DEF Inv, Lists
        <4> QED BY <4>1
      <3> QED BY <2>1, <2>3, <3>1, <3>2 DEF Inv, TypeOK
    <2>5. \A q \in Threads : q # p => target'[q] = target[q]
      BY <2>1 DEF Inv, TypeOK
    <2> QED BY <2>1, <2>2, <2>4, <2>5, ToldFrame DEF Loading
  <1> QED BY <1>1, <1>2

\* The steps of an exit that store into the record.
LEMMA ExitTold ==
    ASSUME Inv, Told, NEW p \in Threads,
           (\E s \in ExitCodes : Exit(p, s)) \/ ExitUp(p) \/ ExitMark(p)
    PROVE  Told'
  <1>0. p \in Procs /\ corresp[p] \in Blocks
    <2>1. p \in Procs
      BY CallsOfProcesses DEF Exit, ExitUp, ExitMark, Inv, Control, Places, MainPlaces
    <2> QED BY <2>1 DEF Exit, ExitUp, ExitMark, InSyscall, Inv, Children
  <1>1. ASSUME NEW s \in ExitCodes, Exit(p, s) PROVE Told'
    <2>1. Goto(p, "exit_up") /\ UNCHANGED <<target, loaded>> /\ pc[p] \notin {"exit_up"} \cup Loading
      BY <1>1 DEF Exit, InSyscall, Loading
    <2>2. \A b \in Blocks : rec'[b] # Freed =>
             /\ rec[b] # Freed /\ rec'[b].pid = rec[b].pid
             /\ rec'[b].waitLock = rec[b].waitLock
      <3>1. CASE ~Live(corresp[p])
        BY <1>1, <3>1 DEF Exit
      <3>2. CASE Live(corresp[p])
        BY <1>0, <1>1, <3>2, SetStatus DEF Exit
      <3> QED BY <3>1, <3>2
    <2>3. \A c \in Procs : c # p => left'[c] = left[c]
      BY <1>1 DEF Exit, history, Inv, TypeOK
    <2> QED BY <2>1, <2>2, <2>3, ToldFrame DEF Loading
  <1>2. CASE ExitMark(p)
    <2>1. /\ Goto(p, "dead") /\ UNCHANGED <<target, loaded, left>>
          /\ pc[p] \notin {"exit_up"} \cup Loading
      BY <1>2 DEF ExitMark, Loading
    <2>2. \A b \in Blocks : rec'[b] # Freed =>
             /\ rec[b] # Freed /\ rec'[b].pid = rec[b].pid
             /\ rec'[b].waitLock = rec[b].waitLock
      <3>1. CASE UNCHANGED rec
        BY <3>1
      <3>2. CASE Live(corresp[p]) /\ Set(corresp[p], "exit_status", TRUE)
        BY <1>0, <3>2, SetFlag
      <3> QED BY <1>2, <3>1, <3>2 DEF ExitMark
    <2> QED BY <2>1, <2>2, ToldFrame DEF Loading
  <1>3. CASE ExitUp(p)
    <2>1. /\ pc[p] = "exit_up" /\ UNCHANGED <<target, loaded, left, corresp>>
          /\ \E l \in {"exit_files", "hung"} : Goto(p, l)
      BY <1>3 DEF ExitUp
    <2>2. pc'[p] \in {"exit_files", "hung"} /\ \A q \in Threads : q # p => pc'[q] = pc[q]
      BY <2>1 DEF Inv, TypeOK, Goto
    <2>3. /\ \A b \in Blocks : rec'[b] # Freed =>
                /\ rec[b] # Freed /\ rec'[b].pid = rec[b].pid
                /\ b # corresp[p] => rec'[b].waitLock = rec[b].waitLock
          /\ Live(corresp[p]) => rec'[corresp[p]].waitLock > 0
      <3>1. CASE ~Live(corresp[p])
        BY <1>3, <3>1 DEF ExitUp
      <3>2. CASE Live(corresp[p])
        <4>1. Set(corresp[p], "waitLock", rec[corresp[p]].waitLock + 1)
          BY <1>3, <3>2 DEF ExitUp
        <4>2. rec \in [Blocks -> ChildProcess \cup {Freed}] /\ rec[corresp[p]] \in ChildProcess
          BY <1>0, <3>2 DEF Inv, TypeOK, Live
        <4>3. rec' = [rec EXCEPT ![corresp[p]] =
                         [rec[corresp[p]] EXCEPT !.waitLock = rec[corresp[p]].waitLock + 1]]
          BY <4>1, <4>2 DEF Set
        <4>4. rec[corresp[p]].waitLock \in Nat
          BY <4>2 DEF ChildProcess
        <4>5. rec'[corresp[p]].waitLock = rec[corresp[p]].waitLock + 1
          BY <1>0, <4>2, <4>3 DEF ChildProcess
        <4>6. \A b \in Blocks : rec'[b] # Freed =>
                 /\ rec[b] # Freed /\ rec'[b].pid = rec[b].pid
                 /\ b # corresp[p] => rec'[b].waitLock = rec[b].waitLock
          BY <1>0, <3>2, <4>1, SetLock
        <4>7. rec'[corresp[p]].waitLock > 0
          BY <4>4, <4>5
        <4> QED BY <4>6, <4>7
      <3> QED BY <3>1, <3>2
    <2>4. ASSUME NEW b \in Blocks, rec'[b] # Freed, left'[rec'[b].pid] # NoOne,
                 pc'[rec'[b].pid] # "exit_up"
          PROVE  rec'[b].waitLock > 0
      <3>1. rec[b] # Freed /\ rec'[b].pid = rec[b].pid
        BY <2>3, <2>4
      <3>2. CASE b = corresp[p]
        BY <2>3, <3>1, <3>2 DEF Live
      <3>3. CASE b # corresp[p]
        <4>1. rec[b].pid # p
          BY <3>1, <3>3 DEF Inv, Children, Live
        <4>2. rec[b].pid \in Procs
          BY <3>1 DEF Inv, TypeOK, ChildProcess
        <4>3. left[rec[b].pid] # NoOne /\ pc[rec[b].pid] # "exit_up"
          BY <2>1, <2>2, <2>4, <3>1, <4>1, <4>2
        <4>4. rec[b].waitLock > 0
          BY <3>1, <4>3 DEF Told, Live
        <4> QED BY <2>3, <2>4, <3>3, <4>4
      <3> QED BY <3>2, <3>3
    <2>5. \A c \in Procs : pc'[c] = "unused" => left'[c] = NoOne
      BY <2>1, <2>2 DEF Told
    <2>6. ASSUME NEW q \in Threads, pc'[q] = "exec_sleep", target'[q] # NoOne,
                 loaded'[target'[q]] = "no"
          PROVE  pc'[target'[q]] \in Loading
      <3>1. q # p /\ pc[q] = "exec_sleep" /\ target[q] # NoOne /\ loaded[target[q]] = "no"
        BY <2>1, <2>2, <2>6
      <3>2. target[q] \in Procs /\ pc[target[q]] \in Loading
        BY <3>1 DEF Told, Inv, Callers
      <3> QED BY <2>1, <2>2, <3>2 DEF Loading
    <2> QED BY <2>4, <2>5, <2>6 DEF Told, Live
  <1> QED BY <1>1, <1>2, <1>3

\* A wait begins, and ends; records are freed.
LEMMA WaitTold ==
    ASSUME Inv, Told, NEW p \in Threads,
           \/ \E c \in Procs : WaitSleep(p, c) \/ WaitRefused(p, c) \/ WaitGone(p, c)
           \/ WaitEnd(p) \/ ExitChild(p)
    PROVE  Told'
  <1>0. /\ target \in [Threads -> Procs \cup Blocks \cup {NoOne}]
        /\ rec \in [Blocks -> ChildProcess \cup {Freed}]
        /\ left \in [Procs -> Status \cup {NoOne}]
    BY DEF Inv, TypeOK
  <1>1. ASSUME NEW c \in Procs, WaitSleep(p, c) PROVE Told'
    <2>1. Record(p, c) \in Listed(p)
      BY <1>1, SearchFinds DEF WaitSleep, Waitable
    <2>2. Record(p, c) \in Blocks /\ Live(Record(p, c))
      BY <2>1, ListFacts
    <2>3. \A b \in Blocks : rec'[b] # Freed =>
             /\ rec[b] # Freed /\ rec'[b].pid = rec[b].pid
             /\ rec'[b].waitLock = rec[b].waitLock
      BY <1>1, <2>2, SetFlag DEF WaitSleep
    <2>4. /\ Goto(p, "wait_sleep") /\ UNCHANGED <<loaded, left>>
          /\ target' = [target EXCEPT ![p] = Record(p, c)]
          /\ pc[p] \notin {"exit_up"} \cup Loading
      BY <1>1 DEF WaitSleep, InSyscall, history, Loading
    <2> QED BY <1>0, <2>3, <2>4, ToldFrame
  <1>2. ASSUME NEW l, NEW x, NEW b, Goto(p, l), l \in {"user", "exit_next_child"},
               target' = [target EXCEPT ![p] = x], UNCHANGED loaded, Free(b),
               pc[p] \notin {"exit_up"} \cup Loading
        PROVE  Told'
    <2>1. \A a \in Blocks : rec'[a] # Freed => rec'[a] = rec[a]
      BY <1>0, <1>2 DEF Free
    <2>2. \A c \in Procs : left'[c] # NoOne => left[c] # NoOne
      BY <1>0, <1>2 DEF Free
    <2>3. \A q \in Threads : q # p => target'[q] = target[q]
      BY <1>0, <1>2
    <2> QED BY <1>2, <2>1, <2>2, <2>3, ToldFrame
  <1>3. ASSUME WaitReturn(p), p = Main PROVE Told'
    BY <1>3, StopTold DEF WaitReturn
  <1>4. ASSUME NEW c \in Procs, WaitRefused(p, c), p # Main PROVE Told'
    <2>1. /\ Goto(p, "user") /\ target' = [target EXCEPT ![p] = NoOne]
          /\ UNCHANGED <<rec, loaded, left>> /\ pc[p] \notin {"exit_up"} \cup Loading
      BY <1>4 DEF WaitRefused, WaitReturn, InSyscall, history, Loading
    <2> QED BY <1>0, <2>1, ToldFrame
  <1>5. ASSUME NEW b, WaitReturn(p), RemoveChild(p, b), p # Main, pc[p] \notin {"exit_up"} \cup Loading
        PROVE  Told'
    BY <1>2, <1>5 DEF WaitReturn, RemoveChild
  <1>6. ASSUME NEW c \in Procs, WaitGone(p, c) PROVE Told'
    BY <1>3, <1>5, <1>6 DEF WaitGone, InSyscall, Loading
  <1>7. CASE WaitEnd(p)
    BY <1>3, <1>5, <1>7 DEF WaitEnd, Loading
  <1>8. CASE ExitChild(p)
    BY <1>2, <1>8 DEF ExitChild, Loading
  <1> QED BY <1>1, <1>3, <1>4, <1>6, <1>7, <1>8 DEF WaitRefused

LEMMA ExecTold ==
    ASSUME Inv, Told, NEW p \in Threads, NEW c \in Procs, NEW b \in Blocks, Exec(p, c, b)
    PROVE  Told'
  <1>0. /\ rec \in [Blocks -> ChildProcess \cup {Freed}] /\ pc \in [Threads -> Locations]
        /\ target \in [Threads -> Procs \cup Blocks \cup {NoOne}]
    BY DEF Inv, TypeOK
  <1>1. PICK e, l \in BOOLEAN : rec' = [rec EXCEPT ![b] = NewChild(c, e, l)]
    BY DEF Exec
  <1>2. /\ pc[c] = "unused" /\ p # c /\ pc[p] # "exit_up"
        /\ target' = [target EXCEPT ![p] = c]
        /\ pc' = [pc EXCEPT ![p] = "exec_sleep", ![c] = "load"]
        /\ UNCHANGED <<loaded, left>>
    BY DEF Exec, InSyscall, NextTid
  <1>3. /\ pc'[p] = "exec_sleep" /\ pc'[c] = "load"
        /\ \A q \in Threads : q \notin {p, c} => pc'[q] = pc[q]
        /\ target'[p] = c /\ \A q \in Threads : q # p => target'[q] = target[q]
    BY <1>0, <1>2
  <1>4. left[c] = NoOne
    BY <1>2 DEF Told
  <1>5. rec'[b].pid = c /\ \A a \in Blocks : a # b => rec'[a] = rec[a]
    BY <1>0, <1>1 DEF NewChild
  <1>6. \A d \in Procs : pc'[d] = "unused" => left'[d] = NoOne
    BY <1>2, <1>3 DEF Told
  <1>7. ASSUME NEW a \in Blocks, rec'[a] # Freed, left'[rec'[a].pid] # NoOne,
               pc'[rec'[a].pid] # "exit_up"
        PROVE  rec'[a].waitLock > 0
    <2>1. a # b /\ rec'[a] = rec[a]
      BY <1>2, <1>4, <1>5, <1>7
    <2>2. rec[a].pid \in Procs /\ left[rec[a].pid] # NoOne
      BY <1>0, <1>2, <1>7, <2>1 DEF ChildProcess
    <2>3. rec[a].pid # c
      BY <1>4, <2>2
    <2>4. pc[rec[a].pid] # "exit_up"
      BY <1>2, <1>3, <1>7, <2>1, <2>2, <2>3
    <2> QED BY <1>7, <2>1, <2>2, <2>4 DEF Told, Live
  <1>8. ASSUME NEW q \in Threads, pc'[q] = "exec_sleep", target'[q] # NoOne,
               loaded'[target'[q]] = "no"
        PROVE  pc'[target'[q]] \in Loading
    <2>1. CASE q = p
      BY <1>3, <2>1 DEF Loading
    <2>2. CASE q # p
      <3>1. /\ q # c /\ pc[q] = "exec_sleep" /\ target[q] # NoOne /\ loaded[target[q]] = "no"
            /\ target'[q] = target[q]
        BY <1>2, <1>3, <1>8, <2>2
      <3>2. target[q] \in Procs /\ pc[target[q]] \in Loading
        BY <3>1 DEF Told, Inv, Callers
      <3>3. target[q] # p
        <4>1. pc[p] \notin Loading
          BY DEF Exec, InSyscall, Loading
        <4> QED BY <3>2, <4>1
      <3> QED BY <1>3, <3>1, <3>2, <3>3 DEF Loading
    <2> QED BY <2>1, <2>2
  <1> QED BY <1>6, <1>7, <1>8 DEF Told, Live

LEMMA StepTold == Inv /\ Told /\ [Next]_vars => Told'
  <1> SUFFICES ASSUME Inv, Told, [Next]_vars PROVE Told'
    OBVIOUS
  <1>1. ASSUME NEW p \in Threads, SystemCall(p) PROVE Told'
    <2>1. CASE Halt(p)
      BY <2>1, StopTold DEF Halt
    <2> QED BY <1>1, <2>1, QuietTold, ExitTold, WaitTold, ExecTold DEF SystemCall
  <1>2. ASSUME NEW p \in Threads, KernelStep(p) PROVE Told'
    BY <1>2, QuietTold, LoadTold, ExitTold, WaitTold DEF KernelStep
  <1>3. CASE UNCHANGED vars
    BY <1>3 DEF vars, Told, Live
  <1> QED BY <1>1, <1>2, <1>3 DEF Next

(***************************************************************************)
(* No wake-up is lost: a parent asleep on a child that has ended its       *)
(* sys_exit finds the semaphore up, and one asleep in exec has been told   *)
(* of a load that has ended.  For any number of processes and blocks.      *)
(***************************************************************************)
THEOREM NoWakeupForgotten == Spec => []WakeupsKept
  <1>1. Init => Inv /\ Told
    BY InitInv DEF Init, Told, Live
  <1>2. (Inv /\ Told) /\ [Next]_vars => (Inv /\ Told)'
    BY StepInv, StepTold
  <1>3. ASSUME Inv, Told PROVE WakeupsKept
    <2>1. ASSUME NEW p \in Threads, pc[p] = "wait_sleep",
                 left[rec[target[p]].pid] # NoOne, pc[rec[target[p]].pid] # "exit_up"
          PROVE  rec[target[p]].waitLock > 0
      <3>1. target[p] \in Blocks /\ Live(target[p])
        BY <1>3, <2>1, ListFacts DEF Inv, Sleepers
      <3> QED BY <1>3, <2>1, <3>1 DEF Told
    <2>2. ASSUME NEW p \in Threads, pc[p] = "exec_sleep", target[p] # NoOne
          PROVE  loaded[target[p]] = "no" <=> pc[target[p]] \in {"load", "load_file"}
      BY <1>3, <2>2 DEF Told, Inv, Callers, Children, Loading
    <2> QED BY <2>1, <2>2 DEF WakeupsKept
  <1> QED BY <1>1, <1>2, <1>3, PTL DEF Spec
===============================================================================
