------------------------------ MODULE Processes ------------------------------
(***************************************************************************)
(* The A4 processes: exec, wait, exit and death by an exception, and the   *)
(* system calls on files as far as they share file_lock and the list of    *)
(* open files (userprog/process.c, syscall.c, exception.c, and the part of *)
(* thread_create that makes the record of a child).                        *)
(*                                                                         *)
(* A parent and its child share one struct childProcess: the parent finds  *)
(* it in its list `children', the child through its pointer `corresp'.     *)
(* Only the parent frees it.  The record lives in a block of the kernel's  *)
(* malloc, which is used again; thread_create leaves exit_status and       *)
(* load_status as they are in that block.                                  *)
(*                                                                         *)
(* Processes are preempted anywhere.  An action is a stretch of code of    *)
(* one process that no other process can observe or disturb.               *)
(***************************************************************************)
EXTENDS Integers, Sequences, FiniteSets, SequencesExt

CONSTANTS
    Procs,      \* tids of the user processes that may be created, a set 1 .. n
    Main,       \* the kernel's main thread, which runs one task
    Blocks,     \* blocks of malloc for a struct childProcess, a set 1 .. n
    ExitCodes,  \* arguments of exit (with bad pointers a call ends in exit(-1))
    FileUsers,  \* bound: processes whose programs use files
    MaxFiles,   \* bound: files a process has open
    NoOne,      \* no process, no block
    Freed       \* the content of a block that is not in use

Threads == Procs \cup {Main}

ASSUME ProcessAssumption ==
    /\ Procs \subseteq Nat /\ Blocks \subseteq Nat
    /\ Main \notin Procs /\ NoOne \notin Threads \cup Blocks
    /\ FileUsers \subseteq Procs /\ ExitCodes \subseteq Int /\ MaxFiles \in Nat

VARIABLES
    kernel,     \* "up", "off" (shutdown_power_off), "corrupt" (two lists linked)
    pc,         \* where each process is in its system call
    children,   \* list of the blocks of a process's children
    corresp,    \* the block a process was given by its creator
    target,     \* the child of an exec, or the record of a wait
    rec,        \* the content of each block
    loaded,     \* aux->sem of the exec that made the process: what it reports
    nfiles,     \* length of file_list
    file_lock,  \* its holder
    lock_flag,  \* file_lock is still to be initialized
    left,       \* history: the status a process left in its record on exit
    foreign     \* history: records that a process which is not their child has
                \* stored into

vars == <<kernel, pc, children, corresp, target, rec, loaded, nfiles,
          file_lock, lock_flag, left, foreign>>

family == <<children, corresp, rec>>
files == <<nfiles, file_lock, lock_flag>>
history == <<left, foreign>>

Status == {-1, 0} \cup ExitCodes

\* struct childProcess.  A semaphore without its list of waiters: only the
\* parent sleeps on waitLock, while it is at "wait_sleep".
ChildProcess == [pid : Procs, waiting : BOOLEAN, waitLock : Nat,
                 exit_status : BOOLEAN, status : Status, load_status : BOOLEAN]

ASSUME RecordAssumption == Freed \notin ChildProcess /\ NoOne \notin Status

Locations ==
    {"unused", "task", "task_wait", "load", "load_file", "user",
     "lock_init", "lock_flag", "syscall", "file_want", "file",
     "exec_sleep", "wait_sleep",
     "exit_up", "exit_files", "exit_next_file",
     "exit_next_child", "hung", "dead"}

\* The type invariant.  It bounds the list of open files, too: sys_close(0, true)
\* takes no element from an empty list.
TypeOK ==
    /\ kernel \in {"up", "off", "corrupt"}
    /\ pc \in [Threads -> Locations]
    /\ children \in [Threads -> Seq(Blocks)]
    /\ corresp \in [Procs -> Blocks \cup {NoOne}]
    /\ target \in [Threads -> Procs \cup Blocks \cup {NoOne}]
    /\ rec \in [Blocks -> ChildProcess \cup {Freed}]
    /\ loaded \in [Procs -> {"no", "yes", "failed"}]
    /\ nfiles \in [Procs -> 0 .. MaxFiles]
    /\ file_lock \in Threads \cup {NoOne}
    /\ lock_flag \in BOOLEAN
    /\ left \in [Procs -> Status \cup {NoOne}]
    /\ foreign \subseteq Blocks

\* run_actions, with the system booted and one task on the command line.
Init ==
    /\ kernel = "up"
    /\ pc = [p \in Threads |-> IF p = Main THEN "task" ELSE "unused"]
    /\ children = [p \in Threads |-> <<>>]
    /\ corresp = [p \in Procs |-> NoOne]
    /\ target = [p \in Threads |-> NoOne]
    /\ rec = [b \in Blocks |-> Freed]
    /\ loaded = [p \in Procs |-> "no"]
    /\ nfiles = [p \in Procs |-> 0]
    /\ file_lock = NoOne
    /\ lock_flag = TRUE
    /\ left = [p \in Procs |-> NoOne] /\ foreign = {}

\* shutdown_power_off: what the memory holds does not matter any more.
PowerOff ==
    /\ kernel' = "off"
    /\ pc' = [p \in Threads |-> "dead"]
    /\ children' = [p \in Threads |-> <<>>]
    /\ corresp' = [p \in Procs |-> NoOne]
    /\ target' = [p \in Threads |-> NoOne]
    /\ rec' = [b \in Blocks |-> Freed]
    /\ loaded' = [p \in Procs |-> "no"]
    /\ nfiles' = [p \in Procs |-> 0]
    /\ file_lock' = NoOne
    /\ lock_flag' = FALSE
    /\ left' = [p \in Procs |-> NoOne] /\ foreign' = {}

Goto(p, l) == pc' = [pc EXCEPT ![p] = l]

Live(b) == rec[b] # Freed

Set(b, field, value) == rec' = [rec EXCEPT ![b][field] = value]

(***************************************************************************)
(* syscall_handler: the first system call initializes file_lock.           *)
(***************************************************************************)
SyscallEnter(p) ==
    /\ pc[p] = "user" /\ lock_flag
    /\ Goto(p, "lock_init")
    /\ UNCHANGED <<kernel, family, target, loaded, files, history>>

LockInit(p) ==
    /\ pc[p] = "lock_init"
    /\ file_lock' = NoOne
    /\ Goto(p, "lock_flag")
    /\ UNCHANGED <<kernel, family, target, loaded, nfiles, lock_flag, history>>

\* Variant: the flag is not reset.
ClearFlagForgotten(p) ==
    /\ pc[p] = "lock_flag"
    /\ Goto(p, "syscall")
    /\ UNCHANGED <<kernel, family, target, loaded, files, history>>

ClearFlag(p) ==
    /\ pc[p] = "lock_flag"
    /\ lock_flag' = FALSE
    /\ Goto(p, "syscall")
    /\ UNCHANGED <<kernel, family, target, loaded, nfiles, file_lock, history>>

\* A process at the switch of syscall_handler.
InSyscall(p) == pc[p] = "syscall" \/ (pc[p] = "user" /\ ~lock_flag)

(***************************************************************************)
(* exec, and the task of main.  sys_exec waits in process_execute until    *)
(* the child has loaded, even when thread_create found no page for it.     *)
(***************************************************************************)
ExecNoCopy(p) ==
    /\ InSyscall(p)
    /\ Goto(p, "user")
    /\ UNCHANGED <<kernel, family, target, loaded, files, history>>

ExecNoThread(p) ==
    /\ InSyscall(p) \/ pc[p] = "task"
    /\ target' = [target EXCEPT ![p] = NoOne]
    /\ Goto(p, "exec_sleep")
    /\ UNCHANGED <<kernel, family, loaded, files, history>>

\* thread_create sets these members; the other two keep what is in the block.
NewChild(c, exit_status, load_status) ==
    [pid |-> c, waiting |-> FALSE, waitLock |-> 0, status |-> 0,
     exit_status |-> exit_status, load_status |-> load_status]

\* allocate_tid counts up.
NextTid(c) == pc[c] = "unused" /\ \A d \in Procs : d < c => pc[d] # "unused"

\* malloc: a block that was freed before, or one that was never used; of the
\* latter all are alike, and the least is taken.
Used(b) == \E q \in Procs : corresp[q] = b
MayAllocate(b) == ~Live(b) /\ (Used(b) \/ \A a \in Blocks : a < b => Used(a))

Exec(p, c, b) ==
    /\ InSyscall(p) \/ pc[p] = "task"
    /\ NextTid(c) /\ MayAllocate(b)
    /\ \E e, l \in BOOLEAN : rec' = [rec EXCEPT ![b] = NewChild(c, e, l)]
    /\ children' = [children EXCEPT ![p] = Append(@, b)]
    /\ corresp' = [corresp EXCEPT ![c] = b]
    /\ target' = [target EXCEPT ![p] = c]
    /\ pc' = [pc EXCEPT ![p] = "exec_sleep", ![c] = "load"]
    /\ foreign' = foreign \ {b}
    /\ UNCHANGED <<kernel, loaded, files, left>>

\* start_process: load, which opens and reads the executable without file_lock,
\* if it has got a page directory, ...
LoadOpen(p) ==
    /\ pc[p] = "load"
    /\ Goto(p, "load_file")
    /\ UNCHANGED <<kernel, family, target, loaded, files, history>>

\* ... and notes its result in the record; then sema_up.
Load(p) ==
    /\ pc[p] \in {"load", "load_file"}
    /\ \/ /\ pc[p] = "load_file"
          /\ Set(corresp[p], "load_status", TRUE)
          /\ loaded' = [loaded EXCEPT ![p] = "yes"]
          /\ Goto(p, "user")
       \/ /\ Set(corresp[p], "status", -1)
          /\ loaded' = [loaded EXCEPT ![p] = "failed"]
          /\ Goto(p, "exit_files")
    /\ UNCHANGED <<kernel, children, corresp, target, files, history>>

\* Variant: process_execute does not wait for the load.
ExecReturnEarly(p) ==
    /\ pc[p] = "exec_sleep" /\ target[p] # NoOne
    /\ IF p = Main THEN Goto(p, "task_wait") /\ UNCHANGED target
                   ELSE Goto(p, "user") /\ target' = [target EXCEPT ![p] = NoOne]
    /\ UNCHANGED <<kernel, family, loaded, files, history>>

ExecReturn(p) ==
    /\ pc[p] = "exec_sleep" /\ target[p] # NoOne /\ loaded[target[p]] # "no"
    /\ IF p = Main THEN Goto(p, "task_wait") /\ UNCHANGED target
                   ELSE Goto(p, "user") /\ target' = [target EXCEPT ![p] = NoOne]
    /\ loaded' = [loaded EXCEPT ![target[p]] = "no"]
    /\ UNCHANGED <<kernel, family, files, history>>

(***************************************************************************)
(* process_wait.  The caller may pass any tid.                             *)
(***************************************************************************)
\* searchChild: the place of the child in the caller's list, 0 if it is not
\* there.
SearchChild(p, c) == SelectInSeq(children[p], LAMBDA b : rec[b].pid = c)

Record(p, c) == children[p][SearchChild(p, c)]

Free(b) ==
    /\ rec' = [rec EXCEPT ![b] = Freed]
    /\ left' = [left EXCEPT ![rec[b].pid] = NoOne]
    /\ foreign' = foreign \ {b}

\* Variant: the record is freed and stays in the list.
RemoveChildKeeping(p, b) ==
    /\ UNCHANGED children
    /\ Free(b)

RemoveChild(p, b) ==
    /\ children' = [children EXCEPT ![p] = RemoveFirst(@, b)]
    /\ Free(b)

Waitable(p, c) == SearchChild(p, c) # 0 /\ ~rec[Record(p, c)].waiting

\* The end of a wait, with status or ERROR: back to the user, or to run_actions,
\* which powers off.
WaitReturn(p) ==
    IF p = Main THEN PowerOff
    ELSE /\ Goto(p, "user")
         /\ target' = [target EXCEPT ![p] = NoOne]
         /\ UNCHANGED <<kernel, corresp, loaded, files>>

WaitRefused(p, c) ==
    /\ InSyscall(p) \/ (pc[p] = "task_wait" /\ target[p] = c)
    /\ ~Waitable(p, c)
    /\ WaitReturn(p)
    /\ p # Main => UNCHANGED <<children, rec, history>>

\* The child seems to be gone: its record is read and freed at once.
WaitGone(p, c) ==
    /\ InSyscall(p) \/ (pc[p] = "task_wait" /\ target[p] = c)
    /\ Waitable(p, c) /\ rec[Record(p, c)].exit_status
    /\ WaitReturn(p)
    /\ p # Main => RemoveChild(p, Record(p, c))

WaitSleep(p, c) ==
    /\ InSyscall(p) \/ (pc[p] = "task_wait" /\ target[p] = c)
    /\ Waitable(p, c) /\ ~rec[Record(p, c)].exit_status
    /\ Set(Record(p, c), "waiting", TRUE)
    /\ target' = [target EXCEPT ![p] = Record(p, c)]
    /\ Goto(p, "wait_sleep")
    /\ UNCHANGED <<kernel, children, corresp, loaded, files, history>>

\* sema_down returns; status is read; removeChild(child_tid, false).
WaitEnd(p) ==
    /\ pc[p] = "wait_sleep" /\ rec[target[p]].waitLock > 0
    /\ WaitReturn(p)
    /\ p # Main => RemoveChild(p, target[p])

(***************************************************************************)
(* exit, and death by an exception.                                        *)
(***************************************************************************)
\* The block p points to may have become the record of another process: p stores
\* into it all the same.
Own(p) == rec[corresp[p]].pid = p

Mark(p) == foreign' = IF Own(p) THEN foreign ELSE foreign \cup {corresp[p]}

\* Variant: the status is kept in the thread only.
ExitKeepsStatus(p, s) ==
    /\ InSyscall(p)
    /\ left' = [left EXCEPT ![p] = s]
    /\ Goto(p, "exit_up")
    /\ UNCHANGED <<kernel, family, target, loaded, files, foreign>>

\* sys_exit up to its sema_up; also the end of a call with bad arguments.  In a
\* freed block status is negative (free fills it with 0xcc).
Exit(p, s) ==
    /\ InSyscall(p)
    /\ IF ~Live(corresp[p]) THEN UNCHANGED <<rec, history>>
       ELSE LET status == IF rec[corresp[p]].status < 0 THEN -1 ELSE s
            IN  /\ Set(corresp[p], "status", status) /\ Mark(p)
                /\ left' = IF Own(p) THEN [left EXCEPT ![p] = status] ELSE left
    /\ Goto(p, "exit_up")
    /\ UNCHANGED <<kernel, children, corresp, target, loaded, files>>

\* Variant: sys_exit does not wake the parent.
ExitUpForgotten(p) ==
    /\ pc[p] = "exit_up"
    /\ Goto(p, "exit_files")
    /\ UNCHANGED <<kernel, family, target, loaded, files, history>>

\* In a freed block the list of waiters ends nowhere: sema_up faults in the
\* kernel, and page_fault sends the process to an address that faults again.
ExitUp(p) ==
    /\ pc[p] = "exit_up"
    /\ IF Live(corresp[p])
       THEN /\ Set(corresp[p], "waitLock", rec[corresp[p]].waitLock + 1) /\ Mark(p)
            /\ Goto(p, "exit_files")
       ELSE Goto(p, "hung") /\ UNCHANGED <<rec, foreign>>
    /\ UNCHANGED <<kernel, children, corresp, target, loaded, files, left>>

\* kill: thread_exit without sys_exit.
Kill(p) ==
    /\ pc[p] = "user"
    /\ Goto(p, "exit_files")
    /\ UNCHANGED <<kernel, family, target, loaded, files, history>>

\* Variant: the loop tests for the end of the list after its body.
ExitCloseUnguarded(p) ==
    /\ pc[p] = "exit_files" /\ file_lock = NoOne
    /\ nfiles' = [nfiles EXCEPT ![p] = @ - 1]
    /\ Goto(p, "exit_next_file")
    /\ UNCHANGED <<kernel, family, target, loaded, file_lock, lock_flag, history>>

\* sys_close(0, true): one iteration, under file_lock, ...
ExitClose(p) ==
    /\ pc[p] = "exit_files" /\ nfiles[p] > 0 /\ file_lock = NoOne
    /\ nfiles' = [nfiles EXCEPT ![p] = @ - 1]
    /\ Goto(p, "exit_next_file")
    /\ UNCHANGED <<kernel, family, target, loaded, file_lock, lock_flag, history>>

\* ... and list_next of the element it has freed, which is not the list's end:
\* the next iteration takes file_lock and faults on the file it should close.
ExitNextFile(p) ==
    /\ pc[p] = "exit_next_file" /\ file_lock = NoOne
    /\ file_lock' = p
    /\ Goto(p, "hung")
    /\ UNCHANGED <<kernel, family, target, loaded, nfiles, lock_flag, history>>

\* removeChild(0, true): the same loop over the children.
ExitChild(p) ==
    /\ pc[p] = "exit_files" /\ nfiles[p] = 0 /\ children[p] # <<>>
    /\ children' = [children EXCEPT ![p] = Tail(@)]
    /\ Free(Head(children[p]))
    /\ target' = [target EXCEPT ![p] = Head(children[p])]
    /\ Goto(p, "exit_next_child")
    /\ UNCHANGED <<kernel, corresp, loaded, files>>

\* list_next of the freed element: a fault, or, if the block is in use again,
\* the list of another process.  The model ends there, with the lists as they are
\* before the loop takes out the rest of that list, up to an assertion at its end.
ExitNextChild(p) ==
    /\ pc[p] = "exit_next_child"
    /\ IF Live(target[p])
       THEN kernel' = "corrupt" /\ UNCHANGED <<pc, target>>
       ELSE /\ Goto(p, "hung")
            /\ target' = [target EXCEPT ![p] = NoOne]
            /\ UNCHANGED kernel
    /\ UNCHANGED <<family, loaded, files, history>>

\* findThread takes the elements of all_list for another member of struct
\* thread: what it compares with the parent's tid is not the tid of a thread.
ExitMark(p) ==
    /\ pc[p] = "exit_files" /\ nfiles[p] = 0 /\ children[p] = <<>>
    /\ \/ UNCHANGED <<rec, foreign>>
       \/ Live(corresp[p]) /\ Set(corresp[p], "exit_status", TRUE) /\ Mark(p)
    /\ Goto(p, "dead")
    /\ UNCHANGED <<kernel, children, corresp, target, loaded, files, left>>

(***************************************************************************)
(* File system calls: each takes file_lock around its access.              *)
(***************************************************************************)
FileWait(p) ==
    /\ InSyscall(p) /\ p \in FileUsers /\ file_lock # NoOne
    /\ Goto(p, "file_want")
    /\ UNCHANGED <<kernel, family, target, loaded, files, history>>

FileAcquire(p) ==
    /\ (InSyscall(p) /\ p \in FileUsers) \/ pc[p] = "file_want"
    /\ file_lock = NoOne
    /\ file_lock' = p
    /\ Goto(p, "file")
    /\ UNCHANGED <<kernel, family, target, loaded, nfiles, lock_flag, history>>

\* A successful open inserts the file in file_list, close removes it; create,
\* remove, read, write, seek and filesize leave file_list alone.
FileEnd(p) ==
    /\ pc[p] = "file"
    /\ file_lock' = NoOne
    /\ \E n \in {nfiles[p] - 1, nfiles[p], nfiles[p] + 1} \cap (0 .. MaxFiles) :
          nfiles' = [nfiles EXCEPT ![p] = n]
    /\ Goto(p, "user")
    /\ UNCHANGED <<kernel, family, target, loaded, lock_flag, history>>

\* sys_halt
Halt(p) ==
    /\ InSyscall(p)
    /\ PowerOff

\* The kernel's own steps, in which a process has no choice.
KernelStep(p) ==
    \/ LockInit(p) \/ ClearFlag(p)
    \/ LoadOpen(p) \/ Load(p) \/ ExecReturn(p)
    \/ WaitEnd(p)
    \/ ExitUp(p) \/ ExitClose(p) \/ ExitNextFile(p)
    \/ ExitChild(p) \/ ExitNextChild(p) \/ ExitMark(p)
    \/ (pc[p] = "file_want" /\ FileAcquire(p)) \/ FileEnd(p)

SystemCall(p) ==
    \/ SyscallEnter(p)
    \/ ExecNoCopy(p) \/ ExecNoThread(p)
    \/ \E c \in Procs : \/ WaitRefused(p, c) \/ WaitGone(p, c) \/ WaitSleep(p, c)
                        \/ \E b \in Blocks : Exec(p, c, b)
    \/ \E s \in ExitCodes : Exit(p, s)
    \/ Kill(p) \/ FileWait(p) \/ FileAcquire(p) \/ Halt(p)

Next == kernel = "up" /\ \E p \in Threads : SystemCall(p) \/ KernelStep(p)

Spec == Init /\ [][Next]_vars

(***************************************************************************)
(* Properties.                                                             *)
(***************************************************************************)
Listed(p) == {children[p][i] : i \in DOMAIN children[p]}

\* The records and the lists agree: a record in use is in exactly one list, once,
\* and is the one its process points to; a parent that sleeps in process_wait
\* does so on a record of its own list that says so.  This holds until removeChild,
\* on exit, goes on in the list of another process (ExitNextChild).
RecordsInOneList ==
    /\ \A b \in Blocks :
          Cardinality({p \in Threads : b \in Listed(p)}) = IF Live(b) THEN 1 ELSE 0
    /\ \A p \in Threads : IsInjective(children[p])
    /\ \A b \in Blocks : Live(b) => corresp[rec[b].pid] = b
    /\ \A p \in Threads : pc[p] = "wait_sleep" =>
          target[p] \in Listed(p) /\ rec[target[p]].waiting

\* Of the system calls on files, one at a time is in the file system, although the
\* first system call of all initializes file_lock: a call inside its access is the
\* holder, and nobody is inside or waiting before the initialization is over.  It
\* says nothing of load, which takes no lock: the executable is read (load_file) while
\* somebody else is at "file".
FileLockSafe ==
    /\ \A p \in Procs : pc[p] = "file" => file_lock = p
    /\ \A p, q \in Procs :
          pc[p] \in {"lock_init", "lock_flag"} /\ q # p =>
             pc[q] \in {"unused", "dead"}

\* exec returns to the parent when the load has ended, not before; it reports an
\* error for a child that is known to have failed only.  (The opposite does not
\* hold: load_status may be set in the block from the start.)
LoadedFirst ==
    \A p \in Threads : pc[p] = "exec_sleep" /\ pc'[p] \in {"user", "task_wait"} =>
        LET c == target[p]
        IN  /\ pc[c] \notin {"load", "load_file"}
            /\ SearchChild(p, c) # 0
            /\ ~rec[Record(p, c)].load_status => loaded[c] = "failed"

\* The same of every step.
ExecAfterLoad == [][LoadedFirst]_vars

\* A parent that has slept in process_wait gets the status its child left on its way
\* out, in a block used for the first time or used again, and whoever pointed to the
\* block before: unless one of those has stored into it since it became this child's
\* record (SleeperGetsStatus).
StatusPassed ==
    \A p \in Procs : pc[p] = "wait_sleep" /\ pc'[p] = "user" =>
        LET b == target[p]
            c == rec[b].pid
        IN  b \notin foreign => left[c] # NoOne /\ rec[b].status = left[c]

\* The same of every step.
WaitStatus == [][StatusPassed]_vars

\* No wake-up is lost: when the child a parent sleeps on in process_wait has ended its
\* sys_exit, the semaphore in their record is up, whatever has been done to the records
\* of others and whether the child then gets to its end or hangs in process_exit; and
\* who sleeps in exec has been told once the load has ended.  (A child that is killed
\* leaves no status, and its parent is not woken.)
WakeupsKept ==
    \A p \in Threads :
        /\ pc[p] = "wait_sleep" =>
              LET c == rec[target[p]].pid
              IN  left[c] # NoOne /\ pc[c] # "exit_up" => rec[target[p]].waitLock > 0
        /\ pc[p] = "exec_sleep" /\ target[p] # NoOne =>
              (loaded[target[p]] = "no" <=> pc[target[p]] \in {"load", "load_file"})

==============================================================================
