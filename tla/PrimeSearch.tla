----------------------------- MODULE PrimeSearch -----------------------------
(***************************************************************************)
(* The prime search of A2 (src/G/A2/Top/src/main.c).  main searches the    *)
(* numbers below limit twice: with runSlow, where each thread is given a   *)
(* fixed part of the range, and with runFast, where the threads take       *)
(* chunks from the shared counter global, whose update a mutex protects    *)
(* and whose test in the loop head it does not.                            *)
(*                                                                         *)
(* A step of a thread is one test, one access to global, or one operation  *)
(* on the mutex.  The measured times are left out.                         *)
(***************************************************************************)
EXTENDS Naturals, FiniteSets

CONSTANTS Limits,           \* the limits the program is started with
          ThreadCounts,     \* the numbers of threads it is started with
          CHUNK,            \* how many numbers runFast takes at a time
          NoThread          \* the mutex is free

ASSUME LimitsAssumption == Limits \subseteq Nat
\* The entries of the arrays counts and times: with more threads than that the
\* program writes past their ends, and it does not check the number.
LIMIT == 50

ASSUME ThreadCountsAssumption == ThreadCounts \subseteq 1 .. LIMIT
ASSUME ChunkAssumption == CHUNK \in Nat \ {0}
ASSUME NoThreadAssumption == NoThread \notin Nat

VARIABLES limit, num_threads,   \* the arguments of the program
          main, i,              \* where main is, and its loop index
          at,                   \* where each thread is
          local, top,           \* the next number of a thread; where it ends
          global, mutex,        \* the shared counter, and who holds mutex1
          primeS, primeF,       \* the indices that hold 1 in each array
          counts                \* counts[t], of the current search

args == <<limit, num_threads>>
thread == <<at, local, top>>
vars == <<args, main, i, thread, global, mutex, primeS, primeF, counts>>

Thread == 0 .. num_threads - 1
chunk == limit \div num_threads

IsPrime(n) == n # 1 /\ ~ \E d \in 2 .. n : d * d <= n /\ n % d = 0

(***************************************************************************)
(* main                                                                    *)
(***************************************************************************)
Init ==
    /\ limit \in Limits
    /\ num_threads \in ThreadCounts
    /\ main = "create_slow" /\ i = 0
    /\ at = [t \in Thread |-> "none"]
    /\ local = [t \in Thread |-> 0]
    /\ top = [t \in Thread |-> 0]
    /\ global = 1 /\ mutex = NoThread
    /\ primeS = {} /\ primeF = {}
    /\ counts = [t \in Thread |-> 0]

\* The step of a loop of main over all threads, and the one that leaves it.
Loop(from, to) ==
    /\ main = from
    /\ i' = IF i + 1 = num_threads THEN 0 ELSE i + 1
    /\ main' = IF i + 1 = num_threads THEN to ELSE from

\* The static parts: thread i gets i*chunk + 1 .. (i+1)*chunk.
CreateSlow ==
    /\ Loop("create_slow", "join_slow")
    /\ at' = [at EXCEPT ![i] = "slow"]
    /\ local' = [local EXCEPT ![i] = i * chunk + 1]
    /\ top' = [top EXCEPT ![i] = (i + 1) * chunk + 1]
    /\ UNCHANGED <<args, global, mutex, primeS, primeF, counts>>

Join(from, to) ==
    /\ Loop(from, to)
    /\ at[i] = "done"
    /\ UNCHANGED <<args, thread, global, mutex, primeS, primeF, counts>>

JoinSlow == Join("join_slow", "reset")

\* Variant: the first search's counts are printed and kept.
ResetKeeping ==
    /\ Loop("reset", "create_fast")
    /\ global' = 1
    /\ UNCHANGED <<args, thread, mutex, primeS, primeF, counts>>

Reset ==
    /\ Loop("reset", "create_fast")
    /\ counts' = [counts EXCEPT ![i] = 0]
    /\ global' = 1
    /\ UNCHANGED <<args, thread, mutex, primeS, primeF>>

CreateFast ==
    /\ Loop("create_fast", "join_fast")
    /\ at' = [at EXCEPT ![i] = "test"]
    /\ UNCHANGED <<args, local, top, global, mutex, primeS, primeF, counts>>

JoinFast == Join("join_fast", "output")

MainStep == CreateSlow \/ JoinSlow \/ Reset \/ CreateFast \/ JoinFast

(***************************************************************************)
(* runSlow and runFast                                                     *)
(***************************************************************************)
Goto(t, here, there) == at[t] = here /\ at' = [at EXCEPT ![t] = there]

\* Variant: the next number is taken only after a prime.
TestNumberStuck(t, primes) ==
    /\ primes' = primes \cup {n \in {local[t]} : IsPrime(n)}
    /\ counts' = [counts EXCEPT ![t] = IF IsPrime(local[t]) THEN @ + 1 ELSE @]
    /\ local' = [local EXCEPT ![t] = IF IsPrime(@) THEN @ + 1 ELSE @]

\* Both loops over numbers: test one, and mark and count it if it is prime.
TestNumber(t, primes) ==
    /\ primes' = primes \cup {n \in {local[t]} : IsPrime(n)}
    /\ counts' = [counts EXCEPT ![t] = IF IsPrime(local[t]) THEN @ + 1 ELSE @]
    /\ local' = [local EXCEPT ![t] = @ + 1]

\* The last number of the last part is limit itself where the threads divide
\* it, and primeS has limit entries.  The store past its end, when limit is a
\* prime, falls into the bytes that rounding a block up to 16 leaves behind an
\* array of limit integers; nothing reads it.
SlowTest(t) ==
    /\ at[t] = "slow"
    /\ local[t] < top[t]
    /\ TestNumber(t, primeS)
    /\ UNCHANGED <<args, main, i, at, top, global, mutex, primeF>>

SlowEnd(t) ==
    /\ Goto(t, "slow", "done")
    /\ local[t] >= top[t]
    /\ UNCHANGED <<args, main, i, local, top, global, mutex, primeS, primeF, counts>>

\* The loop head reads global without the mutex.
ReadGlobal(t) ==
    /\ Goto(t, "test", IF global < limit THEN "lock" ELSE "done")
    /\ UNCHANGED <<args, main, i, local, top, global, mutex, primeS, primeF, counts>>

\* Variant: the mutex is not taken.
LockUnchecked(t) ==
    /\ Goto(t, "lock", "take")
    /\ mutex' = t
    /\ UNCHANGED <<args, main, i, local, top, global, primeS, primeF, counts>>

Lock(t) ==
    /\ Goto(t, "lock", "take")
    /\ mutex = NoThread
    /\ mutex' = t
    /\ UNCHANGED <<args, main, i, local, top, global, primeS, primeF, counts>>

Take(t) ==
    /\ Goto(t, "take", "add")
    /\ local' = [local EXCEPT ![t] = global]
    /\ UNCHANGED <<args, main, i, top, global, mutex, primeS, primeF, counts>>

AddChunk(t) ==
    /\ Goto(t, "add", "unlock")
    /\ global' = global + CHUNK
    /\ UNCHANGED <<args, main, i, local, top, mutex, primeS, primeF, counts>>

\* Variant: the chunk has one number too many.
UnlockOneMore(t) ==
    /\ Goto(t, "unlock", "scan")
    /\ mutex' = NoThread
    /\ top' = [top EXCEPT ![t] = local[t] + CHUNK + 1]
    /\ UNCHANGED <<args, main, i, local, global, primeS, primeF, counts>>

Unlock(t) ==
    /\ Goto(t, "unlock", "scan")
    /\ mutex' = NoThread
    /\ top' = [top EXCEPT ![t] = local[t] + CHUNK]
    /\ UNCHANGED <<args, main, i, local, global, primeS, primeF, counts>>

\* Variant: the loop over the chunk does not stop at the limit.
InChunkPastLimit(t) == local[t] < top[t]

InChunk(t) == local[t] < top[t] /\ local[t] < limit

FastTest(t) ==
    /\ at[t] = "scan"
    /\ InChunk(t)
    /\ TestNumber(t, primeF)
    /\ UNCHANGED <<args, main, i, at, top, global, mutex, primeS>>

ChunkEnd(t) ==
    /\ Goto(t, "scan", "test")
    /\ ~InChunk(t)
    /\ UNCHANGED <<args, main, i, local, top, global, mutex, primeS, primeF, counts>>

ThreadStep(t) ==
    \/ SlowTest(t) \/ SlowEnd(t)
    \/ ReadGlobal(t) \/ Lock(t) \/ Take(t) \/ AddChunk(t) \/ Unlock(t)
    \/ FastTest(t) \/ ChunkEnd(t)

\* main has printed the results.
Finished == main = "output" /\ UNCHANGED vars

Next == MainStep \/ (\E t \in Thread : ThreadStep(t)) \/ Finished

\* main and every thread are scheduled by the operating system.  Nothing is
\* assumed about who gets the mutex: whoever does moves the counter on.
Fairness ==
    /\ WF_vars(MainStep)
    /\ \A t \in UNION {0 .. n - 1 : n \in ThreadCounts} :
            WF_vars(t \in Thread /\ ThreadStep(t))

Spec == Init /\ [][Next]_vars

FairSpec == Spec /\ Fairness

(***************************************************************************)
(* Properties                                                              *)
(***************************************************************************)
Places == {"none", "slow", "test", "lock", "take", "add", "unlock", "scan", "done"}

\* The type invariant.  A thread that passed the test of global while another
\* one was adding to it takes a chunk all the same: global ends at most one
\* chunk for each thread beyond the limit.
TypeOK ==
    /\ limit \in Limits /\ num_threads \in ThreadCounts
    /\ main \in {"create_slow", "join_slow", "reset", "create_fast", "join_fast", "output"}
    /\ i \in Thread
    /\ at \in [Thread -> Places]
    /\ local \in [Thread -> 0 .. limit + num_threads * CHUNK]
    /\ top \in [Thread -> 0 .. limit + num_threads * CHUNK]
    /\ global \in 1 .. limit + num_threads * CHUNK
    /\ global > 1 => global < limit + num_threads * CHUNK
    /\ mutex \in Thread \cup {NoThread}
    /\ primeS \subseteq 1 .. limit
    /\ primeF \subseteq 1 .. limit - 1
    /\ counts \in [Thread -> 0 .. limit]

\* One pair for each time a thread has counted a prime.
Tally == UNION {{t} \X (1 .. counts[t]) : t \in Thread}

\* The counts that main prints for a search add up to the primes it has found:
\* no number is tested by two threads, and no count of the first search is
\* still in the counts of the second.
CountsAddUp ==
    CASE main \in {"create_slow", "join_slow"} -> Cardinality(Tally) = Cardinality(primeS)
      [] main = "reset" -> \A t \in 0 .. i - 1 : counts[t] = 0
      [] OTHER -> Cardinality(Tally) = Cardinality(primeF)

Prime(n) == n > 1 /\ \A a, b \in 2 .. n : a * b # n

\* When main prints, the balanced search has found the primes below the limit,
\* and the static one those of the parts it gave out, as the code has it: the
\* remainder of the division is in nobody's part, and the limit itself may be.
ResultsRight ==
    main = "output" =>
        /\ primeF = {n \in 1 .. limit - 1 : Prime(n)}
        /\ primeS = {n \in 1 .. num_threads * chunk : Prime(n)}

\* The numbers of the static parts, and those below the limit, not tested yet.
SlowUntested ==
    {n \in 1 .. num_threads * chunk :
        \E t \in Thread :
            /\ t * chunk < n /\ n <= (t + 1) * chunk
            /\ at[t] = "slow" => local[t] <= n
            /\ main \in {"create_slow", "join_slow"} /\ at[t] # "done"}

FastUntested ==
    {n \in 1 .. limit - 1 :
        \/ n >= global
        \/ \E t \in Thread :
              /\ at[t] \in {"unlock", "scan"}
              /\ local[t] <= n
              /\ n < IF at[t] = "scan" THEN top[t] ELSE local[t] + CHUNK}

Slow == INSTANCE RangeSearch
            WITH Hits <- {n \in Nat : IsPrime(n)}, untested <- SlowUntested, found <- primeS
Fast == INSTANCE RangeSearch
            WITH Hits <- {n \in Nat : IsPrime(n)}, untested <- FastUntested, found <- primeF

\* Both searches test each number of their range once and find the primes in
\* it, whatever the interleaving of the threads: they implement RangeSearch.
ImplementsSearch == Slow!Spec /\ Fast!Spec

\* Both searches end: no thread waits for the mutex for ever, and the counter
\* passes the limit.
SearchEnds == <>(main = "output")
==============================================================================
