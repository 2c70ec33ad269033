-------------------------- MODULE PrimeSearchProofs --------------------------
(***************************************************************************)
(* Proofs, for any limits, numbers of threads and size of the chunks, that *)
(* both searches of A2 test each number of their range once, find exactly  *)
(* the primes in it, and count them.                                       *)
(***************************************************************************)
EXTENDS PrimeSearch, FiniteSetTheorems, TLAPS

(***************************************************************************)
(* The inductive invariant.                                                *)
(***************************************************************************)
FastPlaces == {"test", "lock", "take", "add", "unlock", "scan", "done"}

\* What main has created and joined.
Control ==
    /\ main = "create_slow" =>
          \A t \in Thread : IF t < i THEN at[t] \in {"slow", "done"} ELSE at[t] = "none"
    /\ main = "join_slow" =>
          \A t \in Thread : at[t] \in {"slow", "done"} /\ (t < i => at[t] = "done")
    /\ main = "reset" => \A t \in Thread : at[t] = "done"
    /\ main = "create_fast" =>
          \A t \in Thread : IF t < i THEN at[t] \in FastPlaces ELSE at[t] = "done"
    /\ main = "join_fast" =>
          \A t \in Thread : at[t] \in FastPlaces /\ (t < i => at[t] = "done")
    /\ main = "output" => \A t \in Thread : at[t] = "done"

\* The second search has been started in thread t.
FastStarted(t) == main \in {"join_fast", "output"} \/ (main = "create_fast" /\ t < i)

\* The end of what a thread that has taken a chunk is about to search.
End(t) == IF at[t] = "scan" THEN top[t] ELSE local[t] + CHUNK

\* Who is at the counter has the mutex; the chunks taken are apart from each
\* other and below the counter; who has stopped has seen the limit passed.
Chunks ==
    /\ main \in {"create_slow", "join_slow", "reset"} => global = 1
    /\ \A t \in Thread :
          /\ mutex = t <=> at[t] \in {"take", "add", "unlock"}
          /\ at[t] = "add" => local[t] = global
          /\ at[t] = "unlock" => local[t] + CHUNK = global
          /\ at[t] \in {"unlock", "scan"} => 1 <= local[t] /\ local[t] <= End(t) /\ End(t) <= global
          /\ at[t] = "done" /\ FastStarted(t) => global >= limit
    /\ \A t, u \in Thread :
          t # u /\ {at[t], at[u]} \subseteq {"unlock", "scan"} =>
              End(t) <= local[u] \/ End(u) <= local[t]

Going == {t \in Thread : at[t] \in {"lock", "take", "add"}}

\* Every thread that has seen the counter below the limit may add a chunk.
Overshoot ==
    /\ IsFiniteSet(Going)
    /\ Going # {} \/ global > 1 =>
          global + Cardinality(Going) * CHUNK < limit + num_threads * CHUNK

\* Where each thread of the first search is in its part.
Parts ==
    \A t \in Thread : at[t] = "slow" =>
        /\ top[t] = (t + 1) * chunk + 1
        /\ local[t] \in t * chunk + 1 .. top[t]

\* What is not to be tested any more has been tested.
Searched ==
    /\ primeS = {n \in 1 .. num_threads * chunk : IsPrime(n)} \ SlowUntested
    /\ primeF = {n \in 1 .. limit - 1 : IsPrime(n)} \ FastUntested

Counted == CountsAddUp /\ IsFiniteSet(Tally)

Inv == TypeOK /\ Control /\ Chunks /\ Overshoot /\ Parts /\ Searched /\ Counted

-------------------------------------------------------------------------------
(* Arithmetic.                                                             *)

LEMMA Monotone ==
    ASSUME NEW a \in Nat, NEW b \in Nat, NEW c \in Nat, a <= b
    PROVE  a * c <= b * c
  OBVIOUS

LEMMA Division ==
    ASSUME NEW a \in Nat, NEW b \in Nat \ {0}
    PROVE  /\ a \div b \in Nat /\ a % b \in 0 .. b - 1
           /\ a = (a \div b) * b + (a % b)
  OBVIOUS

LEMMA NoRemainder ==
    ASSUME NEW a \in Nat \ {0}, NEW b \in Nat
    PROVE  (a * b) % a = 0
  <1> DEFINE q == (a * b) \div a
             r == (a * b) % a
  <1>1. a * b \in Nat
    OBVIOUS
  <1>2. q \in Nat /\ r \in 0 .. a - 1 /\ a * b = q * a + r
    BY <1>1, Division
  <1> HIDE DEF q, r
  <1>3. CASE b <= q
    <2>1. a * b <= q * a
      BY <1>2, <1>3
    <2> QED BY <1>1, <1>2, <2>1 DEF r
  <1>4. CASE q + 1 <= b
    <2>1. q * a + a <= a * b
      BY <1>2, <1>4
    <2> QED BY <1>1, <1>2, <2>1
  <1> QED BY <1>2, <1>3, <1>4

\* The test of the code, which tries the divisors up to the square root, is
\* right.
LEMMA PrimeTest ==
    ASSUME NEW n \in Nat \ {0}
    PROVE  IsPrime(n) <=> Prime(n)
  <1>1. ASSUME ~IsPrime(n) PROVE ~Prime(n)
    <2>1. CASE n = 1
      BY <2>1 DEF Prime
    <2>2. CASE n # 1
      <3>1. PICK d \in 2 .. n : d * d <= n /\ n % d = 0
        BY <1>1, <2>2 DEF IsPrime
      <3> DEFINE b == n \div d
      <3>2. b \in Nat /\ n = b * d
        BY <3>1, Division
      <3> HIDE DEF b
      <3>3. d <= b
        <4>1. CASE b + 1 <= d
          <5>1. (b + 1) * d <= d * d
            BY <3>1, <3>2, <4>1
          <5> QED BY <5>1, <3>1, <3>2
        <4> QED BY <4>1, <3>1, <3>2
      <3>4. b <= n
        BY <3>1, <3>2
      <3> QED BY <3>1, <3>2, <3>3, <3>4 DEF Prime
    <2> QED BY <2>1, <2>2
  <1>2. ASSUME ~Prime(n), n # 1 PROVE ~IsPrime(n)
    <2>1. PICK a, b \in 2 .. n : a * b = n
      BY <1>2 DEF Prime
    <2>2. ASSUME NEW x \in 2 .. n, NEW y \in 2 .. n, x * y = n, x <= y
          PROVE  ~IsPrime(n)
      <3>1. x * x <= n
        BY <2>2
      <3>2. (x * y) % x = 0
        BY NoRemainder
      <3> QED BY <2>2, <3>1, <3>2 DEF IsPrime
    <2> QED BY <2>1, <2>2
  <1>3. ~IsPrime(1) /\ ~Prime(1)
    BY DEF IsPrime, Prime
  <1> QED BY <1>1, <1>2, <1>3

-------------------------------------------------------------------------------
(* The parts of the first search.                                          *)

\* What the arguments of the program are.
LEMMA Arguments ==
    ASSUME TypeOK
    PROVE  /\ limit \in Nat /\ num_threads \in Nat \ {0} /\ CHUNK \in Nat \ {0}
           /\ chunk \in Nat /\ num_threads * chunk \in Nat /\ num_threads * chunk <= limit
           /\ num_threads * CHUNK \in Nat /\ CHUNK <= num_threads * CHUNK
  <1>1. limit \in Nat /\ num_threads \in Nat \ {0} /\ CHUNK \in Nat \ {0}
    BY LimitsAssumption, ThreadCountsAssumption, ChunkAssumption DEF TypeOK, LIMIT
  <1>2. chunk \in Nat /\ num_threads * chunk \in Nat /\ num_threads * chunk <= limit
    BY <1>1, Division DEF chunk
  <1>3. 1 * CHUNK <= num_threads * CHUNK
    BY <1>1, Monotone
  <1> QED BY <1>1, <1>2, <1>3

LEMMA Typing ==
    ASSUME TypeOK
    PROVE  /\ at \in [Thread -> Places] /\ local \in [Thread -> Nat] /\ top \in [Thread -> Nat]
           /\ global \in Nat \ {0} /\ limit \in Nat /\ CHUNK \in Nat \ {0} /\ NoThread \notin Thread
  <1>1. /\ at \in [Thread -> Places] /\ local \in [Thread -> Nat] /\ top \in [Thread -> Nat]
        /\ global \in Nat \ {0}
    BY Arguments DEF TypeOK
  <1>2. NoThread \notin Thread
    BY NoThreadAssumption, Arguments DEF Thread
  <1> QED BY <1>1, <1>2, Arguments

LEMMA PartOfRange ==
    ASSUME TypeOK, NEW t \in Thread
    PROVE  /\ t \in Nat /\ t * chunk \in Nat /\ (t + 1) * chunk \in Nat
           /\ (t + 1) * chunk = t * chunk + chunk
           /\ (t + 1) * chunk <= num_threads * chunk
  <1>1. t \in Nat /\ t + 1 <= num_threads /\ chunk \in Nat /\ num_threads \in Nat
    BY Arguments DEF Thread
  <1>2. (t + 1) * chunk <= num_threads * chunk
    BY <1>1, Monotone
  <1> QED BY <1>1, <1>2

\* No number is in two parts, and every number of the range is in one.
LEMMA PartsApart ==
    ASSUME TypeOK, NEW t \in Thread, NEW u \in Thread, NEW n \in Nat,
           t * chunk < n, n <= (t + 1) * chunk, u * chunk < n, n <= (u + 1) * chunk
    PROVE  t = u
  <1>1. ASSUME NEW v \in Thread, NEW w \in Thread, v + 1 <= w
        PROVE  (v + 1) * chunk <= w * chunk
    BY <1>1, Monotone, Arguments DEF Thread
  <1>2. t \in Nat /\ u \in Nat
    BY PartOfRange
  <1>3. /\ t * chunk \in Nat /\ (t + 1) * chunk \in Nat
        /\ u * chunk \in Nat /\ (u + 1) * chunk \in Nat
    BY PartOfRange
  <1>4. ~ t + 1 <= u
    BY <1>1, <1>3
  <1>5. ~ u + 1 <= t
    BY <1>1, <1>3
  <1> QED BY <1>2, <1>4, <1>5

LEMMA Quotient ==
    ASSUME NEW c \in Nat, NEW m \in Nat, NEW n \in 1 .. m * c
    PROVE  \E t \in 0 .. m - 1 : t * c < n /\ n <= (t + 1) * c
  <1>1. c # 0 /\ n - 1 \in Nat
    OBVIOUS
  <1> DEFINE t == (n - 1) \div c
             r == (n - 1) % c
  <1>2. t \in Nat /\ r \in 0 .. c - 1 /\ n - 1 = t * c + r
    BY <1>1, Division
  <1> HIDE DEF t, r
  <1>3. t * c \in Nat /\ (t + 1) * c = t * c + c
    BY <1>2
  <1>4. t * c < n /\ n <= (t + 1) * c
    BY <1>2, <1>3
  <1>5. ~ m <= t
    <2>1. m <= t => m * c <= t * c
      BY <1>2, Monotone
    <2> QED BY <2>1, <1>3, <1>4
  <1> QED BY <1>2, <1>4, <1>5

LEMMA PartsCover ==
    ASSUME TypeOK, NEW n \in 1 .. num_threads * chunk
    PROVE  \E t \in Thread : t * chunk < n /\ n <= (t + 1) * chunk
  <1>1. chunk \in Nat /\ num_threads \in Nat
    BY Arguments
  <1> QED BY <1>1, Quotient DEF Thread

-------------------------------------------------------------------------------
(* Where the threads are.                                                  *)

LEMMA Fixed ==
    ASSUME UNCHANGED args
    PROVE  Thread' = Thread /\ chunk' = chunk /\ limit' = limit /\ num_threads' = num_threads
  BY DEF args, Thread, chunk

\* A thread is in the first search while main creates or joins its threads, and
\* in the second one while main creates or joins those.
LEMMA Phases ==
    ASSUME TypeOK, Control, NEW t \in Thread
    PROVE  /\ at[t] = "slow" => main \in {"create_slow", "join_slow"}
           /\ at[t] \in FastPlaces \ {"done"} =>
                 main \in {"create_fast", "join_fast"} /\ FastStarted(t)
  <1>1. main \in {"create_slow", "join_slow", "reset", "create_fast", "join_fast", "output"}
    BY DEF TypeOK
  <1> QED BY <1>1 DEF Control, FastPlaces, FastStarted

\* The steps of main move one thread at most, and each loop ends at its end.
LEMMA MainControl ==
    ASSUME TypeOK, Control, MainStep
    PROVE  Control'
  <1>1. UNCHANGED args
    BY DEF MainStep, CreateSlow, JoinSlow, Join, Reset, CreateFast, JoinFast
  <1>2. Thread' = Thread /\ i \in Thread /\ num_threads \in Nat \ {0} /\ Thread = 0 .. num_threads - 1
    BY <1>1, Fixed, Arguments DEF TypeOK, Thread
  <1>3. at \in [Thread -> Places]
    BY DEF TypeOK
  <1>4. CASE CreateSlow
    <2>1. /\ at'[i] = "slow" /\ \A t \in Thread : t # i => at'[t] = at[t]
      BY <1>2, <1>3, <1>4 DEF CreateSlow
    <2>2. \A t \in Thread : IF t < i THEN at[t] \in {"slow", "done"} ELSE at[t] = "none"
      BY <1>4 DEF CreateSlow, Loop, Control
    <2>3. CASE i + 1 = num_threads
      <3>1. main' = "join_slow" /\ i' = 0
        BY <1>4, <2>3 DEF CreateSlow, Loop
      <3>2. \A t \in Thread : t = i \/ t < i
        BY <1>2, <2>3
      <3>3. \A t \in Thread : ~ t < 0
        BY <1>2
      <3> QED BY <1>2, <2>1, <2>2, <3>1, <3>2, <3>3 DEF Control
    <2>4. CASE i + 1 # num_threads
      <3>1. main' = "create_slow" /\ i' = i + 1
        BY <1>4, <2>4 DEF CreateSlow, Loop
      <3>2. \A t \in Thread : t < i + 1 <=> t = i \/ t < i
        BY <1>2
      <3> QED BY <1>2, <2>1, <2>2, <3>1, <3>2 DEF Control
    <2> QED BY <2>3, <2>4
  <1>5. CASE CreateFast
    <2>1. /\ at'[i] = "test" /\ \A t \in Thread : t # i => at'[t] = at[t]
      BY <1>2, <1>3, <1>5 DEF CreateFast
    <2>2. \A t \in Thread : IF t < i THEN at[t] \in FastPlaces ELSE at[t] = "done"
      BY <1>5 DEF CreateFast, Loop, Control
    <2>3. CASE i + 1 = num_threads
      <3>1. main' = "join_fast" /\ i' = 0
        BY <1>5, <2>3 DEF CreateFast, Loop
      <3>2. \A t \in Thread : t = i \/ t < i
        BY <1>2, <2>3
      <3>3. \A t \in Thread : ~ t < 0
        BY <1>2
      <3> QED BY <1>2, <2>1, <2>2, <3>1, <3>2, <3>3 DEF Control, FastPlaces
    <2>4. CASE i + 1 # num_threads
      <3>1. main' = "create_fast" /\ i' = i + 1
        BY <1>5, <2>4 DEF CreateFast, Loop
      <3>2. \A t \in Thread : t < i + 1 <=> t = i \/ t < i
        BY <1>2
      <3> QED BY <1>2, <2>1, <2>2, <3>1, <3>2 DEF Control, FastPlaces
    <2> QED BY <2>3, <2>4
  <1>6. CASE JoinSlow \/ JoinFast \/ Reset
    <2>1. at' = at
      BY <1>6 DEF JoinSlow, JoinFast, Join, Reset, thread
    <2>2. \A t \in Thread : t < i + 1 <=> t = i \/ t < i
      BY <1>2
    <2>3. \A t \in Thread : i + 1 = num_threads => t = i \/ t < i
      BY <1>2
    <2>4. \A t \in Thread : ~ t < 0
      BY <1>2
    <2>5. CASE JoinSlow
      BY <1>2, <2>1, <2>2, <2>3, <2>4, <2>5 DEF Control, JoinSlow, Join, Loop
    <2>6. CASE JoinFast
      BY <1>2, <2>1, <2>2, <2>3, <2>4, <2>6 DEF Control, JoinFast, Join, Loop
    <2>7. CASE Reset
      BY <1>2, <2>1, <2>2, <2>3, <2>4, <2>7 DEF Control, Reset, Loop
    <2> QED BY <1>6, <2>5, <2>6, <2>7
  <1> QED BY <1>4, <1>5, <1>6 DEF MainStep

\* A thread that moves stays in the search it is in.
LEMMA ThreadControl ==
    ASSUME TypeOK, Control, NEW t \in Thread, ThreadStep(t)
    PROVE  Control'
  <1>1. UNCHANGED <<args, main, i>>
    BY DEF ThreadStep, SlowTest, SlowEnd, ReadGlobal, Lock, Take, AddChunk, Unlock,
           FastTest, ChunkEnd
  <1>2. Thread' = Thread
    BY <1>1, Fixed
  <1>3. \/ at' = at
        \/ at[t] = "slow" /\ at' = [at EXCEPT ![t] = "done"]
        \/ /\ at[t] \in FastPlaces \ {"done"}
           /\ \E p \in FastPlaces : at' = [at EXCEPT ![t] = p]
    BY DEF ThreadStep, SlowTest, SlowEnd, ReadGlobal, Lock, Take, AddChunk, Unlock,
           FastTest, ChunkEnd, Goto, FastPlaces
  <1>4. at \in [Thread -> Places]
    BY DEF TypeOK
  <1>5. CASE at' = at
    BY <1>1, <1>2, <1>5 DEF Control
  <1>6. CASE at[t] = "slow" /\ at' = [at EXCEPT ![t] = "done"]
    <2>1. main \in {"create_slow", "join_slow"}
      BY <1>6, Phases
    <2>2. at'[t] = "done" /\ \A u \in Thread : u # t => at'[u] = at[u]
      BY <1>4, <1>6
    <2> QED BY <1>1, <1>2, <1>6, <2>1, <2>2 DEF Control
  <1>7. ASSUME at[t] \in FastPlaces \ {"done"},
               NEW p \in FastPlaces, at' = [at EXCEPT ![t] = p]
        PROVE  Control'
    <2>1. main \in {"create_fast", "join_fast"} /\ FastStarted(t)
      BY <1>7, Phases
    <2>2. at'[t] = p /\ \A u \in Thread : u # t => at'[u] = at[u]
      BY <1>4, <1>7
    <2> QED BY <1>1, <1>2, <1>7, <2>1, <2>2 DEF Control, FastStarted
  <1> QED BY <1>3, <1>5, <1>6, <1>7

-------------------------------------------------------------------------------
(* The shared counter.                                                     *)

LEMMA MainChunks ==
    ASSUME TypeOK, Control, Chunks, MainStep
    PROVE  Chunks'
  <1>1. UNCHANGED <<args, mutex>>
    BY DEF MainStep, CreateSlow, JoinSlow, Join, Reset, CreateFast, JoinFast
  <1>2. Thread' = Thread /\ limit' = limit /\ i \in Thread /\ Thread = 0 .. num_threads - 1
    BY <1>1, Fixed DEF TypeOK, Thread
  <1>3. at \in [Thread -> Places] /\ local \in [Thread -> Nat] /\ top \in [Thread -> Nat]
    BY Arguments DEF TypeOK
  <1>4. num_threads \in Nat \ {0}
    BY Arguments
  <1>5. CASE CreateSlow
    <2>1. /\ main = "create_slow" /\ at[i] = "none"
          /\ main' \in {"create_slow", "join_slow"} /\ UNCHANGED global
      BY <1>2, <1>4, <1>5 DEF CreateSlow, Loop, Control
    <2>2. /\ at'[i] = "slow"
          /\ \A t \in Thread : t # i => /\ at'[t] = at[t] /\ local'[t] = local[t]
                                       /\ top'[t] = top[t] /\ End(t)' = End(t)
      BY <1>2, <1>3, <1>5 DEF CreateSlow, End
    <2> QED BY <1>1, <1>2, <2>1, <2>2 DEF Chunks, FastStarted
  <1>6. CASE JoinSlow \/ JoinFast
    <2>1. UNCHANGED <<global, at, local, top>> /\ \A t \in Thread : End(t)' = End(t)
      BY <1>6 DEF JoinSlow, JoinFast, Join, thread, End
    <2>2. \/ main \in {"create_slow", "join_slow"} /\ main' \in {"join_slow", "reset"}
          \/ main = "join_fast" /\ main' \in {"join_fast", "output"}
      BY <1>6 DEF JoinSlow, JoinFast, Join, Loop
    <2> QED BY <1>1, <1>2, <2>1, <2>2 DEF Chunks, FastStarted
  <1>7. CASE Reset
    <2>1. UNCHANGED <<at, local, top>> /\ \A t \in Thread : End(t)' = End(t)
      BY <1>7 DEF Reset, thread, End
    <2>2. /\ main = "reset" /\ global' = 1
          /\ main' = "reset" \/ (main' = "create_fast" /\ i' = 0)
      BY <1>7 DEF Reset, Loop
    <2>3. global = 1 /\ \A t \in Thread : ~ t < 0
      BY <1>2, <2>2 DEF Chunks
    <2> QED BY <1>1, <1>2, <2>1, <2>2, <2>3 DEF Chunks, FastStarted
  <1>8. CASE CreateFast
    <2>1. /\ main = "create_fast" /\ at[i] = "done" /\ UNCHANGED <<global, local, top>>
          /\ main' \in {"create_fast", "join_fast"}
      BY <1>2, <1>4, <1>8 DEF CreateFast, Loop, Control
    <2>2. /\ at'[i] = "test"
          /\ \A t \in Thread : t # i => at'[t] = at[t] /\ End(t)' = End(t)
      BY <1>2, <1>3, <1>8 DEF CreateFast, End
    <2>3. \A t \in Thread : t # i /\ FastStarted(t)' => FastStarted(t)
      BY <1>2, <1>4, <1>8 DEF CreateFast, Loop, FastStarted
    <2> QED BY <1>1, <1>2, <2>1, <2>2, <2>3 DEF Chunks
  <1> QED BY <1>5, <1>6, <1>7, <1>8 DEF MainStep

\* What the counter and the chunks of the other threads are to one that takes a
\* chunk: nobody else is at the counter, and every chunk ends below it.
LEMMA ThreadChunks ==
    ASSUME TypeOK, Control, Chunks, NEW t \in Thread, ThreadStep(t)
    PROVE  Chunks'
  <1>1. UNCHANGED <<args, main, i>>
    BY DEF ThreadStep, SlowTest, SlowEnd, ReadGlobal, Lock, Take, AddChunk, Unlock,
           FastTest, ChunkEnd
  <1>2. Thread' = Thread /\ limit' = limit /\ \A u \in Thread : FastStarted(u)' = FastStarted(u)
    BY <1>1, Fixed DEF FastStarted
  <1>3. /\ at \in [Thread -> Places] /\ local \in [Thread -> Nat] /\ top \in [Thread -> Nat]
        /\ global \in Nat /\ limit \in Nat /\ CHUNK \in Nat \ {0} /\ NoThread \notin Thread
    BY Typing
  <1>4. at[t] = "slow" => main \in {"create_slow", "join_slow"} /\ ~FastStarted(t)
    BY Phases DEF FastStarted
  <1>5. at[t] \in FastPlaces \ {"done"} => main \in {"create_fast", "join_fast"}
    BY Phases
  <1>6. CASE SlowTest(t) \/ SlowEnd(t)
    <2>1. /\ at[t] = "slow" /\ at'[t] \in {"slow", "done"} /\ UNCHANGED <<global, mutex>>
          /\ \A u \in Thread : u # t => /\ at'[u] = at[u] /\ local'[u] = local[u]
                                       /\ top'[u] = top[u] /\ End(u)' = End(u)
      BY <1>3, <1>6 DEF SlowTest, SlowEnd, TestNumber, Goto, End
    <2> QED BY <1>1, <1>2, <1>4, <2>1 DEF Chunks
  <1>7. CASE ReadGlobal(t)
    <2>1. /\ at[t] = "test" /\ UNCHANGED <<global, mutex, local, top>>
          /\ at'[t] = IF global < limit THEN "lock" ELSE "done"
          /\ \A u \in Thread : u # t => at'[u] = at[u] /\ End(u)' = End(u)
      BY <1>3, <1>7 DEF ReadGlobal, Goto, End
    <2> QED BY <1>1, <1>2, <1>3, <2>1 DEF Chunks
  <1>8. CASE Lock(t)
    <2>1. /\ at[t] = "lock" /\ at'[t] = "take" /\ mutex = NoThread /\ mutex' = t
          /\ UNCHANGED <<global, local, top>>
          /\ \A u \in Thread : u # t => at'[u] = at[u] /\ End(u)' = End(u)
      BY <1>3, <1>8 DEF Lock, Goto, End
    <2> QED BY <1>1, <1>2, <1>3, <2>1 DEF Chunks
  <1>9. CASE Take(t)
    <2>1. /\ at[t] = "take" /\ at'[t] = "add" /\ local'[t] = global
          /\ UNCHANGED <<global, mutex, top>>
          /\ \A u \in Thread : u # t => /\ at'[u] = at[u] /\ local'[u] = local[u]
                                       /\ End(u)' = End(u)
      BY <1>3, <1>9 DEF Take, Goto, End
    <2> QED BY <1>1, <1>2, <1>3, <2>1 DEF Chunks
  <1>10. CASE AddChunk(t)
    <2>1. /\ at[t] = "add" /\ at'[t] = "unlock" /\ global' = global + CHUNK
          /\ UNCHANGED <<local, mutex, top>> /\ End(t)' = local[t] + CHUNK
          /\ \A u \in Thread : u # t => at'[u] = at[u] /\ End(u)' = End(u)
      BY <1>3, <1>10 DEF AddChunk, Goto, End
    <2>2. local[t] = global /\ global >= 1 /\ mutex = t /\ main \in {"create_fast", "join_fast"}
      BY <1>3, <1>5, <2>1 DEF Chunks, TypeOK, FastPlaces
    <2>3. \A u \in Thread : u # t => at[u] \notin {"take", "add", "unlock"}
      BY <2>2 DEF Chunks
    <2>4. \A u \in Thread : End(u) \in Nat
      BY <1>3 DEF End
    <2> QED BY <1>1, <1>2, <1>3, <2>1, <2>2, <2>3, <2>4 DEF Chunks
  <1>11. CASE Unlock(t)
    <2>1. /\ at[t] = "unlock" /\ at'[t] = "scan" /\ mutex' = NoThread
          /\ UNCHANGED <<global, local>> /\ End(t)' = End(t)
          /\ \A u \in Thread : u # t => at'[u] = at[u] /\ End(u)' = End(u)
      BY <1>3, <1>11 DEF Unlock, Goto, End
    <2>2. mutex = t
      BY <2>1 DEF Chunks
    <2> QED BY <1>1, <1>2, <1>3, <2>1, <2>2 DEF Chunks
  <1>12. CASE FastTest(t)
    <2>1. /\ at[t] = "scan" /\ UNCHANGED <<at, global, mutex, top>>
          /\ local[t] < End(t) /\ local'[t] = local[t] + 1
          /\ \A u \in Thread : End(u)' = End(u) /\ (u # t => local'[u] = local[u])
      BY <1>3, <1>12 DEF FastTest, InChunk, TestNumber, End
    <2>2. \A u \in Thread : End(u) \in Nat
      BY <1>3 DEF End
    <2> QED BY <1>1, <1>2, <1>3, <2>1, <2>2 DEF Chunks
  <1>13. CASE ChunkEnd(t)
    <2>1. /\ at[t] = "scan" /\ at'[t] = "test" /\ UNCHANGED <<global, mutex, local, top>>
          /\ \A u \in Thread : u # t => at'[u] = at[u] /\ End(u)' = End(u)
      BY <1>3, <1>13 DEF ChunkEnd, Goto, End
    <2> QED BY <1>1, <1>2, <1>3, <2>1 DEF Chunks
  <1> QED BY <1>6, <1>7, <1>8, <1>9, <1>10, <1>11, <1>12, <1>13 DEF ThreadStep

\* A thread that has seen the counter below the limit adds a chunk once.
LEMMA OvershootStep ==
    ASSUME TypeOK, Control, Chunks, Overshoot, Next
    PROVE  Overshoot'
  <1>1. UNCHANGED args
    BY DEF Next, MainStep, CreateSlow, JoinSlow, Join, Reset, CreateFast, JoinFast, Finished,
           ThreadStep, SlowTest, SlowEnd, ReadGlobal, Lock, Take, AddChunk, Unlock,
           FastTest, ChunkEnd, vars
  <1>2. Thread' = Thread /\ limit' = limit /\ num_threads' = num_threads
    BY <1>1, Fixed
  <1>3. /\ at \in [Thread -> Places] /\ global \in Nat \ {0} /\ limit \in Nat
        /\ CHUNK \in Nat \ {0} /\ num_threads \in Nat /\ num_threads * CHUNK \in Nat
        /\ Thread = 0 .. num_threads - 1
    BY Typing, Arguments DEF Thread
  <1>4. IsFiniteSet(Going) /\ Cardinality(Going) \in Nat
    BY FS_CardinalityType DEF Overshoot
  <1>5. Cardinality(Going) * CHUNK \in Nat
    BY <1>3, <1>4
  <1>6. CASE Going' = Going /\ (global' = global \/ (Going = {} /\ global' = 1))
    BY <1>1, <1>2, <1>6 DEF Overshoot
  <1>7. ASSUME NEW t \in Thread, ReadGlobal(t), global < limit
        PROVE  Overshoot'
    <2>1. t \notin Going /\ Going' = Going \cup {t} /\ global' = global
      BY <1>2, <1>3, <1>7 DEF ReadGlobal, Goto, Going
    <2>2. IsFiniteSet(Going') /\ Cardinality(Going') = Cardinality(Going) + 1
      BY <1>4, <2>1, FS_AddElement
    <2>3. Cardinality(Going') * CHUNK = Cardinality(Going) * CHUNK + CHUNK
      BY <1>3, <1>4, <2>2
    <2>4. CASE Going = {}
      <3>1. Cardinality(Going') = 1
        BY <2>2, <2>4, FS_EmptySet
      <3>2. Cardinality(Going') * CHUNK = CHUNK /\ CHUNK <= num_threads * CHUNK
        BY <1>3, <3>1, Arguments
      <3> QED BY <1>2, <1>3, <1>7, <2>1, <2>2, <3>2 DEF Overshoot
    <2>5. CASE Going # {}
      <3>1. IsFiniteSet(Thread) /\ Cardinality(Thread) = num_threads
        BY <1>3, FS_Interval, Arguments
      <3>2. Going' \in SUBSET Thread
        BY <1>2 DEF Going
      <3>3. Cardinality(Going') <= num_threads
        BY <3>1, <3>2, FS_Subset
      <3>4. Cardinality(Going') * CHUNK <= num_threads * CHUNK
        BY <1>3, <1>4, <2>2, <3>3, Monotone
      <3> QED BY <1>2, <1>3, <1>5, <1>7, <2>1, <2>2, <2>3, <3>4 DEF Overshoot
    <2> QED BY <2>4, <2>5
  <1>8. ASSUME NEW t \in Thread, AddChunk(t)
        PROVE  Overshoot'
    <2>1. t \in Going /\ Going' = Going \ {t} /\ global' = global + CHUNK
      BY <1>2, <1>3, <1>8 DEF AddChunk, Goto, Going
    <2>2. IsFiniteSet(Going') /\ Cardinality(Going') = Cardinality(Going) - 1
      BY <1>4, <2>1, FS_RemoveElement
    <2>3. Cardinality(Going) * CHUNK = Cardinality(Going') * CHUNK + CHUNK
      <3>1. Cardinality(Going') \in Nat /\ Cardinality(Going) = Cardinality(Going') + 1
        BY <1>4, <2>2, FS_CardinalityType
      <3> QED BY <1>3, <3>1
    <2>4. Cardinality(Going') * CHUNK \in Nat
      BY <1>3, <2>2, FS_CardinalityType
    <2> QED BY <1>2, <1>3, <1>5, <2>1, <2>2, <2>3, <2>4 DEF Overshoot
  <1>9. ASSUME NEW t \in Thread, ThreadStep(t), ~AddChunk(t), ~(ReadGlobal(t) /\ global < limit)
        PROVE  Going' = Going /\ global' = global
    <2>1. global' = global
      BY <1>9 DEF ThreadStep, SlowTest, SlowEnd, ReadGlobal, Lock, Take, Unlock,
                  FastTest, ChunkEnd
    <2>2. \/ at' = at
          \/ /\ at[t] \notin {"lock", "take", "add"}
             /\ \E p \in Places \ {"lock", "take", "add"} : at' = [at EXCEPT ![t] = p]
          \/ /\ at[t] \in {"lock", "take"}
             /\ \E p \in {"take", "add"} : at' = [at EXCEPT ![t] = p]
      BY <1>9 DEF ThreadStep, SlowTest, SlowEnd, ReadGlobal, Lock, Take, Unlock,
                  FastTest, ChunkEnd, Goto, Places
    <2> QED BY <1>2, <1>3, <2>1, <2>2 DEF Going
  <1>10. ASSUME MainStep
         PROVE  Going' = Going /\ (global' = global \/ (Going = {} /\ global' = 1))
    <2>1. CASE CreateSlow \/ CreateFast
      <3>1. i \in Thread /\ at[i] \in {"none", "done"}
        BY <1>3, <2>1 DEF CreateSlow, CreateFast, Loop, Control, TypeOK
      <3>2. at' = [at EXCEPT ![i] = "slow"] \/ at' = [at EXCEPT ![i] = "test"]
        BY <2>1 DEF CreateSlow, CreateFast
      <3>3. global' = global
        BY <2>1 DEF CreateSlow, CreateFast
      <3> QED BY <1>2, <1>3, <3>1, <3>2, <3>3 DEF Going
    <2>2. CASE JoinSlow \/ JoinFast
      BY <1>2, <2>2 DEF JoinSlow, JoinFast, Join, thread, Going
    <2>3. CASE Reset
      <3>1. main = "reset" /\ at' = at /\ global' = 1
        BY <2>3 DEF Reset, Loop, thread
      <3>2. \A t \in Thread : at[t] = "done"
        BY <3>1 DEF Control
      <3> QED BY <1>2, <3>1, <3>2 DEF Going
    <2> QED BY <1>10, <2>1, <2>2, <2>3 DEF MainStep
  <1>11. CASE Finished
    BY <1>2, <1>6, <1>11 DEF Finished, vars, thread, Going
  <1> QED BY <1>6, <1>7, <1>8, <1>9, <1>10, <1>11 DEF Next

-------------------------------------------------------------------------------
(* What is left to search.                                                 *)

\* One number is tested, and found exactly if it is prime.
SlowTested(x) ==
    /\ SlowUntested' = SlowUntested \ {x}
    /\ primeS' = primeS \cup {n \in {x} : IsPrime(n)}
FastTested(x) ==
    /\ FastUntested' = FastUntested \ {x}
    /\ primeF' = primeF \cup {n \in {x} : IsPrime(n)}

\* The part of the first search thread t has not finished has n to test.
Owes(t, n) ==
    /\ t * chunk < n /\ n <= (t + 1) * chunk
    /\ at[t] = "slow" => local[t] <= n
    /\ at[t] # "done"

LEMMA SlowOwed ==
    SlowUntested = IF main \in {"create_slow", "join_slow"}
                   THEN {n \in 1 .. num_threads * chunk : \E t \in Thread : Owes(t, n)}
                   ELSE {}
  BY DEF SlowUntested, Owes

LEMMA SlowOwedNext ==
    SlowUntested' = IF main' \in {"create_slow", "join_slow"}
                    THEN {n \in 1 .. num_threads' * chunk' : \E t \in Thread' : Owes(t, n)'}
                    ELSE {}
  BY DEF SlowUntested, Owes

\* Only a test of runSlow changes what the first search has left to do.
LEMMA SlowSame ==
    ASSUME TypeOK, Control, Parts, UNCHANGED <<args, primeS>>,
           \/ main \notin {"create_slow", "join_slow"} /\ main' \notin {"create_slow", "join_slow"}
           \/ CreateSlow \/ JoinSlow
           \/ \E t \in Thread : SlowEnd(t)
    PROVE  SlowUntested' = SlowUntested
  <1>1. Thread' = Thread /\ chunk' = chunk /\ num_threads' = num_threads /\ i \in Thread
    BY Fixed DEF TypeOK
  <1>2. \A t \in Thread : /\ t * chunk \in Nat /\ (t + 1) * chunk \in Nat
                          /\ (t + 1) * chunk = t * chunk + chunk
    BY PartOfRange
  <1>3. at \in [Thread -> Places] /\ local \in [Thread -> Nat] /\ chunk \in Nat
    BY Typing, Arguments
  <1>4. CASE main \notin {"create_slow", "join_slow"} /\ main' \notin {"create_slow", "join_slow"}
    BY <1>4, SlowOwed, SlowOwedNext
  <1>5. CASE CreateSlow
    <2>1. /\ main = "create_slow" /\ main' \in {"create_slow", "join_slow"}
          /\ at[i] = "none"
      BY <1>1, <1>5, Arguments DEF CreateSlow, Loop, Control, Thread
    <2>2. /\ at'[i] = "slow" /\ local'[i] = i * chunk + 1
          /\ \A t \in Thread : t # i => at'[t] = at[t] /\ local'[t] = local[t]
      BY <1>1, <1>3, <1>5 DEF CreateSlow
    <2>3. ASSUME NEW n \in 1 .. num_threads * chunk, NEW t \in Thread
          PROVE  Owes(t, n)' <=> Owes(t, n)
      <3>1. CASE t = i
        <4>1. i * chunk < n => i * chunk + 1 <= n
          BY <1>1, <1>2
        <4> QED BY <1>1, <2>1, <2>2, <3>1, <4>1 DEF Owes
      <3>2. CASE t # i
        BY <1>1, <2>2, <3>2 DEF Owes
      <3> QED BY <3>1, <3>2
    <2> QED BY <1>1, <2>1, <2>3, SlowOwed, SlowOwedNext
  <1>6. CASE JoinSlow
    <2>1. main = "join_slow" /\ at[i] = "done" /\ UNCHANGED <<at, local>>
      BY <1>6 DEF JoinSlow, Join, Loop, thread
    <2>2. \A t \in Thread : \A n \in 1 .. num_threads * chunk : Owes(t, n)' <=> Owes(t, n)
      BY <1>1, <2>1 DEF Owes
    <2>3. CASE i + 1 = num_threads
      <3>1. \A t \in Thread : t = i \/ t < i
        BY <1>1, <2>3, Arguments DEF Thread
      <3>2. \A t \in Thread : at[t] = "done"
        BY <2>1, <3>1 DEF Control
      <3>3. main' = "reset"
        BY <1>6, <2>3 DEF JoinSlow, Join, Loop
      <3> QED BY <2>1, <3>2, <3>3, SlowOwed, SlowOwedNext DEF Owes
    <2>4. CASE i + 1 # num_threads
      <3>1. main' = "join_slow"
        BY <1>6, <2>4 DEF JoinSlow, Join, Loop
      <3> QED BY <1>1, <2>1, <2>2, <3>1, SlowOwed, SlowOwedNext
    <2> QED BY <2>3, <2>4
  <1>7. ASSUME NEW t \in Thread, SlowEnd(t)
        PROVE  SlowUntested' = SlowUntested
    <2>1. /\ at[t] = "slow" /\ at'[t] = "done" /\ local[t] >= top[t] /\ UNCHANGED <<main, local>>
          /\ \A u \in Thread : u # t => at'[u] = at[u]
      BY <1>3, <1>7 DEF SlowEnd, Goto
    <2>2. local[t] >= (t + 1) * chunk + 1
      BY <2>1 DEF Parts
    <2>3. ASSUME NEW n \in 1 .. num_threads * chunk, NEW u \in Thread
          PROVE  Owes(u, n)' <=> Owes(u, n)
      <3>1. ~Owes(t, n)
        <4>1. n \in Nat /\ local[t] \in Nat /\ (t + 1) * chunk \in Nat
          BY <1>2, <1>3
        <4> QED BY <2>1, <2>2, <4>1 DEF Owes
      <3>2. ~Owes(t, n)'
        BY <2>1 DEF Owes
      <3>3. u # t => (Owes(u, n)' <=> Owes(u, n))
        BY <1>1, <2>1 DEF Owes
      <3> QED BY <3>1, <3>2, <3>3
    <2> QED BY <1>1, <2>1, <2>3, SlowOwed, SlowOwedNext
  <1> QED BY <1>4, <1>5, <1>6, <1>7

LEMMA SlowTestStep ==
    ASSUME TypeOK, Control, Parts, NEW t \in Thread, SlowTest(t)
    PROVE  local[t] \in SlowUntested /\ SlowTested(local[t])
  <1>1. Thread' = Thread /\ chunk' = chunk /\ num_threads' = num_threads
    BY Fixed DEF SlowTest
  <1>2. /\ t * chunk \in Nat /\ (t + 1) * chunk \in Nat /\ num_threads * chunk \in Nat
        /\ (t + 1) * chunk <= num_threads * chunk
    BY PartOfRange, Arguments
  <1>3. at \in [Thread -> Places] /\ local \in [Thread -> Nat]
    BY Typing
  <1>4. /\ main \in {"create_slow", "join_slow"} /\ main' = main
        /\ at[t] = "slow" /\ UNCHANGED at
        /\ local'[t] = local[t] + 1 /\ \A u \in Thread : u # t => local'[u] = local[u]
        /\ primeS' = primeS \cup {n \in {local[t]} : IsPrime(n)}
    BY <1>3, Phases DEF SlowTest, TestNumber
  <1>5. t * chunk < local[t] /\ local[t] <= (t + 1) * chunk
    <2>1. local[t] >= t * chunk + 1 /\ local[t] < (t + 1) * chunk + 1
      BY <1>2, <1>4 DEF Parts, SlowTest
    <2> QED BY <1>2, <1>3, <2>1
  <1>6. local[t] \in 1 .. num_threads * chunk /\ Owes(t, local[t])
    BY <1>2, <1>3, <1>4, <1>5 DEF Owes
  <1>7. local[t] \in SlowUntested
    BY <1>4, <1>6, SlowOwed
  <1>8. ASSUME NEW n \in 1 .. num_threads * chunk
        PROVE  (\E u \in Thread : Owes(u, n)') <=> n # local[t] /\ \E u \in Thread : Owes(u, n)
    <2>1. \A u \in Thread : u # t => (Owes(u, n)' <=> Owes(u, n))
      BY <1>1, <1>4 DEF Owes
    <2>2. Owes(t, n)' <=> Owes(t, n) /\ n # local[t]
      <3>1. local[t] + 1 <= n <=> local[t] <= n /\ n # local[t]
        BY <1>3
      <3> QED BY <1>1, <1>4, <3>1 DEF Owes
    <2>3. \A u \in Thread : u # t => ~Owes(u, local[t])
      <3>1. ASSUME NEW u \in Thread, u * chunk < local[t], local[t] <= (u + 1) * chunk
            PROVE  u = t
        BY <1>3, <1>5, <3>1, PartsApart
      <3> QED BY <3>1 DEF Owes
    <2> QED BY <2>1, <2>2, <2>3
  <1>9. SlowUntested' = SlowUntested \ {local[t]}
    BY <1>1, <1>4, <1>8, SlowOwed, SlowOwedNext
  <1> QED BY <1>4, <1>7, <1>9 DEF SlowTested

\* Thread t has taken the number n of the second search, and not tested it yet.
Took(t, n) == at[t] \in {"unlock", "scan"} /\ local[t] <= n /\ n < End(t)

LEMMA FastTaken ==
    FastUntested = {n \in 1 .. limit - 1 : n >= global \/ \E t \in Thread : Took(t, n)}
  BY DEF FastUntested, Took, End

LEMMA FastTakenNext ==
    FastUntested' = {n \in 1 .. limit' - 1 : n >= global' \/ \E t \in Thread' : Took(t, n)'}
  BY DEF FastUntested, Took, End

\* What is taken from the counter is with a thread until it is tested.
LEMMA FastSame ==
    ASSUME TypeOK, Control, Chunks, Next, \A t \in Thread : ~FastTest(t)
    PROVE  FastUntested' = FastUntested
  <1>1. UNCHANGED args
    BY DEF Next, MainStep, CreateSlow, JoinSlow, Join, Reset, CreateFast, JoinFast, Finished,
           ThreadStep, SlowTest, SlowEnd, ReadGlobal, Lock, Take, AddChunk, Unlock,
           FastTest, ChunkEnd, vars
  <1>2. Thread' = Thread /\ limit' = limit /\ limit \in Nat
    BY <1>1, Fixed, Arguments
  <1>3. /\ at \in [Thread -> Places] /\ local \in [Thread -> Nat] /\ top \in [Thread -> Nat]
        /\ global \in Nat /\ CHUNK \in Nat \ {0}
    BY Typing
  <1>4. CASE /\ global' = global
             /\ \A n \in 1 .. limit - 1, t \in Thread : Took(t, n)' <=> Took(t, n)
    BY <1>2, <1>4, FastTaken, FastTakenNext
  <1>5. ASSUME UNCHANGED global, NEW t \in Thread,
               at[t] \notin {"unlock", "scan"}, at'[t] \notin {"unlock", "scan"},
               \A u \in Thread : u # t => /\ at'[u] = at[u] /\ local'[u] = local[u]
                                        /\ top'[u] = top[u]
        PROVE  FastUntested' = FastUntested
    BY <1>4, <1>5 DEF Took, End
  <1>6. CASE MainStep
    <2>1. CASE CreateSlow \/ CreateFast
      <3>1. i \in Thread /\ at[i] \in {"none", "done"} /\ UNCHANGED global
        BY <2>1, Arguments DEF CreateSlow, CreateFast, Loop, Control, TypeOK, Thread
      <3>2. /\ at'[i] \in {"slow", "test"}
            /\ \A u \in Thread : u # i => /\ at'[u] = at[u] /\ local'[u] = local[u]
                                         /\ top'[u] = top[u]
        BY <1>3, <2>1, <3>1 DEF CreateSlow, CreateFast
      <3> QED BY <1>5, <3>1, <3>2
    <2>2. CASE JoinSlow \/ JoinFast \/ Reset
      <3>1. UNCHANGED <<at, local, top>>
        BY <2>2 DEF JoinSlow, JoinFast, Join, Reset, thread
      <3>2. global' = global
        BY <2>2 DEF JoinSlow, JoinFast, Join, Reset, Loop, Chunks
      <3> QED BY <1>2, <1>4, <3>1, <3>2 DEF Took, End
    <2> QED BY <1>6, <2>1, <2>2 DEF MainStep
  <1>7. ASSUME NEW t \in Thread,
               SlowTest(t) \/ SlowEnd(t) \/ ReadGlobal(t) \/ Lock(t) \/ Take(t)
        PROVE  FastUntested' = FastUntested
    <2>1. at[t] \notin {"unlock", "scan"} /\ at'[t] \notin {"unlock", "scan"} /\ UNCHANGED global
      BY <1>3, <1>7 DEF SlowTest, SlowEnd, ReadGlobal, Lock, Take, Goto
    <2>2. \A u \in Thread : u # t => /\ at'[u] = at[u] /\ local'[u] = local[u]
                                   /\ top'[u] = top[u]
      BY <1>3, <1>7 DEF SlowTest, SlowEnd, ReadGlobal, Lock, Take, Goto, TestNumber
    <2> QED BY <1>5, <2>1, <2>2
  <1>8. ASSUME NEW t \in Thread, AddChunk(t)
        PROVE  FastUntested' = FastUntested
    <2>1. /\ at[t] = "add" /\ at'[t] = "unlock" /\ global' = global + CHUNK
          /\ UNCHANGED <<local, top>> /\ local[t] = global
          /\ \A u \in Thread : u # t => at'[u] = at[u]
      BY <1>3, <1>8 DEF AddChunk, Goto, Chunks
    <2>2. ASSUME NEW n \in 1 .. limit - 1
          PROVE  /\ Took(t, n)' <=> global <= n /\ n < global + CHUNK
                 /\ ~Took(t, n)
                 /\ \A u \in Thread : u # t => (Took(u, n)' <=> Took(u, n))
      BY <2>1 DEF Took, End
    <2>3. ASSUME NEW n \in 1 .. limit - 1
          PROVE  n >= global <=> n >= global + CHUNK \/ (global <= n /\ n < global + CHUNK)
      BY <1>2, <1>3
    <2> QED BY <1>2, <2>1, <2>2, <2>3, FastTaken, FastTakenNext
  <1>9. ASSUME NEW t \in Thread, Unlock(t)
        PROVE  FastUntested' = FastUntested
    <2>1. /\ at[t] = "unlock" /\ at'[t] = "scan" /\ UNCHANGED <<global, local>>
          /\ End(t)' = End(t)
          /\ \A u \in Thread : u # t => at'[u] = at[u] /\ End(u)' = End(u)
      BY <1>3, <1>9 DEF Unlock, Goto, End
    <2> QED BY <1>4, <2>1 DEF Took
  <1>10. ASSUME NEW t \in Thread, ChunkEnd(t)
         PROVE  FastUntested' = FastUntested
    <2>1. /\ at[t] = "scan" /\ at'[t] = "test" /\ UNCHANGED <<global, local>>
          /\ End(t) = top[t] /\ ~InChunk(t)
          /\ \A u \in Thread : u # t => at'[u] = at[u] /\ End(u)' = End(u)
      BY <1>3, <1>10 DEF ChunkEnd, Goto, End
    <2>2. \A n \in 1 .. limit - 1 : ~Took(t, n) /\ ~Took(t, n)'
      BY <1>2, <1>3, <2>1 DEF Took, InChunk
    <2>3. \A n \in 1 .. limit - 1 : \A u \in Thread : u # t => (Took(u, n)' <=> Took(u, n))
      BY <2>1 DEF Took
    <2> QED BY <1>4, <2>1, <2>2, <2>3
  <1>11. CASE Finished
    <2>1. UNCHANGED <<global, at, local, top>>
      BY <1>11 DEF Finished, vars, thread
    <2> QED BY <1>2, <1>4, <2>1 DEF Took, End
  <1> QED BY <1>6, <1>7, <1>8, <1>9, <1>10, <1>11 DEF Next, ThreadStep

LEMMA FastTestStep ==
    ASSUME TypeOK, Control, Chunks, NEW t \in Thread, FastTest(t)
    PROVE  local[t] \in FastUntested /\ FastTested(local[t])
  <1>1. Thread' = Thread /\ limit' = limit /\ limit \in Nat
    BY Fixed, Arguments DEF FastTest
  <1>2. /\ at \in [Thread -> Places] /\ local \in [Thread -> Nat] /\ top \in [Thread -> Nat]
        /\ global \in Nat
    BY Typing
  <1>3. /\ at[t] = "scan" /\ local[t] < limit /\ local[t] < End(t) /\ End(t) \in Nat
        /\ UNCHANGED <<at, top, global>> /\ \A u \in Thread : End(u)' = End(u) \/ at[u] = "unlock"
        /\ local'[t] = local[t] + 1 /\ \A u \in Thread : u # t => local'[u] = local[u]
        /\ primeF' = primeF \cup {n \in {local[t]} : IsPrime(n)}
    BY <1>2 DEF FastTest, InChunk, TestNumber, End
  <1>4. /\ local[t] >= 1 /\ End(t) <= global
    BY <1>3 DEF Chunks
  <1>5. local[t] \in 1 .. limit - 1 /\ Took(t, local[t]) /\ ~ local[t] >= global
    BY <1>1, <1>2, <1>3, <1>4 DEF Took
  <1>6. local[t] \in FastUntested
    BY <1>5, FastTaken
  <1>7. ASSUME NEW n \in 1 .. limit - 1
        PROVE  (\E u \in Thread : Took(u, n)') <=> n # local[t] /\ \E u \in Thread : Took(u, n)
    <2>1. \A u \in Thread : u # t => (Took(u, n)' <=> Took(u, n))
      BY <1>2, <1>3 DEF Took, End
    <2>2. Took(t, n)' <=> Took(t, n) /\ n # local[t]
      <3>1. local[t] + 1 <= n <=> local[t] <= n /\ n # local[t]
        BY <1>2
      <3> QED BY <1>3, <3>1 DEF Took, End
    <2>3. \A u \in Thread : u # t => ~Took(u, local[t])
      <3>1. ASSUME NEW u \in Thread, u # t, at[u] \in {"unlock", "scan"}
            PROVE  End(t) <= local[u] \/ End(u) <= local[t]
        BY <1>3, <3>1 DEF Chunks
      <3>2. \A u \in Thread : End(u) \in Nat
        BY <1>2, Arguments DEF End
      <3> QED BY <1>2, <1>3, <3>1, <3>2 DEF Took
    <2> QED BY <2>1, <2>2, <2>3
  <1>8. FastUntested' = FastUntested \ {local[t]}
    BY <1>1, <1>3, <1>5, <1>7, FastTaken, FastTakenNext
  <1> QED BY <1>3, <1>6, <1>8 DEF FastTested

\* What every step is to the two searches.
LEMMA SlowStep ==
    ASSUME TypeOK, Control, Parts, Next
    PROVE  \/ SlowUntested' = SlowUntested /\ primeS' = primeS
           \/ \E t \in Thread : SlowTest(t) /\ local[t] \in SlowUntested /\ SlowTested(local[t])
  <1>1. CASE \E t \in Thread : SlowTest(t)
    BY <1>1, SlowTestStep
  <1>2. CASE \A t \in Thread : ~SlowTest(t)
    <2>1. UNCHANGED <<args, primeS>>
      BY <1>2 DEF Next, MainStep, CreateSlow, JoinSlow, Join, Reset, CreateFast, JoinFast,
                  Finished, ThreadStep, SlowEnd, ReadGlobal, Lock, Take, AddChunk, Unlock,
                  FastTest, ChunkEnd, vars
    <2>2. CASE CreateSlow \/ JoinSlow \/ \E t \in Thread : SlowEnd(t)
      BY <2>1, <2>2, SlowSame
    <2>3. CASE Reset \/ CreateFast \/ JoinFast \/ Finished
      <3>1. /\ main \notin {"create_slow", "join_slow"}
            /\ main' \notin {"create_slow", "join_slow"}
        BY <2>3 DEF Reset, CreateFast, JoinFast, Join, Loop, Finished, vars
      <3> QED BY <2>1, <3>1, SlowSame
    <2>4. ASSUME NEW t \in Thread, ThreadStep(t), ~SlowEnd(t)
          PROVE  SlowUntested' = SlowUntested
      <3>1. at[t] \in FastPlaces \ {"done"} /\ main' = main
        BY <1>2, <2>4 DEF ThreadStep, ReadGlobal, Lock, Take, AddChunk, Unlock, FastTest,
                          ChunkEnd, Goto, FastPlaces
      <3>2. main \in {"create_fast", "join_fast"}
        BY <3>1, Phases
      <3> QED BY <2>1, <3>1, <3>2, SlowSame
    <2> QED BY <2>1, <2>2, <2>3, <2>4 DEF Next, MainStep
  <1> QED BY <1>1, <1>2

LEMMA FastStep ==
    ASSUME TypeOK, Control, Chunks, Next
    PROVE  \/ FastUntested' = FastUntested /\ primeF' = primeF
           \/ \E t \in Thread : FastTest(t) /\ local[t] \in FastUntested /\ FastTested(local[t])
  <1>1. CASE \E t \in Thread : FastTest(t)
    BY <1>1, FastTestStep
  <1>2. CASE \A t \in Thread : ~FastTest(t)
    <2>1. primeF' = primeF
      BY <1>2 DEF Next, MainStep, CreateSlow, JoinSlow, Join, Reset, CreateFast, JoinFast,
                  Finished, ThreadStep, SlowTest, SlowEnd, ReadGlobal, Lock, Take, AddChunk,
                  Unlock, ChunkEnd, vars
    <2> QED BY <1>2, <2>1, FastSame
  <1> QED BY <1>1, <1>2

LEMMA SearchedStep ==
    ASSUME TypeOK, Control, Chunks, Parts, Searched, Next
    PROVE  Searched'
  <1>1. UNCHANGED args
    BY DEF Next, MainStep, CreateSlow, JoinSlow, Join, Reset, CreateFast, JoinFast, Finished,
           ThreadStep, SlowTest, SlowEnd, ReadGlobal, Lock, Take, AddChunk, Unlock,
           FastTest, ChunkEnd, vars
  <1>2. chunk' = chunk /\ num_threads' = num_threads /\ limit' = limit
    BY <1>1, Fixed
  <1>3. SlowUntested \subseteq 1 .. num_threads * chunk /\ FastUntested \subseteq 1 .. limit - 1
    BY DEF SlowUntested, FastUntested
  <1>4. primeS' = {n \in 1 .. num_threads * chunk : IsPrime(n)} \ SlowUntested'
    <2>1. CASE SlowUntested' = SlowUntested /\ primeS' = primeS
      BY <2>1 DEF Searched
    <2>2. ASSUME NEW x \in SlowUntested, SlowTested(x)
          PROVE  primeS' = {n \in 1 .. num_threads * chunk : IsPrime(n)} \ SlowUntested'
      BY <1>3, <2>2 DEF SlowTested, Searched
    <2> QED BY <2>1, <2>2, SlowStep
  <1>5. primeF' = {n \in 1 .. limit - 1 : IsPrime(n)} \ FastUntested'
    <2>1. CASE FastUntested' = FastUntested /\ primeF' = primeF
      BY <2>1 DEF Searched
    <2>2. ASSUME NEW x \in FastUntested, FastTested(x)
          PROVE  primeF' = {n \in 1 .. limit - 1 : IsPrime(n)} \ FastUntested'
      BY <1>3, <2>2 DEF FastTested, Searched
    <2> QED BY <2>1, <2>2, FastStep
  <1> QED BY <1>2, <1>4, <1>5 DEF Searched

-------------------------------------------------------------------------------
(* The counts.                                                             *)

\* A thread that counts one more prime adds a pair.
LEMMA TallyAdd ==
    ASSUME TypeOK, UNCHANGED args, IsFiniteSet(Tally), NEW t \in Thread,
           counts' = [counts EXCEPT ![t] = @ + 1]
    PROVE  IsFiniteSet(Tally') /\ Cardinality(Tally') = Cardinality(Tally) + 1
  <1>1. Thread' = Thread
    BY Fixed
  <1>2. counts \in [Thread -> Nat]
    BY Arguments DEF TypeOK
  <1>3. /\ counts'[t] = counts[t] + 1 /\ counts[t] \in Nat
        /\ \A u \in Thread : u # t => counts'[u] = counts[u]
    BY <1>2
  <1>4. 1 .. counts[t] + 1 = (1 .. counts[t]) \cup {counts[t] + 1}
    BY <1>3
  <1>5. Tally' = Tally \cup {<<t, counts[t] + 1>>}
    BY <1>1, <1>3, <1>4 DEF Tally
  <1>6. <<t, counts[t] + 1>> \notin Tally
    BY <1>3 DEF Tally
  <1> QED BY <1>5, <1>6, FS_AddElement

\* One thread has as many pairs as it has counted primes.
LEMMA OneTally ==
    ASSUME NEW t, NEW c \in Nat
    PROVE  IsFiniteSet({t} \X (1 .. c)) /\ Cardinality({t} \X (1 .. c)) = c
  <1>1. IsFiniteSet(1 .. c) /\ Cardinality(1 .. c) = c
    BY FS_Interval
  <1>2. IsFiniteSet({t}) /\ Cardinality({t}) = 1
    BY FS_Singleton
  <1>3. /\ IsFiniteSet({t} \X (1 .. c))
        /\ Cardinality({t} \X (1 .. c)) = Cardinality({t}) * Cardinality(1 .. c)
    BY <1>1, <1>2, FS_Product
  <1>4. 1 * c = c
    OBVIOUS
  <1> QED BY <1>1, <1>2, <1>3, <1>4

\* A number that is tested for the first time keeps count and primes in step.
LEMMA TestCounted ==
    ASSUME TypeOK, UNCHANGED args, IsFiniteSet(Tally), NEW t \in Thread, NEW n, NEW p, NEW q,
           IsFiniteSet(p), n \notin p, q = p \cup {m \in {n} : IsPrime(m)},
           counts' = [counts EXCEPT ![t] = IF IsPrime(n) THEN @ + 1 ELSE @],
           Cardinality(Tally) = Cardinality(p)
    PROVE  IsFiniteSet(Tally') /\ Cardinality(Tally') = Cardinality(q)
  <1>1. CASE IsPrime(n)
    <2>1. counts' = [counts EXCEPT ![t] = @ + 1] /\ q = p \cup {n}
      BY <1>1
    <2>2. IsFiniteSet(Tally') /\ Cardinality(Tally') = Cardinality(Tally) + 1
      BY <2>1, TallyAdd
    <2> QED BY <2>1, <2>2, FS_AddElement
  <1>2. CASE ~IsPrime(n)
    <2>1. counts' = counts /\ q = p
      BY <1>2 DEF TypeOK
    <2>2. Tally' = Tally
      BY <2>1, Fixed DEF Tally
    <2> QED BY <2>1, <2>2
  <1> QED BY <1>1, <1>2

LEMMA PrimesFinite ==
    ASSUME TypeOK
    PROVE  /\ IsFiniteSet(primeS) /\ Cardinality(primeS) <= limit
           /\ IsFiniteSet(primeF) /\ Cardinality(primeF) <= limit
  <1>1. limit \in Nat
    BY Arguments
  <1>2. IsFiniteSet(1 .. limit) /\ Cardinality(1 .. limit) = limit
    BY <1>1, FS_Interval
  <1>3. primeS \in SUBSET (1 .. limit) /\ primeF \in SUBSET (1 .. limit)
    BY <1>1 DEF TypeOK
  <1>4. IsFiniteSet(primeS) /\ Cardinality(primeS) <= limit
    BY <1>2, <1>3, FS_Subset
  <1>5. IsFiniteSet(primeF) /\ Cardinality(primeF) <= limit
    BY <1>2, <1>3, FS_Subset
  <1> QED BY <1>4, <1>5

\* The counts of the two phases in which main does not reset them.
SlowPhase == main \in {"create_slow", "join_slow"}
FastPhase == main \in {"create_fast", "join_fast", "output"}

LEMMA CountsByPhase ==
    ASSUME TypeOK
    PROVE  CountsAddUp <=> /\ SlowPhase => Cardinality(Tally) = Cardinality(primeS)
                           /\ main = "reset" => \A t \in 0 .. i - 1 : counts[t] = 0
                           /\ FastPhase => Cardinality(Tally) = Cardinality(primeF)
  <1>1. SlowPhase \/ main = "reset" \/ FastPhase
    BY DEF TypeOK, SlowPhase, FastPhase
  <1>2. CASE SlowPhase
    BY <1>2 DEF CountsAddUp, SlowPhase, FastPhase
  <1>3. CASE main = "reset"
    BY <1>3 DEF CountsAddUp, SlowPhase, FastPhase
  <1>4. CASE FastPhase
    BY <1>4 DEF CountsAddUp, SlowPhase, FastPhase
  <1> QED BY <1>1, <1>2, <1>3, <1>4

LEMMA CountsByPhaseNext ==
    ASSUME main' \in {"create_slow", "join_slow", "reset", "create_fast", "join_fast", "output"},
           SlowPhase' => Cardinality(Tally') = Cardinality(primeS'),
           main' = "reset" => \A t \in 0 .. i' - 1 : counts'[t] = 0,
           FastPhase' => Cardinality(Tally') = Cardinality(primeF')
    PROVE  CountsAddUp'
  <1>1. SlowPhase' \/ main' = "reset" \/ FastPhase'
    BY DEF SlowPhase, FastPhase
  <1>2. CASE SlowPhase'
    BY <1>2 DEF CountsAddUp, SlowPhase, FastPhase
  <1>3. CASE main' = "reset"
    BY <1>3 DEF CountsAddUp, SlowPhase, FastPhase
  <1>4. CASE FastPhase'
    BY <1>4 DEF CountsAddUp, SlowPhase, FastPhase
  <1> QED BY <1>1, <1>2, <1>3, <1>4

LEMMA CountedStep ==
    ASSUME TypeOK, Control, Chunks, Parts, Searched, Counted, Next
    PROVE  Counted'
  <1>1. UNCHANGED args
    BY DEF Next, MainStep, CreateSlow, JoinSlow, Join, Reset, CreateFast, JoinFast, Finished,
           ThreadStep, SlowTest, SlowEnd, ReadGlobal, Lock, Take, AddChunk, Unlock,
           FastTest, ChunkEnd, vars
  <1>2. /\ Thread' = Thread /\ Thread = 0 .. num_threads - 1 /\ i \in Thread
        /\ num_threads \in Nat \ {0} /\ limit \in Nat
    BY <1>1, Fixed, Arguments DEF TypeOK, Thread
  <1>3. /\ SlowPhase => Cardinality(Tally) = Cardinality(primeS)
        /\ main = "reset" => \A t \in 0 .. i - 1 : counts[t] = 0
        /\ FastPhase => Cardinality(Tally) = Cardinality(primeF)
        /\ IsFiniteSet(Tally)
    BY CountsByPhase DEF Counted
  <1>4. counts \in [Thread -> Nat]
    BY <1>2 DEF TypeOK
  <1>5. ASSUME UNCHANGED <<counts, primeS, primeF>>,
               main' \in {"create_slow", "join_slow", "reset", "create_fast", "join_fast", "output"},
               SlowPhase' => SlowPhase, FastPhase' => FastPhase,
               main' = "reset" => (main = "reset" /\ i' = i) \/ i' = 0
        PROVE  Counted'
    <2>1. Tally' = Tally
      BY <1>2, <1>5 DEF Tally
    <2>2. main' = "reset" => \A t \in 0 .. i' - 1 : counts'[t] = 0
      BY <1>3, <1>5
    <2> QED BY <1>3, <1>5, <2>1, <2>2, CountsByPhaseNext DEF Counted
  <1>6. CASE CreateSlow \/ JoinSlow \/ CreateFast \/ JoinFast
    <2>1. UNCHANGED <<counts, primeS, primeF>>
      BY <1>6 DEF CreateSlow, JoinSlow, CreateFast, JoinFast, Join
    <2>2. /\ main' \in {"create_slow", "join_slow", "reset", "create_fast", "join_fast", "output"}
          /\ SlowPhase' => SlowPhase
          /\ FastPhase' => FastPhase
          /\ main' = "reset" => i' = 0
      BY <1>6 DEF CreateSlow, JoinSlow, CreateFast, JoinFast, Join, Loop, SlowPhase, FastPhase
    <2> QED BY <1>5, <2>1, <2>2
  <1>7. CASE Reset
    <2>1. /\ main = "reset" /\ UNCHANGED <<at, primeS, primeF>>
          /\ counts' = [counts EXCEPT ![i] = 0]
      BY <1>7 DEF Reset, Loop, thread
    <2>2. \A t \in Thread : t < i + 1 => counts'[t] = 0
      <3>1. \A t \in Thread : t < i => t \in 0 .. i - 1
        BY <1>2
      <3>2. \A t \in Thread : t < i + 1 => t = i \/ t < i
        BY <1>2
      <3> QED BY <1>2, <1>3, <1>4, <2>1, <3>1, <3>2
    <2>3. IsFiniteSet(Tally')
      <3>1. Tally' \in SUBSET Tally
        <4>1. \A t \in Thread : 1 .. counts'[t] \subseteq 1 .. counts[t]
          BY <1>2, <1>4, <2>1
        <4> QED BY <1>2, <4>1 DEF Tally
      <3> QED BY <1>3, <3>1, FS_Subset
    <2>4. CASE i + 1 = num_threads
      <3>1. main' = "create_fast"
        BY <1>7, <2>4 DEF Reset, Loop
      <3>2. Tally' = {}
        <4>1. \A t \in Thread : counts'[t] = 0
          BY <1>2, <2>2, <2>4
        <4>2. \A t \in Thread : 1 .. counts'[t] = {}
          BY <4>1
        <4> QED BY <1>2, <4>2 DEF Tally
      <3>3. primeF = {}
        <4>1. global = 1
          BY <2>1 DEF Chunks
        <4>2. FastUntested = 1 .. limit - 1
          BY <4>1 DEF FastUntested
        <4> QED BY <4>2 DEF Searched
      <3> QED BY <2>1, <2>3, <3>1, <3>2, <3>3, CountsByPhaseNext DEF Counted, SlowPhase
    <2>5. CASE i + 1 # num_threads
      <3>1. main' = "reset" /\ i' = i + 1
        BY <1>7, <2>5 DEF Reset, Loop
      <3>2. \A t \in 0 .. i' - 1 : t \in Thread /\ t < i + 1
        BY <1>2, <2>5, <3>1
      <3> QED BY <2>2, <2>3, <3>1, <3>2, CountsByPhaseNext DEF Counted, SlowPhase, FastPhase
    <2> QED BY <2>4, <2>5
  <1>8. ASSUME NEW t \in Thread, SlowTest(t)
        PROVE  Counted'
    <2>1. /\ SlowPhase /\ SlowPhase' /\ ~FastPhase' /\ main' # "reset"
          /\ main' = main
      BY <1>8, Phases DEF SlowTest, SlowPhase, FastPhase
    <2>2. local[t] \notin primeS
      BY <1>8, SlowTestStep DEF Searched
    <2>3. /\ primeS' = primeS \cup {n \in {local[t]} : IsPrime(n)}
          /\ counts' = [counts EXCEPT ![t] = IF IsPrime(local[t]) THEN @ + 1 ELSE @]
      BY <1>8 DEF SlowTest, TestNumber
    <2>4. IsFiniteSet(Tally') /\ Cardinality(Tally') = Cardinality(primeS')
      BY <1>1, <1>3, <2>1, <2>2, <2>3, PrimesFinite, TestCounted
    <2> QED BY <2>1, <2>4, CountsByPhaseNext DEF Counted, SlowPhase
  <1>9. ASSUME NEW t \in Thread, FastTest(t)
        PROVE  Counted'
    <2>1. /\ FastPhase /\ FastPhase' /\ ~SlowPhase' /\ main' # "reset"
          /\ main' = main
      <3>1. at[t] \in FastPlaces \ {"done"} /\ main' = main
        BY <1>9 DEF FastTest, FastPlaces
      <3> QED BY <3>1, Phases DEF SlowPhase, FastPhase
    <2>2. local[t] \notin primeF
      BY <1>9, FastTestStep DEF Searched
    <2>3. /\ primeF' = primeF \cup {n \in {local[t]} : IsPrime(n)}
          /\ counts' = [counts EXCEPT ![t] = IF IsPrime(local[t]) THEN @ + 1 ELSE @]
      BY <1>9 DEF FastTest, TestNumber
    <2>4. IsFiniteSet(Tally') /\ Cardinality(Tally') = Cardinality(primeF')
      BY <1>1, <1>3, <2>1, <2>2, <2>3, PrimesFinite, TestCounted
    <2> QED BY <2>1, <2>4, CountsByPhaseNext DEF Counted, FastPhase
  <1>10. ASSUME \/ \E t \in Thread : ThreadStep(t) /\ ~SlowTest(t) /\ ~FastTest(t)
                \/ Finished
         PROVE  Counted'
    <2>1. UNCHANGED <<counts, primeS, primeF, main, i>>
      BY <1>10 DEF ThreadStep, SlowEnd, ReadGlobal, Lock, Take, AddChunk, Unlock, ChunkEnd,
                   Finished, vars
    <2> QED BY <1>5, <2>1 DEF TypeOK, SlowPhase, FastPhase
  <1> QED BY <1>6, <1>7, <1>8, <1>9, <1>10 DEF Next, MainStep

-------------------------------------------------------------------------------
(* The types.                                                              *)

LEMMA PartsStep ==
    ASSUME TypeOK, Parts, Next
    PROVE  Parts'
  <1>1. UNCHANGED args
    BY DEF Next, MainStep, CreateSlow, JoinSlow, Join, Reset, CreateFast, JoinFast, Finished,
           ThreadStep, SlowTest, SlowEnd, ReadGlobal, Lock, Take, AddChunk, Unlock,
           FastTest, ChunkEnd, vars
  <1>2. Thread' = Thread /\ chunk' = chunk /\ i \in Thread
    BY <1>1, Fixed DEF TypeOK
  <1>3. at \in [Thread -> Places] /\ local \in [Thread -> Nat] /\ top \in [Thread -> Nat]
    BY Typing
  <1>4. \A t \in Thread : /\ t * chunk \in Nat /\ (t + 1) * chunk = t * chunk + chunk
                          /\ chunk \in Nat
    BY PartOfRange, Arguments
  <1>5. ASSUME \A t \in Thread : at'[t] = "slow" =>
                   at[t] = "slow" /\ local'[t] = local[t] /\ top'[t] = top[t]
        PROVE  Parts'
    BY <1>2, <1>5 DEF Parts
  <1>6. CASE CreateSlow
    <2>1. /\ at'[i] = "slow" /\ local'[i] = i * chunk + 1 /\ top'[i] = (i + 1) * chunk + 1
          /\ \A t \in Thread : t # i => /\ at'[t] = at[t] /\ local'[t] = local[t]
                                       /\ top'[t] = top[t]
      BY <1>2, <1>3, <1>6 DEF CreateSlow
    <2>2. local'[i] \in i * chunk + 1 .. top'[i]
      <3>1. i * chunk \in Nat /\ (i + 1) * chunk = i * chunk + chunk /\ chunk \in Nat
        BY <1>2, <1>4
      <3> QED BY <2>1, <3>1
    <2> QED BY <1>2, <2>1, <2>2 DEF Parts
  <1>7. ASSUME NEW t \in Thread, SlowTest(t)
        PROVE  Parts'
    <2>1. /\ at[t] = "slow" /\ UNCHANGED <<at, top>> /\ local[t] < top[t]
          /\ local'[t] = local[t] + 1
          /\ \A u \in Thread : u # t => local'[u] = local[u]
      BY <1>3, <1>7 DEF SlowTest, TestNumber
    <2>2. local'[t] \in t * chunk + 1 .. top[t]
      <3>1. local[t] \in t * chunk + 1 .. top[t] /\ t * chunk \in Nat /\ top[t] \in Nat
        BY <1>3, <1>4, <2>1 DEF Parts
      <3> QED BY <2>1, <3>1
    <2> QED BY <1>2, <2>1, <2>2 DEF Parts
  <1>8. ASSUME NEW t \in Thread, ThreadStep(t), ~SlowTest(t)
        PROVE  Parts'
    <2>1. at'[t] # "slow" /\ \A u \in Thread : u # t => /\ at'[u] = at[u] /\ local'[u] = local[u]
                                                    /\ top'[u] = top[u]
      BY <1>3, <1>8 DEF ThreadStep, SlowEnd, ReadGlobal, Lock, Take, AddChunk, Unlock,
                        FastTest, ChunkEnd, Goto, TestNumber
    <2> QED BY <1>5, <2>1
  <1>9. CASE JoinSlow \/ JoinFast \/ Reset \/ CreateFast \/ Finished
    <2>1. UNCHANGED <<local, top>> /\ (at' = at \/ at' = [at EXCEPT ![i] = "test"])
      BY <1>9 DEF JoinSlow, JoinFast, Join, Reset, CreateFast, Finished, vars, thread
    <2> QED BY <1>2, <1>3, <1>5, <2>1
  <1> QED BY <1>6, <1>7, <1>8, <1>9 DEF Next, MainStep

\* The numbers a thread may reach: a chunk that starts below the limit for each
\* thread.
Bound == limit + num_threads * CHUNK

LEMMA NumbersStep ==
    ASSUME Inv, Next, Overshoot'
    PROVE  /\ local' \in [Thread -> 0 .. Bound] /\ top' \in [Thread -> 0 .. Bound]
           /\ global' \in 1 .. Bound /\ (global' > 1 => global' < Bound)
  <1>1. UNCHANGED args
    BY DEF Next, MainStep, CreateSlow, JoinSlow, Join, Reset, CreateFast, JoinFast, Finished,
           ThreadStep, SlowTest, SlowEnd, ReadGlobal, Lock, Take, AddChunk, Unlock,
           FastTest, ChunkEnd, vars
  <1>2. /\ limit \in Nat /\ CHUNK \in Nat \ {0} /\ Bound \in Nat /\ limit + CHUNK <= Bound
        /\ num_threads * CHUNK \in Nat /\ i \in Thread
    BY Arguments DEF Bound, Inv, TypeOK
  <1>3. /\ local \in [Thread -> 0 .. Bound] /\ top \in [Thread -> 0 .. Bound]
        /\ at \in [Thread -> Places]
        /\ global \in 1 .. Bound /\ (global > 1 => global < Bound)
    BY DEF Inv, TypeOK, Bound
  <1>4. CASE CreateSlow
    <2>1. i * chunk + 1 \in 0 .. Bound /\ (i + 1) * chunk + 1 \in 0 .. Bound
      <3>1. /\ i * chunk \in Nat /\ (i + 1) * chunk \in Nat /\ chunk \in Nat
            /\ (i + 1) * chunk = i * chunk + chunk /\ (i + 1) * chunk <= num_threads * chunk
            /\ num_threads * chunk \in Nat /\ num_threads * chunk <= limit
        BY <1>2, PartOfRange, Arguments DEF Inv
      <3> QED BY <1>2, <3>1
    <2> QED BY <1>3, <1>4, <2>1 DEF CreateSlow
  <1>5. CASE Reset
    BY <1>2, <1>3, <1>5 DEF Reset, thread
  <1>6. CASE JoinSlow \/ JoinFast \/ CreateFast \/ Finished
    BY <1>3, <1>6 DEF JoinSlow, JoinFast, Join, CreateFast, Finished, vars, thread
  <1>7. ASSUME NEW t \in Thread, SlowTest(t)
        PROVE  /\ local' \in [Thread -> 0 .. Bound] /\ top' = top /\ global' = global
    <2>1. local[t] + 1 <= top[t] /\ local[t] \in 0 .. Bound /\ top[t] \in 0 .. Bound
      BY <1>2, <1>3, <1>7 DEF SlowTest
    <2>2. local[t] + 1 \in 0 .. Bound
      BY <1>2, <2>1
    <2> QED BY <1>3, <1>7, <2>2 DEF SlowTest, TestNumber
  <1>8. ASSUME NEW t \in Thread, Take(t)
        PROVE  /\ local' \in [Thread -> 0 .. Bound] /\ top' = top /\ global' = global
    <2>1. global \in 0 .. Bound
      BY <1>2, <1>3
    <2> QED BY <1>3, <1>8, <2>1 DEF Take
  <1>9. ASSUME NEW t \in Thread, AddChunk(t)
        PROVE  /\ local' = local /\ top' = top
               /\ global' \in 1 .. Bound /\ (global' > 1 => global' < Bound)
    <2>1. global' = global + CHUNK /\ global' > 1
      BY <1>2, <1>3, <1>9 DEF AddChunk
    <2>2. global' + Cardinality(Going') * CHUNK < Bound
      BY <1>1, <2>1, Fixed DEF Overshoot, Bound
    <2>3. Cardinality(Going') * CHUNK \in Nat
      <3>1. Cardinality(Going') \in Nat
        BY FS_CardinalityType DEF Overshoot
      <3> QED BY <1>2, <3>1
    <2> QED BY <1>2, <1>3, <1>9, <2>1, <2>2, <2>3 DEF AddChunk
  <1>10. ASSUME NEW t \in Thread, Unlock(t)
         PROVE  /\ local' = local /\ top' \in [Thread -> 0 .. Bound] /\ global' = global
    <2>1. local[t] + CHUNK = global /\ local[t] >= 1
      BY <1>10 DEF Unlock, Goto, Inv, Chunks
    <2>2. local[t] + CHUNK \in 0 .. Bound
      BY <1>2, <1>3, <2>1
    <2> QED BY <1>3, <1>10, <2>2 DEF Unlock
  <1>11. ASSUME NEW t \in Thread, FastTest(t)
         PROVE  /\ local' \in [Thread -> 0 .. Bound] /\ top' = top /\ global' = global
    <2>1. local[t] < limit /\ local[t] \in 0 .. Bound
      BY <1>3, <1>11 DEF FastTest, InChunk
    <2>2. local[t] + 1 \in 0 .. Bound
      BY <1>2, <2>1
    <2> QED BY <1>3, <1>11, <2>2 DEF FastTest, TestNumber
  <1>12. ASSUME NEW t \in Thread, SlowEnd(t) \/ ReadGlobal(t) \/ Lock(t) \/ ChunkEnd(t)
         PROVE  UNCHANGED <<local, top, global>>
    BY <1>12 DEF SlowEnd, ReadGlobal, Lock, ChunkEnd
  <1> QED BY <1>3, <1>4, <1>5, <1>6, <1>7, <1>8, <1>9, <1>10, <1>11, <1>12
          DEF Next, MainStep, ThreadStep

LEMMA TypesStep ==
    ASSUME Inv, Next, Overshoot', Searched', Counted'
    PROVE  TypeOK'
  <1>1. UNCHANGED args
    BY DEF Next, MainStep, CreateSlow, JoinSlow, Join, Reset, CreateFast, JoinFast, Finished,
           ThreadStep, SlowTest, SlowEnd, ReadGlobal, Lock, Take, AddChunk, Unlock,
           FastTest, ChunkEnd, vars
  <1>2. /\ Thread' = Thread /\ limit' = limit /\ num_threads' = num_threads /\ chunk' = chunk
        /\ Thread = 0 .. num_threads - 1 /\ num_threads \in Nat \ {0} /\ limit \in Nat
        /\ num_threads * chunk \in Nat /\ num_threads * chunk <= limit
    BY <1>1, Fixed, Arguments DEF Inv, Thread
  <1>3. TypeOK
    BY DEF Inv
  <1>4. limit' \in Limits /\ num_threads' \in ThreadCounts
    BY <1>2, <1>3 DEF TypeOK
  <1>5. /\ main' \in {"create_slow", "join_slow", "reset", "create_fast", "join_fast", "output"}
        /\ i' \in Thread
    <2>1. CASE MainStep
      <3>1. i \in Thread /\ i' = IF i + 1 = num_threads THEN 0 ELSE i + 1
        BY <1>3, <2>1 DEF TypeOK, MainStep, CreateSlow, JoinSlow, Join, Reset, CreateFast,
                          JoinFast, Loop
      <3>2. i' \in Thread
        BY <1>2, <3>1
      <3>3. main' \in {"create_slow", "join_slow", "reset", "create_fast", "join_fast", "output"}
        BY <2>1 DEF MainStep, CreateSlow, JoinSlow, Join, Reset, CreateFast, JoinFast, Loop
      <3> QED BY <3>2, <3>3
    <2>2. CASE ~MainStep
      <3>1. main' = main /\ i' = i
        BY <2>2 DEF Next, Finished, vars, ThreadStep, SlowTest, SlowEnd, ReadGlobal, Lock, Take,
                    AddChunk, Unlock, FastTest, ChunkEnd
      <3> QED BY <1>3, <3>1 DEF TypeOK
    <2> QED BY <2>1, <2>2
  <1>6. at' \in [Thread -> Places]
    BY <1>3 DEF TypeOK, Next, MainStep, CreateSlow, JoinSlow, Join, Reset, CreateFast, JoinFast,
                Finished, ThreadStep, SlowTest, SlowEnd, ReadGlobal, Lock, Take, AddChunk, Unlock,
                FastTest, ChunkEnd, Goto, vars, thread, Places
  <1>7. mutex' \in Thread \cup {NoThread}
    BY <1>3 DEF TypeOK, Next, MainStep, CreateSlow, JoinSlow, Join, Reset, CreateFast, JoinFast,
                Finished, ThreadStep, SlowTest, SlowEnd, ReadGlobal, Lock, Take, AddChunk, Unlock,
                FastTest, ChunkEnd, vars
  <1>8. primeS' \subseteq 1 .. limit /\ primeF' \subseteq 1 .. limit - 1
    <2>1. 1 .. num_threads * chunk \subseteq 1 .. limit
      BY <1>2
    <2> QED BY <1>2, <2>1 DEF Searched
  <1>9. counts' \in [Thread -> 0 .. limit]
    <2>1. counts \in [Thread -> 0 .. limit]
      BY <1>3 DEF TypeOK
    <2>2. CASE counts' = counts \/ counts' = [counts EXCEPT ![i] = 0]
      BY <1>2, <2>1, <2>2
    <2>3. ASSUME NEW t \in Thread, SlowTest(t) \/ FastTest(t)
          PROVE  counts'[t] <= limit
      <3>1. SlowPhase' \/ FastPhase'
        <4>1. main' = main /\ at[t] \in {"slow", "scan"}
          BY <2>3 DEF SlowTest, FastTest
        <4> QED BY <1>3, <4>1, Phases DEF Inv, SlowPhase, FastPhase, FastPlaces
      <3>2. Cardinality(Tally') <= limit
        <4>1. IsFiniteSet(1 .. limit) /\ Cardinality(1 .. limit) = limit
          BY <1>2, FS_Interval
        <4>2. primeS' \in SUBSET (1 .. limit) /\ primeF' \in SUBSET (1 .. limit)
          BY <1>2, <1>8
        <4>3. Cardinality(primeS') <= limit
          BY <4>1, <4>2, FS_Subset
        <4>4. Cardinality(primeF') <= limit
          BY <4>1, <4>2, FS_Subset
        <4>5. Cardinality(Tally') = Cardinality(primeS') \/ Cardinality(Tally') = Cardinality(primeF')
          BY <3>1 DEF Counted, CountsAddUp, SlowPhase, FastPhase
        <4> QED BY <4>3, <4>4, <4>5
      <3>3. counts'[t] \in Nat
        BY <1>2, <2>1, <2>3 DEF SlowTest, FastTest, TestNumber
      <3>4. counts'[t] <= Cardinality(Tally')
        <4>1. Cardinality({t} \X (1 .. counts'[t])) = counts'[t]
          BY <3>3, OneTally
        <4>2. {t} \X (1 .. counts'[t]) \in SUBSET Tally'
          BY <1>2 DEF Tally
        <4>3. Cardinality({t} \X (1 .. counts'[t])) <= Cardinality(Tally')
          BY <4>2, FS_Subset DEF Counted
        <4> QED BY <4>1, <4>3
      <3>5. Cardinality(Tally') \in Nat
        BY FS_CardinalityType DEF Counted
      <3> QED BY <1>2, <3>2, <3>3, <3>4, <3>5
    <2>4. ASSUME NEW t \in Thread, SlowTest(t) \/ FastTest(t)
          PROVE  counts' \in [Thread -> 0 .. limit]
      <3>1. counts' \in [Thread -> Nat] /\ \A u \in Thread : u # t => counts'[u] = counts[u]
        <4>1. counts' = [counts EXCEPT ![t] = counts[t] + 1] \/ counts' = counts
          BY <2>1, <2>4 DEF SlowTest, FastTest, TestNumber
        <4> QED BY <1>2, <2>1, <4>1
      <3> QED BY <1>2, <2>1, <2>3, <2>4, <3>1
    <2>5. counts' = counts \/ counts' = [counts EXCEPT ![i] = 0]
              \/ \E t \in Thread : SlowTest(t) \/ FastTest(t)
      BY DEF Next, MainStep, CreateSlow, JoinSlow, Join, Reset, CreateFast, JoinFast,
             Finished, ThreadStep, SlowEnd, ReadGlobal, Lock, Take, AddChunk, Unlock,
             ChunkEnd, vars
    <2> QED BY <2>2, <2>4, <2>5
  <1>10. /\ local' \in [Thread -> 0 .. Bound] /\ top' \in [Thread -> 0 .. Bound]
         /\ global' \in 1 .. Bound /\ (global' > 1 => global' < Bound)
    BY NumbersStep
  <1> QED BY <1>2, <1>4, <1>5, <1>6, <1>7, <1>8, <1>9, <1>10 DEF TypeOK, Bound

-------------------------------------------------------------------------------
(* The theorems.                                                           *)

LEMMA InitInv == Init => Inv
  <1> SUFFICES ASSUME Init PROVE Inv
    OBVIOUS
  <1>1. /\ limit \in Nat /\ num_threads \in Nat \ {0} /\ CHUNK \in Nat \ {0}
    BY LimitsAssumption, ThreadCountsAssumption, ChunkAssumption DEF Init, LIMIT
  <1>2. num_threads * CHUNK \in Nat \ {0} /\ 0 \in Thread
    BY <1>1 DEF Thread
  <1>3. 0 \in 0 .. limit + num_threads * CHUNK /\ 1 \in 1 .. limit + num_threads * CHUNK
    BY <1>1, <1>2
  <1>4. TypeOK
    <2>1. /\ at \in [Thread -> Places] /\ counts \in [Thread -> 0 .. limit]
      BY <1>1 DEF Init, Places
    <2>2. /\ local \in [Thread -> 0 .. limit + num_threads * CHUNK]
          /\ top \in [Thread -> 0 .. limit + num_threads * CHUNK]
      BY <1>3 DEF Init
    <2> QED BY <1>2, <1>3, <2>1, <2>2 DEF Init, TypeOK
  <1>5. Control
    BY <1>1 DEF Init, Control, Thread
  <1>6. Chunks
    <2>1. NoThread \notin Thread
      BY <1>4, Typing
    <2> QED BY <1>1, <2>1 DEF Init, Chunks, FastStarted
  <1>7. Overshoot
    <2>1. Going = {}
      BY DEF Init, Going
    <2> QED BY <2>1, FS_EmptySet DEF Overshoot, Init
  <1>8. Parts
    BY DEF Init, Parts
  <1>9. Searched
    <2>1. SlowUntested = 1 .. num_threads * chunk
      BY <1>4, PartsCover DEF Init, SlowUntested
    <2>2. FastUntested = 1 .. limit - 1
      BY <1>1 DEF Init, FastUntested
    <2> QED BY <2>1, <2>2 DEF Init, Searched
  <1>10. Counted
    <2>1. Tally = {}
      BY DEF Init, Tally
    <2> QED BY <2>1, FS_EmptySet DEF Init, Counted, CountsAddUp
  <1> QED BY <1>4, <1>5, <1>6, <1>7, <1>8, <1>9, <1>10 DEF Inv

LEMMA Stutter ==
    ASSUME Inv, UNCHANGED vars
    PROVE  Inv'
  <1>1. UNCHANGED <<limit, num_threads, main, i, at, local, top, global, mutex,
                    primeS, primeF, counts>>
    BY DEF vars, args, thread
  <1>2. TypeOK' /\ Control'
    BY <1>1 DEF Inv, TypeOK, Control, Thread
  <1>3. Chunks' /\ Overshoot'
    BY <1>1 DEF Inv, Chunks, Overshoot, Thread, End, FastStarted, Going
  <1>4. Parts' /\ Searched'
    BY <1>1 DEF Inv, Parts, Searched, Thread, chunk, SlowUntested, FastUntested
  <1>5. Counted'
    BY <1>1 DEF Inv, Counted, CountsAddUp, Tally, Thread
  <1> QED BY <1>2, <1>3, <1>4, <1>5 DEF Inv

LEMMA StepInv == Inv /\ [Next]_vars => Inv'
  <1> SUFFICES ASSUME Inv, [Next]_vars PROVE Inv'
    OBVIOUS
  <1>1. CASE UNCHANGED vars
    BY <1>1, Stutter
  <1>2. CASE Next
    <2>1. TypeOK /\ Control /\ Chunks /\ Overshoot /\ Parts /\ Searched /\ Counted
      BY DEF Inv
    <2>2. CASE Finished
      BY <2>2, Stutter DEF Finished
    <2>3. CASE MainStep \/ \E t \in Thread : ThreadStep(t)
      <3>1. Control' /\ Chunks'
        BY <2>1, <2>3, MainControl, ThreadControl, MainChunks, ThreadChunks
      <3>2. Overshoot' /\ Parts' /\ Searched' /\ Counted'
        BY <1>2, <2>1, OvershootStep, PartsStep, SearchedStep, CountedStep
      <3>3. TypeOK'
        BY <1>2, <3>2, TypesStep
      <3> QED BY <3>1, <3>2, <3>3 DEF Inv
    <2> QED BY <1>2, <2>2, <2>3 DEF Next
  <1> QED BY <1>1, <1>2

\* The inductive invariant: what main has started, how the chunks lie between
\* the threads and the counter, what is searched and what is counted.
THEOREM SearchInvHolds == Spec => []Inv
  BY InitInv, StepInv, PTL DEF Spec

\* global ends at most one chunk for each thread beyond the limit, although the
\* loop head of runFast reads it without the mutex, and no thread's number,
\* count or end of chunk leaves its range.
THEOREM SearchTypes == Spec => []TypeOK
  <1>1. Inv => TypeOK
    BY DEF Inv
  <1> QED BY <1>1, SearchInvHolds, PTL

\* The counts that main prints add up to the primes found.
THEOREM CountsCorrect == Spec => []CountsAddUp
  <1>1. Inv => CountsAddUp
    BY DEF Inv, Counted
  <1> QED BY <1>1, SearchInvHolds, PTL

\* When main prints, both searches have found the primes of what they search.
THEOREM PrimesFound == Spec => []ResultsRight
  <1>1. ASSUME Inv, main = "output"
        PROVE  /\ primeF = {n \in 1 .. limit - 1 : Prime(n)}
               /\ primeS = {n \in 1 .. num_threads * chunk : Prime(n)}
    <2>1. /\ limit \in Nat /\ num_threads \in Nat \ {0} /\ num_threads * chunk \in Nat
          /\ 0 \in Thread
      BY <1>1, Arguments DEF Inv, Thread
    <2>2. \A t \in Thread : at[t] = "done"
      BY <1>1 DEF Inv, Control
    <2>3. global >= limit /\ global \in Nat
      BY <1>1, <2>1, <2>2, Typing DEF Inv, Chunks, FastStarted
    <2>4. FastUntested = {}
      BY <2>1, <2>2, <2>3 DEF FastUntested
    <2>5. SlowUntested = {}
      BY <1>1 DEF SlowUntested
    <2>6. /\ primeF = {n \in 1 .. limit - 1 : IsPrime(n)}
          /\ primeS = {n \in 1 .. num_threads * chunk : IsPrime(n)}
      BY <1>1, <2>4, <2>5 DEF Inv, Searched
    <2>7. \A n \in Nat \ {0} : IsPrime(n) <=> Prime(n)
      BY PrimeTest
    <2>8. /\ \A n \in 1 .. limit - 1 : n \in Nat \ {0}
          /\ \A n \in 1 .. num_threads * chunk : n \in Nat \ {0}
      BY <2>1
    <2>9. primeF = {n \in 1 .. limit - 1 : Prime(n)}
      BY <2>6, <2>7, <2>8
    <2>10. primeS = {n \in 1 .. num_threads * chunk : Prime(n)}
      BY <2>6, <2>7, <2>8
    <2> QED BY <2>9, <2>10
  <1>2. Inv => ResultsRight
    BY <1>1 DEF ResultsRight
  <1> QED BY <1>2, SearchInvHolds, PTL

\* Both searches implement RangeSearch: a step of a thread tests one number that
\* nobody has tested, or changes nothing the abstract search can see.
THEOREM SearchesImplement == Spec => ImplementsSearch
  <1>1. ASSUME Init PROVE Slow!Init /\ Fast!Init
    <2>1. primeS = {} /\ primeF = {}
      BY <1>1 DEF Init
    <2>2. limit \in Nat /\ num_threads * chunk \in Nat
      BY <1>1, InitInv, Arguments DEF Inv
    <2>3. SlowUntested \in SUBSET Nat /\ FastUntested \in SUBSET Nat
      BY <2>2 DEF SlowUntested, FastUntested
    <2> QED BY <2>1, <2>3 DEF Slow!Init, Fast!Init
  <1>2. ASSUME Inv, [Next]_vars
        PROVE  [Slow!Next]_<<SlowUntested, primeS>>
    <2>1. CASE UNCHANGED vars
      <3>1. UNCHANGED <<limit, num_threads, main, i, at, local, top, primeS>>
        BY <2>1 DEF vars, args, thread
      <3>2. SlowUntested' = SlowUntested
        BY <3>1 DEF SlowUntested, Thread, chunk
      <3> QED BY <3>1, <3>2
    <2>2. CASE Next
      <3>1. CASE SlowUntested' = SlowUntested /\ primeS' = primeS
        BY <3>1
      <3>2. ASSUME NEW x \in SlowUntested, SlowTested(x)
            PROVE  Slow!Next
        <4>1. x \in Nat
          BY <1>2, Arguments DEF SlowUntested, Inv
        <4>2. {x} \cap {n \in Nat : IsPrime(n)} = {n \in {x} : IsPrime(n)}
          BY <4>1
        <4>3. Slow!Test(x)
          BY <3>2, <4>2 DEF Slow!Test, SlowTested
        <4> QED BY <3>2, <4>3 DEF Slow!Next
      <3> QED BY <1>2, <2>2, <3>1, <3>2, SlowStep DEF Inv
    <2> QED BY <1>2, <2>1, <2>2
  <1>3. ASSUME Inv, [Next]_vars
        PROVE  [Fast!Next]_<<FastUntested, primeF>>
    <2>1. CASE UNCHANGED vars
      <3>1. UNCHANGED <<limit, num_threads, at, local, top, global, primeF>>
        BY <2>1 DEF vars, args, thread
      <3>2. FastUntested' = FastUntested
        BY <3>1 DEF FastUntested, Thread
      <3> QED BY <3>1, <3>2
    <2>2. CASE Next
      <3>1. CASE FastUntested' = FastUntested /\ primeF' = primeF
        BY <3>1
      <3>2. ASSUME NEW x \in FastUntested, FastTested(x)
            PROVE  Fast!Next
        <4>1. x \in Nat
          BY <1>3, Arguments DEF FastUntested, Inv
        <4>2. {x} \cap {n \in Nat : IsPrime(n)} = {n \in {x} : IsPrime(n)}
          BY <4>1
        <4>3. Fast!Test(x)
          BY <3>2, <4>2 DEF Fast!Test, FastTested
        <4> QED BY <3>2, <4>3 DEF Fast!Next
      <3> QED BY <1>3, <2>2, <3>1, <3>2, FastStep DEF Inv
    <2> QED BY <1>3, <2>1, <2>2
  <1> QED BY <1>1, <1>2, <1>3, SearchInvHolds, PTL DEF Spec, ImplementsSearch, Slow!Spec, Fast!Spec
=============================================================================
