----------------------------- MODULE MonitorProofs -----------------------------
(***************************************************************************)
(* Proofs, for any finite number of threads and any conditions and         *)
(* priorities, that the condition variables of A5 neither lose nor double  *)
(* a wake-up, signal in the right order and are a Mesa monitor, and that   *)
(* the reader-writer lock excludes.                                        *)
(***************************************************************************)
EXTENDS Monitor, KernelListProofs

(***************************************************************************)
(* What the inductive invariant needs beyond the properties of the run.    *)
(***************************************************************************)
ReadSection == {"read_acquire", "read_acquired", "read_release", "read_released"}

\* A thread inside a call holds the lock the call was made with or has taken,
\* and knows its condition; nobody signals it while it holds the lock; a reader is
\* counted between the two updates of read_count.
SectionOK(t) ==
    /\ pc[t] \in {"wait_release", "broadcast"} => owner[MonLock] = t
    /\ pc[t] = "wait_release" => semaphore[t] = 0
    /\ pc[t] \in ReadSection => owner[ReadLock] = t
    /\ cond[t] \in Conds <=> pc[t] \in {"wait_release", "wait_sema", "broadcast"}
    /\ pc[t] \in {"read_acquire", "read_released"} => inside[t] = "none"
    /\ pc[t] \in {"read_acquired", "read_release"} => inside[t] = "read"

Sections == \A t \in Threads : SectionOK(t)

Before(s, x, y) == \E i, j \in 1 .. Len(s) : i < j /\ s[i] = x /\ s[j] = y

\* The history has the threads of the list, and those of equal priority are in
\* the list in the order in which they came.
Arrivals ==
    \A c \in Conds :
        /\ NoDuplicates(arrived[c])
        /\ ToSet(arrived[c]) = ToSet(waiters[c])
        /\ \A i, j \in 1 .. Len(waiters[c]) :
              i < j /\ priority[waiters[c][i]] = priority[waiters[c][j]] =>
                  Before(arrived[c], waiters[c][i], waiters[c][j])

Inv == TypeOK /\ OneWakeupPerWait /\ WritersExcludeReaders /\ Sections /\ Arrivals

-------------------------------------------------------------------------------
(* Order in a list.                                                        *)

\* An element in front of another stays there when a third one leaves.
LEMMA BeforeRemove ==
    ASSUME NEW S, NEW s \in Seq(S), NoDuplicates(s), NEW k \in 1 .. Len(s),
           NEW x, NEW y, x # s[k], y # s[k], Before(s, x, y)
    PROVE  Before(RemoveAt(s, k), x, y)
  <1> DEFINE r == RemoveAt(s, k)
             At2(i) == IF i < k THEN i ELSE i - 1
  <1>1. Len(s) \in Nat /\ k \in Nat
    BY LenProperties
  <1>2. /\ Len(r) = Len(s) - 1
        /\ \A i \in 1 .. Len(s) - 1 : r[i] = IF i < k THEN s[i] ELSE s[i + 1]
    BY RemoveElement
  <1> HIDE DEF r
  <1>3. PICK i \in 1 .. Len(s), j \in 1 .. Len(s) : i < j /\ s[i] = x /\ s[j] = y
    BY DEF Before
  <1>4. i # k /\ j # k
    BY <1>3
  <1>5. /\ At2(i) \in 1 .. Len(r) /\ At2(j) \in 1 .. Len(r) /\ At2(i) < At2(j)
    BY <1>1, <1>2, <1>3, <1>4
  <1>6. r[At2(i)] = s[i]
    BY <1>1, <1>2, <1>3, <1>4
  <1>7. r[At2(j)] = s[j]
    BY <1>1, <1>2, <1>3, <1>4
  <1> HIDE DEF At2
  <1>8. Before(r, x, y)
    BY <1>3, <1>5, <1>6, <1>7 DEF Before
  <1> QED BY <1>8 DEF r

\* A new element comes after all others, which keep their order.
LEMMA BeforeAppend ==
    ASSUME NEW S, NEW s \in Seq(S), NEW e \in S
    PROVE  /\ \A x, y : Before(s, x, y) => Before(Append(s, e), x, y)
           /\ \A x \in ToSet(s) : Before(Append(s, e), x, e)
  <1> DEFINE r == Append(s, e)
  <1>1. /\ Len(s) \in Nat /\ Len(r) = Len(s) + 1
        /\ \A k \in 1 .. Len(s) + 1 : r[k] = IF k <= Len(s) THEN s[k] ELSE e
    BY PushBack, LenProperties
  <1> HIDE DEF r
  <1>2. ASSUME NEW x, NEW y, Before(s, x, y) PROVE Before(r, x, y)
    <2>1. PICK i \in 1 .. Len(s), j \in 1 .. Len(s) : i < j /\ s[i] = x /\ s[j] = y
      BY <1>2 DEF Before
    <2>2. i \in 1 .. Len(r) /\ j \in 1 .. Len(r) /\ r[i] = x /\ r[j] = y
      BY <1>1, <2>1
    <2> QED BY <2>1, <2>2 DEF Before
  <1>3. ASSUME NEW x \in ToSet(s) PROVE Before(r, x, e)
    <2>1. PICK i \in 1 .. Len(s) : s[i] = x
      BY <1>3, MemberOfList
    <2>2. /\ i \in 1 .. Len(r) /\ Len(s) + 1 \in 1 .. Len(r) /\ i < Len(s) + 1
          /\ r[i] = x /\ r[Len(s) + 1] = e
      BY <1>1, <2>1
    <2> QED BY <2>2 DEF Before
  <1> QED BY <1>2, <1>3 DEF r

\* A stable sort keeps the order of elements of equal rank.
LEMMA SortIsStable ==
    ASSUME NEW S, NEW s \in Seq(S), NEW rank \in [S -> Int], NEW r \in ListSort(s, rank)
    PROVE  \A i, j \in 1 .. Len(s) :
               i < j => /\ rank[r[i]] >= rank[r[j]]
                        /\ rank[r[i]] = rank[r[j]] => Before(s, r[i], r[j])
  <1>1. PICK p \in Bijection(1 .. Len(s), 1 .. Len(s)) :
           r = [k \in 1 .. Len(s) |-> s[p[k]]] /\ InOrder(s, rank, p)
    BY DEF ListSort
  <1>2. DOMAIN p = 1 .. Len(s) /\ \A i \in 1 .. Len(s) : p[i] \in 1 .. Len(s)
    BY <1>1 DEF Bijection, Injection
  <1>3. \A k \in 1 .. Len(s) : s[k] \in S /\ r[k] = s[p[k]]
    BY <1>1, ElementOfSeq
  <1>4. \A k \in 1 .. Len(s) : rank[r[k]] \in Int /\ rank[s[p[k]]] = rank[r[k]]
    BY <1>2, <1>3
  <1>5. ASSUME NEW i \in 1 .. Len(s), NEW j \in 1 .. Len(s), i < j
        PROVE  /\ rank[r[i]] >= rank[r[j]]
               /\ rank[r[i]] = rank[r[j]] => Before(s, r[i], r[j])
    <2>1. \/ Compare(rank, s[p[i]], s[p[j]])
          \/ ~ Compare(rank, s[p[j]], s[p[i]]) /\ p[i] < p[j]
      BY <1>1, <1>2, <1>5 DEF InOrder
    <2>0. /\ rank[r[i]] \in Int /\ rank[r[j]] \in Int
          /\ rank[s[p[i]]] = rank[r[i]] /\ rank[s[p[j]]] = rank[r[j]]
      BY <1>4
    <2>2. rank[r[i]] > rank[r[j]] \/ (rank[r[i]] >= rank[r[j]] /\ p[i] < p[j])
      BY <2>0, <2>1 DEF Compare
    <2>3. p[i] < p[j] => Before(s, r[i], r[j])
      BY <1>2, <1>3 DEF Before
    <2> QED BY <2>0, <2>2, <2>3
  <1> QED BY <1>5

-------------------------------------------------------------------------------
(* cond_signal.                                                            *)

\* The waiters of a condition, as the lemmas on lists want them.
LEMMA WaiterList ==
    ASSUME Inv, NEW c \in Conds
    PROVE  /\ waiters[c] \in Seq(Threads) /\ NoDuplicates(waiters[c])
           /\ arrived[c] \in Seq(Threads) /\ NoDuplicates(arrived[c])
           /\ ToSet(arrived[c]) = ToSet(waiters[c])
           /\ priority \in [Threads -> Int]
           /\ \A t \in ToSet(waiters[c]) :
                 t \in Threads /\ Waiting(t) /\ cond[t] = c /\ semaphore[t] = 0
  <1>1. priority \in [Threads -> Int]
    BY MonitorAssumption DEF Inv, TypeOK, Priorities
  <1>2. waiters[c] \in Seq(Threads) /\ arrived[c] \in Seq(Threads)
    BY DEF Inv, TypeOK
  <1>3. NoDuplicates(waiters[c])
    BY DEF Inv, OneWakeupPerWait, NoDuplicates
  <1>4. NoDuplicates(arrived[c]) /\ ToSet(arrived[c]) = ToSet(waiters[c])
    BY DEF Inv, Arrivals
  <1>5. ASSUME NEW t \in ToSet(waiters[c])
        PROVE  t \in Threads /\ Waiting(t) /\ cond[t] = c /\ semaphore[t] = 0
    <2>1. t \in Threads
      BY <1>2, <1>5, MemberOfList
    <2>2. Waiting(t) /\ cond[t] = c
      BY <1>5, <2>1 DEF Inv, OneWakeupPerWait
    <2>3. semaphore[t] # 1 /\ semaphore[t] \in 0 .. 1
      BY <1>5, <2>1, <2>2 DEF Inv, OneWakeupPerWait, TypeOK
    <2> QED BY <2>1, <2>2, <2>3
  <1> QED BY <1>1, <1>2, <1>3, <1>4, <1>5

\* Who waits has a condition, and is in its list or signalled.
LEMMA WaiterState ==
    ASSUME Inv, NEW t \in Threads
    PROVE  /\ Waiting(t) => /\ cond[t] \in Conds
                            /\ (semaphore[t] = 1) # (t \in ToSet(waiters[cond[t]]))
           /\ ~Waiting(t) => /\ semaphore[t] = 0
                             /\ \A c \in Conds : t \notin ToSet(waiters[c])
           /\ semaphore[t] = 1 => \A c \in Conds : t \notin ToSet(waiters[c])
  <1>1. Waiting(t) => cond[t] \in Conds
    BY DEF Inv, Sections, SectionOK, Waiting
  <1>2. IF Waiting(t) THEN (semaphore[t] = 1) # (t \in ToSet(waiters[cond[t]]))
                      ELSE semaphore[t] = 0
    BY DEF Inv, OneWakeupPerWait
  <1>3. \A c \in Conds : t \in ToSet(waiters[c]) => Waiting(t) /\ semaphore[t] = 0
    BY WaiterList
  <1> QED BY <1>1, <1>2, <1>3

\* A waiter has a place in the history.
LEMMA HasPlace ==
    ASSUME Inv, NEW c \in Conds, NEW t \in ToSet(waiters[c])
    PROVE  Place(c, t) \in 1 .. Len(arrived[c]) /\ arrived[c][Place(c, t)] = t
  <1>1. DOMAIN arrived[c] = 1 .. Len(arrived[c])
    BY WaiterList, LenProperties
  <1>2. \E i \in 1 .. Len(arrived[c]) : arrived[c][i] = t
    <2>1. arrived[c] \in Seq(Threads) /\ t \in ToSet(arrived[c])
      BY WaiterList
    <2> QED BY <2>1, MemberOfList
  <1> QED BY <1>1, <1>2 DEF Place

\* Who the signal wakes, and what it does to the lists.
LEMMA SignalStep ==
    ASSUME Inv, NEW c \in Conds, waiters[c] # <<>>, SignalFront(c), UNCHANGED priority
    PROVE  \E h \in ToSet(waiters[c]) :
              /\ semaphore' = [semaphore EXCEPT ![h] = 1]
              /\ waiters' \in [Conds -> Seq(Threads)] /\ arrived' \in [Conds -> Seq(Threads)]
              /\ NoDuplicates(waiters'[c])
              /\ ToSet(waiters'[c]) = ToSet(waiters[c]) \ {h}
              /\ \A d \in Conds \ {c} : waiters'[d] = waiters[d]
              /\ Arrivals'
              /\ \A u \in ToSet(waiters[c]) :
                    \/ priority[u] < priority[h]
                    \/ priority[u] = priority[h] /\ (u = h \/ Before(arrived[c], h, u))
  <1> DEFINE w == waiters[c]
             a == arrived[c]
  <1>1. /\ w \in Seq(Threads) /\ NoDuplicates(w) /\ a \in Seq(Threads) /\ NoDuplicates(a)
        /\ ToSet(a) = ToSet(w) /\ priority \in [Threads -> Int]
        /\ \A t \in ToSet(w) : t \in Threads /\ semaphore[t] = 0
    BY WaiterList
  <1>2. PICK r \in ListSort(w, priority) :
           /\ waiters' = [waiters EXCEPT ![c] = Tail(r)]
           /\ semaphore' = [semaphore EXCEPT ![Head(r)] = @ + 1]
           /\ arrived' = [arrived EXCEPT ![c] = RemoveAt(@, Place(c, Head(r)))]
    BY DEF SignalFront
  <1> DEFINE h == Head(r)
             k == Place(c, h)
  <1>3. /\ r \in Seq(Threads) /\ Len(r) = Len(w) /\ ToSet(r) = ToSet(w) /\ NoDuplicates(r)
    BY <1>1, <1>2, SortKeepsElements
  <1>4. r # <<>> /\ Len(w) \in Nat \ {0}
    BY <1>1, <1>3, LenProperties, EmptySeq
  <1>5. /\ h \in ToSet(w) /\ Tail(r) \in Seq(Threads) /\ NoDuplicates(Tail(r))
        /\ ToSet(Tail(r)) = ToSet(w) \ {h}
    <2>1. /\ h \in ToSet(r) /\ Tail(r) \in Seq(Threads) /\ ToSet(r) = ToSet(Tail(r)) \cup {h}
          /\ NoDuplicates(Tail(r)) /\ h \notin ToSet(Tail(r))
      BY <1>3, <1>4, PopFront
    <2> QED BY <1>3, <2>1
  <1>6. /\ Len(Tail(r)) = Len(w) - 1 /\ r[1] = h
        /\ \A i \in 1 .. Len(w) - 1 : Tail(r)[i] = r[i + 1]
    BY <1>3, <1>4, HeadTailProperties
  <1>7. \A x \in Threads, y \in Threads :
            Before(w, x, y) /\ priority[x] = priority[y] => Before(a, x, y)
    <2>1. ASSUME NEW x \in Threads, NEW y \in Threads, Before(w, x, y), priority[x] = priority[y]
          PROVE  Before(a, x, y)
      <3>1. PICK i \in 1 .. Len(w), j \in 1 .. Len(w) : i < j /\ w[i] = x /\ w[j] = y
        BY <2>1 DEF Before
      <3> QED BY <2>1, <3>1 DEF Inv, Arrivals
    <2> QED BY <2>1
  <1>8. \A i, j \in 1 .. Len(w) :
            i < j => /\ r[i] \in Threads /\ r[j] \in Threads
                     /\ priority[r[i]] >= priority[r[j]]
                     /\ priority[r[i]] = priority[r[j]] => Before(a, r[i], r[j])
    <2>1. \A i \in 1 .. Len(w) : r[i] \in Threads
      BY <1>3, ElementOfSeq
    <2>2. \A i, j \in 1 .. Len(w) :
            i < j => /\ priority[r[i]] >= priority[r[j]]
                     /\ priority[r[i]] = priority[r[j]] => Before(w, r[i], r[j])
      BY <1>1, <1>2, SortIsStable
    <2> QED BY <1>7, <2>1, <2>2
  <1>9. semaphore' = [semaphore EXCEPT ![h] = 1]
    <2>1. semaphore[h] = 0
      BY <1>1, <1>5
    <2>2. semaphore' = [semaphore EXCEPT ![h] = semaphore[h] + 1]
      BY <1>2
    <2> QED BY <2>1, <2>2
  <1>10. /\ waiters' \in [Conds -> Seq(Threads)] /\ waiters'[c] = Tail(r)
         /\ \A d \in Conds \ {c} : waiters'[d] = waiters[d]
    BY <1>2, <1>5 DEF Inv, TypeOK
  <1>11. k \in 1 .. Len(a) /\ a[k] = h
    BY <1>5, HasPlace
  <1>12. /\ RemoveAt(a, k) \in Seq(Threads) /\ ToSet(RemoveAt(a, k)) = ToSet(a) \ {h}
         /\ NoDuplicates(RemoveAt(a, k))
    <2>1. a \in Seq(Threads) /\ NoDuplicates(a) /\ k \in 1 .. Len(a)
      BY <1>1, <1>11
    <2> HIDE DEF a, k
    <2>2. /\ RemoveAt(a, k) \in Seq(Threads) /\ ToSet(RemoveAt(a, k)) = ToSet(a) \ {a[k]}
          /\ NoDuplicates(RemoveAt(a, k))
      BY <2>1, RemoveElement
    <2> QED BY <1>11, <2>2
  <1>13. /\ arrived' \in [Conds -> Seq(Threads)] /\ arrived'[c] = RemoveAt(a, k)
         /\ \A d \in Conds \ {c} : arrived'[d] = arrived[d]
    BY <1>2, <1>12 DEF Inv, TypeOK
  <1>14. ASSUME NEW u \in ToSet(w)
         PROVE  \/ priority[u] < priority[h]
                \/ priority[u] = priority[h] /\ (u = h \/ Before(a, h, u))
    <2>1. PICK i \in 1 .. Len(w) : r[i] = u
      BY <1>3, <1>14, MemberOfList
    <2>2. CASE i = 1
      BY <1>6, <2>1, <2>2
    <2>3. CASE i # 1
      <3>1. 1 \in 1 .. Len(w) /\ 1 < i
        BY <1>4, <2>3
      <3>2. /\ priority[h] >= priority[u]
            /\ priority[h] = priority[u] => Before(a, h, u)
        BY <1>6, <1>8, <2>1, <3>1
      <3>3. priority[h] \in Int /\ priority[u] \in Int
        BY <1>1, <1>5, <1>14
      <3> QED BY <3>2, <3>3
    <2> QED BY <2>2, <2>3
  <1>15. Arrivals'
    <2>1. ASSUME NEW i \in 1 .. Len(w) - 1, NEW j \in 1 .. Len(w) - 1, i < j,
                 priority[r[i + 1]] = priority[r[j + 1]]
          PROVE  Before(RemoveAt(a, k), r[i + 1], r[j + 1])
      <3>1. /\ i + 1 \in 1 .. Len(w) /\ j + 1 \in 1 .. Len(w) /\ 1 \in 1 .. Len(w)
            /\ i + 1 < j + 1 /\ i + 1 # 1 /\ j + 1 # 1
        BY <1>4, <2>1
      <3>2. Before(a, r[i + 1], r[j + 1])
        BY <1>8, <2>1, <3>1
      <3>3. r[i + 1] # h /\ r[j + 1] # h
        BY <1>3, <1>6, <3>1, LenProperties DEF NoDuplicates, IsInjective
      <3> QED BY <1>1, <1>11, <3>2, <3>3, BeforeRemove
    <2>2. ASSUME NEW i \in 1 .. Len(waiters'[c]), NEW j \in 1 .. Len(waiters'[c]), i < j,
                 priority[waiters'[c][i]] = priority[waiters'[c][j]]
          PROVE  Before(arrived'[c], waiters'[c][i], waiters'[c][j])
      <3>1. /\ i \in 1 .. Len(w) - 1 /\ j \in 1 .. Len(w) - 1
            /\ waiters'[c][i] = r[i + 1] /\ waiters'[c][j] = r[j + 1]
        BY <1>6, <1>10
      <3> QED BY <1>13, <2>1, <2>2, <3>1
    <2>3. ToSet(arrived'[c]) = ToSet(waiters'[c]) /\ NoDuplicates(arrived'[c])
      BY <1>1, <1>5, <1>10, <1>12, <1>13
    <2>4. ASSUME NEW d \in Conds \ {c}
          PROVE  /\ NoDuplicates(arrived'[d]) /\ ToSet(arrived'[d]) = ToSet(waiters'[d])
                 /\ \A i, j \in 1 .. Len(waiters'[d]) :
                      i < j /\ priority[waiters'[d][i]] = priority[waiters'[d][j]] =>
                         Before(arrived'[d], waiters'[d][i], waiters'[d][j])
      BY <1>10, <1>13 DEF Inv, Arrivals
    <2> QED BY <2>2, <2>3, <2>4 DEF Arrivals, Before
  <1> QED BY <1>5, <1>9, <1>10, <1>13, <1>14, <1>15

-------------------------------------------------------------------------------
(* What a step leaves alone.                                               *)

\* A step that moves no thread into or out of a wait keeps all that is said
\* about waiters.
LEMMA WaitersFrame ==
    ASSUME Inv, UNCHANGED <<waiters, semaphore, arrived>>,
           \A t \in Threads : /\ Waiting(t)' = Waiting(t)
                              /\ Waiting(t) => cond'[t] = cond[t] /\ priority'[t] = priority[t]
    PROVE  OneWakeupPerWait' /\ Arrivals'
  <1>1. OneWakeupPerWait'
    <2>1. ASSUME NEW t \in Threads, NEW c \in Conds, t \in ToSet(waiters'[c])
          PROVE  Waiting(t)' /\ cond'[t] = c
      BY <2>1 DEF Inv, OneWakeupPerWait
    <2>2. ASSUME NEW t \in Threads
          PROVE  IF Waiting(t)' THEN (semaphore'[t] = 1) # (t \in ToSet(waiters'[cond'[t]]))
                                ELSE semaphore'[t] = 0
      BY DEF Inv, OneWakeupPerWait
    <2>3. \A c \in Conds : IsInjective(waiters'[c])
      BY DEF Inv, OneWakeupPerWait
    <2> QED BY <2>1, <2>2, <2>3 DEF OneWakeupPerWait
  <1>2. ASSUME NEW c \in Conds, NEW i \in 1 .. Len(waiters[c]), NEW j \in 1 .. Len(waiters[c]),
               i < j, priority'[waiters[c][i]] = priority'[waiters[c][j]]
        PROVE  Before(arrived[c], waiters[c][i], waiters[c][j])
    <2>1. waiters[c] \in Seq(Threads)
      BY WaiterList
    <2>2. waiters[c][i] \in ToSet(waiters[c]) /\ waiters[c][j] \in ToSet(waiters[c])
      BY <2>1, MemberOfList
    <2>3. priority[waiters[c][i]] = priority[waiters[c][j]]
      BY <1>2, <2>2, WaiterList
    <2> QED BY <1>2, <2>3 DEF Inv, Arrivals
  <1>3. Arrivals'
    BY <1>2 DEF Inv, Arrivals, Before
  <1> QED BY <1>1, <1>3

\* So does a step that leaves the reader-writer lock alone.
LEMMA ReadersFrame ==
    ASSUME WritersExcludeReaders, UNCHANGED rwlock, owner'[WriteLock] = owner[WriteLock]
    PROVE  WritersExcludeReaders'
  <1>1. Readers' = Readers
    BY DEF Readers, rwlock
  <1> QED BY <1>1 DEF WritersExcludeReaders, Holds, rwlock

\* The set of readers, as it is counted.
LEMMA ReadersCount ==
    ASSUME Inv
    PROVE  /\ IsFiniteSet(Readers) /\ read_count = Cardinality(Readers)
           /\ read_count = 0 <=> Readers = {}
           /\ Cardinality(Threads) \in Nat /\ NULL \notin Threads
           /\ \A t \in Threads : inside[t] # "read" => read_count < Cardinality(Threads)
  <1>1. IsFiniteSet(Threads) /\ Readers \in SUBSET Threads /\ NULL \notin Threads
    BY MonitorAssumption DEF Readers
  <1>2. IsFiniteSet(Readers) /\ Cardinality(Readers) <= Cardinality(Threads)
        /\ (Cardinality(Threads) = Cardinality(Readers) => Threads = Readers)
    BY <1>1, FS_Subset
  <1>3. read_count = Cardinality(Readers)
    BY DEF Inv, WritersExcludeReaders
  <1>4. Cardinality(Threads) \in Nat /\ Cardinality(Readers) \in Nat
    BY <1>1, <1>2, FS_CardinalityType
  <1>5. \A t \in Threads : inside[t] # "read" => Threads # Readers
    BY DEF Readers
  <1>6. read_count = 0 <=> Readers = {}
    BY <1>2, <1>3, FS_EmptySet
  <1> QED BY <1>1, <1>2, <1>3, <1>4, <1>5, <1>6

\* A failed assertion stops the kernel, with everything as it was.
LEMMA AssertionKeeps ==
    ASSUME Inv, AssertionFails PROVE Inv'
  <1> USE DEF AssertionFails, condition, rwlock
  <1>1. TypeOK'
    BY DEF Inv, TypeOK
  <1>2. Sections'
    BY DEF Inv, Sections, SectionOK
  <1>3. OneWakeupPerWait' /\ Arrivals'
    BY WaitersFrame DEF Inv, Waiting
  <1>4. WritersExcludeReaders'
    BY ReadersFrame DEF Inv
  <1> QED BY <1>1, <1>2, <1>3, <1>4 DEF Inv

-------------------------------------------------------------------------------
(* The monitor's steps.                                                    *)

\* Entering and leaving move the lock only.
LEMMA EnterLeaveKeeps ==
    ASSUME Inv, NEW t \in Threads, Enter(t) \/ Leave(t) PROVE Inv'
  <1> USE DEF Enter, Leave, At, Goto, Holds, Lock!Grant, Lock!Release, condition, rwlock, Locks
  <1>0. NULL \notin Threads /\ MonLock # ReadLock /\ MonLock # WriteLock
    BY MonitorAssumption
  <1>1. TypeOK'
    BY <1>0 DEF Inv, TypeOK
  <1>2. Sections'
    BY <1>0 DEF Inv, TypeOK, Sections, SectionOK, ReadSection
  <1>3. OneWakeupPerWait' /\ Arrivals'
    BY WaitersFrame DEF Inv, Waiting
  <1>4. WritersExcludeReaders'
    BY <1>0, ReadersFrame DEF Inv, TypeOK
  <1> QED BY <1>1, <1>2, <1>3, <1>4 DEF Inv

\* The new waiter has its semaphore down and comes last in the list.
LEMMA CondWaitKeeps ==
    ASSUME Inv, NEW t \in Threads, NEW c \in Conds, CondWait(t, c) PROVE Inv'
  <1>0. NULL \notin Threads /\ NULL \notin Conds
    BY MonitorAssumption
  <1>1. /\ pc[t] = "client" /\ owner[MonLock] = t
        /\ pc' = [pc EXCEPT ![t] = "wait_release"] /\ cond' = [cond EXCEPT ![t] = c]
        /\ waiters' = [waiters EXCEPT ![c] = Append(@, t)]
        /\ arrived' = [arrived EXCEPT ![c] = Append(@, t)]
        /\ UNCHANGED <<kernel, owner, semaphore, inside, read_count>>
    BY DEF CondWait, At, Holds, Goto, rwlock
  <1>2. PICK p \in Priorities : /\ priority' = [priority EXCEPT ![t] = p]
                                /\ current' = [current EXCEPT ![t] = p]
    BY DEF CondWait
  <1>3. \A d \in Conds : t \notin ToSet(waiters[d])
    BY <1>1, WaiterList DEF Waiting
  <1>4. /\ waiters[c] \in Seq(Threads) /\ NoDuplicates(waiters[c])
        /\ arrived[c] \in Seq(Threads) /\ NoDuplicates(arrived[c])
        /\ ToSet(arrived[c]) = ToSet(waiters[c])
    BY WaiterList
  <1>5. /\ waiters' \in [Conds -> Seq(Threads)] /\ waiters'[c] = Append(waiters[c], t)
        /\ arrived' \in [Conds -> Seq(Threads)] /\ arrived'[c] = Append(arrived[c], t)
        /\ \A d \in Conds \ {c} : waiters'[d] = waiters[d] /\ arrived'[d] = arrived[d]
    <2>1. Append(waiters[c], t) \in Seq(Threads) /\ Append(arrived[c], t) \in Seq(Threads)
      BY <1>4, PushBack
    <2> QED BY <1>1, <2>1 DEF Inv, TypeOK
  <1>6. /\ ToSet(waiters'[c]) = ToSet(waiters[c]) \cup {t} /\ NoDuplicates(waiters'[c])
        /\ Len(waiters'[c]) = Len(waiters[c]) + 1
        /\ \A k \in 1 .. Len(waiters[c]) + 1 :
              waiters'[c][k] = IF k <= Len(waiters[c]) THEN waiters[c][k] ELSE t
    <2>1. t \notin ToSet(waiters[c])
      BY <1>3
    <2> DEFINE s == Append(waiters[c], t)
    <2>2. /\ ToSet(s) = ToSet(waiters[c]) \cup {t} /\ NoDuplicates(s)
          /\ Len(s) = Len(waiters[c]) + 1
          /\ \A k \in 1 .. Len(waiters[c]) + 1 :
                s[k] = IF k <= Len(waiters[c]) THEN waiters[c][k] ELSE t
      BY <1>4, <2>1, PushBack
    <2> QED BY <1>5, <2>2
  <1>7. ToSet(arrived'[c]) = ToSet(arrived[c]) \cup {t} /\ NoDuplicates(arrived'[c])
    BY <1>3, <1>4, <1>5, PushBack
  <1>8. TypeOK'
    BY <1>1, <1>2, <1>5 DEF Inv, TypeOK, Locations
  <1>9. Sections'
    <2>1. semaphore[t] = 0
      BY <1>1, WaiterState DEF Waiting
    <2> QED BY <1>1, <2>1 DEF Inv, TypeOK, Sections, SectionOK, ReadSection
  <1>10. WritersExcludeReaders'
    BY <1>1, ReadersFrame DEF Inv, rwlock
  <1>11. \A u \in Threads : u # t => /\ pc'[u] = pc[u] /\ cond'[u] = cond[u]
                                     /\ priority'[u] = priority[u]
    BY <1>1, <1>2 DEF Inv, TypeOK
  <1>12. pc'[t] = "wait_release" /\ cond'[t] = c /\ semaphore'[t] = 0
    BY <1>1 DEF Inv, TypeOK, OneWakeupPerWait, Waiting
  <1>13. OneWakeupPerWait'
    <2>1. \A d \in Conds : IsInjective(waiters'[d])
      BY <1>5, <1>6 DEF Inv, OneWakeupPerWait, NoDuplicates
    <2>2. ASSUME NEW u \in Threads, NEW d \in Conds, u \in ToSet(waiters'[d])
          PROVE  Waiting(u)' /\ cond'[u] = d
      <3>1. CASE u = t
        BY <1>3, <1>5, <1>12, <2>2, <3>1 DEF Waiting
      <3>2. CASE u # t
        <4>1. u \in ToSet(waiters[d])
          <5>1. CASE d = c
            BY <1>6, <2>2, <3>2, <5>1
          <5>2. CASE d # c
            BY <1>5, <2>2, <5>2
          <5> QED BY <5>1, <5>2
        <4>2. Waiting(u) /\ cond[u] = d
          BY <4>1, WaiterList
        <4> QED BY <1>11, <3>2, <4>2 DEF Waiting
      <3> QED BY <3>1, <3>2
    <2>3. ASSUME NEW u \in Threads
          PROVE  IF Waiting(u)' THEN (semaphore'[u] = 1) # (u \in ToSet(waiters'[cond'[u]]))
                                ELSE semaphore'[u] = 0
      <3>1. CASE u = t
        BY <1>6, <1>12, <3>1 DEF Waiting
      <3>2. CASE u # t /\ ~Waiting(u)
        BY <1>1, <1>11, <3>2 DEF Inv, OneWakeupPerWait, Waiting
      <3>3. CASE u # t /\ Waiting(u)
        <4>1. cond[u] \in Conds
          BY <3>3 DEF Inv, Sections, SectionOK, Waiting
        <4>2. u \in ToSet(waiters'[cond[u]]) <=> u \in ToSet(waiters[cond[u]])
          BY <1>5, <1>6, <3>3, <4>1
        <4>3. Waiting(u)' /\ cond'[u] = cond[u] /\ semaphore'[u] = semaphore[u]
          BY <1>1, <1>11, <3>3 DEF Waiting
        <4>4. (semaphore[u] = 1) # (u \in ToSet(waiters[cond[u]]))
          BY <3>3 DEF Inv, OneWakeupPerWait
        <4> QED BY <4>2, <4>3, <4>4
      <3> QED BY <3>1, <3>2, <3>3
    <2> QED BY <2>1, <2>2, <2>3 DEF OneWakeupPerWait
  <1>14. Arrivals'
    <2>1. ASSUME NEW i \in 1 .. Len(waiters'[c]), NEW j \in 1 .. Len(waiters'[c]), i < j,
                 priority'[waiters'[c][i]] = priority'[waiters'[c][j]]
          PROVE  Before(arrived'[c], waiters'[c][i], waiters'[c][j])
      <3>0. Len(waiters[c]) \in Nat
        BY <1>4, LenProperties
      <3>1. i \in 1 .. Len(waiters[c]) /\ waiters'[c][i] = waiters[c][i]
        BY <1>6, <2>1, <3>0
      <3>2. waiters[c][i] \in ToSet(waiters[c]) /\ waiters[c][i] \in Threads
        BY <1>4, <3>1, MemberOfList, ElementOfSeq
      <3>3. CASE j = Len(waiters[c]) + 1
        <4>1. waiters'[c][j] = t
          BY <1>6, <3>0, <3>3
        <4> QED BY <1>4, <1>5, <3>1, <3>2, <4>1, BeforeAppend
      <3>4. CASE j # Len(waiters[c]) + 1
        <4>1. j \in 1 .. Len(waiters[c]) /\ waiters'[c][j] = waiters[c][j]
          BY <1>6, <3>0, <3>4
        <4>2. waiters[c][j] \in ToSet(waiters[c]) /\ waiters[c][j] \in Threads
          BY <1>4, <4>1, MemberOfList, ElementOfSeq
        <4>3. priority[waiters[c][i]] = priority[waiters[c][j]]
          BY <1>3, <1>11, <2>1, <3>1, <3>2, <4>1, <4>2
        <4>4. Before(arrived[c], waiters[c][i], waiters[c][j])
          BY <2>1, <3>1, <4>1, <4>3 DEF Inv, Arrivals
        <4> QED BY <1>4, <1>5, <3>1, <4>1, <4>4, BeforeAppend
      <3> QED BY <3>3, <3>4
    <2>2. ASSUME NEW d \in Conds \ {c}
          PROVE  /\ NoDuplicates(arrived'[d]) /\ ToSet(arrived'[d]) = ToSet(waiters'[d])
                 /\ \A i, j \in 1 .. Len(waiters'[d]) :
                      i < j /\ priority'[waiters'[d][i]] = priority'[waiters'[d][j]] =>
                         Before(arrived'[d], waiters'[d][i], waiters'[d][j])
      <3>1. \A i \in 1 .. Len(waiters[d]) :
               waiters[d][i] \in ToSet(waiters[d]) /\ waiters[d][i] \in Threads
        <4>1. waiters[d] \in Seq(Threads)
          BY WaiterList
        <4> QED BY <4>1, MemberOfList, ElementOfSeq
      <3>2. \A i \in 1 .. Len(waiters[d]) : priority'[waiters[d][i]] = priority[waiters[d][i]]
        BY <1>3, <1>11, <3>1
      <3>3. /\ NoDuplicates(arrived[d]) /\ ToSet(arrived[d]) = ToSet(waiters[d])
            /\ waiters'[d] = waiters[d] /\ arrived'[d] = arrived[d]
        BY <1>5, WaiterList
      <3>4. ASSUME NEW i \in 1 .. Len(waiters[d]), NEW j \in 1 .. Len(waiters[d]), i < j,
                   priority'[waiters[d][i]] = priority'[waiters[d][j]]
            PROVE  Before(arrived[d], waiters[d][i], waiters[d][j])
        <4>1. priority[waiters[d][i]] = priority[waiters[d][j]]
          BY <3>2, <3>4
        <4> QED BY <3>4, <4>1 DEF Inv, Arrivals
      <3> QED BY <3>3, <3>4
    <2>3. ToSet(arrived'[c]) = ToSet(waiters'[c])
      BY <1>4, <1>6, <1>7
    <2> QED BY <1>7, <2>1, <2>2, <2>3 DEF Arrivals, Before
  <1> QED BY <1>8, <1>9, <1>10, <1>13, <1>14 DEF Inv

LEMMA EndOfDonationsKeeps ==
    ASSUME TypeOK, NEW t \in Threads, EndOfDonations(t)
    PROVE  current' \in [Threads -> Priorities]
  <1>1. current[t] \in 0 .. PriMax /\ priority[t] \in 0 .. PriMax
    BY DEF TypeOK, Priorities
  <1>2. PICK p \in 0 .. PriMax : current' = [current EXCEPT ![t] = p]
    <2>1. CASE \E p \in 0 .. current[t] : current' = [current EXCEPT ![t] = p]
      <3>1. PICK p \in 0 .. current[t] : current' = [current EXCEPT ![t] = p]
        BY <2>1
      <3>2. p \in 0 .. PriMax
        BY <1>1, MonitorAssumption
      <3> QED BY <3>1, <3>2
    <2>2. CASE \E p \in 0 .. priority[t] : current' = [current EXCEPT ![t] = p]
      <3>1. PICK p \in 0 .. priority[t] : current' = [current EXCEPT ![t] = p]
        BY <2>2
      <3>2. p \in 0 .. PriMax
        BY <1>1, MonitorAssumption
      <3> QED BY <3>1, <3>2
    <2> QED BY <2>1, <2>2 DEF EndOfDonations
  <1> QED BY <1>2 DEF TypeOK, Priorities

\* Donations are seen by nobody else.
LEMMA DonationKeeps ==
    ASSUME Inv, NEW t \in Threads, Donation(t) PROVE Inv'
  <1>1. UNCHANGED <<kernel, owner, pc, cond, waiters, priority, semaphore, arrived,
                    inside, read_count>>
    BY DEF Donation, rwlock
  <1>2. TypeOK'
    <2>1. PICK p \in Priorities : current' = [current EXCEPT ![t] = p]
      BY DEF Donation
    <2> QED BY <1>1, <2>1 DEF Inv, TypeOK
  <1>5. Sections'
    BY <1>1 DEF Inv, Sections, SectionOK
  <1>3. OneWakeupPerWait' /\ Arrivals'
    BY <1>1, WaitersFrame DEF Waiting
  <1>4. WritersExcludeReaders'
    BY <1>1, ReadersFrame DEF Inv, rwlock
  <1> QED BY <1>2, <1>3, <1>4, <1>5 DEF Inv

\* The release of the lock leaves the waiter waiting.
LEMMA WaitReleaseKeeps ==
    ASSUME Inv, NEW t \in Threads, WaitRelease(t) PROVE Inv'
  <1> USE DEF WaitRelease, At, Goto, Lock!Release, condition, rwlock, Locks
  <1>0. NULL \notin Threads /\ MonLock # ReadLock /\ MonLock # WriteLock
    BY MonitorAssumption
  <1>1. TypeOK'
    <2>1. current' \in [Threads -> Priorities]
      BY EndOfDonationsKeeps DEF Inv, TypeOK
    <2> QED BY <1>0, <2>1 DEF Inv, TypeOK, Locations
  <1>2. Sections'
    BY <1>0 DEF Inv, TypeOK, Sections, SectionOK, ReadSection
  <1>3. \A u \in Threads : /\ Waiting(u)' = Waiting(u)
                           /\ Waiting(u) => cond'[u] = cond[u] /\ priority'[u] = priority[u]
    BY DEF Waiting, Inv, TypeOK
  <1>4. OneWakeupPerWait' /\ Arrivals'
    BY <1>3, WaitersFrame
  <1>5. WritersExcludeReaders'
    BY <1>0, ReadersFrame DEF Inv, TypeOK
  <1> QED BY <1>1, <1>2, <1>4, <1>5 DEF Inv

\* Who is woken is in no list, and its semaphore is down again.
LEMMA WaitWakeKeeps ==
    ASSUME Inv, NEW t \in Threads, WaitWake(t) PROVE Inv'
  <1>0. NULL \notin Threads /\ NULL \notin Conds
    BY MonitorAssumption
  <1>1. /\ pc[t] = "wait_sema" /\ semaphore[t] = 1
        /\ semaphore' = [semaphore EXCEPT ![t] = 0] /\ cond' = [cond EXCEPT ![t] = NULL]
        /\ pc' = [pc EXCEPT ![t] = "wait_acquire"]
        /\ UNCHANGED <<kernel, owner, waiters, priority, current, arrived, inside, read_count>>
    BY DEF WaitWake, At, Goto, rwlock
  <1>2. TypeOK'
    BY <1>1 DEF Inv, TypeOK, Locations
  <1>3. Sections'
    BY <1>0, <1>1 DEF Inv, TypeOK, Sections, SectionOK, ReadSection
  <1>4. Arrivals'
    BY <1>1 DEF Inv, Arrivals, Before
  <1>5. WritersExcludeReaders'
    BY <1>1, ReadersFrame DEF Inv, rwlock
  <1>6. \A c \in Conds : t \notin ToSet(waiters[c])
    BY <1>1, WaiterState
  <1>7. pc'[t] = "wait_acquire" /\ semaphore'[t] = 0
    BY <1>1 DEF Inv, TypeOK
  <1>8. \A u \in Threads : u # t => /\ pc'[u] = pc[u] /\ cond'[u] = cond[u]
                                    /\ semaphore'[u] = semaphore[u]
    BY <1>1 DEF Inv, TypeOK
  <1>9. OneWakeupPerWait'
    <2>1. \A c \in Conds : IsInjective(waiters'[c])
      BY <1>1 DEF Inv, OneWakeupPerWait
    <2>2. ASSUME NEW u \in Threads, NEW c \in Conds, u \in ToSet(waiters'[c])
          PROVE  Waiting(u)' /\ cond'[u] = c
      <3>1. u # t /\ Waiting(u) /\ cond[u] = c
        BY <1>1, <1>6, <2>2, WaiterList
      <3> QED BY <1>8, <3>1 DEF Waiting
    <2>3. ASSUME NEW u \in Threads
          PROVE  IF Waiting(u)' THEN (semaphore'[u] = 1) # (u \in ToSet(waiters'[cond'[u]]))
                                ELSE semaphore'[u] = 0
      <3>1. CASE u = t
        BY <1>7, <3>1 DEF Waiting
      <3>2. CASE u # t
        <4>1. IF Waiting(u) THEN (semaphore[u] = 1) # (u \in ToSet(waiters[cond[u]]))
                            ELSE semaphore[u] = 0
          BY DEF Inv, OneWakeupPerWait
        <4> QED BY <1>1, <1>8, <3>2, <4>1 DEF Waiting
      <3> QED BY <3>1, <3>2
    <2> QED BY <2>1, <2>2, <2>3 DEF OneWakeupPerWait
  <1> QED BY <1>2, <1>3, <1>4, <1>5, <1>9 DEF Inv

LEMMA WaitAcquireKeeps ==
    ASSUME Inv, NEW t \in Threads, WaitAcquire(t) PROVE Inv'
  <1> USE DEF WaitAcquire, At, Goto, Lock!Grant, rwlock, Locks
  <1>0. /\ NULL \notin Threads /\ MonLock # ReadLock /\ MonLock # WriteLock /\ 0 \in Priorities
    BY MonitorAssumption DEF Priorities
  <1>1. TypeOK'
    BY <1>0 DEF Inv, TypeOK, Locations
  <1>2. Sections'
    BY <1>0 DEF Inv, TypeOK, Sections, SectionOK, ReadSection
  <1>3. \A u \in Threads : /\ Waiting(u)' = Waiting(u)
                           /\ Waiting(u) => cond'[u] = cond[u] /\ priority'[u] = priority[u]
    BY DEF Waiting, Inv, TypeOK
  <1>4. OneWakeupPerWait' /\ Arrivals'
    BY <1>3, WaitersFrame
  <1>5. WritersExcludeReaders'
    BY <1>0, ReadersFrame DEF Inv, TypeOK
  <1> QED BY <1>1, <1>2, <1>4, <1>5 DEF Inv

\* A signal moves one thread from the list to an upped semaphore.  It does not
\* reach a thread that has not released the monitor's lock: the sender has it.
LEMMA SignalKeeps ==
    ASSUME Inv, NEW c \in Conds, waiters[c] # <<>>, SignalFront(c),
           UNCHANGED <<kernel, owner, pc, cond, priority, current, rwlock>>,
           \A t \in Threads : pc[t] # "wait_release"
    PROVE  Inv'
  <1>1. PICK h \in ToSet(waiters[c]) :
              /\ semaphore' = [semaphore EXCEPT ![h] = 1]
              /\ waiters' \in [Conds -> Seq(Threads)] /\ arrived' \in [Conds -> Seq(Threads)]
              /\ NoDuplicates(waiters'[c])
              /\ ToSet(waiters'[c]) = ToSet(waiters[c]) \ {h}
              /\ \A d \in Conds \ {c} : waiters'[d] = waiters[d]
              /\ Arrivals'
    BY SignalStep
  <1>2. h \in Threads /\ Waiting(h) /\ cond[h] = c
    BY WaiterList
  <1>3. TypeOK'
    BY <1>1, <1>2 DEF Inv, TypeOK, rwlock
  <1>4. Sections'
    BY <1>1, <1>2 DEF Inv, Sections, SectionOK, rwlock
  <1>5. WritersExcludeReaders'
    BY ReadersFrame DEF Inv
  <1>6. /\ semaphore'[h] = 1
        /\ \A u \in Threads : u # h => semaphore'[u] = semaphore[u]
    BY <1>1, <1>2 DEF Inv, TypeOK
  <1>7. OneWakeupPerWait'
    <2>1. \A d \in Conds : IsInjective(waiters'[d])
      BY <1>1 DEF Inv, OneWakeupPerWait, NoDuplicates
    <2>2. ASSUME NEW u \in Threads, NEW d \in Conds, u \in ToSet(waiters'[d])
          PROVE  Waiting(u)' /\ cond'[u] = d
      <3>1. u \in ToSet(waiters[d])
        BY <1>1, <2>2
      <3>2. Waiting(u) /\ cond[u] = d
        BY <3>1, WaiterList
      <3> QED BY <3>2 DEF Waiting
    <2>3. ASSUME NEW u \in Threads
          PROVE  IF Waiting(u)' THEN (semaphore'[u] = 1) # (u \in ToSet(waiters'[cond'[u]]))
                                ELSE semaphore'[u] = 0
      <3>1. CASE u = h
        BY <1>1, <1>2, <1>6, <3>1 DEF Waiting
      <3>2. CASE u # h /\ Waiting(u)
        <4>1. cond[u] \in Conds /\ (semaphore[u] = 1) # (u \in ToSet(waiters[cond[u]]))
          BY <3>2, WaiterState
        <4>2. u \in ToSet(waiters'[cond[u]]) <=> u \in ToSet(waiters[cond[u]])
          BY <1>1, <3>2, <4>1
        <4> QED BY <1>6, <3>2, <4>1, <4>2 DEF Waiting
      <3>3. CASE u # h /\ ~Waiting(u)
        BY <1>6, <3>3, WaiterState DEF Waiting
      <3> QED BY <3>1, <3>2, <3>3
    <2> QED BY <2>1, <2>2, <2>3 DEF OneWakeupPerWait
  <1> QED BY <1>1, <1>3, <1>4, <1>5, <1>7 DEF Inv

LEMMA CondSignalKeeps ==
    ASSUME Inv, NEW t \in Threads, NEW c \in Conds, CondSignal(t, c) PROVE Inv'
  <1>1. \A u \in Threads : pc[u] # "wait_release"
    BY DEF CondSignal, At, Holds, Inv, Sections, SectionOK
  <1> QED BY <1>1, SignalKeeps DEF CondSignal, rwlock

LEMMA BroadcastStepKeeps ==
    ASSUME Inv, NEW t \in Threads, BroadcastStep(t) PROVE Inv'
  <1>1. \A u \in Threads : pc[u] # "wait_release"
    BY DEF BroadcastStep, At, Inv, Sections, SectionOK
  <1>2. cond[t] \in Conds
    BY DEF BroadcastStep, At, Inv, Sections, SectionOK
  <1> QED BY <1>1, <1>2, SignalKeeps DEF BroadcastStep

\* The beginning and the end of a broadcast.
LEMMA BroadcastEndsKeep ==
    ASSUME Inv, NEW t \in Threads,
           BroadcastEnd(t) \/ \E c \in Conds : CondBroadcast(t, c)
    PROVE  Inv'
  <1> USE DEF BroadcastEnd, CondBroadcast, At, Goto, Holds, rwlock
  <1>0. NULL \notin Threads /\ NULL \notin Conds
    BY MonitorAssumption
  <1>1. PICK l \in Locations, n \in Conds \cup {NULL} :
           pc' = [pc EXCEPT ![t] = l] /\ cond' = [cond EXCEPT ![t] = n]
    BY DEF Locations
  <1>2. TypeOK'
    BY <1>1 DEF Inv, TypeOK
  <1>3. Sections'
    BY <1>0 DEF Inv, TypeOK, Sections, SectionOK, ReadSection
  <1>4. \A u \in Threads : /\ Waiting(u)' = Waiting(u)
                           /\ Waiting(u) => cond'[u] = cond[u] /\ priority'[u] = priority[u]
    BY DEF Waiting, Inv, TypeOK
  <1>5. OneWakeupPerWait' /\ Arrivals'
    BY <1>4, WaitersFrame
  <1>6. WritersExcludeReaders'
    BY ReadersFrame DEF Inv
  <1> QED BY <1>2, <1>3, <1>5, <1>6 DEF Inv

-------------------------------------------------------------------------------
(* The steps of the reader-writer lock.                                    *)

\* They concern no thread that waits for a condition.
LEMMA NoWaiterMoves ==
    ASSUME Inv, NEW t \in Threads, NEW l, UNCHANGED condition,
           pc' = [pc EXCEPT ![t] = l], ~Waiting(t), l \notin {"wait_release", "wait_sema"}
    PROVE  OneWakeupPerWait' /\ Arrivals'
  <1>1. \A u \in Threads : /\ Waiting(u)' = Waiting(u)
                           /\ Waiting(u) => cond'[u] = cond[u] /\ priority'[u] = priority[u]
    BY DEF Waiting, Inv, TypeOK, condition
  <1> QED BY <1>1, WaitersFrame DEF condition

\* A new reader, and one that has gone.
LEMMA ReaderCounted ==
    ASSUME Inv, NEW t \in Threads
    PROVE  /\ inside[t] # "read" /\ inside' = [inside EXCEPT ![t] = "read"]
                 => Readers' = Readers \cup {t} /\ Cardinality(Readers') = read_count + 1
           /\ inside[t] = "read" /\ inside' = [inside EXCEPT ![t] = "none"]
                 => /\ Readers' = Readers \ {t} /\ Cardinality(Readers') = read_count - 1
                    /\ read_count \in Nat \ {0} /\ (read_count = 1 => Readers' = {})
  <1>1. IsFiniteSet(Readers) /\ read_count = Cardinality(Readers) /\ read_count \in Nat
    BY ReadersCount, FS_CardinalityType
  <1>2. inside \in [Threads -> {"none", "read", "write"}]
    BY DEF Inv, TypeOK
  <1>3. ASSUME inside[t] # "read", inside' = [inside EXCEPT ![t] = "read"]
        PROVE  Readers' = Readers \cup {t} /\ Cardinality(Readers') = read_count + 1
    <2>1. Readers' = Readers \cup {t} /\ t \notin Readers
      BY <1>2, <1>3 DEF Readers
    <2> QED BY <1>1, <2>1, FS_AddElement
  <1>4. ASSUME inside[t] = "read", inside' = [inside EXCEPT ![t] = "none"]
        PROVE  /\ Readers' = Readers \ {t} /\ Cardinality(Readers') = read_count - 1
               /\ read_count \in Nat \ {0} /\ (read_count = 1 => Readers' = {})
    <2>1. Readers' = Readers \ {t} /\ t \in Readers
      BY <1>2, <1>4 DEF Readers
    <2>2. IsFiniteSet(Readers') /\ Cardinality(Readers') = read_count - 1
      BY <1>1, <2>1, FS_RemoveElement
    <2>3. read_count # 0
      BY <2>1, ReadersCount
    <2>4. read_count = 1 => Readers' = {}
      BY <1>1, <2>2, FS_EmptySet
    <2> QED BY <1>1, <2>1, <2>2, <2>3, <2>4
  <1> QED BY <1>3, <1>4

\* The steps that only take or give up read_lock.
LEMMA ReadLockKeeps ==
    ASSUME Inv, NEW t \in Threads,
           ReadAcquire(t) \/ ReadAcquired(t) \/ ReadRelease(t) \/ ReadReleased(t)
    PROVE  Inv'
  <1>0. NULL \notin Threads /\ MonLock # ReadLock /\ ReadLock # WriteLock
    BY MonitorAssumption
  <1>1. PICK l \in {"read_acquire", "read_release", "client"}, o \in Threads \cup {NULL} :
           /\ pc' = [pc EXCEPT ![t] = l] /\ owner' = [owner EXCEPT ![ReadLock] = o]
           /\ UNCHANGED <<kernel, condition, rwlock>> /\ ~Waiting(t)
           /\ \/ pc[t] = "client" /\ l # "client" /\ owner[ReadLock] = NULL /\ o = t
              \/ pc[t] \in ReadSection /\ l = "client" /\ o = NULL
           /\ l = "read_acquire" => inside[t] = "none"
           /\ l = "read_release" => inside[t] = "read"
    BY DEF ReadAcquire, ReadAcquired, ReadRelease, ReadReleased, At, Goto, Lock!Grant,
           Lock!Release, Waiting, ReadSection
  <1>2. TypeOK'
    BY <1>1 DEF Inv, TypeOK, Locations, Locks, condition, rwlock
  <1>3. Sections'
    <2> SUFFICES ASSUME NEW u \in Threads PROVE SectionOK(u)'
      BY DEF Sections
    <2>1. SectionOK(u) /\ SectionOK(t)
      BY DEF Inv, Sections
    <2>2. owner'[MonLock] = owner[MonLock] /\ owner'[ReadLock] = o
      BY <1>0, <1>1 DEF Inv, TypeOK, Locks
    <2>3. CASE u = t
      BY <1>1, <2>1, <2>2, <2>3 DEF SectionOK, Inv, TypeOK, ReadSection, condition, rwlock
    <2>4. CASE u # t
      <3>1. pc'[u] = pc[u]
        BY <1>1, <2>4 DEF Inv, TypeOK
      <3>2. pc[u] \notin ReadSection
        BY <1>0, <1>1, <2>1, <2>4 DEF SectionOK
      <3> QED BY <1>1, <2>1, <2>2, <3>1, <3>2 DEF SectionOK, ReadSection, condition, rwlock
    <2> QED BY <2>3, <2>4
  <1>4. OneWakeupPerWait' /\ Arrivals'
    BY <1>1, NoWaiterMoves
  <1>5. WritersExcludeReaders'
    BY <1>0, <1>1, ReadersFrame DEF Inv, TypeOK, Locks
  <1> QED BY <1>2, <1>3, <1>4, <1>5 DEF Inv

\* A reader is counted.  The first one has write_lock then; for a later one a
\* reader inside shows that it is taken, and by no writer.
LEMMA CountKeeps ==
    ASSUME Inv, NEW t \in Threads, At(t, "read_acquire"), Count(t),
           \/ read_count = 0 /\ Lock!Grant(t, WriteLock)
           \/ read_count # 0 /\ UNCHANGED owner
    PROVE  Inv'
  <1>0. NULL \notin Threads /\ MonLock # WriteLock /\ ReadLock # WriteLock
    BY MonitorAssumption
  <1>1. /\ pc[t] = "read_acquire" /\ pc' = [pc EXCEPT ![t] = "read_acquired"]
        /\ inside' = [inside EXCEPT ![t] = "read"] /\ read_count' = read_count + 1
        /\ UNCHANGED <<kernel, condition>>
    BY DEF At, Count, Goto
  <1>2. inside[t] = "none" /\ owner[ReadLock] = t
    BY <1>1 DEF Inv, Sections, SectionOK, ReadSection
  <1>3. /\ \A l \in Locks \ {WriteLock} : owner'[l] = owner[l]
        /\ owner' \in [Locks -> Threads \cup {NULL}]
    BY DEF Lock!Grant, Inv, TypeOK
  <1>4. /\ inside'[t] = "read" /\ pc'[t] = "read_acquired"
        /\ \A u \in Threads : u # t => inside'[u] = inside[u] /\ pc'[u] = pc[u]
    BY <1>1 DEF Inv, TypeOK
  <1>5. /\ Readers' = Readers \cup {t} /\ read_count' = Cardinality(Readers')
        /\ read_count' \in 0 .. Cardinality(Threads)
    <2>1. read_count < Cardinality(Threads) /\ Cardinality(Threads) \in Nat
      BY <1>2, ReadersCount
    <2>2. read_count \in 0 .. Cardinality(Threads)
      BY DEF Inv, TypeOK
    <2>3. Readers' = Readers \cup {t} /\ Cardinality(Readers') = read_count + 1
      BY <1>1, <1>2, ReaderCounted
    <2>4. read_count' \in 0 .. Cardinality(Threads)
      BY <1>1, <2>1, <2>2
    <2> QED BY <1>1, <2>3, <2>4
  <1>6. TypeOK'
    BY <1>1, <1>3, <1>5 DEF Inv, TypeOK, Locations, condition
  <1>7. Sections'
    <2> SUFFICES ASSUME NEW u \in Threads PROVE SectionOK(u)'
      BY DEF Sections
    <2>1. SectionOK(u) /\ SectionOK(t)
      BY DEF Inv, Sections
    <2>2. owner'[MonLock] = owner[MonLock] /\ owner'[ReadLock] = owner[ReadLock]
      BY <1>0, <1>3 DEF Locks
    <2>3. cond' = cond /\ semaphore' = semaphore
      BY <1>1 DEF condition
    <2> QED BY <1>1, <1>2, <1>4, <2>1, <2>2, <2>3 DEF SectionOK, ReadSection
  <1>8. OneWakeupPerWait' /\ Arrivals'
    BY <1>1, NoWaiterMoves DEF Waiting
  <1>9. WritersExcludeReaders'
    <2>1. CASE read_count = 0 /\ Lock!Grant(t, WriteLock)
      <3>1. owner[WriteLock] = NULL /\ owner'[WriteLock] = t
        BY <2>1 DEF Lock!Grant, Inv, TypeOK, Locks
      <3>2. \A u \in Threads : inside'[u] # "write"
        BY <1>0, <1>4, <3>1 DEF Inv, WritersExcludeReaders, Holds
      <3> QED BY <1>0, <1>4, <1>5, <3>1, <3>2 DEF WritersExcludeReaders
    <2>2. CASE read_count # 0 /\ UNCHANGED owner
      <3>1. Readers # {}
        BY <2>2, ReadersCount
      <3>2. owner[WriteLock] # NULL /\ inside[owner[WriteLock]] # "write"
        BY <3>1 DEF Inv, WritersExcludeReaders
      <3>3. owner[WriteLock] \in Threads
        BY <3>2 DEF Inv, TypeOK, Locks
      <3>4. \A u \in Threads : inside'[u] # "write"
        BY <1>4, <3>2 DEF Inv, WritersExcludeReaders, Holds
      <3> QED BY <1>5, <2>2, <3>2, <3>3, <3>4 DEF WritersExcludeReaders
    <2> QED BY <2>1, <2>2
  <1> QED BY <1>6, <1>7, <1>8, <1>9 DEF Inv

\* A reader is taken off the count.  With the last one nobody is left inside.
LEMMA ReadUncountKeeps ==
    ASSUME Inv, NEW t \in Threads, ReadUncount(t) PROVE Inv'
  <1>0. NULL \notin Threads /\ MonLock # WriteLock /\ ReadLock # WriteLock
    BY MonitorAssumption
  <1> SUFFICES ASSUME ~AssertionFails PROVE Inv'
    BY AssertionKeeps
  <1>1. /\ pc[t] = "read_release" /\ pc' = [pc EXCEPT ![t] = "read_released"]
        /\ inside' = [inside EXCEPT ![t] = "none"] /\ read_count' = read_count - 1
        /\ UNCHANGED <<kernel, condition>>
        /\ \/ read_count = 1 /\ Lock!Release(WriteLock)
           \/ read_count # 1 /\ UNCHANGED owner
    BY DEF ReadUncount, At, Goto
  <1>2. inside[t] = "read" /\ owner[ReadLock] = t
    BY <1>1 DEF Inv, Sections, SectionOK, ReadSection
  <1>3. /\ \A l \in Locks \ {WriteLock} : owner'[l] = owner[l]
        /\ owner' \in [Locks -> Threads \cup {NULL}]
    BY <1>1 DEF Lock!Release, Inv, TypeOK
  <1>4. /\ inside'[t] = "none" /\ pc'[t] = "read_released"
        /\ \A u \in Threads : u # t => inside'[u] = inside[u] /\ pc'[u] = pc[u]
    BY <1>1 DEF Inv, TypeOK
  <1>5. /\ Readers' = Readers \ {t} /\ read_count' = Cardinality(Readers')
        /\ read_count = 1 => Readers' = {}
        /\ read_count' \in 0 .. Cardinality(Threads)
    <2>1. Cardinality(Threads) \in Nat /\ read_count \in 0 .. Cardinality(Threads)
      BY ReadersCount DEF Inv, TypeOK
    <2>2. /\ Readers' = Readers \ {t} /\ Cardinality(Readers') = read_count - 1
          /\ read_count # 0 /\ (read_count = 1 => Readers' = {})
      BY <1>1, <1>2, ReaderCounted
    <2>3. read_count' \in 0 .. Cardinality(Threads)
      BY <1>1, <2>1, <2>2
    <2> QED BY <1>1, <2>2, <2>3
  <1>6. TypeOK'
    BY <1>1, <1>3, <1>5 DEF Inv, TypeOK, Locations, condition
  <1>7. Sections'
    <2> SUFFICES ASSUME NEW u \in Threads PROVE SectionOK(u)'
      BY DEF Sections
    <2>1. SectionOK(u) /\ SectionOK(t)
      BY DEF Inv, Sections
    <2>2. owner'[MonLock] = owner[MonLock] /\ owner'[ReadLock] = owner[ReadLock]
      BY <1>0, <1>3 DEF Locks
    <2>3. cond' = cond /\ semaphore' = semaphore
      BY <1>1 DEF condition
    <2> QED BY <1>1, <1>2, <1>4, <2>1, <2>2, <2>3 DEF SectionOK, ReadSection
  <1>8. OneWakeupPerWait' /\ Arrivals'
    BY <1>1, NoWaiterMoves DEF Waiting
  <1>9. WritersExcludeReaders'
    <2>1. Readers # {}
      BY <1>2 DEF Readers
    <2>2. owner[WriteLock] # NULL /\ inside[owner[WriteLock]] # "write"
      BY <2>1 DEF Inv, WritersExcludeReaders
    <2>3. owner[WriteLock] \in Threads
      BY <2>2 DEF Inv, TypeOK, Locks
    <2>4. \A u \in Threads : inside'[u] # "write"
      BY <1>4, <2>2 DEF Inv, WritersExcludeReaders, Holds
    <2>5. Readers' # {} => owner' = owner
      BY <1>1, <1>5
    <2> QED BY <1>5, <2>2, <2>3, <2>4, <2>5 DEF WritersExcludeReaders
  <1> QED BY <1>6, <1>7, <1>8, <1>9 DEF Inv

\* A writer comes when write_lock is free, when no reader is inside, and leaves.
LEMMA WriterKeeps ==
    ASSUME Inv, NEW t \in Threads, WriteAcquire(t) \/ WriteRelease(t) PROVE Inv'
  <1>0. NULL \notin Threads /\ MonLock # WriteLock /\ ReadLock # WriteLock
    BY MonitorAssumption
  <1> SUFFICES ASSUME ~AssertionFails PROVE Inv'
    BY AssertionKeeps DEF WriteAcquire
  <1>1. PICK i \in {"none", "write"}, o \in Threads \cup {NULL} :
           /\ pc[t] = "client" /\ inside' = [inside EXCEPT ![t] = i]
           /\ owner' = [owner EXCEPT ![WriteLock] = o]
           /\ UNCHANGED <<kernel, pc, condition, read_count>>
           /\ \/ inside[t] = "none" /\ i = "write" /\ o = t /\ owner[WriteLock] = NULL
              \/ inside[t] = "write" /\ i = "none" /\ o = NULL
    BY DEF WriteAcquire, WriteRelease, At, Lock!Grant, Lock!Release
  <1>2. TypeOK'
    BY <1>1 DEF Inv, TypeOK, condition
  <1>3. /\ owner'[WriteLock] = o /\ owner'[MonLock] = owner[MonLock]
        /\ owner'[ReadLock] = owner[ReadLock]
    BY <1>0, <1>1 DEF Inv, TypeOK, Locks
  <1>4. /\ inside'[t] = i
        /\ \A u \in Threads : u # t => inside'[u] = inside[u]
    BY <1>1 DEF Inv, TypeOK
  <1>5. Sections'
    BY <1>1, <1>3, <1>4 DEF Inv, Sections, SectionOK, ReadSection, condition
  <1>6. OneWakeupPerWait' /\ Arrivals'
    BY <1>1, WaitersFrame DEF Waiting, condition
  <1>7. Readers' = Readers
    BY <1>1, <1>4 DEF Readers
  <1>8. Readers = {}
    BY <1>1 DEF Inv, WritersExcludeReaders, Holds
  <1>9. \A u \in Threads : u # t => inside'[u] # "write"
    BY <1>0, <1>1, <1>4 DEF Inv, WritersExcludeReaders, Holds
  <1>10. WritersExcludeReaders'
    <2>1. read_count' = Cardinality(Readers')
      BY <1>1, <1>7 DEF Inv, WritersExcludeReaders
    <2> QED BY <1>1, <1>3, <1>4, <1>7, <1>8, <1>9, <2>1 DEF WritersExcludeReaders, Holds
  <1> QED BY <1>2, <1>5, <1>6, <1>10 DEF Inv

-------------------------------------------------------------------------------
(* The invariant.                                                          *)

LEMMA InitInv == Init => Inv
  <1> SUFFICES ASSUME Init PROVE Inv
    OBVIOUS
  <1> USE DEF Init, Lock!Init
  <1>0. NULL \notin Threads \cup Conds /\ PriMax \in Nat /\ IsFiniteSet(Threads)
    BY MonitorAssumption
  <1>1. TypeOK
    <2>1. Cardinality(Threads) \in Nat
      BY <1>0, FS_CardinalityType
    <2> QED BY <1>0, <2>1 DEF TypeOK, Priorities, Locations
  <1>2. Sections
    BY <1>0 DEF Sections, SectionOK, ReadSection
  <1>3. \A c \in Conds : /\ waiters[c] = <<>> /\ arrived[c] = <<>> /\ Len(waiters[c]) = 0
                         /\ ToSet(waiters[c]) = {} /\ IsInjective(waiters[c])
    BY EmptySeq DEF ToSet, IsInjective
  <1>4. OneWakeupPerWait
    BY <1>3 DEF OneWakeupPerWait, Waiting
  <1>5. Arrivals
    BY <1>3 DEF Arrivals, NoDuplicates
  <1>6. WritersExcludeReaders
    <2>1. Readers = {}
      BY DEF Readers
    <2> QED BY <2>1, FS_EmptySet DEF WritersExcludeReaders
  <1> QED BY <1>1, <1>2, <1>4, <1>5, <1>6 DEF Inv

LEMMA StepInv == Inv /\ [Next]_vars => Inv'
  <1> SUFFICES ASSUME Inv, [Next]_vars PROVE Inv'
    OBVIOUS
  <1>1. CASE UNCHANGED vars
    <2> USE <1>1 DEF vars, condition, rwlock
    <2>1. OneWakeupPerWait' /\ Arrivals'
      BY WaitersFrame DEF Waiting
    <2>2. WritersExcludeReaders'
      BY ReadersFrame DEF Inv
    <2>3. TypeOK' /\ Sections'
      BY DEF Inv, TypeOK, Sections, SectionOK
    <2> QED BY <2>1, <2>2, <2>3 DEF Inv
  <1>2. ASSUME NEW t \in Threads, Step(t) PROVE Inv'
    <2>1. CASE Enter(t) \/ Leave(t)
      BY <2>1, EnterLeaveKeeps
    <2>2. CASE \E c \in Conds : CondWait(t, c)
      BY <2>2, CondWaitKeeps
    <2>3. CASE WaitRelease(t)
      BY <2>3, WaitReleaseKeeps
    <2>4. CASE WaitWake(t)
      BY <2>4, WaitWakeKeeps
    <2>5. CASE WaitAcquire(t)
      BY <2>5, WaitAcquireKeeps
    <2>6. CASE \E c \in Conds : CondSignal(t, c)
      BY <2>6, CondSignalKeeps
    <2>7. CASE BroadcastEnd(t) \/ \E c \in Conds : CondBroadcast(t, c)
      BY <2>7, BroadcastEndsKeep
    <2>8. CASE BroadcastStep(t)
      BY <2>8, BroadcastStepKeeps
    <2>9. CASE ReadAcquire(t) \/ ReadAcquired(t) \/ ReadRelease(t) \/ ReadReleased(t)
      BY <2>9, ReadLockKeeps
    <2>10. CASE ReadFirst(t)
      BY <2>10, CountKeeps, AssertionKeeps DEF ReadFirst
    <2>11. CASE ReadLater(t)
      BY <2>11, CountKeeps DEF ReadLater
    <2>12. CASE ReadUncount(t)
      BY <2>12, ReadUncountKeeps
    <2>13. CASE WriteAcquire(t) \/ WriteRelease(t)
      BY <2>13, WriterKeeps
    <2>14. CASE Donation(t)
      BY <2>14, DonationKeeps
    <2> QED BY <1>2, <2>1, <2>2, <2>3, <2>4, <2>5, <2>6, <2>7, <2>8, <2>9, <2>10, <2>11,
               <2>12, <2>13, <2>14 DEF Step
  <1> QED BY <1>1, <1>2 DEF Next

LEMMA InvHolds == Spec => []Inv
  BY InitInv, StepInv, PTL DEF Spec

\* What is in the variables is what their comments say; in particular no semaphore
\* of a waiter is upped twice and read_count counts no more readers than threads.
THEOREM MonitorTypes == Spec => []TypeOK
  <1>1. Inv => TypeOK
    BY DEF Inv
  <1> QED BY <1>1, InvHolds, PTL

\* cond_wait, cond_signal and cond_broadcast lose no wake-up and send none twice.
THEOREM WakeupsCorrect == Spec => []OneWakeupPerWait
  <1>1. Inv => OneWakeupPerWait
    BY DEF Inv
  <1> QED BY <1>1, InvHolds, PTL

\* The reader-writer lock: a writer is alone, and the readers are counted.
THEOREM ReadersAndWriters == Spec => []WritersExcludeReaders
  <1>1. Inv => WritersExcludeReaders
    BY DEF Inv
  <1> QED BY <1>1, InvHolds, PTL

-------------------------------------------------------------------------------
(* The order of signals.                                                   *)

\* Who comes before another in the history has the smaller place.
LEMMA PlaceOrder ==
    ASSUME Inv, NEW c \in Conds, NEW t \in ToSet(waiters[c]), NEW u \in ToSet(waiters[c]),
           t = u \/ Before(arrived[c], t, u)
    PROVE  Place(c, t) <= Place(c, u)
  <1>1. /\ Place(c, t) \in 1 .. Len(arrived[c]) /\ arrived[c][Place(c, t)] = t
        /\ Place(c, u) \in 1 .. Len(arrived[c]) /\ arrived[c][Place(c, u)] = u
    BY HasPlace
  <1>2. arrived[c] \in Seq(Threads) /\ NoDuplicates(arrived[c])
    BY WaiterList
  <1>3. \A i, j \in 1 .. Len(arrived[c]) : arrived[c][i] = arrived[c][j] => i = j
    BY <1>2, LenProperties DEF NoDuplicates, IsInjective
  <1>4. Len(arrived[c]) \in Nat
    BY <1>2, LenProperties
  <1>5. CASE t = u
    BY <1>1, <1>4, <1>5
  <1>6. CASE Before(arrived[c], t, u)
    <2>1. PICK i, j \in 1 .. Len(arrived[c]) :
             i < j /\ arrived[c][i] = t /\ arrived[c][j] = u
      BY <1>6 DEF Before
    <2>2. Place(c, t) = i /\ Place(c, u) = j
      BY <1>1, <1>3, <2>1
    <2> QED BY <1>4, <2>1, <2>2
  <1> QED BY <1>5, <1>6

\* What one step may wake, and which steps do.
InOrderStep ==
    \A t \in Threads : semaphore[t] = 0 /\ semaphore'[t] = 1 =>
        \A u \in ToSet(waiters[cond[t]]) :
           \/ priority[u] < priority[t]
           \/ priority[u] = priority[t] /\ Place(cond[t], t) <= Place(cond[t], u)

LEMMA SignalInOrder ==
    ASSUME Inv, NEW c \in Conds, waiters[c] # <<>>, SignalFront(c), UNCHANGED priority
    PROVE  InOrderStep
  <1>1. PICK h \in ToSet(waiters[c]) :
           /\ semaphore' = [semaphore EXCEPT ![h] = 1]
           /\ \A u \in ToSet(waiters[c]) :
                 \/ priority[u] < priority[h]
                 \/ priority[u] = priority[h] /\ (u = h \/ Before(arrived[c], h, u))
    BY SignalStep
  <1>2. h \in Threads /\ cond[h] = c
    BY WaiterList
  <1>3. \A t \in Threads : semaphore[t] = 0 /\ semaphore'[t] = 1 => t = h
    BY <1>1 DEF Inv, TypeOK
  <1>4. \A u \in ToSet(waiters[c]) :
           \/ priority[u] < priority[h]
           \/ priority[u] = priority[h] /\ Place(c, h) <= Place(c, u)
    BY <1>1, PlaceOrder
  <1> QED BY <1>2, <1>3, <1>4 DEF InOrderStep

\* Every other step ups no semaphore.
LEMMA OtherStepsSignalNone ==
    ASSUME Inv, NEW t \in Threads, Step(t)
    PROVE  \/ \A u \in Threads : semaphore[u] = 0 => semaphore'[u] = 0
           \/ \E c \in Conds : waiters[c] # <<>> /\ SignalFront(c) /\ UNCHANGED priority
  <1>1. CASE \/ Enter(t) \/ Leave(t) \/ \E c \in Conds : CondWait(t, c)
             \/ WaitRelease(t) \/ Donation(t)
    BY <1>1 DEF Enter, Leave, CondWait, WaitRelease, Donation, condition
  <1>2. CASE WaitWake(t)
    BY <1>2 DEF WaitWake, Inv, TypeOK
  <1>3. CASE \/ WaitAcquire(t) \/ BroadcastEnd(t)
             \/ \E c \in Conds : CondBroadcast(t, c)
    BY <1>3 DEF WaitAcquire, CondBroadcast, BroadcastEnd
  <1>4. CASE \E c \in Conds : CondSignal(t, c)
    BY <1>4 DEF CondSignal
  <1>5. CASE BroadcastStep(t)
    <2>1. cond[t] \in Conds
      BY <1>5 DEF BroadcastStep, At, Inv, Sections, SectionOK
    <2> QED BY <1>5, <2>1 DEF BroadcastStep
  <1>6. CASE \/ ReadAcquire(t) \/ ReadAcquired(t) \/ ReadRelease(t) \/ ReadReleased(t)
             \/ WriteAcquire(t) \/ WriteRelease(t)
    BY <1>6 DEF ReadAcquire, ReadAcquired, ReadRelease, ReadReleased, WriteAcquire,
                WriteRelease, AssertionFails, condition
  <1>7. CASE ReadFirst(t) \/ ReadLater(t) \/ ReadUncount(t)
    BY <1>7 DEF ReadFirst, ReadLater, ReadUncount, Count, AssertionFails, condition
  <1> QED BY <1>1, <1>2, <1>3, <1>4, <1>5, <1>6, <1>7 DEF Step

\* cond_signal and cond_broadcast wake by the priorities that were stored, and by
\* arrival among equals: among waiters whose priority is the stored one the right
\* one is woken, however signals, waits and donations interleave.
THEOREM SignalsInOrder == Spec => SignalOrder
  <1>1. Inv /\ [Next]_vars => [InOrderStep]_vars
    <2> SUFFICES ASSUME Inv, Next PROVE InOrderStep
      OBVIOUS
    <2>1. PICK t \in Threads : Step(t)
      BY DEF Next
    <2>2. CASE \A u \in Threads : semaphore[u] = 0 => semaphore'[u] = 0
      BY <2>2 DEF InOrderStep
    <2>3. CASE \E c \in Conds : waiters[c] # <<>> /\ SignalFront(c) /\ UNCHANGED priority
      BY <2>3, SignalInOrder
    <2> QED BY <2>1, <2>2, <2>3, OtherStepsSignalNone
  <1>2. [InOrderStep]_vars =>
           [\A t \in Threads : semaphore[t] = 0 /\ semaphore'[t] = 1 =>
              \A u \in ToSet(waiters[cond[t]]) :
                 current[t] = priority[t] /\ current[u] = priority[u] => GoesFirst(t, u)]_vars
    BY DEF InOrderStep, GoesFirst
  <1> QED BY <1>1, <1>2, InvHolds, PTL DEF Spec, SignalOrder

-------------------------------------------------------------------------------
(* The refinement.                                                         *)

\* Who waits and who is woken, to a client of the monitor.
Asleep == [c \in Conds |-> {t \in ToSet(waiters[c]) : At(t, "wait_sema")}]
Woken == {t \in Threads : At(t, "wait_acquire") \/ (At(t, "wait_sema") /\ semaphore[t] = 1)}
Abstract == <<owner[MonLock], Asleep, Woken>>

\* A signal, by whoever holds the lock.
LEMMA SignalRefines ==
    ASSUME Inv, NEW t \in Threads, NEW c \in Conds, waiters[c] # <<>>, SignalFront(c),
           owner[MonLock] = t, pc[t] # "wait_release", UNCHANGED <<owner, pc, priority>>
    PROVE  \E u \in Threads : /\ u \in Asleep[c] /\ owner'[MonLock] = owner[MonLock]
                              /\ Asleep' = [Asleep EXCEPT ![c] = @ \ {u}]
                              /\ Woken' = Woken \cup {u}
  <1>1. PICK h \in ToSet(waiters[c]) :
              /\ semaphore' = [semaphore EXCEPT ![h] = 1]
              /\ ToSet(waiters'[c]) = ToSet(waiters[c]) \ {h}
              /\ \A d \in Conds \ {c} : waiters'[d] = waiters[d]
    BY SignalStep
  <1>2. h \in Threads /\ pc[h] = "wait_sema"
    <2>1. h \in Threads /\ Waiting(h)
      BY WaiterList
    <2>2. pc[h] # "wait_release"
      BY <2>1 DEF Inv, Sections, SectionOK
    <2> QED BY <2>1, <2>2 DEF Waiting
  <1>3. h \in Asleep[c]
    BY <1>1, <1>2 DEF Asleep, At
  <1>4. Asleep' = [Asleep EXCEPT ![c] = @ \ {h}]
    BY <1>1 DEF Asleep, At
  <1>5. Woken' = Woken \cup {h}
    BY <1>1, <1>2 DEF Woken, At, Inv, TypeOK
  <1> QED BY <1>2, <1>3, <1>4, <1>5

\* A step that moves nobody to or from these places is not seen.
LEMMA Unseen ==
    ASSUME UNCHANGED <<waiters, semaphore>>, owner'[MonLock] = owner[MonLock],
           \A u \in Threads : \A l \in {"wait_sema", "wait_acquire"} : At(u, l)' = At(u, l),
           \A c \in Conds : ToSet(waiters[c]) \subseteq Threads
    PROVE  UNCHANGED Abstract
  <1>1. Asleep' = Asleep
    BY DEF Asleep
  <1>2. Woken' = Woken
    BY DEF Woken
  <1> QED BY <1>1, <1>2 DEF Abstract

LEMMA StepRefines ==
    ASSUME Inv, NEW t \in Threads, Step(t) PROVE Mesa!Next \/ UNCHANGED Abstract
  <1>0. /\ NULL \notin Threads /\ MonLock # ReadLock /\ MonLock # WriteLock
        /\ pc \in [Threads -> Locations] /\ owner \in [Locks -> Threads \cup {NULL}]
        /\ MonLock \in Locks
    BY MonitorAssumption DEF Inv, TypeOK, Locks
  <1>00. \A c \in Conds : ToSet(waiters[c]) \subseteq Threads
    BY WaiterList
  <1>1. CASE Enter(t)
    <2>1. /\ owner[MonLock] = NULL /\ owner'[MonLock] = t /\ pc[t] = "client"
          /\ UNCHANGED <<waiters, semaphore, pc>>
      BY <1>0, <1>1 DEF Enter, At, Lock!Grant, condition
    <2>2. Asleep' = Asleep /\ Woken' = Woken
      BY <2>1 DEF Asleep, Woken, At
    <2>3. t \notin Woken /\ \A c \in Conds : t \notin Asleep[c]
      BY <2>1 DEF Asleep, Woken, At
    <2> QED BY <2>1, <2>2, <2>3 DEF Mesa!Next, Mesa!Enter, Asleep, Woken
  <1>2. CASE Leave(t)
    <2>1. /\ owner[MonLock] = t /\ owner'[MonLock] = NULL
          /\ UNCHANGED <<waiters, semaphore, pc>>
      BY <1>0, <1>2 DEF Leave, At, Holds, Lock!Release, condition
    <2>2. Asleep' = Asleep /\ Woken' = Woken
      BY <2>1 DEF Asleep, Woken, At
    <2> QED BY <2>1, <2>2 DEF Mesa!Next, Mesa!Leave, Asleep, Woken
  <1>3. CASE \E c \in Conds : CondWait(t, c)
    <2>1. PICK c \in Conds : CondWait(t, c)
      BY <1>3
    <2>2. /\ pc[t] = "client" /\ pc' = [pc EXCEPT ![t] = "wait_release"]
          /\ waiters' = [waiters EXCEPT ![c] = Append(@, t)] /\ UNCHANGED <<owner, semaphore>>
      BY <2>1 DEF CondWait, At, Goto
    <2>3. waiters[c] \in Seq(Threads) /\ waiters \in [Conds -> Seq(Threads)]
      BY DEF Inv, TypeOK
    <2>4. /\ ToSet(waiters'[c]) = ToSet(waiters[c]) \cup {t}
          /\ \A d \in Conds \ {c} : waiters'[d] = waiters[d]
      BY <2>2, <2>3, PushBack
    <2>5. /\ pc'[t] = "wait_release"
          /\ \A u \in Threads : u # t => pc'[u] = pc[u]
      BY <1>0, <2>2
    <2>6. Asleep' = Asleep
      <3>1. ASSUME NEW d \in Conds PROVE Asleep'[d] = Asleep[d]
        BY <1>00, <2>2, <2>4, <2>5 DEF Asleep, At
      <3> QED BY <3>1 DEF Asleep
    <2>7. Woken' = Woken
      BY <2>2, <2>5 DEF Woken, At
    <2> QED BY <2>2, <2>6, <2>7 DEF Abstract
  <1>4. CASE WaitRelease(t)
    <2>1. /\ owner[MonLock] = t /\ owner'[MonLock] = NULL /\ pc[t] = "wait_release"
          /\ pc' = [pc EXCEPT ![t] = "wait_sema"] /\ UNCHANGED <<waiters, semaphore>>
      BY <1>0, <1>4 DEF WaitRelease, At, Goto, Lock!Release, condition, Inv, Sections, SectionOK
    <2>2. /\ cond[t] \in Conds /\ semaphore[t] = 0 /\ t \in ToSet(waiters[cond[t]])
          /\ \A c \in Conds : t \in ToSet(waiters[c]) => c = cond[t]
      <3>1. cond[t] \in Conds /\ semaphore[t] = 0 /\ Waiting(t)
        BY <2>1 DEF Inv, Sections, SectionOK, Waiting
      <3>2. t \in ToSet(waiters[cond[t]])
        BY <3>1, WaiterState
      <3>3. \A c \in Conds : t \in ToSet(waiters[c]) => c = cond[t]
        BY WaiterList
      <3> QED BY <3>1, <3>2, <3>3
    <2>3. /\ pc'[t] = "wait_sema"
          /\ \A u \in Threads : u # t => pc'[u] = pc[u]
      BY <1>0, <2>1
    <2>4. Asleep' = [Asleep EXCEPT ![cond[t]] = @ \cup {t}]
      <3>1. ASSUME NEW d \in Conds
            PROVE  Asleep'[d] = IF d = cond[t] THEN Asleep[d] \cup {t} ELSE Asleep[d]
        BY <1>00, <2>1, <2>2, <2>3 DEF Asleep, At
      <3> QED BY <3>1, <2>2 DEF Asleep
    <2>5. Woken' = Woken
      BY <2>1, <2>2, <2>3 DEF Woken, At
    <2> QED BY <2>1, <2>2, <2>4, <2>5 DEF Mesa!Next, Mesa!Wait, Asleep, Woken
  <1>5. CASE WaitWake(t)
    <2>1. /\ pc[t] = "wait_sema" /\ semaphore[t] = 1 /\ pc' = [pc EXCEPT ![t] = "wait_acquire"]
          /\ semaphore' = [semaphore EXCEPT ![t] = 0] /\ UNCHANGED <<owner, waiters>>
      BY <1>5 DEF WaitWake, At, Goto
    <2>2. \A c \in Conds : t \notin ToSet(waiters[c])
      BY <2>1, WaiterState
    <2>3. /\ pc'[t] = "wait_acquire"
          /\ \A u \in Threads : u # t => pc'[u] = pc[u] /\ semaphore'[u] = semaphore[u]
      BY <1>0, <2>1 DEF Inv, TypeOK
    <2>4. Asleep' = Asleep
      <3>1. ASSUME NEW d \in Conds PROVE Asleep'[d] = Asleep[d]
        BY <1>00, <2>1, <2>2, <2>3 DEF Asleep, At
      <3> QED BY <3>1 DEF Asleep
    <2>5. Woken' = Woken
      BY <2>1, <2>3 DEF Woken, At
    <2> QED BY <2>1, <2>4, <2>5 DEF Abstract
  <1>6. CASE WaitAcquire(t)
    <2>1. /\ owner[MonLock] = NULL /\ owner'[MonLock] = t /\ pc[t] = "wait_acquire"
          /\ pc' = [pc EXCEPT ![t] = "client"] /\ UNCHANGED <<waiters, semaphore>>
      BY <1>0, <1>6 DEF WaitAcquire, At, Goto, Lock!Grant
    <2>2. \A c \in Conds : t \notin ToSet(waiters[c])
      BY <2>1, WaiterState DEF Waiting
    <2>3. /\ pc'[t] = "client"
          /\ \A u \in Threads : u # t => pc'[u] = pc[u]
      BY <1>0, <2>1
    <2>4. Asleep' = Asleep
      <3>1. ASSUME NEW d \in Conds PROVE Asleep'[d] = Asleep[d]
        BY <1>00, <2>1, <2>2, <2>3 DEF Asleep, At
      <3> QED BY <3>1 DEF Asleep
    <2>5. Woken' = Woken \ {t}
      BY <2>1, <2>3 DEF Woken, At
    <2>6. \A c \in Conds : t \notin Asleep[c]
      BY <2>2 DEF Asleep
    <2> QED BY <2>1, <2>4, <2>5, <2>6 DEF Mesa!Next, Mesa!Enter, Asleep, Woken
  <1>7. ASSUME NEW c \in Conds, waiters[c] # <<>>, SignalFront(c), owner[MonLock] = t,
               pc[t] # "wait_release", UNCHANGED <<owner, pc, priority>>
        PROVE  Mesa!Next
    <2>1. PICK u \in Threads : /\ u \in Asleep[c] /\ owner'[MonLock] = owner[MonLock]
                              /\ Asleep' = [Asleep EXCEPT ![c] = @ \ {u}]
                              /\ Woken' = Woken \cup {u}
      BY <1>7, SignalRefines
    <2> QED BY <1>7, <2>1 DEF Mesa!Next, Mesa!Signal, Asleep, Woken
  <1>8. CASE \E c \in Conds : CondSignal(t, c)
    BY <1>7, <1>8 DEF CondSignal, At, Holds
  <1>9. CASE BroadcastStep(t)
    <2>1. cond[t] \in Conds /\ owner[MonLock] = t
      BY <1>9 DEF BroadcastStep, At, Inv, Sections, SectionOK
    <2> QED BY <1>7, <1>9, <2>1 DEF BroadcastStep, At
  <1>10. CASE BroadcastEnd(t) \/ \E c \in Conds : CondBroadcast(t, c)
    BY <1>0, <1>00, <1>10, Unseen DEF BroadcastEnd, CondBroadcast, At, Goto
  <1>11. CASE ReadAcquire(t) \/ ReadAcquired(t) \/ ReadRelease(t) \/ ReadReleased(t)
    BY <1>0, <1>00, <1>11, Unseen DEF ReadAcquire, ReadAcquired, ReadRelease, ReadReleased, At,
       Goto, Lock!Grant, Lock!Release, condition
  <1>12. CASE ReadFirst(t) \/ ReadLater(t) \/ ReadUncount(t)
    <2>1. CASE AssertionFails
      BY <1>00, <2>1, Unseen DEF AssertionFails, condition, At
    <2>2. CASE ~AssertionFails
      BY <1>0, <1>00, <1>12, <2>2, Unseen DEF ReadFirst, ReadLater, ReadUncount, Count, At,
         Goto, Lock!Grant, Lock!Release, condition
    <2> QED BY <2>1, <2>2
  <1>13. CASE WriteAcquire(t) \/ WriteRelease(t)
    BY <1>0, <1>00, <1>13, Unseen DEF WriteAcquire, WriteRelease, AssertionFails, At,
       Lock!Grant, Lock!Release, condition
  <1>14. CASE Donation(t)
    BY <1>00, <1>14, Unseen DEF Donation, At
  <1> QED BY <1>1, <1>2, <1>3, <1>4, <1>5, <1>6, <1>8, <1>9, <1>10, <1>11, <1>12, <1>13, <1>14
          DEF Step

\* The condition variables are a Mesa monitor: although cond_wait puts the waiter
\* in the list, releases the lock and goes to sleep in three steps, to everybody
\* else it is one.
THEOREM MonitorImplementsMesa == Spec => ImplementsMonitor
  <1> DEFINE abstract == <<owner[MonLock],
                           [c \in Conds |-> {t \in ToSet(waiters[c]) : At(t, "wait_sema")}],
                           {t \in Threads : \/ At(t, "wait_acquire")
                                            \/ At(t, "wait_sema") /\ semaphore[t] = 1}>>
  <1>1. Init => Mesa!Init
    <2> SUFFICES ASSUME Init PROVE Mesa!Init
      OBVIOUS
    <2>1. owner[MonLock] = NULL /\ \A t \in Threads : pc[t] = "client"
      BY DEF Init, Lock!Init, Locks
    <2>2. \A c \in Conds : ToSet(waiters[c]) = {}
      BY EmptySeq DEF Init, ToSet
    <2> QED BY <2>1, <2>2 DEF Mesa!Init, At
  <1>2. Inv /\ [Next]_vars => [Mesa!Next]_abstract
    <2>1. ASSUME Inv, Next PROVE Mesa!Next \/ UNCHANGED Abstract
      BY <2>1, StepRefines DEF Next
    <2>2. ASSUME UNCHANGED vars PROVE UNCHANGED Abstract
      BY <2>2 DEF vars, condition, Abstract, Asleep, Woken, At
    <2> QED BY <2>1, <2>2 DEF Abstract, Asleep, Woken
  <1> QED BY <1>1, <1>2, InvHolds, PTL DEF Spec, ImplementsMonitor, Mesa!Spec

===============================================================================
