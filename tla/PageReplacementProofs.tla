------------------------- MODULE PageReplacementProofs -------------------------
(***************************************************************************)
(* Proofs about the page replacement policies.  Inv describes the list of  *)
(* every policy; from it follow the type invariant, the order of the lists *)
(* of LFU and LRU, what the clock spares, and that each policy implements  *)
(* demand paging, for every number of pages and every file.                *)
(***************************************************************************)
EXTENDS PageReplacement, KernelListProofs, WellFoundedInduction

LfuNode == [address : Address, count : Nat \ {0}]
ClockNode == [address : Address, useBit : Nat, insertTime : Nat]

Policy(lists) ==
    [list : lists, present : SUBSET Address, faults : Nat, state : {"ok", "headless", "crashed"}]

Types ==
    /\ fifo \in Policy(Seq(Address)) /\ lru \in Policy(Seq(Address))
    /\ lfu \in Policy(Seq(LfuNode)) /\ clock \in Policy(Seq(ClockNode))

\* The order that update_count keeps.
Sorted(list) == \A j, k \in 1 .. Len(list) : j < k => list[j].count <= list[k].count

\* The last reference of the file is resident: processing it again is a hit.
Recent ==
    file # <<>> =>
        /\ Last(file) \in fifo.present /\ Last(file) \in lfu.present
        /\ lru.state # "crashed" => Last(file) \in lru.present
        /\ clock.state # "crashed" => Last(file) \in clock.present

\* How the list of LRU can have lost its head.
Headless ==
    lru.state # "ok" => \/ pages = 1
                        \/ Len(file) = 1 /\ atEnd
                        \/ Len(file) >= 2 /\ file[1] = file[2]

\* A page used since the last sweep has a use bit that is not 0.
UseBits ==
    clock.state # "crashed" =>
        \A k \in 1 .. Len(clock.list) :
            clock.list[k].address \in UsedSinceSweep => clock.list[k].useBit >= 1

Inv == TypeOK /\ Types /\ Sorted(lfu.list) /\ LRUExact /\ Recent /\ Headless /\ UseBits

(***************************************************************************)
(* Lists of nodes and of addresses.                                        *)
(***************************************************************************)
\* A set of numbers that is not empty has a least element.
LEMMA LeastOf ==
    ASSUME NEW T, T \subseteq Nat, T # {}
    PROVE  Min(T) \in T /\ \A j \in T : Min(T) <= j
  <1> DEFINE R == {ss \in Nat \X Nat : ss[1] < ss[2]}
  <1>1. IsWellFoundedOn(R, Nat)
    BY NatLessThanWellFounded DEF OpToRel
  <1> HIDE DEF R
  <1>2. PICK x \in T : \A y \in T : ~ (<<y, x>> \in R)
    BY <1>1, WFMin
  <1>3. ASSUME NEW y \in T PROVE x <= y
    <2>1. x \in Nat /\ y \in Nat /\ <<y, x>> \notin R
      BY <1>2
    <2>2. <<y, x>> \in Nat \X Nat /\ <<y, x>>[1] = y /\ <<y, x>>[2] = x
      BY <2>1
    <2>3. ~ (<<y, x>>[1] < <<y, x>>[2])
      <3> DEFINE e == <<y, x>>
      <3>1. e \in Nat \X Nat /\ e \notin R
        BY <2>1, <2>2
      <3> HIDE DEF e
      <3>2. ~ (e[1] < e[2])
        BY <3>1 DEF R
      <3> QED BY <3>2 DEF e
    <2>4. ~ (y < x)
      BY <2>2, <2>3
    <2> QED BY <2>1, <2>4
  <1> QED BY <1>3 DEF Min

\* S is a type of nodes.
Nodes(S) == \A n \in S : n.address \in Address

LEMMA NodeTypes == Nodes(LfuNode) /\ Nodes(ClockNode)
  BY DEF Nodes, LfuNode, ClockNode

\* The addresses of a list of nodes.
LEMMA AddressesOf ==
    ASSUME NEW S, Nodes(S), NEW s \in Seq(S), NEW a, a = Addresses(s)
    PROVE  /\ a \in Seq(Address) /\ Len(a) = Len(s)
           /\ \A k \in 1 .. Len(s) : a[k] = s[k].address
           /\ \A x : x \in ToSet(a) <=> \E k \in 1 .. Len(s) : s[k].address = x
           /\ NoDuplicates(a) <=>
                 \A j, k \in 1 .. Len(s) : s[j].address = s[k].address => j = k
  <1>1. Len(s) \in Nat /\ DOMAIN s = 1 .. Len(s) /\ \A k \in 1 .. Len(s) : s[k] \in S
    BY LenProperties, ElementOfSeq
  <1>2. a \in [1 .. Len(s) -> Address]
    BY <1>1 DEF Addresses, Nodes
  <1>3. a \in Seq(Address) /\ Len(a) = Len(s)
    BY <1>1, <1>2, FunctionIsList
  <1>4. \A k \in 1 .. Len(s) : a[k] = s[k].address
    BY <1>1 DEF Addresses
  <1>5. \A x : x \in ToSet(a) <=> \E k \in 1 .. Len(s) : s[k].address = x
    BY <1>3, <1>4, MemberOfList
  <1>6. NoDuplicates(a) <=>
            \A j, k \in 1 .. Len(s) : s[j].address = s[k].address => j = k
    BY <1>2, <1>4 DEF NoDuplicates, IsInjective
  <1> QED BY <1>3, <1>4, <1>5, <1>6

\* A list without duplicates has as many elements as places.
LEMMA CountOfList ==
    ASSUME NEW S, NEW s \in Seq(S), NoDuplicates(s)
    PROVE  IsFiniteSet(ToSet(s)) /\ Cardinality(ToSet(s)) = Len(s)
  <1>1. Len(s) \in Nat /\ DOMAIN s = 1 .. Len(s)
    BY LenProperties
  <1>2. s \in Bijection(1 .. Len(s), ToSet(s))
    BY <1>1 DEF Bijection, Injection, Surjection, ToSet, NoDuplicates, IsInjective
  <1>3. ExistsBijection(1 .. Len(s), ToSet(s))
    BY <1>2 DEF ExistsBijection
  <1>4. IsFiniteSet(1 .. Len(s)) /\ Cardinality(1 .. Len(s)) = Len(s)
    <2>1. 1 \in Int /\ Len(s) \in Int /\ (1 > Len(s) => Len(s) = 0)
      BY <1>1
    <2>2. /\ IsFiniteSet(1 .. Len(s))
          /\ Cardinality(1 .. Len(s)) = IF 1 > Len(s) THEN 0 ELSE Len(s) - 1 + 1
      BY <2>1, FS_Interval
    <2> QED BY <1>1, <2>1, <2>2
  <1> QED BY <1>3, <1>4, FS_Bijection

\* The list b that has i in front of the elements of a, without the m-th if
\* there is one.
InFront(a, i, m, b) ==
    /\ Len(b) = (IF m <= Len(a) THEN Len(a) ELSE Len(a) + 1) /\ b[1] = i
    /\ \A k \in 2 .. Len(b) : b[k] = IF k - 1 < m THEN a[k - 1] ELSE a[k]

LEMMA LoadedInFront ==
    ASSUME NEW S, NEW a \in Seq(S), NoDuplicates(a), NEW i \in S, i \notin ToSet(a),
           NEW m \in 1 .. Len(a) + 1, NEW b \in Seq(S), InFront(a, i, m, b)
    PROVE  /\ NoDuplicates(b)
           /\ ToSet(b) = (ToSet(a) \cup {i}) \ (IF m <= Len(a) THEN {a[m]} ELSE {})
  <1>1. /\ Len(a) \in Nat /\ DOMAIN a = 1 .. Len(a) /\ DOMAIN b = 1 .. Len(b)
        /\ \A x : x \in ToSet(a) <=> \E k \in 1 .. Len(a) : a[k] = x
        /\ \A x : x \in ToSet(b) <=> \E k \in 1 .. Len(b) : b[k] = x
    BY LenProperties, MemberOfList
  <1>2. \A j, k \in 1 .. Len(a) : a[j] = a[k] => j = k
    BY <1>1 DEF NoDuplicates, IsInjective
  <1> DEFINE from(k) == IF k - 1 < m THEN k - 1 ELSE k
  <1>3. \A k \in 2 .. Len(b) : from(k) \in (1 .. Len(a)) \ {m} /\ b[k] = a[from(k)]
    BY <1>1 DEF InFront
  <1>4. \A k \in 2 .. Len(b) : b[k] # i /\ b[k] \in ToSet(a)
    BY <1>1, <1>3
  <1>5. \A j, k \in 2 .. Len(b) : b[j] = b[k] => j = k
    <2> SUFFICES ASSUME NEW j \in 2 .. Len(b), NEW k \in 2 .. Len(b), b[j] = b[k]
                 PROVE  j = k
      OBVIOUS
    <2>1. from(j) = from(k)
      BY <1>2, <1>3
    <2> QED BY <2>1
  <1>6. b[1] = i /\ Len(b) >= 1 /\ Len(b) \in Nat
    BY <1>1 DEF InFront
  <1>7. NoDuplicates(b)
    <2>1. \A j, k \in 1 .. Len(b) : b[j] = b[k] => j = k
      <3> SUFFICES ASSUME NEW j \in 1 .. Len(b), NEW k \in 1 .. Len(b), b[j] = b[k]
                   PROVE  j = k
        OBVIOUS
      <3>1. CASE j = 1 \/ k = 1
        BY <1>4, <1>6, <3>1
      <3>2. CASE j # 1 /\ k # 1
        BY <1>5, <3>2
      <3> QED BY <3>1, <3>2
    <2> QED BY <1>1, <2>1 DEF NoDuplicates, IsInjective
  <1>8. ASSUME NEW x \in ToSet(b)
        PROVE  x \in (ToSet(a) \cup {i}) \ (IF m <= Len(a) THEN {a[m]} ELSE {})
    <2>1. PICK k \in 1 .. Len(b) : b[k] = x
      BY <1>1
    <2>2. CASE k = 1
      BY <1>1, <1>6, <2>1, <2>2
    <2>3. CASE k # 1
      BY <1>1, <1>2, <1>3, <2>1, <2>3
    <2> QED BY <2>2, <2>3
  <1>9. ASSUME NEW x \in (ToSet(a) \cup {i}) \ (IF m <= Len(a) THEN {a[m]} ELSE {})
        PROVE  x \in ToSet(b)
    <2>1. CASE x = i
      BY <1>1, <1>6, <2>1
    <2>2. CASE x # i
      <3>1. PICK k \in 1 .. Len(a) : a[k] = x /\ k # m
        BY <1>1, <2>2
      <3> DEFINE n == IF k < m THEN k + 1 ELSE k
      <3>2. n \in 2 .. Len(b) /\ from(n) = k
        BY <1>1, <3>1 DEF InFront
      <3> QED BY <1>1, <1>3, <3>1, <3>2
    <2> QED BY <2>1, <2>2
  <1> QED BY <1>7, <1>8, <1>9

\* The list that has i behind the elements of a, or behind those but the first.
LEMMA LoadedBehind ==
    ASSUME NEW S, NEW a \in Seq(S), NoDuplicates(a), NEW i \in S, i \notin ToSet(a)
    PROVE  /\ NoDuplicates(Append(a, i)) /\ ToSet(Append(a, i)) = ToSet(a) \cup {i}
           /\ a # <<>> =>
                 /\ Append(Tail(a), i) \in Seq(S) /\ Len(Append(Tail(a), i)) = Len(a)
                 /\ NoDuplicates(Append(Tail(a), i))
                 /\ ToSet(Append(Tail(a), i)) = (ToSet(a) \cup {i}) \ {Head(a)}
                 /\ \A k \in 1 .. Len(a) :
                       Append(Tail(a), i)[k] = IF k < Len(a) THEN a[k + 1] ELSE i
  <1>1. NoDuplicates(Append(a, i)) /\ ToSet(Append(a, i)) = ToSet(a) \cup {i}
    BY PushBack
  <1>2. ASSUME a # <<>>
        PROVE  /\ Append(Tail(a), i) \in Seq(S) /\ Len(Append(Tail(a), i)) = Len(a)
               /\ NoDuplicates(Append(Tail(a), i))
               /\ ToSet(Append(Tail(a), i)) = (ToSet(a) \cup {i}) \ {Head(a)}
               /\ \A k \in 1 .. Len(a) :
                     Append(Tail(a), i)[k] = IF k < Len(a) THEN a[k + 1] ELSE i
    <2>1. /\ Tail(a) \in Seq(S) /\ Head(a) \in ToSet(a)
          /\ ToSet(a) = ToSet(Tail(a)) \cup {Head(a)}
          /\ NoDuplicates(Tail(a)) /\ Head(a) \notin ToSet(Tail(a))
      BY <1>2, PopFront
    <2>2. /\ Len(a) \in Nat \ {0} /\ Len(Tail(a)) = Len(a) - 1
          /\ \A k \in 1 .. Len(a) - 1 : Tail(a)[k] = a[k + 1]
      BY <1>2, HeadTailProperties
    <2> DEFINE t == Tail(a)
    <2>3. t \in Seq(S) /\ Len(t) = Len(a) - 1 /\ \A k \in 1 .. Len(a) - 1 : t[k] = a[k + 1]
      BY <2>1, <2>2
    <2> HIDE DEF t
    <2>4. /\ Append(t, i) \in Seq(S) /\ Len(Append(t, i)) = Len(t) + 1
          /\ \A k \in 1 .. Len(t) + 1 : Append(t, i)[k] = IF k <= Len(t) THEN t[k] ELSE i
          /\ ToSet(Append(t, i)) = ToSet(t) \cup {i}
          /\ NoDuplicates(t) /\ i \notin ToSet(t) => NoDuplicates(Append(t, i))
      BY <2>3, PushBack
    <2>5. i \notin ToSet(t) /\ i # Head(a) /\ NoDuplicates(t)
      BY <2>1 DEF t
    <2>6. ToSet(Append(t, i)) = (ToSet(a) \cup {i}) \ {Head(a)}
      BY <2>1, <2>4, <2>5 DEF t
    <2>7. /\ Len(Append(t, i)) = Len(a)
          /\ \A k \in 1 .. Len(a) : Append(t, i)[k] = IF k < Len(a) THEN a[k + 1] ELSE i
      BY <2>2, <2>4, <2>3
    <2> QED BY <2>4, <2>5, <2>6, <2>7 DEF t
  <1> QED BY <1>1, <1>2

(***************************************************************************)
(* What update_count does to the list of LFU.                              *)
(***************************************************************************)
\* The list r is s with the node at k moved to m and counted once more.
Moved(s, k, m, r) ==
    /\ k \in 1 .. Len(s) /\ m \in k .. Len(s)
    /\ \A j \in k + 1 .. m : s[j].count <= s[k].count
    /\ m < Len(s) => s[m + 1].count > s[k].count
    /\ r \in Seq(LfuNode) /\ Len(r) = Len(s)
    /\ \A x \in 1 .. Len(s) :
          r[x] = IF x < k \/ x > m THEN s[x]
                 ELSE IF x < m THEN s[x + 1]
                 ELSE [s[k] EXCEPT !.count = @ + 1]

\* A piece of a list.
LEMMA PieceOf ==
    ASSUME NEW S, NEW s \in Seq(S), NEW u \in 1 .. Len(s) + 1, NEW v \in u - 1 .. Len(s)
    PROVE  /\ SubSeq(s, u, v) \in Seq(S) /\ Len(SubSeq(s, u, v)) = v - u + 1
           /\ \A x \in 1 .. v - u + 1 : SubSeq(s, u, v)[x] = s[u + x - 1]
  <1>1. u \in Int /\ v \in Int /\ Len(s) \in Nat
    BY LenProperties
  <1> QED BY <1>1, SubSeqProperties

LEMMA UpdateCountMoves ==
    ASSUME NEW s \in Seq(LfuNode), NEW i, \E k \in 1 .. Len(s) : s[k].address = i
    PROVE  \E k, m \in 1 .. Len(s) : Moved(s, k, m, UpdateCount(s, i)) /\ s[k].address = i
  <1> DEFINE n == Len(s)
             k == IndexOf(s, i)
             node == [s[k] EXCEPT !.count = @ + 1]
             stop == {j \in k + 1 .. n : s[j].count >= node.count}
             m == IF stop = {} THEN n ELSE Min(stop) - 1
             a == SubSeq(s, 1, k - 1)
             b == SubSeq(s, k + 1, m)
             d == SubSeq(s, m + 1, n)
  <1>1. n \in Nat /\ DOMAIN s = 1 .. n /\ \A x \in 1 .. n : s[x] \in LfuNode
    BY LenProperties, ElementOfSeq
  <1>2. k \in 1 .. n /\ s[k].address = i
    BY <1>1 DEF IndexOf
  <1>3. UpdateCount(s, i) = a \o b \o <<node>> \o d
    BY DEF UpdateCount
  <1> HIDE DEF k
  <1>4. /\ node \in LfuNode /\ node.count = s[k].count + 1
        /\ \A x \in 1 .. n : s[x].count \in Nat
    BY <1>1, <1>2 DEF LfuNode
  <1>5. /\ m \in k .. n
        /\ \A j \in k + 1 .. m : j \notin stop
        /\ m < n => m + 1 \in stop
    <2>1. CASE stop = {}
      BY <1>1, <1>2, <2>1
    <2>2. CASE stop # {}
      <3>1. stop \subseteq Nat
        BY <1>1, <1>2
      <3> HIDE DEF stop
      <3>2. Min(stop) \in stop /\ \A j \in stop : Min(stop) <= j
        BY <2>2, <3>1, LeastOf
      <3>3. Min(stop) \in k + 1 .. n
        BY <3>2 DEF stop
      <3>4. m = Min(stop) - 1
        BY <2>2
      <3> QED BY <1>1, <1>2, <3>1, <3>2, <3>3, <3>4
    <2> QED BY <2>1, <2>2
  <1>6. /\ \A j \in k + 1 .. m : s[j].count <= s[k].count
        /\ m < n => s[m + 1].count > s[k].count
    <2> HIDE DEF m, node
    <2>1. ASSUME NEW j \in k + 1 .. m PROVE s[j].count <= s[k].count
      <3>1. j \in k + 1 .. n /\ ~ (s[j].count >= node.count)
        BY <1>1, <1>2, <1>5, <2>1
      <3>2. s[j].count \in Nat /\ s[k].count \in Nat
        BY <1>1, <1>2, <1>4, <3>1
      <3> QED BY <1>4, <3>1, <3>2
    <2>2. ASSUME m < n PROVE s[m + 1].count > s[k].count
      <3>1. m + 1 \in 1 .. n /\ s[m + 1].count >= node.count
        BY <1>1, <1>2, <1>5, <2>2
      <3>2. s[m + 1].count \in Nat /\ s[k].count \in Nat
        BY <1>2, <1>4, <3>1
      <3> QED BY <1>4, <3>1, <3>2
    <2> QED BY <2>1, <2>2
  <1> HIDE DEF m, node
  <1>7. a \in Seq(LfuNode) /\ Len(a) = k - 1 /\ \A x \in 1 .. k - 1 : a[x] = s[x]
    <2>1. 1 \in 1 .. n + 1 /\ k - 1 \in 1 - 1 .. n
      BY <1>1, <1>2
    <2> QED BY <1>1, <1>2, <2>1, PieceOf
  <1>8. b \in Seq(LfuNode) /\ Len(b) = m - k /\ \A x \in 1 .. m - k : b[x] = s[k + x]
    <2>1. k + 1 \in 1 .. n + 1 /\ m \in (k + 1) - 1 .. n
      BY <1>1, <1>2, <1>5
    <2>2. /\ b \in Seq(LfuNode) /\ Len(b) = m - (k + 1) + 1
          /\ \A x \in 1 .. m - (k + 1) + 1 : b[x] = s[k + 1 + x - 1]
      BY <2>1, PieceOf
    <2> HIDE DEF b
    <2> QED BY <1>1, <1>2, <1>5, <2>2
  <1>9. d \in Seq(LfuNode) /\ Len(d) = n - m /\ \A x \in 1 .. n - m : d[x] = s[m + x]
    <2>1. m + 1 \in 1 .. n + 1 /\ n \in (m + 1) - 1 .. n
      BY <1>1, <1>2, <1>5
    <2>2. /\ d \in Seq(LfuNode) /\ Len(d) = n - (m + 1) + 1
          /\ \A x \in 1 .. n - (m + 1) + 1 : d[x] = s[m + 1 + x - 1]
      BY <2>1, PieceOf
    <2> HIDE DEF d
    <2> QED BY <1>1, <1>2, <1>5, <2>2
  <1> HIDE DEF a, b, d, n, stop
  <1>10. /\ a \o b \in Seq(LfuNode) /\ Len(a \o b) = m - 1
         /\ \A x \in 1 .. m - 1 : (a \o b)[x] = IF x < k THEN s[x] ELSE s[x + 1]
    <2>1. /\ a \o b \in Seq(LfuNode) /\ Len(a \o b) = Len(a) + Len(b)
          /\ \A x \in 1 .. Len(a) + Len(b) :
                (a \o b)[x] = IF x <= Len(a) THEN a[x] ELSE b[x - Len(a)]
      BY <1>7, <1>8, ConcatProperties
    <2>2. \A x \in k .. m - 1 : x - (k - 1) \in 1 .. m - k /\ k + (x - (k - 1)) = x + 1
      BY <1>1, <1>2, <1>5
    <2>3. \A x \in k .. m - 1 : (a \o b)[x] = s[x + 1]
      BY <1>1, <1>2, <1>5, <1>7, <1>8, <2>1, <2>2
    <2>4. \A x \in 1 .. k - 1 : (a \o b)[x] = s[x]
      BY <1>1, <1>2, <1>5, <1>7, <1>8, <2>1
    <2>5. Len(a \o b) = m - 1
      BY <1>1, <1>2, <1>5, <1>7, <1>8, <2>1
    <2> QED BY <1>1, <1>2, <1>5, <2>1, <2>3, <2>4, <2>5
  <1> DEFINE c == a \o b
  <1> HIDE DEF c
  <1>11. /\ c \o <<node>> \in Seq(LfuNode) /\ Len(c \o <<node>>) = m
         /\ \A x \in 1 .. m :
               (c \o <<node>>)[x] = IF x < k THEN s[x] ELSE IF x < m THEN s[x + 1] ELSE node
    <2>1. <<node>> \in Seq(LfuNode) /\ Len(<<node>>) = 1 /\ <<node>>[1] = node
      BY <1>4
    <2>2. /\ c \o <<node>> \in Seq(LfuNode) /\ Len(c \o <<node>>) = Len(c) + 1
          /\ \A x \in 1 .. Len(c) + 1 :
                (c \o <<node>>)[x] = IF x <= Len(c) THEN c[x] ELSE <<node>>[x - Len(c)]
      BY <1>10, <2>1, ConcatProperties DEF c
    <2> QED BY <1>1, <1>2, <1>5, <1>10, <2>1, <2>2 DEF c
  <1> DEFINE e == c \o <<node>>
  <1> HIDE DEF e
  <1>12. /\ e \o d \in Seq(LfuNode) /\ Len(e \o d) = n
         /\ \A x \in 1 .. n :
               (e \o d)[x] = IF x < k \/ x > m THEN s[x] ELSE IF x < m THEN s[x + 1] ELSE node
    <2>1. /\ e \o d \in Seq(LfuNode) /\ Len(e \o d) = Len(e) + Len(d)
          /\ \A x \in 1 .. Len(e) + Len(d) :
                (e \o d)[x] = IF x <= Len(e) THEN e[x] ELSE d[x - Len(e)]
      <3>1. e \in Seq(LfuNode)
        BY <1>11 DEF e
      <3> QED BY <1>9, <3>1, ConcatProperties
    <2>2. Len(e) = m /\ \A x \in 1 .. m :
                e[x] = IF x < k THEN s[x] ELSE IF x < m THEN s[x + 1] ELSE node
      BY <1>11 DEF e
    <2>3. \A x \in m + 1 .. n : x - m \in 1 .. n - m /\ m + (x - m) = x
      BY <1>1, <1>2, <1>5
    <2>4. \A x \in m + 1 .. n : (e \o d)[x] = s[x]
      BY <1>1, <1>2, <1>5, <1>9, <2>1, <2>2, <2>3
    <2>5. \A x \in 1 .. m : (e \o d)[x] = e[x]
      BY <1>1, <1>2, <1>5, <1>9, <2>1, <2>2
    <2>6. Len(e \o d) = n
      BY <1>1, <1>2, <1>5, <1>9, <2>1, <2>2
    <2> QED BY <1>1, <1>2, <1>5, <2>1, <2>2, <2>4, <2>5, <2>6
  <1>13. UpdateCount(s, i) = e \o d
    BY <1>3 DEF c, e
  <1>14. Moved(s, k, m, UpdateCount(s, i))
    <2> DEFINE r == UpdateCount(s, i)
    <2>1. /\ r \in Seq(LfuNode) /\ Len(r) = n
          /\ \A x \in 1 .. n : r[x] = IF x < k \/ x > m THEN s[x]
                                    ELSE IF x < m THEN s[x + 1] ELSE node
      BY <1>12, <1>13
    <2> HIDE DEF r
    <2>2. Moved(s, k, m, r)
      BY <1>2, <1>5, <1>6, <2>1 DEF Moved, node, n
    <2> QED BY <2>2 DEF r
  <1> QED BY <1>1, <1>2, <1>5, <1>14

\* A node that moves keeps its place in the order of the counts, and the list
\* has the addresses it had.
LEMMA MovedKeeps ==
    ASSUME NEW s \in Seq(LfuNode), Sorted(s), NoDuplicates(Addresses(s)),
           NEW k, NEW m, NEW r, Moved(s, k, m, r)
    PROVE  /\ Sorted(r) /\ NoDuplicates(Addresses(r))
           /\ ToSet(Addresses(r)) = ToSet(Addresses(s))
  <1> DEFINE n == Len(s)
             from(x) == IF x < k \/ x > m THEN x ELSE IF x < m THEN x + 1 ELSE k
             to(x) == IF x < k \/ x > m THEN x ELSE IF x = k THEN m ELSE x - 1
  <1>1. /\ n \in Nat /\ k \in 1 .. n /\ m \in k .. n /\ Len(r) = n /\ r \in Seq(LfuNode)
        /\ \A x \in 1 .. n : s[x] \in LfuNode
    BY LenProperties, ElementOfSeq DEF Moved
  <1>2. \A x \in 1 .. n : s[x].count \in Nat /\ s[x].address \in Address
    BY <1>1 DEF LfuNode
  <1>3. \A x \in 1 .. n :
           /\ from(x) \in 1 .. n /\ r[x].address = s[from(x)].address
           /\ r[x].count = IF x = m THEN s[k].count + 1 ELSE s[from(x)].count
    <2> SUFFICES ASSUME NEW x \in 1 .. n
                 PROVE  /\ from(x) \in 1 .. n /\ r[x].address = s[from(x)].address
                        /\ r[x].count = IF x = m THEN s[k].count + 1 ELSE s[from(x)].count
      OBVIOUS
    <2>1. from(x) \in 1 .. n
      BY <1>1
    <2>2. CASE x = m
      <3>1. r[x] = [s[k] EXCEPT !.count = @ + 1] /\ from(x) = k
        BY <1>1, <2>2 DEF Moved
      <3> QED BY <1>1, <2>1, <2>2, <3>1 DEF LfuNode
    <2>3. CASE x # m
      BY <1>1, <2>1, <2>3 DEF Moved
    <2> QED BY <2>2, <2>3
  <1>4. \A x \in 1 .. n : to(x) \in 1 .. n /\ from(to(x)) = x /\ to(from(x)) = x
    BY <1>1
  <1>5. Nodes(LfuNode)
    BY NodeTypes
  <1>6. NoDuplicates(Addresses(r))
    <2> SUFFICES ASSUME NEW x \in 1 .. n, NEW y \in 1 .. n, r[x].address = r[y].address
                 PROVE  x = y
      BY <1>1, <1>5, AddressesOf
    <2>1. \A u, v \in 1 .. n : s[u].address = s[v].address => u = v
      BY <1>1, <1>5, AddressesOf
    <2>2. from(x) = from(y)
      <3>1. /\ from(x) \in 1 .. n /\ from(y) \in 1 .. n
            /\ s[from(x)].address = s[from(y)].address
        BY <1>3
      <3> HIDE DEF from
      <3> QED BY <2>1, <3>1
    <2>3. to(from(x)) = x /\ to(from(y)) = y
      BY <1>4
    <2> HIDE DEF from, to
    <2> QED BY <2>2, <2>3
  <1>7. ToSet(Addresses(r)) = ToSet(Addresses(s))
    <2>1. /\ \A v : v \in ToSet(Addresses(r)) <=> \E x \in 1 .. n : r[x].address = v
          /\ \A v : v \in ToSet(Addresses(s)) <=> \E x \in 1 .. n : s[x].address = v
      BY <1>1, <1>5, AddressesOf
    <2>2. ASSUME NEW x \in 1 .. n PROVE \E y \in 1 .. n : r[y].address = s[x].address
      <3>1. to(x) \in 1 .. n /\ from(to(x)) = x
        BY <1>4
      <3> HIDE DEF from, to
      <3> QED BY <1>3, <3>1
    <2>3. ASSUME NEW x \in 1 .. n PROVE \E y \in 1 .. n : s[y].address = r[x].address
      <3> HIDE DEF from
      <3> QED BY <1>3
    <2> QED BY <2>1, <2>2, <2>3
  <1>8. Sorted(r)
    <2> SUFFICES ASSUME NEW x \in 1 .. n, NEW y \in 1 .. n, x < y
                 PROVE  r[x].count <= r[y].count
      BY <1>1 DEF Sorted
    <2>1. \A u, v \in 1 .. n : u <= v => s[u].count <= s[v].count
      BY <1>1, <1>2 DEF Sorted
    <2>2. CASE x # m /\ y # m
      <3>1. from(x) <= from(y) /\ from(x) \in 1 .. n /\ from(y) \in 1 .. n
        BY <1>1, <2>2
      <3> HIDE DEF from
      <3> QED BY <1>3, <2>1, <2>2, <3>1
    <2>3. CASE x = m
      <3>1. from(y) = y /\ r[y].count = s[y].count /\ r[x].count = s[k].count + 1
        BY <1>1, <1>3, <2>3
      <3>2. m + 1 \in 1 .. n /\ s[m + 1].count > s[k].count /\ s[m + 1].count <= s[y].count
        BY <1>1, <2>1, <2>3 DEF Moved
      <3>3. s[k].count \in Nat /\ s[y].count \in Nat /\ s[m + 1].count \in Nat
        BY <1>1, <1>2, <3>2
      <3> QED BY <3>1, <3>2, <3>3
    <2>4. CASE y = m
      <3>1. r[x].count = s[from(x)].count /\ r[y].count = s[k].count + 1
        BY <1>1, <1>3, <2>4
      <3>2. from(x) \in 1 .. n /\ (from(x) <= k \/ from(x) \in k + 1 .. m)
        BY <1>1, <2>4
      <3> HIDE DEF from
      <3>3. s[from(x)].count <= s[k].count
        BY <1>1, <2>1, <3>2 DEF Moved
      <3>4. s[from(x)].count \in Nat /\ s[k].count \in Nat
        BY <1>1, <1>2, <3>2
      <3> QED BY <3>1, <3>3, <3>4
    <2> QED BY <2>2, <2>3, <2>4
  <1> QED BY <1>6, <1>7, <1>8

(***************************************************************************)
(* One reference, for one policy.  Holds says how a list of addresses and  *)
(* present agree, Served what a step that does not crash does to present   *)
(* and page_faults.                                                        *)
(***************************************************************************)
Holds(p, a) == NoDuplicates(a) /\ ToSet(a) = p.present /\ Len(a) <= pages

Fault(p, q, i) ==
    /\ i \notin p.present /\ q.faults = p.faults + 1
    /\ \/ Cardinality(p.present) < pages /\ q.present = p.present \cup {i}
       \/ /\ Cardinality(p.present) = pages
          /\ \E x \in p.present : q.present = (p.present \ {x}) \cup {i}

Stays(p, q) == q.present = p.present /\ q.faults = p.faults

Served(p, q, i) == Fault(p, q, i) \/ (i \in p.present /\ Stays(p, q))

ServedOrCrashed(p, q, i) ==
    \/ Served(p, q, i) /\ (q.state = "crashed" <=> p.state = "crashed")
    \/ Stays(p, q) /\ q.state = "crashed"

\* What Missed makes of a policy whose list holds the addresses a and then b.
LEMMA MissIsFault ==
    ASSUME NEW lists, NEW p \in Policy(lists), NEW l \in lists, NEW i \in Address,
           i \notin p.present, NEW a \in Seq(Address), Holds(p, a), NEW ev,
           pages \in Nat \ {0},
           \/ Len(a) # pages /\ ev = {}
           \/ Len(a) = pages /\ \E x \in p.present : ev = {x},
           NEW b, NoDuplicates(b), ToSet(b) = (ToSet(a) \cup {i}) \ ev, Len(b) <= pages,
           NEW q, q = Missed(p, i, l, ev)
    PROVE  /\ q \in Policy(lists) /\ q.list = l /\ q.state = p.state
           /\ q.present = (p.present \cup {i}) \ ev /\ i \in q.present
           /\ Holds(q, b) /\ Fault(p, q, i)
  <1>1. /\ q \in Policy(lists) /\ q.list = l /\ q.present = (p.present \cup {i}) \ ev
        /\ q.state = p.state /\ q.faults = p.faults + 1
    <2>1. /\ p.present \in SUBSET Address /\ p.faults \in Nat
          /\ p = [list |-> p.list, present |-> p.present, faults |-> p.faults, state |-> p.state]
          /\ p.state \in {"ok", "headless", "crashed"}
      BY DEF Policy
    <2> DEFINE here == (p.present \cup {i}) \ ev
               count == p.faults + 1
    <2>2. here \in SUBSET Address /\ count \in Nat
      BY <2>1
    <2> HIDE DEF here, count
    <2>3. q = [p EXCEPT !.list = l, !.faults = count, !.present = here]
      BY DEF Missed, here, count
    <2>4. /\ q = [list |-> l, present |-> here, faults |-> count, state |-> p.state]
      BY <2>1, <2>3
    <2> QED BY <2>1, <2>2, <2>4 DEF Policy, here, count
  <1>2. Cardinality(p.present) = Len(a) /\ Len(a) \in Nat /\ Len(a) <= pages
    BY CountOfList, LenProperties DEF Holds
  <1>3. i \notin ev
    OBVIOUS
  <1>4. Fault(p, q, i)
    <2>1. CASE Len(a) # pages
      BY <1>1, <1>2, <2>1 DEF Fault
    <2>2. CASE Len(a) = pages
      <3>1. PICK x \in p.present : ev = {x}
        BY <2>2
      <3>2. q.present = (p.present \ {x}) \cup {i}
        BY <1>1, <1>3, <3>1
      <3> QED BY <1>1, <1>2, <2>2, <3>2 DEF Fault
    <2> QED BY <2>1, <2>2
  <1>5. Holds(q, b)
    BY <1>1 DEF Holds
  <1> QED BY <1>1, <1>3, <1>4, <1>5

\* What holds of every policy.
LEMMA Facts ==
    ASSUME Inv
    PROVE  /\ pages \in Nat \ {0} /\ Types
           /\ Holds(fifo, fifo.list) /\ Holds(lfu, Addresses(lfu.list))
           /\ Holds(lru, lru.list) /\ Holds(clock, Addresses(clock.list))
  BY CapacitiesAssumption DEF Inv, TypeOK, ListOK, Holds, NoDuplicates

LEMMA FifoStep ==
    ASSUME Inv, NEW i \in Address, Fifo(i)
    PROVE  /\ fifo' \in Policy(Seq(Address)) /\ Holds(fifo', fifo'.list)
           /\ i \in fifo'.present /\ Served(fifo, fifo', i)
  <1> DEFINE L == Seq(Address)
             a == fifo.list
             long == Append(a, i)
             turned == Append(Tail(a), i)
  <1>1. /\ pages \in Nat \ {0} /\ fifo \in Policy(L) /\ a \in Seq(Address) /\ Holds(fifo, a)
        /\ NoDuplicates(a) /\ ToSet(a) = fifo.present /\ Len(a) <= pages /\ Len(a) \in Nat
    BY Facts, LenProperties DEF Types, Policy, Holds
  <1>2. CASE i \in fifo.present
    BY <1>1, <1>2 DEF Fifo, Served, Stays
  <1>3. CASE i \notin fifo.present /\ ~ Full(fifo)
    <2>1. fifo' = Missed(fifo, i, long, {}) /\ Len(a) # pages
      BY <1>3 DEF Fifo, Full
    <2>2. /\ long \in L /\ NoDuplicates(long) /\ Len(long) = Len(a) + 1
          /\ ToSet(long) = ToSet(a) \cup {i}
      BY <1>1, <1>3, PushBack
    <2> HIDE DEF a, long, L
    <2>3. Len(long) <= pages
      BY <1>1, <2>1, <2>2
    <2>4. ToSet(long) = (ToSet(a) \cup {i}) \ {}
      BY <2>2
    <2>5. /\ fifo' \in Policy(L) /\ fifo'.list = long
          /\ i \in fifo'.present /\ Holds(fifo', long) /\ Served(fifo, fifo', i)
      BY <1>1, <1>3, <2>1, <2>2, <2>3, <2>4, MissIsFault DEF Served
    <2> QED BY <2>5 DEF L
  <1>4. CASE i \notin fifo.present /\ Full(fifo)
    <2>1. fifo' = Missed(fifo, i, turned, {Head(a)}) /\ Len(a) = pages
      BY <1>4 DEF Fifo, Full
    <2>2. a # <<>> /\ i \notin ToSet(a)
      BY <1>1, <1>4, <2>1
    <2>3. Head(a) \in fifo.present
      BY <1>1, <2>2, PopFront
    <2>4. /\ turned \in L /\ NoDuplicates(turned) /\ Len(turned) = Len(a)
          /\ ToSet(turned) = (ToSet(a) \cup {i}) \ {Head(a)}
      BY <1>1, <2>2, LoadedBehind
    <2> DEFINE ev == {Head(a)}
    <2>5. \E x \in fifo.present : ev = {x}
      BY <2>3
    <2> HIDE DEF a, turned, L
    <2>6. /\ fifo' \in Policy(L) /\ fifo'.list = turned
          /\ i \in fifo'.present /\ Holds(fifo', turned) /\ Served(fifo, fifo', i)
      <3>1. ToSet(turned) = (ToSet(a) \cup {i}) \ ev /\ fifo' = Missed(fifo, i, turned, ev)
        BY <2>1, <2>4
      <3> HIDE DEF ev
      <3> QED BY <1>1, <1>4, <2>1, <2>4, <2>5, <3>1, MissIsFault DEF Served
    <2> QED BY <2>6 DEF L
  <1> QED BY <1>2, <1>3, <1>4

\* The nodes of l hold the addresses in a without the m-th, if there is one.
Without(l, a, m) ==
    /\ m \in 1 .. Len(a) + 1 /\ Len(l) = (IF m <= Len(a) THEN Len(a) - 1 ELSE Len(a))
    /\ \A k \in 1 .. Len(l) : l[k].address = IF k < m THEN a[k] ELSE a[k + 1]

\* The list r is the list l with a node in front.
Inserted(r, node, l) ==
    /\ Len(r) = Len(l) + 1 /\ r[1] = node
    /\ \A k \in 2 .. Len(l) + 1 : r[k] = l[k - 1]

\* ListInsert and ListInsertD.
LEMMA InsertNode ==
    ASSUME NEW S, NEW l \in Seq(S), NEW node \in S
    PROVE  <<node>> \o l \in Seq(S) /\ Inserted(<<node>> \o l, node, l)
  <1>1. <<node>> \in Seq(S) /\ Len(<<node>>) = 1 /\ <<node>>[1] = node
    OBVIOUS
  <1> DEFINE r == <<node>> \o l
  <1>2. /\ r \in Seq(S) /\ Len(r) = 1 + Len(l)
        /\ \A k \in 1 .. 1 + Len(l) : r[k] = IF k <= 1 THEN <<node>>[k] ELSE l[k - 1]
    BY <1>1, ConcatProperties
  <1> HIDE DEF r
  <1>3. Inserted(r, node, l)
    BY <1>1, <1>2, LenProperties DEF Inserted
  <1> QED BY <1>2, <1>3 DEF r

LEMMA LoadNode ==
    ASSUME NEW S, Nodes(S), NEW l \in Seq(S), NEW node \in S,
           NEW r \in Seq(S), Inserted(r, node, l), NEW b, b = Addresses(r),
           NEW a \in Seq(Address), NoDuplicates(a), node.address \notin ToSet(a),
           NEW m, Without(l, a, m)
    PROVE  /\ b \in Seq(Address) /\ Len(b) = Len(l) + 1 /\ NoDuplicates(b)
           /\ m > Len(a) => ToSet(b) = (ToSet(a) \cup {node.address}) \ {}
           /\ m <= Len(a) => ToSet(b) = (ToSet(a) \cup {node.address}) \ {a[m]}
  <1>1. b \in Seq(Address) /\ Len(b) = Len(r) /\ \A k \in 1 .. Len(r) : b[k] = r[k].address
    BY AddressesOf
  <1>2. Len(l) \in Nat /\ Len(a) \in Nat /\ m \in 1 .. Len(a) + 1
    BY LenProperties DEF Without
  <1>3. /\ Len(r) = Len(l) + 1 /\ r[1] = node
        /\ \A k \in 2 .. Len(l) + 1 : r[k] = l[k - 1]
    BY DEF Inserted
  <1>4. Len(b) = Len(l) + 1 /\ \A k \in 1 .. Len(l) + 1 : b[k] = r[k].address
    BY <1>1, <1>3
  <1>5. ASSUME NEW k \in 2 .. Len(l) + 1
        PROVE  b[k] = IF k - 1 < m THEN a[k - 1] ELSE a[k]
    <2>1. k - 1 \in 1 .. Len(l) /\ k \in 1 .. Len(r) /\ (k - 1) + 1 = k
      BY <1>2, <1>3
    <2>2. b[k] = l[k - 1].address
      BY <1>3, <1>4, <2>1
    <2> QED BY <2>1, <2>2 DEF Without
  <1>6. InFront(a, node.address, m, b)
    <2>1. Len(b) = (IF m <= Len(a) THEN Len(a) ELSE Len(a) + 1)
      BY <1>2, <1>4 DEF Without
    <2>2. b[1] = node.address
      BY <1>2, <1>3, <1>4
    <2> QED BY <1>4, <1>5, <2>1, <2>2 DEF InFront
  <1>7. node.address \in Address
    BY DEF Nodes
  <1>8. /\ NoDuplicates(b)
        /\ ToSet(b) = (ToSet(a) \cup {node.address}) \ (IF m <= Len(a) THEN {a[m]} ELSE {})
    BY <1>1, <1>2, <1>6, <1>7, LoadedInFront
  <1> QED BY <1>1, <1>2, <1>4, <1>8

\* LFU: the list stays in order, and only the node at its head can leave it.
LEMMA LfuStep ==
    ASSUME Inv, NEW i \in Address, Lfu(i)
    PROVE  /\ lfu' \in Policy(Seq(LfuNode)) /\ Holds(lfu', Addresses(lfu'.list))
           /\ i \in lfu'.present /\ Served(lfu, lfu', i) /\ Sorted(lfu'.list)
           /\ \A k \in 1 .. Len(lfu.list) : lfu.list[k].address \notin lfu'.present => k = 1
  <1> DEFINE L == Seq(LfuNode)
             s == lfu.list
             a == Addresses(s)
             node == [address |-> i, count |-> 1]
             n == Len(s)
  <1>1. Nodes(LfuNode) /\ \A x \in LfuNode : x.count \in Nat \ {0}
    BY NodeTypes DEF LfuNode
  <1>2. /\ pages \in Nat \ {0} /\ lfu \in Policy(L) /\ s \in Seq(LfuNode) /\ Holds(lfu, a)
        /\ Sorted(s) /\ n \in Nat /\ \A k \in 1 .. n : s[k] \in LfuNode
    BY Facts, LenProperties, ElementOfSeq DEF Types, Policy, Inv
  <1>3. /\ a \in Seq(Address) /\ Len(a) = n /\ \A k \in 1 .. n : a[k] = s[k].address
        /\ \A x : x \in ToSet(a) <=> \E k \in 1 .. n : s[k].address = x
        /\ NoDuplicates(a) <=> \A j, k \in 1 .. n : s[j].address = s[k].address => j = k
    BY <1>1, <1>2, AddressesOf
  <1>4. NoDuplicates(a) /\ ToSet(a) = lfu.present /\ Len(a) <= pages
    BY <1>2 DEF Holds
  <1>5. node \in LfuNode /\ node.address = i /\ node.count = 1
    BY DEF LfuNode
  <1>6. ASSUME NEW r \in Seq(LfuNode), NEW l \in Seq(LfuNode), Sorted(l),
               Inserted(r, node, l)
        PROVE  Sorted(r)
    <2>1. /\ Len(r) = Len(l) + 1 /\ r[1] = node
          /\ \A k \in 2 .. Len(l) + 1 : r[k] = l[k - 1]
      BY <1>6 DEF Inserted
    <2>2. Len(l) \in Nat /\ \A k \in 1 .. Len(l) : l[k] \in LfuNode
      BY <1>6, LenProperties, ElementOfSeq
    <2> SUFFICES ASSUME NEW j \in 1 .. Len(r), NEW k \in 1 .. Len(r), j < k
                 PROVE  r[j].count <= r[k].count
      BY DEF Sorted
    <2>3. k - 1 \in 1 .. Len(l) /\ r[k] = l[k - 1]
      BY <1>6, <2>1, <2>2
    <2>4. l[k - 1].count \in Nat /\ l[k - 1].count >= 1
      BY <1>1, <2>2, <2>3
    <2>5. CASE j = 1
      BY <1>5, <1>6, <2>1, <2>3, <2>4, <2>5
    <2>6. CASE j # 1
      <3>1. j - 1 \in 1 .. Len(l) /\ r[j] = l[j - 1] /\ j - 1 < k - 1
        BY <1>6, <2>1, <2>2, <2>6
      <3> QED BY <1>6, <2>1, <2>3, <3>1 DEF Sorted
    <2> QED BY <2>5, <2>6
  <1>7. CASE i \in lfu.present
    <2> DEFINE r == UpdateCount(s, i)
    <2>1. lfu' = [lfu EXCEPT !.list = r]
      BY <1>7 DEF Lfu
    <2>2. \E k \in 1 .. Len(s) : s[k].address = i
      BY <1>3, <1>4, <1>7
    <2>3. PICK k \in 1 .. n, m \in 1 .. n : Moved(s, k, m, r)
      BY <1>2, <2>2, UpdateCountMoves
    <2>4. r \in L
      BY <2>3 DEF Moved
    <2>5. Sorted(r) /\ NoDuplicates(Addresses(r)) /\ ToSet(Addresses(r)) = ToSet(a)
      BY <1>2, <1>4, <2>3, MovedKeeps
    <2>6. Len(Addresses(r)) = n
      BY <1>1, <2>3, <2>4, AddressesOf DEF Moved
    <2> HIDE DEF L, r, a, s, n
    <2>7. /\ lfu' \in Policy(L) /\ lfu'.list = r
          /\ lfu'.present = lfu.present /\ lfu'.faults = lfu.faults
      BY <1>2, <2>1, <2>4 DEF Policy
    <2>8. \A x \in 1 .. n : s[x].address \in lfu'.present
      BY <1>3, <1>4, <2>7
    <2> QED BY <1>3, <1>4, <1>7, <2>5, <2>6, <2>7, <2>8 DEF L, Holds, Served, Stays, s, n
  <1>8. CASE i \notin lfu.present /\ ~ Full(lfu)
    <2> DEFINE r == <<node>> \o s
               b == Addresses(r)
    <2>1. lfu' = Missed(lfu, i, r, {}) /\ n # pages
      BY <1>8 DEF Lfu, Full, ListInsert
    <2>2. Without(s, a, n + 1)
      <3> HIDE DEF a
      <3> QED BY <1>2, <1>3 DEF Without
    <2>3. node.address \notin ToSet(a)
      BY <1>4, <1>5, <1>8
    <2> HIDE DEF b, a, s, node, n, L
    <2>4. r \in Seq(LfuNode) /\ Inserted(r, node, s)
      BY <1>2, <1>5, InsertNode DEF r
    <2>5. b = Addresses(r)
      BY DEF b
    <2> HIDE DEF r
    <2>6. /\ b \in Seq(Address) /\ Len(b) = Len(s) + 1 /\ NoDuplicates(b)
          /\ n + 1 > Len(a) => ToSet(b) = (ToSet(a) \cup {node.address}) \ {}
      BY <1>1, <1>2, <1>3, <1>4, <1>5, <2>2, <2>3, <2>4, <2>5, LoadNode
    <2>7. ToSet(b) = (ToSet(a) \cup {i}) \ {} /\ Len(b) <= pages
      <3>1. n + 1 > Len(a) /\ Len(b) = n + 1 /\ n <= pages
        BY <1>2, <1>3, <1>4, <2>6 DEF n
      <3>2. ToSet(b) = (ToSet(a) \cup {i}) \ {}
        BY <1>5, <2>6, <3>1
      <3>3. \A x, y \in Nat : x <= y /\ x # y => x + 1 <= y
        OBVIOUS
      <3>4. n \in Nat /\ pages \in Nat
        BY <1>2
      <3> QED BY <2>1, <3>1, <3>2, <3>3, <3>4
    <2>8. Sorted(r)
      BY <1>2, <1>6, <2>4
    <2>9. /\ lfu' \in Policy(L) /\ lfu'.list = r /\ lfu'.present = (lfu.present \cup {i}) \ {}
          /\ i \in lfu'.present /\ Holds(lfu', b) /\ Served(lfu, lfu', i)
      <3>1. r \in L
        BY <2>4 DEF L
      <3>2. Len(a) # pages
        BY <1>3, <2>1
      <3>3. /\ pages \in Nat \ {0} /\ lfu \in Policy(L) /\ Holds(lfu, a)
            /\ a \in Seq(Address) /\ i \notin lfu.present
        BY <1>2, <1>3, <1>8
      <3>4. NoDuplicates(b) /\ ToSet(b) = (ToSet(a) \cup {i}) \ {} /\ Len(b) <= pages
        BY <2>6, <2>7
      <3>5. lfu' = Missed(lfu, i, r, {})
        BY <2>1
      <3> QED BY <3>1, <3>2, <3>3, <3>4, <3>5, MissIsFault DEF Served
    <2>10. \A x \in 1 .. n : s[x].address \in lfu'.present
      BY <1>3, <1>4, <2>9
    <2> QED BY <2>8, <2>9, <2>10 DEF L, b, s, n
  <1>9. CASE i \notin lfu.present /\ Full(lfu)
    <2> DEFINE t == Tail(s)
               r == <<node>> \o t
               b == Addresses(r)
               ev == {a[1]}
    <2>1. n = pages /\ s # <<>>
      BY <1>2, <1>9 DEF Full
    <2>2. /\ t \in Seq(LfuNode) /\ Len(t) = n - 1 /\ Head(s) = s[1]
          /\ \A k \in 1 .. n - 1 : t[k] = s[k + 1]
      BY <1>2, <2>1, HeadTailProperties
    <2>3. a[1] = s[1].address /\ 1 \in 1 .. n /\ \E x \in lfu.present : ev = {x}
      <3>1. 1 \in 1 .. n /\ a[1] = s[1].address
        BY <1>2, <1>3, <2>1
      <3>2. a[1] \in lfu.present
        BY <1>3, <1>4, <3>1
      <3> QED BY <3>1, <3>2
    <2>4. lfu' = Missed(lfu, i, r, ev)
      <3>1. lfu' = Missed(lfu, i, r, {Head(s).address})
        BY <1>9 DEF Lfu, ListInsert
      <3> QED BY <2>2, <2>3, <3>1
    <2>5. Sorted(t)
      BY <1>2, <2>2 DEF Sorted
    <2>6. Without(t, a, 1)
      <3> HIDE DEF t, a
      <3> QED BY <1>2, <1>3, <2>1, <2>2 DEF Without
    <2>7. node.address \notin ToSet(a)
      BY <1>4, <1>5, <1>9
    <2> HIDE DEF t, b, a, s, node, n, L, ev
    <2>8. r \in Seq(LfuNode) /\ Inserted(r, node, t)
      BY <1>5, <2>2, InsertNode DEF r
    <2>9. b = Addresses(r)
      BY DEF b
    <2> HIDE DEF r
    <2>10. /\ b \in Seq(Address) /\ Len(b) = Len(t) + 1 /\ NoDuplicates(b)
           /\ 1 <= Len(a) => ToSet(b) = (ToSet(a) \cup {node.address}) \ {a[1]}
      BY <1>1, <1>3, <1>4, <1>5, <2>2, <2>6, <2>7, <2>8, <2>9, LoadNode
    <2>11. ToSet(b) = (ToSet(a) \cup {i}) \ ev /\ Len(b) = n
      <3>1. 1 <= Len(a) /\ Len(b) = (n - 1) + 1
        BY <1>2, <1>3, <2>2, <2>3, <2>10
      <3>2. ToSet(b) = (ToSet(a) \cup {i}) \ {a[1]}
        BY <1>5, <2>10, <3>1
      <3>3. \A x \in Nat : (x - 1) + 1 = x
        OBVIOUS
      <3>4. n \in Nat
        BY <1>2
      <3> QED BY <3>1, <3>2, <3>3, <3>4 DEF ev
    <2>12. Sorted(r)
      BY <1>6, <2>2, <2>5, <2>8
    <2>13. /\ lfu' \in Policy(L) /\ lfu'.list = r /\ lfu'.present = (lfu.present \cup {i}) \ ev
           /\ i \in lfu'.present /\ Holds(lfu', b) /\ Served(lfu, lfu', i)
      <3>1. r \in L
        BY <2>8 DEF L
      <3>2. Len(a) = pages /\ Len(b) <= pages
        BY <1>2, <1>3, <2>1, <2>11
      <3>3. /\ pages \in Nat \ {0} /\ lfu \in Policy(L) /\ Holds(lfu, a)
            /\ a \in Seq(Address) /\ i \notin lfu.present /\ \E x \in lfu.present : ev = {x}
        BY <1>2, <1>3, <1>9, <2>3
      <3>4. NoDuplicates(b) /\ ToSet(b) = (ToSet(a) \cup {i}) \ ev
        BY <2>10, <2>11
      <3> QED BY <2>4, <3>1, <3>2, <3>3, <3>4, MissIsFault DEF Served
    <2>14. \A x \in 1 .. n : s[x].address \notin lfu'.present => x = 1
      BY <1>3, <1>4, <2>3, <2>13 DEF ev
    <2> QED BY <2>12, <2>13, <2>14 DEF L, b, s, n
  <1> QED BY <1>7, <1>8, <1>9

(***************************************************************************)
(* Clock.                                                                  *)
(***************************************************************************)
\* The program reads i from the file, or processes its last reference again.
Reads(i) ==
    \/ file' = Append(file, i)
    \/ file' = file /\ file # <<>> /\ i = Last(file)

\* What counts as used after a step that reads i.
LEMMA UsedNow ==
    ASSUME Inv, NEW i \in Address, Reads(i), replaced' \in {replaced, Len(file)},
           NEW x \in UsedSinceSweep'
    PROVE  x = i \/ (replaced' = replaced /\ x \in UsedSinceSweep)
  <1>1. file \in Seq(Address) /\ Len(file) \in Nat /\ replaced \in 0 .. Len(file)
    BY LenProperties DEF Inv, TypeOK
  <1>2. PICK k \in replaced' + 1 .. Len(file') : file'[k] = x
    BY DEF UsedSinceSweep
  <1>3. \A j \in replaced' + 1 .. Len(file) : replaced' # Len(file)
    <2> SUFFICES ASSUME replaced' = Len(file)
                 PROVE  replaced' + 1 .. Len(file) = {}
      OBVIOUS
    <2> QED BY <1>1
  <1>4. CASE file' = Append(file, i)
    <2>1. /\ Len(file') = Len(file) + 1 /\ file'[Len(file) + 1] = i
          /\ \A j \in 1 .. Len(file) : file'[j] = file[j]
      BY <1>1, <1>4, AppendProperties
    <2>2. CASE k = Len(file) + 1
      BY <1>2, <2>1, <2>2
    <2>3. CASE k # Len(file) + 1
      <3>1. k \in replaced' + 1 .. Len(file) /\ k \in 1 .. Len(file)
        BY <1>1, <1>2, <2>1, <2>3
      <3>2. replaced' = replaced
        BY <1>1, <1>3, <3>1
      <3> QED BY <1>2, <2>1, <3>1, <3>2 DEF UsedSinceSweep
    <2> QED BY <2>2, <2>3
  <1>5. CASE file' = file
    <2>1. replaced' = replaced
      BY <1>1, <1>2, <1>5, <1>3
    <2> QED BY <1>2, <1>5, <2>1 DEF UsedSinceSweep
  <1> QED BY <1>4, <1>5 DEF Reads

\* Taking the k-th node out of the ring and putting one for i in front.
LEMMA ReplaceStep ==
    ASSUME Inv, NEW i \in Address, i \notin clock.present, Full(clock),
           NEW k \in DOMAIN clock.list, clock' = Replace(i, k)
    PROVE  /\ clock' \in Policy(Seq(ClockNode)) /\ Holds(clock', Addresses(clock'.list))
           /\ i \in clock'.present /\ Fault(clock, clock', i)
           /\ clock'.state = clock.state
           /\ clock'.list[1] = [address |-> i, useBit |-> 1, insertTime |-> Len(file)]
           /\ \A x \in 2 .. Len(clock'.list) : clock'.list[x].address # i
           /\ clock.present \ clock'.present = {clock.list[k].address}
  <1> DEFINE s == clock.list
             n == Len(s)
             a == Addresses(s)
             swept == Swept(s)
             l == RemoveAt(swept, k)
             node == [address |-> i, useBit |-> 1, insertTime |-> Len(file)]
             r == <<node>> \o l
             b == Addresses(r)
             L == Seq(ClockNode)
             ev == {s[k].address}
  <1>1. /\ pages \in Nat \ {0} /\ clock \in Policy(L) /\ s \in Seq(ClockNode)
        /\ Holds(clock, a) /\ n \in Nat /\ DOMAIN s = 1 .. n
        /\ NoDuplicates(a) /\ ToSet(a) = clock.present /\ Len(a) <= pages /\ n = pages
    BY Facts, LenProperties DEF Types, Policy, Holds, Full
  <1>2. /\ a \in Seq(Address) /\ Len(a) = n /\ \A x \in 1 .. n : a[x] = s[x].address
        /\ \A x : x \in ToSet(a) <=> \E y \in 1 .. n : s[y].address = x
    BY <1>1, NodeTypes, AddressesOf
  <1>3. node \in ClockNode /\ node.address = i
    <2>1. Len(file) \in Nat
      BY LenProperties DEF Inv, TypeOK
    <2> QED BY <2>1 DEF ClockNode
  <1>4. /\ swept \in Seq(ClockNode) /\ Len(swept) = n
        /\ \A x \in 1 .. n : swept[x].address = s[x].address
    <2>1. ASSUME NEW x \in 1 .. n
          PROVE  /\ [s[x] EXCEPT !.useBit = IF @ = 0 THEN 0 ELSE @ - 1] \in ClockNode
                 /\ [s[x] EXCEPT !.useBit = IF @ = 0 THEN 0 ELSE @ - 1].address = s[x].address
      <3>1. s[x] \in ClockNode
        BY <1>1, ElementOfSeq
      <3>2. (IF s[x].useBit = 0 THEN 0 ELSE s[x].useBit - 1) \in Nat
        BY <3>1 DEF ClockNode
      <3> QED BY <3>1, <3>2 DEF ClockNode
    <2>2. swept = [x \in 1 .. n |-> [s[x] EXCEPT !.useBit = IF @ = 0 THEN 0 ELSE @ - 1]]
      BY <1>1 DEF Swept
    <2>3. swept \in [1 .. n -> ClockNode]
      BY <2>1, <2>2
    <2>4. swept \in Seq(ClockNode) /\ Len(swept) = n
      BY <1>1, <2>3, FunctionIsList
    <2> QED BY <2>1, <2>2, <2>4
  <1>5. k \in 1 .. n
    BY <1>1
  <1>6. Replace(i, k) = Missed(clock, i, r, ev)
    BY DEF Replace, ListInsertD
  <1> HIDE DEF swept, s, n, a, node, L, b, r
  <1>7. /\ l \in Seq(ClockNode) /\ Len(l) = n - 1
        /\ \A x \in 1 .. n - 1 : l[x] = IF x < k THEN swept[x] ELSE swept[x + 1]
    BY <1>1, <1>4, <1>5, RemovePlace
  <1> HIDE DEF l
  <1>8. Without(l, a, k)
    <2>1. k \in 1 .. Len(a) + 1 /\ Len(l) = (IF k <= Len(a) THEN Len(a) - 1 ELSE Len(a))
      BY <1>1, <1>2, <1>5, <1>7
    <2>2. ASSUME NEW x \in 1 .. Len(l)
          PROVE  l[x].address = IF x < k THEN a[x] ELSE a[x + 1]
      <3>1. x \in 1 .. n - 1 /\ x \in 1 .. n /\ x + 1 \in 1 .. n
        BY <1>1, <1>7
      <3> QED BY <1>2, <1>4, <1>7, <3>1
    <2> QED BY <2>1, <2>2 DEF Without
  <1>9. r \in Seq(ClockNode) /\ Inserted(r, node, l)
    BY <1>3, <1>7, InsertNode DEF r
  <1>10. /\ b \in Seq(Address) /\ Len(b) = Len(l) + 1 /\ NoDuplicates(b)
         /\ k <= Len(a) => ToSet(b) = (ToSet(a) \cup {node.address}) \ {a[k]}
    <2>1. node.address \notin ToSet(a) /\ b = Addresses(r)
      BY <1>1, <1>3 DEF b
    <2> QED BY <1>1, <1>2, <1>3, <1>7, <1>8, <1>9, <2>1, NodeTypes, LoadNode
  <1>11. /\ ToSet(b) = (ToSet(a) \cup {i}) \ ev /\ Len(b) <= pages /\ Len(a) = pages
         /\ s[k].address \in clock.present /\ \E x \in clock.present : ev = {x}
    <2>1. Len(b) <= pages /\ Len(a) = pages /\ k <= Len(a)
      BY <1>1, <1>2, <1>5, <1>7, <1>10
    <2>2. s[k].address \in clock.present /\ a[k] = s[k].address
      BY <1>1, <1>2, <1>5
    <2> QED BY <1>3, <1>10, <2>1, <2>2
  <1>12. r \in L /\ clock' = Missed(clock, i, r, ev)
    BY <1>6, <1>9 DEF L
  <1> HIDE DEF ev
  <1>13. /\ clock' \in Policy(L) /\ clock'.list = r /\ clock'.state = clock.state
         /\ clock'.present = (clock.present \cup {i}) \ ev
         /\ i \in clock'.present /\ Holds(clock', b) /\ Fault(clock, clock', i)
    <2>1. /\ pages \in Nat \ {0} /\ clock \in Policy(L) /\ Holds(clock, a) /\ Len(a) = pages
          /\ a \in Seq(Address) /\ b \in Seq(Address) /\ NoDuplicates(b) /\ Len(b) <= pages
          /\ \E x \in clock.present : ev = {x}
          /\ ToSet(b) = (ToSet(a) \cup {i}) \ ev
      BY <1>1, <1>2, <1>10, <1>11
    <2> QED BY <1>12, <2>1, MissIsFault
  <1>14. r[1] = node /\ \A x \in 2 .. Len(r) : r[x].address # i
    <2>1. Len(r) = Len(l) + 1 /\ Len(l) \in Nat /\ r[1] = node
      BY <1>7, <1>9, LenProperties DEF Inserted
    <2>2. \A x, y \in 1 .. Len(r) : r[x].address = r[y].address => x = y
      <3>1. b = Addresses(r)
        BY DEF b
      <3> QED BY <1>9, <1>10, <3>1, NodeTypes, AddressesOf
    <2>3. 1 \in 1 .. Len(r) /\ \A x \in 2 .. Len(r) : x \in 1 .. Len(r) /\ x # 1
      BY <2>1
    <2> QED BY <1>3, <2>1, <2>2, <2>3
  <1>15. clock.present \ clock'.present = ev
    BY <1>11, <1>13
  <1> QED BY <1>13, <1>14, <1>15 DEF L, b, ev, s, node

LEMMA ClockStep ==
    ASSUME Inv, NEW i \in Address, Clock(i), Reads(i)
    PROVE  /\ clock' \in Policy(Seq(ClockNode)) /\ Holds(clock', Addresses(clock'.list))
           /\ ServedOrCrashed(clock, clock', i) /\ (clock.state = "crashed" => clock' = clock)
           /\ clock'.state # "crashed" => i \in clock'.present
           /\ replaced' \in {replaced, Len(file)} /\ UseBits'
           /\ Victims(clock.list) # {} =>
                 /\ (clock.present \ clock'.present) \cap UsedSinceSweep = {}
                 /\ clock'.state = clock.state
  <1> DEFINE s == clock.list
             n == Len(s)
             a == Addresses(s)
             L == Seq(ClockNode)
  <1>1. /\ pages \in Nat \ {0} /\ clock \in Policy(L) /\ s \in Seq(ClockNode)
        /\ Holds(clock, a) /\ n \in Nat /\ DOMAIN s = 1 .. n
        /\ \A k \in 1 .. n : s[k] \in ClockNode
        /\ NoDuplicates(a) /\ ToSet(a) = clock.present /\ Len(a) <= pages
    BY Facts, LenProperties, ElementOfSeq DEF Types, Policy, Holds
  <1>2. /\ a \in Seq(Address) /\ Len(a) = n /\ \A x \in 1 .. n : a[x] = s[x].address
        /\ \A x : x \in ToSet(a) <=> \E y \in 1 .. n : s[y].address = x
        /\ \A x, y \in 1 .. n : s[x].address = s[y].address => x = y
    BY <1>1, NodeTypes, AddressesOf
  <1>3. \A x \in UsedSinceSweep' : replaced' \in {replaced, Len(file)} =>
            x = i \/ (replaced' = replaced /\ x \in UsedSinceSweep)
    BY UsedNow
  <1>4. \A x \in 1 .. n : s[x].useBit \in Nat /\ s[x].address \in Address
    BY <1>1 DEF ClockNode
  <1>5. clock.state # "crashed" =>
            \A x \in 1 .. n : s[x].address \in UsedSinceSweep => s[x].useBit >= 1
    BY DEF Inv, UseBits
  <1>6. CASE clock.state = "crashed"
    <2>1. clock' = clock /\ replaced' = replaced
      BY <1>6 DEF Clock
    <2> QED BY <1>1, <1>6, <2>1 DEF UseBits, ServedOrCrashed, Served, Stays
  <1>7. CASE clock.state # "crashed" /\ i \in clock.present
    <2> DEFINE k == IndexOf(s, i)
               node == [s[k] EXCEPT !.useBit = @ + 1]
               r == [s EXCEPT ![k] = node]
    <2>1. k \in 1 .. n /\ s[k].address = i
      BY <1>1, <1>2, <1>7 DEF IndexOf
    <2>2. clock' = [clock EXCEPT !.list = r] /\ replaced' = replaced
      BY <1>7 DEF Clock, SetUseBit
    <2> HIDE DEF k
    <2>3. node \in ClockNode /\ node.address = i /\ node.useBit = s[k].useBit + 1
      <3>1. s[k] \in ClockNode
        BY <1>1, <2>1
      <3> HIDE DEF s
      <3>2. s[k].useBit + 1 \in Nat
        BY <3>1 DEF ClockNode
      <3> QED BY <2>1, <3>1, <3>2 DEF ClockNode
    <2> HIDE DEF node
    <2>4. /\ r \in [1 .. n -> ClockNode] /\ \A x \in 1 .. n : r[x] = IF x = k THEN node ELSE s[x]
      BY <1>1, <2>1, <2>3
    <2>5. r \in Seq(ClockNode) /\ Len(r) = n
      BY <1>1, <2>4, FunctionIsList
    <2> HIDE DEF r
    <2>6. \A x \in 1 .. n : r[x].address = s[x].address
      BY <2>1, <2>3, <2>4
    <2> DEFINE b == Addresses(r)
    <2>7. NoDuplicates(b) /\ ToSet(b) = ToSet(a) /\ Len(b) = n
      <3>1. /\ Len(b) = n
            /\ \A x : x \in ToSet(b) <=> \E y \in 1 .. n : r[y].address = x
            /\ NoDuplicates(b) <=> \A x, y \in 1 .. n : r[x].address = r[y].address => x = y
        BY <2>5, NodeTypes, AddressesOf
      <3>2. \A x : x \in ToSet(a) <=> \E y \in 1 .. n : s[y].address = x
        BY <1>2
      <3>3. \A x, y \in 1 .. n : s[x].address = s[y].address => x = y
        BY <1>2
      <3> HIDE DEF a, b, s, n
      <3>4. ToSet(b) = ToSet(a)
        <4>1. ASSUME NEW x PROVE x \in ToSet(b) <=> x \in ToSet(a)
          BY <2>6, <3>1, <3>2
        <4> QED BY <4>1
      <3>5. NoDuplicates(b)
        BY <2>6, <3>1, <3>3
      <3> QED BY <3>1, <3>4, <3>5
    <2> HIDE DEF a, s, n, L
    <2>8. /\ clock' \in Policy(L) /\ clock'.list = r /\ clock'.present = clock.present
          /\ clock'.faults = clock.faults /\ clock'.state = clock.state
      BY <1>1, <2>2, <2>5 DEF Policy, L
    <2>9. Holds(clock', b)
      BY <1>1, <1>2, <2>7, <2>8 DEF Holds
    <2>10. UseBits'
      <3> SUFFICES ASSUME NEW x \in 1 .. n, r[x].address \in UsedSinceSweep'
                   PROVE  r[x].useBit >= 1
        BY <2>5, <2>8 DEF UseBits
      <3>1. s[x].address = i \/ s[x].address \in UsedSinceSweep
        BY <1>3, <2>2, <2>6
      <3>2. CASE x = k
        BY <1>4, <2>1, <2>3, <2>4, <3>2
      <3>3. CASE x # k
        BY <1>2, <1>5, <1>7, <2>1, <2>4, <3>1, <3>3
      <3> QED BY <3>2, <3>3
    <2> QED BY <1>7, <2>2, <2>8, <2>9, <2>10 DEF L, b, ServedOrCrashed, Served, Stays
  <1>8. CASE clock.state # "crashed" /\ i \notin clock.present /\ ~ Full(clock)
    <2> DEFINE node == [address |-> i, useBit |-> 1, insertTime |-> Len(file)]
               r == <<node>> \o s
               b == Addresses(r)
    <2>1. clock' = Missed(clock, i, r, {}) /\ replaced' = replaced /\ n # pages
      BY <1>8 DEF Clock, ClockMiss, ListInsertD, Full
    <2>2. node \in ClockNode /\ node.address = i /\ node.useBit = 1
      <3>1. Len(file) \in Nat
        BY LenProperties DEF Inv, TypeOK
      <3> QED BY <3>1 DEF ClockNode
    <2>3. Without(s, a, n + 1)
      <3> HIDE DEF a
      <3> QED BY <1>1, <1>2 DEF Without
    <2> HIDE DEF b, a, s, node, n, L
    <2>4. r \in Seq(ClockNode) /\ Inserted(r, node, s) /\ b = Addresses(r)
      BY <1>1, <2>2, InsertNode DEF r, b
    <2> HIDE DEF r
    <2>5. /\ b \in Seq(Address) /\ Len(b) = Len(s) + 1 /\ NoDuplicates(b)
          /\ n + 1 > Len(a) => ToSet(b) = (ToSet(a) \cup {node.address}) \ {}
      <3>1. node.address \notin ToSet(a)
        BY <1>1, <1>8, <2>2
      <3> QED BY <1>1, <1>2, <2>2, <2>3, <2>4, <3>1, NodeTypes, LoadNode
    <2>6. /\ ToSet(b) = (ToSet(a) \cup {i}) \ {} /\ Len(b) <= pages /\ Len(a) # pages
          /\ r \in L
      BY <1>1, <1>2, <2>1, <2>2, <2>4, <2>5 DEF n, L
    <2>7. /\ clock' \in Policy(L) /\ clock'.list = r
          /\ clock'.present = (clock.present \cup {i}) \ {}
          /\ i \in clock'.present /\ Holds(clock', b) /\ ServedOrCrashed(clock, clock', i)
          /\ clock'.state = clock.state
      BY <1>1, <1>2, <1>8, <2>1, <2>5, <2>6, MissIsFault DEF ServedOrCrashed, Served
    <2>8. UseBits'
      <3> SUFFICES ASSUME NEW x \in 1 .. Len(r), r[x].address \in UsedSinceSweep'
                   PROVE  r[x].useBit >= 1
        BY <2>7 DEF UseBits
      <3>1. r[x].address = i \/ r[x].address \in UsedSinceSweep
        BY <1>3, <2>1
      <3>2. CASE x = 1
        BY <2>2, <2>4, <3>2 DEF Inserted
      <3>3. CASE x # 1
        <4>1. x - 1 \in 1 .. n /\ r[x] = s[x - 1]
          BY <1>1, <2>4, <3>3 DEF Inserted, n
        <4>2. r[x].address # i
          BY <1>1, <1>2, <1>8, <4>1
        <4> QED BY <1>5, <1>8, <3>1, <4>1, <4>2
      <3> QED BY <3>2, <3>3
    <2>9. clock.present \ clock'.present = {}
      BY <2>7
    <2> QED BY <1>8, <2>1, <2>7, <2>8, <2>9 DEF L, b
  <1>9. CASE clock.state # "crashed" /\ i \notin clock.present /\ Full(clock)
    <2>1. replaced' = Len(file)
      BY <1>9 DEF Clock
    <2>2. CASE clock' = [clock EXCEPT !.state = "crashed"] /\ Victims(s) = {}
      <3>1. /\ clock' \in Policy(L) /\ clock'.list = s /\ clock'.present = clock.present
            /\ clock'.faults = clock.faults /\ clock'.state = "crashed"
        BY <1>1, <2>2 DEF Policy
      <3> QED BY <1>1, <1>9, <2>1, <2>2, <3>1 DEF Holds, UseBits, ServedOrCrashed, Served, Stays
    <2>3. ASSUME NEW k \in DOMAIN s, clock' = Replace(i, k),
                 Victims(s) # {} => k \in Victims(s)
          PROVE  /\ clock' \in Policy(L) /\ Holds(clock', Addresses(clock'.list))
                 /\ ServedOrCrashed(clock, clock', i) /\ i \in clock'.present /\ UseBits'
                 /\ Victims(s) # {} => (clock.present \ clock'.present) \cap UsedSinceSweep = {}
                 /\ clock'.state = clock.state
      <3>1. /\ clock' \in Policy(L) /\ Holds(clock', Addresses(clock'.list))
            /\ i \in clock'.present /\ ServedOrCrashed(clock, clock', i)
            /\ clock'.state = clock.state
            /\ clock'.list[1] = [address |-> i, useBit |-> 1, insertTime |-> Len(file)]
            /\ \A x \in 2 .. Len(clock'.list) : clock'.list[x].address # i
            /\ clock.present \ clock'.present = {s[k].address}
        BY <1>9, <2>3, ReplaceStep DEF ServedOrCrashed, Served
      <3>2. UseBits'
        <4> SUFFICES ASSUME NEW x \in 1 .. Len(clock'.list),
                            clock'.list[x].address \in UsedSinceSweep'
                     PROVE  clock'.list[x].useBit >= 1
          BY DEF UseBits
        <4>1. CASE x = 1
          BY <3>1, <4>1
        <4>2. CASE x # 1
          <5>1. clock'.list[x].address # i
            BY <3>1, <4>2
          <5>2. replaced = Len(file) /\ clock'.list[x].address \in UsedSinceSweep
            BY <1>3, <2>1, <5>1
          <5>3. Len(file) \in Nat /\ replaced + 1 .. Len(file) = {}
            BY <5>2, LenProperties DEF Inv, TypeOK
          <5> QED BY <5>2, <5>3 DEF UsedSinceSweep
        <4> QED BY <4>1, <4>2
      <3>3. ASSUME k \in Victims(s) PROVE s[k].address \notin UsedSinceSweep
        <4>1. s[k].useBit = 0 /\ k \in 1 .. n
          BY <1>1, <3>3 DEF Victims
        <4> QED BY <1>5, <1>9, <4>1
      <3> QED BY <2>3, <3>1, <3>2, <3>3
    <2>4. \/ clock' = [clock EXCEPT !.state = "crashed"] /\ Victims(s) = {}
          \/ \E k \in DOMAIN s : clock' = Replace(i, k) /\ (Victims(s) # {} => k \in Victims(s))
      <3>1. ClockMiss(i)
        BY <1>9 DEF Clock
      <3>2. Victims(s) \subseteq DOMAIN s
        BY DEF Victims
      <3> QED BY <1>9, <3>1, <3>2 DEF ClockMiss
    <2> QED BY <1>9, <2>1, <2>2, <2>3, <2>4
  <1> QED BY <1>6, <1>7, <1>8, <1>9

(***************************************************************************)
(* LRU.                                                                    *)
(***************************************************************************)
\* The program has read i: it is the last one used, and the order of the other
\* addresses is what it was.
LEMMA UsedNext ==
    ASSUME Inv, NEW i \in Address, Reads(i)
    PROVE  /\ file' \in Seq(Address) /\ file' # <<>> /\ Last(file') = i
           /\ ToSet(file') = ToSet(file) \cup {i}
           /\ \A b : b # i => UsedAfter(file', i, b)
           /\ \A a, b : b # i /\ UsedAfter(file, a, b) => UsedAfter(file', a, b)
  <1>1. file \in Seq(Address) /\ Len(file) \in Nat /\ DOMAIN file = 1 .. Len(file)
    BY LenProperties DEF Inv, TypeOK
  <1>2. CASE file' = Append(file, i)
    <2>1. /\ file' \in Seq(Address) /\ Len(file') = Len(file) + 1
          /\ file'[Len(file) + 1] = i /\ DOMAIN file' = 1 .. Len(file) + 1
          /\ \A j \in 1 .. Len(file) : file'[j] = file[j]
      BY <1>1, <1>2, AppendProperties
    <2>2. ToSet(file') = ToSet(file) \cup {i}
      BY <1>1, <1>2, PushBack
    <2>3. file' # <<>> /\ Last(file') = i
      BY <1>1, <2>1 DEF Last
    <2>4. ASSUME NEW b, b # i PROVE UsedAfter(file', i, b)
      <3>1. Len(file) + 1 \in DOMAIN file' /\ \A j \in Len(file) + 1 .. Len(file') : file'[j] # b
        BY <1>1, <2>1, <2>4
      <3> QED BY <2>1, <3>1 DEF UsedAfter
    <2>5. ASSUME NEW a, NEW b, b # i, UsedAfter(file, a, b) PROVE UsedAfter(file', a, b)
      <3>1. PICK k \in 1 .. Len(file) : file[k] = a /\ \A j \in k .. Len(file) : file[j] # b
        BY <1>1, <2>5 DEF UsedAfter
      <3>2. k \in DOMAIN file' /\ file'[k] = a
        BY <1>1, <2>1, <3>1
      <3>3. ASSUME NEW j \in k .. Len(file') PROVE file'[j] # b
        BY <1>1, <2>1, <2>5, <3>1
      <3> QED BY <3>2, <3>3 DEF UsedAfter
    <2> QED BY <2>1, <2>2, <2>3, <2>4, <2>5
  <1>3. CASE file' = file /\ file # <<>> /\ i = Last(file)
    <2>1. Len(file) \in DOMAIN file /\ file[Len(file)] = i
      BY <1>1, <1>3 DEF Last
    <2>2. ToSet(file') = ToSet(file) \cup {i}
      BY <1>3, <2>1 DEF ToSet
    <2>3. ASSUME NEW b, b # i PROVE UsedAfter(file', i, b)
      <3>1. \A j \in Len(file) .. Len(file) : file[j] # b
        BY <1>1, <2>1, <2>3
      <3> QED BY <1>3, <2>1, <3>1 DEF UsedAfter
    <2>4. \A a, b : UsedAfter(file, a, b) => UsedAfter(file', a, b)
      BY <1>3 DEF UsedAfter
    <2> QED BY <1>1, <1>3, <2>2, <2>3, <2>4
  <1> QED BY <1>2, <1>3 DEF Reads

\* The first two references stay, and the second may be the one read now.
LEMMA FirstTwo ==
    ASSUME Inv, NEW i \in Address, Reads(i), ~ atEnd, file' = file => atEnd', pages' = pages
    PROVE  /\ (pages = 1 \/ (Len(file) >= 2 /\ file[1] = file[2]) \/ ToSet(file) = {i}) =>
                 \/ pages' = 1
                 \/ Len(file') = 1 /\ atEnd'
                 \/ Len(file') >= 2 /\ file'[1] = file'[2]
           /\ lru.state # "ok" => pages = 1 \/ (Len(file) >= 2 /\ file[1] = file[2])
  <1>1. /\ file \in Seq(Address) /\ Len(file) \in Nat
        /\ \A x : x \in ToSet(file) <=> \E j \in 1 .. Len(file) : file[j] = x
    BY LenProperties, MemberOfList DEF Inv, TypeOK
  <1>2. lru.state # "ok" => pages = 1 \/ (Len(file) >= 2 /\ file[1] = file[2])
    BY DEF Inv, Headless
  <1>3. ASSUME ToSet(file) = {i}
        PROVE  Len(file) >= 1 /\ \A j \in 1 .. Len(file) : file[j] = i
    <2>1. PICK k \in 1 .. Len(file) : file[k] = i
      BY <1>1, <1>3
    <2>2. ASSUME NEW j \in 1 .. Len(file) PROVE file[j] = i
      <3>1. file[j] \in ToSet(file)
        BY <1>1
      <3> QED BY <1>3, <3>1
    <2> QED BY <1>1, <2>1, <2>2
  <1>4. CASE file' = Append(file, i)
    <2>1. /\ Len(file') = Len(file) + 1 /\ file'[Len(file) + 1] = i
          /\ \A j \in 1 .. Len(file) : file'[j] = file[j]
      BY <1>1, <1>4, AppendProperties
    <2>2. CASE Len(file) >= 2 /\ file[1] = file[2]
      BY <1>1, <2>1, <2>2
    <2>3. CASE ToSet(file) = {i}
      <3>1. file'[1] = i /\ file'[2] = i /\ Len(file') >= 2
        BY <1>1, <1>3, <2>1, <2>3
      <3> QED BY <1>2, <3>1
    <2> QED BY <1>2, <2>2, <2>3
  <1>5. CASE file' = file
    <2>1. CASE ToSet(file) = {i}
      <3>1. Len(file) >= 1
        BY <1>3, <2>1
      <3>2. Len(file) \in Nat
        BY <1>1
      <3>3. \A n \in Nat : n >= 1 => n = 1 \/ n >= 2
        OBVIOUS
      <3>4. Len(file) = 1 \/ Len(file) >= 2
        BY <3>1, <3>2, <3>3
      <3>5. Len(file) >= 2 => file[1] = i /\ file[2] = i
        BY <1>1, <1>3, <2>1
      <3> QED BY <1>2, <1>5, <3>4, <3>5
    <2> QED BY <1>2, <1>5, <2>1
  <1> QED BY <1>4, <1>5 DEF Reads

LEMMA LruStep ==
    ASSUME Inv, NEW i \in Address, Lru(i), Reads(i), ~ atEnd, file' = file => atEnd',
           pages' = pages
    PROVE  /\ lru' \in Policy(Seq(Address)) /\ Holds(lru', lru'.list)
           /\ ServedOrCrashed(lru, lru', i) /\ (lru.state = "crashed" => lru' = lru)
           /\ LRUExact' /\ Headless'
           /\ lru'.state # "crashed" => i \in lru'.present
  <1> DEFINE L == Seq(Address)
             a == lru.list
             n == Len(a)
             long == Append(a, i)
             turned == Append(Tail(a), i)
             r == Append(RemoveFirst(a, i), i)
  <1>1. /\ pages \in Nat \ {0} /\ lru \in Policy(L) /\ a \in Seq(Address) /\ Holds(lru, a)
        /\ NoDuplicates(a) /\ ToSet(a) = lru.present /\ n <= pages /\ n \in Nat
        /\ DOMAIN a = 1 .. n
        /\ \A x : x \in ToSet(a) <=> \E k \in 1 .. n : a[k] = x
        /\ \A j, k \in 1 .. n : a[j] = a[k] => j = k
    BY Facts, LenProperties, MemberOfList DEF Types, Policy, Holds, NoDuplicates, IsInjective
  <1>2. /\ file' \in Seq(Address) /\ file' # <<>> /\ Last(file') = i
        /\ ToSet(file') = ToSet(file) \cup {i}
        /\ \A b : b # i => UsedAfter(file', i, b)
        /\ \A x, b : b # i /\ UsedAfter(file, x, b) => UsedAfter(file', x, b)
    BY UsedNext
  <1>3. lru.state # "crashed" =>
            /\ ToSet(a) \subseteq ToSet(file)
            /\ \A j, k \in 1 .. n : j < k => UsedAfter(file, a[k], a[j])
            /\ \A x \in ToSet(file) \ ToSet(a) : 
                  n = pages /\ \A b \in ToSet(a) : UsedAfter(file, b, x)
    BY <1>1 DEF Inv, LRUExact, Full
  <1>4. ASSUME lru'.state # "ok" => lru.state # "ok" \/ pages = 1 \/ ToSet(file) = {i}
        PROVE  Headless'
               /\ (lru'.state # "ok" => pages' = 1 \/ Len(file') = 1 \/ file'[1] = file'[2])
    BY <1>4, FirstTwo DEF Headless
  <1>5. CASE \/ lru.state = "crashed"
             \/ lru' = [lru EXCEPT !.state = "crashed"] /\ lru.state # "ok"
    <2>1. /\ lru' \in Policy(L) /\ lru'.list = a /\ lru'.present = lru.present
          /\ lru'.faults = lru.faults /\ lru'.state = "crashed"
      BY <1>1, <1>5 DEF Lru, Policy
    <2>2. lru.state # "ok"
      BY <1>5
    <2>3. lru.state = "crashed" => lru' = lru
      BY DEF Lru
    <2> QED BY <1>1, <1>4, <2>1, <2>2, <2>3 DEF Holds, ServedOrCrashed, Served, Stays, LRUExact
  <1>6. CASE lru.state # "crashed" /\ i \in lru.present /\ lru' = MoveBack(lru, i)
    <2>1. PICK m \in 1 .. n : /\ a[m] = i
                              /\ RemoveFirst(a, i) = RemoveAt(a, m)
      BY <1>1, <1>6, RemoveFound
    <2> DEFINE t == RemoveAt(a, m)
    <2>2. /\ t \in Seq(Address) /\ Len(t) = n - 1 /\ NoDuplicates(t) /\ ToSet(t) = ToSet(a) \ {i}
          /\ \A k \in 1 .. n - 1 : t[k] = IF k < m THEN a[k] ELSE a[k + 1]
      <3>1. m \in 1 .. Len(a) /\ a \in Seq(Address) /\ NoDuplicates(a)
        BY <1>1
      <3> HIDE DEF a, L, n, long, turned, r
      <3>2. /\ t \in Seq(Address) /\ Len(t) = Len(a) - 1 /\ NoDuplicates(t)
            /\ ToSet(t) = ToSet(a) \ {a[m]}
            /\ \A k \in 1 .. Len(a) - 1 : t[k] = IF k < m THEN a[k] ELSE a[k + 1]
        BY <3>1, RemoveElement
      <3> HIDE DEF t
      <3> QED BY <2>1, <3>2 DEF n
    <2> HIDE DEF t
    <2>3. r = Append(t, i)
      BY <2>1 DEF t
    <2>4. /\ Append(t, i) \in Seq(Address) /\ Len(Append(t, i)) = Len(t) + 1
          /\ \A k \in 1 .. Len(t) + 1 : Append(t, i)[k] = IF k <= Len(t) THEN t[k] ELSE i
          /\ ToSet(Append(t, i)) = ToSet(t) \cup {i}
          /\ NoDuplicates(t) /\ i \notin ToSet(t) => NoDuplicates(Append(t, i))
      BY <2>2, PushBack
    <2> HIDE DEF r
    <2>5. /\ r \in Seq(Address) /\ NoDuplicates(r) /\ ToSet(r) = ToSet(a) /\ Len(r) = n
          /\ r[n] = i /\ DOMAIN r = 1 .. n
          /\ \A k \in 1 .. n - 1 : r[k] = IF k < m THEN a[k] ELSE a[k + 1]
      <3>1. Len(r) = n /\ r[n] = i /\ \A k \in 1 .. n - 1 : r[k] = t[k]
        BY <1>1, <2>1, <2>2, <2>3, <2>4
      <3>2. r \in Seq(Address) /\ NoDuplicates(r) /\ ToSet(r) = ToSet(a)
        BY <1>1, <1>6, <2>2, <2>3, <2>4
      <3> QED BY <2>2, <3>1, <3>2, LenProperties
    <2> HIDE DEF a, n, L
    <2>6. /\ lru' \in Policy(L) /\ lru'.list = r /\ lru'.present = lru.present
          /\ lru'.faults = lru.faults
          /\ lru'.state = IF n = 1 THEN "headless" ELSE lru.state
      <3>1. lru' = [lru EXCEPT !.list = r, !.state = IF n = 1 THEN "headless" ELSE @]
        BY <1>6 DEF MoveBack, r, a, n
      <3>2. r \in L
        BY <2>5 DEF L
      <3> QED BY <1>1, <3>1, <3>2 DEF Policy
    <2>7. Holds(lru', r)
      BY <1>1, <2>5, <2>6 DEF Holds
    <2>8. \A j, k \in 1 .. n : j < k => UsedAfter(file', r[k], r[j])
      <3> SUFFICES ASSUME NEW j \in 1 .. n, NEW k \in 1 .. n, j < k
                   PROVE  UsedAfter(file', r[k], r[j])
        OBVIOUS
      <3> DEFINE from(x) == IF x < m THEN x ELSE x + 1
      <3>1. \A x \in 1 .. n - 1 : from(x) \in (1 .. n) \ {m} /\ r[x] = a[from(x)]
        BY <1>1, <2>1, <2>5
      <3>2. j \in 1 .. n - 1 /\ r[j] # i
        <4>1. j \in 1 .. n - 1
          BY <1>1
        <4> HIDE DEF from
        <4> QED BY <1>1, <2>1, <3>1, <4>1
      <3>3. CASE k = n
        BY <1>2, <2>5, <3>2, <3>3
      <3>4. CASE k # n
        <4>1. k \in 1 .. n - 1 /\ from(j) < from(k)
          BY <1>1, <3>4
        <4> HIDE DEF from
        <4>2. UsedAfter(file, r[k], r[j])
          BY <1>3, <1>6, <3>1, <3>2, <4>1
        <4> QED BY <1>2, <3>2, <4>2
      <3> QED BY <3>3, <3>4
    <2>9. ASSUME NEW x \in ToSet(file') \ ToSet(r)
          PROVE  n = pages /\ \A b \in ToSet(r) : UsedAfter(file', b, x)
      <3>1. x # i /\ x \in ToSet(file) \ ToSet(a)
        BY <1>1, <1>2, <1>6, <2>5
      <3> QED BY <1>2, <1>3, <1>6, <2>5, <3>1
    <2>10. n = 1 => pages = 1 \/ ToSet(file) = {i}
      <3> SUFFICES ASSUME n = 1, pages # 1
                   PROVE  ToSet(file) = {i}
        OBVIOUS
      <3>1. ToSet(a) = {i}
        BY <1>1, <2>1
      <3> QED BY <1>3, <1>6, <3>1
    <2>11. Headless' /\ (lru'.state # "ok" => pages' = 1 \/ Len(file') = 1 \/ file'[1] = file'[2])
      BY <1>4, <2>6, <2>10
    <2>12. ToSet(r) \subseteq ToSet(file')
      BY <1>2, <1>3, <1>6, <2>5
    <2>13. LRUExact'
      BY <2>5, <2>6, <2>8, <2>9, <2>11, <2>12 DEF LRUExact, Full
    <2> QED BY <1>6, <2>6, <2>7, <2>11, <2>13 DEF L, ServedOrCrashed, Served, Stays
  <1>7. CASE /\ lru.state # "crashed" /\ i \notin lru.present /\ ~ Full(lru)
             /\ lru' = Missed(lru, i, long, {})
    <2>1. n # pages
      BY <1>7 DEF Full
    <2>2. /\ long \in Seq(Address) /\ NoDuplicates(long) /\ Len(long) = n + 1
          /\ ToSet(long) = ToSet(a) \cup {i}
          /\ \A k \in 1 .. n + 1 : long[k] = IF k <= n THEN a[k] ELSE i
      BY <1>1, <1>7, PushBack
    <2> HIDE DEF a, n, long, L
    <2>3. long \in L /\ Len(long) <= pages /\ ToSet(long) = (ToSet(a) \cup {i}) \ {}
          /\ DOMAIN long = 1 .. n + 1 /\ Len(a) # pages
      BY <1>1, <2>1, <2>2, LenProperties DEF L, n
    <2>4. /\ lru' \in Policy(L) /\ lru'.list = long /\ lru'.state = lru.state
          /\ i \in lru'.present /\ Holds(lru', long) /\ ServedOrCrashed(lru, lru', i)
      BY <1>1, <1>7, <2>2, <2>3, MissIsFault DEF ServedOrCrashed, Served
    <2>5. ToSet(file') = ToSet(long)
      BY <1>2, <1>3, <1>7, <2>1, <2>2
    <2>6. \A j, k \in 1 .. n + 1 : j < k => UsedAfter(file', long[k], long[j])
      <3> SUFFICES ASSUME NEW j \in 1 .. n + 1, NEW k \in 1 .. n + 1, j < k
                   PROVE  UsedAfter(file', long[k], long[j])
        OBVIOUS
      <3>1. j \in 1 .. n /\ long[j] = a[j] /\ a[j] # i
        BY <1>1, <1>7, <2>2
      <3>2. CASE k = n + 1
        BY <1>1, <1>2, <2>2, <3>1, <3>2
      <3>3. CASE k # n + 1
        <4>1. k \in 1 .. n /\ long[k] = a[k]
          BY <1>1, <2>2, <3>3
        <4> QED BY <1>2, <1>3, <1>7, <3>1, <4>1
      <3> QED BY <3>2, <3>3
    <2>7. Headless' /\ (lru'.state # "ok" => pages' = 1 \/ Len(file') = 1 \/ file'[1] = file'[2])
      BY <1>4, <2>4
    <2>8. LRUExact'
      BY <2>3, <2>4, <2>5, <2>6, <2>7 DEF LRUExact
    <2> QED BY <1>7, <2>4, <2>7, <2>8 DEF L
  <1>8. CASE /\ lru.state # "crashed" /\ i \notin lru.present /\ Full(lru)
             /\ lru' = Missed(lru, i, turned, {Head(a)})
    <2>1. n = pages /\ a # <<>> /\ i \notin ToSet(a)
      BY <1>1, <1>8 DEF Full
    <2>2. Head(a) = a[1] /\ 1 \in 1 .. n /\ Head(a) \in lru.present
      BY <1>1, <2>1
    <2>3. /\ turned \in Seq(Address) /\ Len(turned) = n /\ NoDuplicates(turned)
          /\ ToSet(turned) = (ToSet(a) \cup {i}) \ {Head(a)}
          /\ \A k \in 1 .. n : turned[k] = IF k < n THEN a[k + 1] ELSE i
      BY <1>1, <2>1, LoadedBehind
    <2> DEFINE ev == {Head(a)}
    <2>4. /\ ToSet(turned) = (ToSet(a) \cup {i}) \ ev /\ \E x \in lru.present : ev = {x}
          /\ lru' = Missed(lru, i, turned, ev)
      BY <1>8, <2>2, <2>3
    <2> HIDE DEF a, n, turned, L, ev
    <2>5. turned \in L /\ Len(turned) <= pages /\ DOMAIN turned = 1 .. n /\ Len(a) = pages
      BY <1>1, <2>1, <2>3, LenProperties DEF L, n
    <2>6. /\ lru' \in Policy(L) /\ lru'.list = turned /\ lru'.state = lru.state
          /\ i \in lru'.present /\ Holds(lru', turned) /\ ServedOrCrashed(lru, lru', i)
      BY <1>1, <1>8, <2>3, <2>4, <2>5, MissIsFault DEF ServedOrCrashed, Served
    <2>7. \A j, k \in 1 .. n : j < k => UsedAfter(file', turned[k], turned[j])
      <3> SUFFICES ASSUME NEW j \in 1 .. n, NEW k \in 1 .. n, j < k
                   PROVE  UsedAfter(file', turned[k], turned[j])
        OBVIOUS
      <3>1. j + 1 \in 1 .. n /\ turned[j] = a[j + 1]
        BY <1>1, <2>3
      <3>2. a[j + 1] # i
        BY <1>1, <2>1, <3>1
      <3>3. CASE k = n
        BY <1>1, <1>2, <2>3, <3>1, <3>2, <3>3
      <3>4. CASE k # n
        <4>1. k + 1 \in 1 .. n /\ turned[k] = a[k + 1] /\ j + 1 < k + 1
          BY <1>1, <2>3, <3>4
        <4> QED BY <1>2, <1>3, <1>8, <3>1, <3>2, <4>1
      <3> QED BY <3>3, <3>4
    <2>8. ASSUME NEW x \in ToSet(file') \ ToSet(turned), NEW b \in ToSet(turned)
          PROVE  UsedAfter(file', b, x)
      <3>1. x # i
        BY <2>1, <2>2, <2>3, <1>1
      <3>2. CASE b = i
        BY <1>2, <3>1, <3>2
      <3>3. CASE b # i
        <4>1. b \in ToSet(a) /\ b # a[1]
          BY <2>2, <2>3, <3>3
        <4>2. PICK k \in 1 .. n : a[k] = b
          BY <1>1, <4>1
        <4>3. 1 < k
          BY <1>1, <4>1, <4>2
        <4>4. CASE x = a[1]
          <5>1. UsedAfter(file, b, x)
            BY <1>3, <1>8, <2>2, <4>2, <4>3, <4>4
          <5> QED BY <1>2, <3>1, <5>1
        <4>5. CASE x # a[1]
          <5>1. x \in ToSet(file) \ ToSet(a)
            BY <1>2, <2>2, <2>3, <2>8, <3>1, <4>5
          <5>2. UsedAfter(file, b, x)
            BY <1>3, <1>8, <4>1, <5>1
          <5> QED BY <1>2, <3>1, <5>2
        <4> QED BY <4>4, <4>5
      <3> QED BY <3>2, <3>3
    <2>9. Headless' /\ (lru'.state # "ok" => pages' = 1 \/ Len(file') = 1 \/ file'[1] = file'[2])
      BY <1>4, <2>6
    <2>10. ToSet(turned) \subseteq ToSet(file')
      BY <1>2, <1>3, <1>8, <2>3
    <2>11. Len(turned) = pages'
      BY <2>1, <2>3
    <2>12. LRUExact'
      BY <2>5, <2>6, <2>7, <2>8, <2>9, <2>10, <2>11 DEF LRUExact, Full
    <2> QED BY <1>8, <2>6, <2>9, <2>12 DEF L
  <1> QED
    <2>1. lru' = IF lru.state = "crashed" THEN lru
                 ELSE IF i \in lru.present THEN LruHit(i) ELSE LruMiss(i)
      BY DEF Lru
    <2>2. LruHit(i) = IF lru.state = "headless" THEN [lru EXCEPT !.state = "crashed"]
                      ELSE MoveBack(lru, i)
      BY DEF LruHit
    <2>3. LruMiss(i) = IF ~Full(lru) THEN Missed(lru, i, long, {})
                       ELSE IF lru.state = "headless" THEN [lru EXCEPT !.state = "crashed"]
                       ELSE Missed(lru, i, turned, {Head(a)})
      BY DEF LruMiss
    <2> HIDE DEF a, long, turned
    <2> QED BY <1>5, <1>6, <1>7, <1>8, <2>1, <2>2, <2>3

(***************************************************************************)
(* The invariant, and what follows from it.                                *)
(***************************************************************************)
LEMMA InitInv == Init => Inv
  <1> SUFFICES ASSUME Init PROVE Inv
    OBVIOUS
  <1>1. pages \in Nat \ {0}
    BY CapacitiesAssumption DEF Init
  <1>2. <<>> \in Seq(Address) /\ <<>> \in Seq(LfuNode) /\ <<>> \in Seq(ClockNode)
    OBVIOUS
  <1>3. Types
    BY <1>2 DEF Init, Types, Policy, Empty
  <1>4. ListOK(fifo, <<>>) /\ ListOK(lfu, <<>>) /\ ListOK(lru, <<>>) /\ ListOK(clock, <<>>)
    <2>1. IsInjective(<<>>) /\ ToSet(<<>>) = {} /\ Len(<<>>) = 0
      BY DEF IsInjective, ToSet
    <2> QED BY <1>1, <2>1 DEF Init, Empty, ListOK
  <1>5. Addresses(<<>>) = <<>>
    BY DEF Addresses
  <1>6. TypeOK
    <2>1. /\ pages \in Capacities /\ file = <<>> /\ atEnd = FALSE /\ replaced = 0
          /\ fifo.list = <<>> /\ lfu.list = <<>> /\ lru.list = <<>> /\ clock.list = <<>>
      BY DEF Init, Empty
    <2>2. Len(<<>>) = 0
      OBVIOUS
    <2>3. replaced \in 0 .. Len(file)
      BY <2>1, <2>2
    <2> QED BY <1>2, <1>4, <1>5, <2>1, <2>3 DEF TypeOK
  <1>7. LRUExact
    BY DEF Init, Empty, LRUExact, ToSet
  <1>8. Sorted(lfu.list) /\ Recent /\ Headless /\ UseBits
    BY DEF Init, Empty, Sorted, Recent, Headless, UseBits
  <1> QED BY <1>3, <1>6, <1>7, <1>8 DEF Inv

\* What both kinds of step do.
LEMMA StepReads ==
    ASSUME Inv, Next
    PROVE  \E i \in Address :
              /\ Policies(i) /\ Reads(i) /\ ~ atEnd /\ (file' = file => atEnd')
              /\ pages' = pages /\ atEnd' \in BOOLEAN
              /\ atEnd' # atEnd => file # <<>> /\ i = Last(file)
  <1>1. file \in Seq(Address) /\ Len(file) \in Nat
    BY LenProperties DEF Inv, TypeOK
  <1>2. ASSUME NEW i \in Address, Query(i)
        PROVE  /\ Policies(i) /\ Reads(i) /\ ~ atEnd /\ (file' = file => atEnd')
               /\ pages' = pages /\ atEnd' \in BOOLEAN /\ atEnd' = atEnd
    <2>1. Len(file') = Len(file) + 1
      BY <1>1, <1>2, AppendProperties DEF Query
    <2>2. file' # file
      BY <1>1, <2>1
    <2> QED BY <1>2, <2>2 DEF Query, Reads, Inv, TypeOK
  <1>3. ASSUME QueryAgain
        PROVE  /\ Last(file) \in Address /\ Policies(Last(file)) /\ Reads(Last(file))
               /\ ~ atEnd /\ atEnd' = TRUE /\ pages' = pages /\ file # <<>>
    <2>1. Len(file) \in 1 .. Len(file)
      BY <1>1, <1>3 DEF QueryAgain
    <2>2. Last(file) \in Address
      BY <1>1, <2>1, ElementOfSeq DEF Last
    <2> QED BY <1>3, <2>2 DEF QueryAgain, Reads
  <1>4. CASE \E i \in Address : Query(i)
    BY <1>2, <1>4
  <1>5. CASE QueryAgain
    BY <1>3, <1>5
  <1> QED BY <1>4, <1>5 DEF Next

\* The steps of the four policies together.
LEMMA PoliciesStep ==
    ASSUME Inv, NEW i \in Address, Policies(i), Reads(i), ~ atEnd, file' = file => atEnd',
           pages' = pages
    PROVE  /\ Served(fifo, fifo', i) /\ Served(lfu, lfu', i)
           /\ ServedOrCrashed(lru, lru', i) /\ ServedOrCrashed(clock, clock', i)
           /\ file # <<>> /\ i = Last(file) =>
                 /\ Stays(fifo, fifo') /\ Stays(lfu, lfu')
                 /\ Stays(lru, lru') /\ Stays(clock, clock')
           /\ lru.state = "crashed" => Stays(lru, lru') /\ lru'.state = "crashed"
           /\ clock.state = "crashed" => Stays(clock, clock') /\ clock'.state = "crashed"
  <1>1. /\ Served(fifo, fifo', i) /\ Served(lfu, lfu', i)
        /\ ServedOrCrashed(lru, lru', i) /\ ServedOrCrashed(clock, clock', i)
        /\ lru.state = "crashed" => Stays(lru, lru') /\ lru'.state = "crashed"
        /\ clock.state = "crashed" => Stays(clock, clock') /\ clock'.state = "crashed"
    BY FifoStep, LfuStep, LruStep, ClockStep DEF Policies, Stays
  <1>2. ASSUME file # <<>>, i = Last(file)
        PROVE  /\ i \in fifo.present /\ i \in lfu.present
               /\ lru.state # "crashed" => i \in lru.present
               /\ clock.state # "crashed" => i \in clock.present
    BY <1>2 DEF Inv, Recent
  <1> QED BY <1>1, <1>2 DEF ServedOrCrashed, Served, Fault

\* A policy has counted at most one fault for each reference of the file.
LEMMA FaultsInFile ==
    ASSUME Inv, NEW i \in Address, Reads(i), NEW p, p.faults \in 0 .. Len(file), NEW q,
           Fault(p, q, i) \/ Stays(p, q), file # <<>> /\ i = Last(file) => Stays(p, q)
    PROVE  q.faults \in 0 .. Len(file')
  <1>1. file \in Seq(Address) /\ Len(file) \in Nat
    BY LenProperties DEF Inv, TypeOK
  <1>2. CASE file' = Append(file, i)
    <2>1. Len(file') = Len(file) + 1
      BY <1>1, <1>2, AppendProperties
    <2> QED BY <1>1, <2>1 DEF Fault, Stays
  <1>3. CASE file' = file /\ file # <<>> /\ i = Last(file)
    BY <1>3 DEF Stays
  <1> QED BY <1>2, <1>3 DEF Reads

LEMMA StepInv == Inv /\ Next => Inv'
  <1> SUFFICES ASSUME Inv, Next PROVE Inv'
    OBVIOUS
  <1>1. PICK i \in Address :
            /\ Policies(i) /\ Reads(i) /\ ~ atEnd /\ (file' = file => atEnd')
            /\ pages' = pages /\ atEnd' \in BOOLEAN
    BY StepReads
  <1>2. /\ fifo' \in Policy(Seq(Address)) /\ Holds(fifo', fifo'.list) /\ i \in fifo'.present
    BY <1>1, FifoStep DEF Policies
  <1>3. /\ lfu' \in Policy(Seq(LfuNode)) /\ Holds(lfu', Addresses(lfu'.list))
        /\ i \in lfu'.present /\ Sorted(lfu'.list)
    BY <1>1, LfuStep DEF Policies
  <1>4. /\ lru' \in Policy(Seq(Address)) /\ Holds(lru', lru'.list) /\ LRUExact' /\ Headless'
        /\ lru'.state # "crashed" => i \in lru'.present
    BY <1>1, LruStep DEF Policies
  <1>5. /\ clock' \in Policy(Seq(ClockNode)) /\ Holds(clock', Addresses(clock'.list))
        /\ clock'.state # "crashed" => i \in clock'.present
        /\ replaced' \in {replaced, Len(file)} /\ UseBits'
    BY <1>1, ClockStep DEF Policies
  <1>6. file' \in Seq(Address) /\ Last(file') = i
    BY <1>1, UsedNext
  <1>7. Types' /\ Sorted(lfu'.list) /\ Recent'
    BY <1>2, <1>3, <1>4, <1>5, <1>6 DEF Types, Recent
  <1>8. /\ fifo'.faults \in 0 .. Len(file') /\ lfu'.faults \in 0 .. Len(file')
        /\ lru'.faults \in 0 .. Len(file') /\ clock'.faults \in 0 .. Len(file')
    <2>1. /\ fifo.faults \in 0 .. Len(file) /\ lfu.faults \in 0 .. Len(file)
          /\ lru.faults \in 0 .. Len(file) /\ clock.faults \in 0 .. Len(file)
      BY DEF Inv, TypeOK, ListOK
    <2> QED BY <1>1, <2>1, PoliciesStep, FaultsInFile DEF ServedOrCrashed, Served
  <1>9. replaced' \in 0 .. Len(file')
    <2>1. file \in Seq(Address) /\ Len(file) \in Nat /\ replaced \in 0 .. Len(file)
      BY LenProperties DEF Inv, TypeOK
    <2>2. Len(file') = Len(file) + 1 \/ Len(file') = Len(file)
      BY <1>1, <2>1, AppendProperties DEF Reads
    <2> QED BY <1>5, <2>1, <2>2
  <1>10. /\ ListOK(fifo, fifo.list)' /\ ListOK(lfu, Addresses(lfu.list))'
         /\ ListOK(lru, lru.list)' /\ ListOK(clock, Addresses(clock.list))'
    <2>1. /\ fifo'.state \in {"ok", "headless", "crashed"}
          /\ lfu'.state \in {"ok", "headless", "crashed"}
          /\ lru'.state \in {"ok", "headless", "crashed"}
          /\ clock'.state \in {"ok", "headless", "crashed"}
      BY <1>2, <1>3, <1>4, <1>5 DEF Policy
    <2>2. \A p, a : Holds(p, a) <=>
              IsInjective(a) /\ ToSet(a) = p.present /\ Len(a) <= pages'
      BY <1>1 DEF Holds, NoDuplicates
    <2>3. ListOK(fifo, fifo.list)'
      BY <1>2, <1>8, <2>1, <2>2 DEF ListOK
    <2>4. ListOK(lfu, Addresses(lfu.list))'
      BY <1>3, <1>8, <2>1, <2>2 DEF ListOK, Addresses
    <2>5. ListOK(lru, lru.list)'
      BY <1>4, <1>8, <2>1, <2>2 DEF ListOK
    <2>6. ListOK(clock, Addresses(clock.list))'
      BY <1>5, <1>8, <2>1, <2>2 DEF ListOK, Addresses
    <2> QED BY <2>3, <2>4, <2>5, <2>6
  <1>11. TypeOK'
    <2>1. pages' \in Capacities
      BY <1>1 DEF Inv, TypeOK
    <2> QED BY <1>1, <1>6, <1>9, <1>10, <2>1 DEF TypeOK
  <1> QED BY <1>4, <1>5, <1>7, <1>11 DEF Inv

LEMMA StutterInv == Inv /\ UNCHANGED vars => Inv'
  BY DEF vars, Inv, TypeOK, Types, Sorted, LRUExact, Recent, Headless, UseBits,
         ListOK, Addresses, UsedAfter, UsedSinceSweep, Full

\* The inductive invariant.
THEOREM PagingInvHolds == Spec => []Inv
  <1>1. Inv /\ [Next]_vars => Inv'
    BY StepInv, StutterInv
  <1> QED BY InitInv, <1>1, PTL DEF Spec

\* The array present of a policy says which addresses its list holds, and no
\* address has two nodes (list_insert, list_pop, move_back, setUseBit).
THEOREM PageTypes == Spec => []TypeOK
  <1>1. Inv => TypeOK
    BY DEF Inv
  <1> QED BY PagingInvHolds, <1>1, PTL

\* The list of LRU holds the most recently used addresses in the order of
\* their last use, and only a hit on the one page of a list takes its head
\* (move_back).
THEOREM LruIsExact == Spec => []LRUExact
  <1>1. Inv => LRUExact
    BY DEF Inv
  <1> QED BY PagingInvHolds, <1>1, PTL

\* The page at the head that LFU evicts has the least count (update_count).
THEOREM LeastIsEvicted == Spec => LFUEvictsLeast
  <1>1. Inv /\ [Next]_vars =>
           [\A k, j \in DOMAIN lfu.list :
                lfu.list[k].address \notin lfu'.present
                    => lfu.list[k].count <= lfu.list[j].count]_vars
    <2> SUFFICES ASSUME Inv, Next, NEW k \in DOMAIN lfu.list, NEW j \in DOMAIN lfu.list,
                        lfu.list[k].address \notin lfu'.present
                 PROVE  lfu.list[k].count <= lfu.list[j].count
      OBVIOUS
    <2>1. PICK i \in Address : Lfu(i)
      BY StepReads DEF Policies
    <2>2. lfu.list \in Seq(LfuNode)
      BY DEF Inv, Types, Policy
    <2>3. /\ DOMAIN lfu.list = 1 .. Len(lfu.list) /\ Len(lfu.list) \in Nat
          /\ \A x \in 1 .. Len(lfu.list) : lfu.list[x].count \in Nat
      <3>1. \A x \in 1 .. Len(lfu.list) : lfu.list[x] \in LfuNode
        BY <2>2, ElementOfSeq
      <3> QED BY <2>2, <3>1, LenProperties DEF LfuNode
    <2>4. k = 1
      BY <2>1, <2>3, LfuStep
    <2>5. CASE j = 1
      BY <2>3, <2>4, <2>5
    <2>6. CASE j # 1
      <3>1. 1 < j /\ 1 \in 1 .. Len(lfu.list) /\ j \in 1 .. Len(lfu.list)
        BY <2>3, <2>4, <2>6
      <3> QED BY <2>4, <3>1 DEF Inv, Sorted
    <2> QED BY <2>5, <2>6
  <1> QED BY PagingInvHolds, <1>1, PTL DEF Spec, LFUEvictsLeast

\* While some use bit is 0 the clock takes no page used since the last sweep,
\* and does not crash (list_pop_D, setUseBit).
THEOREM UsedIsSpared == Spec => ClockSparesUsed
  <1>1. Inv /\ [Next]_vars =>
           [Victims(clock.list) # {} =>
                /\ (clock.present \ clock'.present) \cap UsedSinceSweep = {}
                /\ clock'.state = clock.state]_vars
    <2> SUFFICES ASSUME Inv, Next
                 PROVE  Victims(clock.list) # {} =>
                            /\ (clock.present \ clock'.present) \cap UsedSinceSweep = {}
                            /\ clock'.state = clock.state
      OBVIOUS
    <2>1. PICK i \in Address : Clock(i) /\ Reads(i)
      BY StepReads DEF Policies
    <2> QED BY <2>1, ClockStep
  <1> QED BY PagingInvHolds, <1>1, PTL DEF Spec, ClockSparesUsed

\* Every policy implements demand paging: each reference to a page that is not
\* resident loads that page and counts one fault, until the program crashes, and
\* the last reference, which the feof loop of main processes twice, counts once.
THEOREM PoliciesImplement == Spec => ImplementsPaging
  <1>1. Init => /\ FifoPaging!Init /\ LfuPaging!Init /\ LruPaging!Init /\ ClockPaging!Init
    BY CapacitiesAssumption
       DEF Init, Empty, FifoPaging!Init, LfuPaging!Init, LruPaging!Init, ClockPaging!Init
  <1>2. ASSUME Inv, Next
        PROVE  /\ FifoPaging!Next \/ UNCHANGED <<pages, file, fifo.present, fifo.faults, TRUE>>
               /\ LfuPaging!Next \/ UNCHANGED <<pages, file, lfu.present, lfu.faults, TRUE>>
               /\ LruPaging!Next
                     \/ UNCHANGED <<pages, file, lru.present, lru.faults, lru.state # "crashed">>
               /\ ClockPaging!Next
                     \/ UNCHANGED <<pages, file, clock.present, clock.faults,
                                    clock.state # "crashed">>
    <2>1. PICK i \in Address :
              /\ Policies(i) /\ Reads(i) /\ ~ atEnd /\ (file' = file => atEnd')
              /\ pages' = pages /\ (atEnd' # atEnd => file # <<>> /\ i = Last(file))
      BY <1>2, StepReads
    <2>2. /\ Served(fifo, fifo', i) /\ Served(lfu, lfu', i)
          /\ ServedOrCrashed(lru, lru', i) /\ ServedOrCrashed(clock, clock', i)
          /\ file # <<>> /\ i = Last(file) =>
                /\ Stays(fifo, fifo') /\ Stays(lfu, lfu')
                /\ Stays(lru, lru') /\ Stays(clock, clock')
          /\ lru.state = "crashed" => Stays(lru, lru') /\ lru'.state = "crashed"
          /\ clock.state = "crashed" => Stays(clock, clock') /\ clock'.state = "crashed"
      BY <1>2, <2>1, PoliciesStep
    <2>3. CASE file' = Append(file, i)
      <3>1. FifoPaging!Reference(i)
        BY <2>1, <2>2, <2>3
           DEF Served, Fault, Stays, FifoPaging!Reference, FifoPaging!Hit, FifoPaging!Load,
               Cardinality, FifoPaging!Cardinality
      <3>2. LfuPaging!Reference(i)
        BY <2>1, <2>2, <2>3
           DEF Served, Fault, Stays, LfuPaging!Reference, LfuPaging!Hit, LfuPaging!Load,
               Cardinality, LfuPaging!Cardinality
      <3>3. LruPaging!Reference(i)
        <4>1. CASE lru.state = "crashed"
          BY <2>1, <2>2, <2>3, <4>1 DEF Stays, LruPaging!Reference
        <4>2. CASE lru.state # "crashed" /\ lru'.state = "crashed"
          BY <2>1, <2>2, <2>3, <4>2
             DEF ServedOrCrashed, Stays, LruPaging!Reference, LruPaging!Fail
        <4>3. CASE lru.state # "crashed" /\ lru'.state # "crashed"
          BY <2>1, <2>2, <2>3, <4>3
             DEF ServedOrCrashed, Served, Fault, Stays, LruPaging!Reference, LruPaging!Hit,
                 LruPaging!Load, Cardinality, LruPaging!Cardinality
        <4> QED BY <4>1, <4>2, <4>3
      <3>4. ClockPaging!Reference(i)
        <4>1. CASE clock.state = "crashed"
          BY <2>1, <2>2, <2>3, <4>1 DEF Stays, ClockPaging!Reference
        <4>2. CASE clock.state # "crashed" /\ clock'.state = "crashed"
          BY <2>1, <2>2, <2>3, <4>2
             DEF ServedOrCrashed, Stays, ClockPaging!Reference, ClockPaging!Fail
        <4>3. CASE clock.state # "crashed" /\ clock'.state # "crashed"
          BY <2>1, <2>2, <2>3, <4>3
             DEF ServedOrCrashed, Served, Fault, Stays, ClockPaging!Reference, ClockPaging!Hit,
                 ClockPaging!Load, Cardinality, ClockPaging!Cardinality
        <4> QED BY <4>1, <4>2, <4>3
      <3> QED BY <3>1, <3>2, <3>3, <3>4
              DEF FifoPaging!Next, LfuPaging!Next, LruPaging!Next, ClockPaging!Next
    <2>4. CASE file' = file /\ file # <<>> /\ i = Last(file)
      <3>1. /\ UNCHANGED <<pages, file, fifo.present, fifo.faults, TRUE>>
            /\ UNCHANGED <<pages, file, lfu.present, lfu.faults, TRUE>>
        BY <2>1, <2>2, <2>4 DEF Stays
      <3>2. LruPaging!Crash \/ UNCHANGED <<pages, file, lru.present, lru.faults,
                                            lru.state # "crashed">>
        BY <2>1, <2>2, <2>4 DEF Stays, LruPaging!Crash, LruPaging!Fail
      <3>3. ClockPaging!Crash \/ UNCHANGED <<pages, file, clock.present, clock.faults,
                                              clock.state # "crashed">>
        BY <2>1, <2>2, <2>4 DEF Stays, ClockPaging!Crash, ClockPaging!Fail
      <3> QED BY <3>1, <3>2, <3>3 DEF LruPaging!Next, ClockPaging!Next
    <2> QED BY <2>1, <2>3, <2>4 DEF Reads
  <1>3. Inv /\ [Next]_vars =>
           /\ [FifoPaging!Next]_<<pages, file, fifo.present, fifo.faults, TRUE>>
           /\ [LfuPaging!Next]_<<pages, file, lfu.present, lfu.faults, TRUE>>
           /\ [LruPaging!Next]_<<pages, file, lru.present, lru.faults, lru.state # "crashed">>
           /\ [ClockPaging!Next]_<<pages, file, clock.present, clock.faults,
                                   clock.state # "crashed">>
    BY <1>2 DEF vars
  <1> QED BY PagingInvHolds, <1>1, <1>3, PTL
          DEF Spec, ImplementsPaging,
              FifoPaging!Spec, LfuPaging!Spec, LruPaging!Spec, ClockPaging!Spec
================================================================================
