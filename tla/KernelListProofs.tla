---------------------------- MODULE KernelListProofs ----------------------------
(***************************************************************************)
(* What the list operations return, for every list: lemmas for the proofs  *)
(* about the modules built on KernelList.                                  *)
(***************************************************************************)
EXTENDS KernelList, SequenceTheorems, FiniteSetTheorems, TLAPS

\* A list has the elements at its positions.
LEMMA MemberOfList ==
    ASSUME NEW S, NEW s \in Seq(S)
    PROVE  /\ ToSet(s) \subseteq S
           /\ \A x : x \in ToSet(s) <=> \E i \in 1 .. Len(s) : s[i] = x
           /\ s = <<>> <=> ToSet(s) = {}
  BY DEF ToSet

\* A function on an initial interval is a list.
LEMMA FunctionIsList ==
    ASSUME NEW S, NEW n \in Nat, NEW f \in [1 .. n -> S]
    PROVE  f \in Seq(S) /\ Len(f) = n /\ DOMAIN f = 1 .. n
  OBVIOUS

\* list_pop_front: the front leaves, the rest stays, once each.
LEMMA PopFront ==
    ASSUME NEW S, NEW s \in Seq(S), s # <<>>
    PROVE  /\ Head(s) \in ToSet(s) /\ Tail(s) \in Seq(S)
           /\ ToSet(s) = ToSet(Tail(s)) \cup {Head(s)}
           /\ NoDuplicates(s) => NoDuplicates(Tail(s)) /\ Head(s) \notin ToSet(Tail(s))
  <1>1. /\ Len(s) \in Nat \ {0} /\ Head(s) = s[1]
        /\ Tail(s) \in Seq(S) /\ Len(Tail(s)) = Len(s) - 1
        /\ \A i \in 1 .. Len(s) - 1 : Tail(s)[i] = s[i + 1]
    BY HeadTailProperties
  <1>2. /\ \A x : x \in ToSet(s) <=> \E i \in 1 .. Len(s) : s[i] = x
        /\ \A x : x \in ToSet(Tail(s)) <=> \E i \in 1 .. Len(s) - 1 : Tail(s)[i] = x
    <2>1. \A x : x \in ToSet(Tail(s)) <=> \E i \in 1 .. Len(Tail(s)) : Tail(s)[i] = x
      BY <1>1, MemberOfList
    <2> QED BY <1>1, <2>1, MemberOfList
  <1>3. ToSet(s) = ToSet(Tail(s)) \cup {Head(s)}
    <2>1. ASSUME NEW x \in ToSet(s), x # Head(s) PROVE x \in ToSet(Tail(s))
      <3>1. PICK i \in 1 .. Len(s) : s[i] = x
        BY <1>2, <2>1
      <3>2. i - 1 \in 1 .. Len(s) - 1 /\ Tail(s)[i - 1] = x
        BY <1>1, <2>1, <3>1
      <3> QED BY <1>2, <3>2
    <2>2. ASSUME NEW x \in ToSet(Tail(s)) PROVE x \in ToSet(s)
      <3>1. PICK i \in 1 .. Len(s) - 1 : Tail(s)[i] = x
        BY <1>2, <2>2
      <3>2. i + 1 \in 1 .. Len(s) /\ s[i + 1] = x
        BY <1>1, <3>1
      <3> QED BY <1>2, <3>2
    <2>3. Head(s) \in ToSet(s)
      BY <1>1, <1>2
    <2> QED BY <2>1, <2>2, <2>3
  <1>4. Head(s) \in ToSet(s)
    BY <1>1, MemberOfList
  <1>5. ASSUME NoDuplicates(s)
        PROVE  NoDuplicates(Tail(s)) /\ Head(s) \notin ToSet(Tail(s))
    <2>1. DOMAIN s = 1 .. Len(s) /\ DOMAIN Tail(s) = 1 .. Len(s) - 1
      BY <1>1
    <2>2. \A i, j \in 1 .. Len(s) : s[i] = s[j] => i = j
      BY <1>5, <2>1 DEF NoDuplicates, IsInjective
    <2>3. NoDuplicates(Tail(s))
      BY <1>1, <2>1, <2>2 DEF NoDuplicates, IsInjective
    <2>4. Head(s) \notin ToSet(Tail(s))
      <3>1. SUFFICES ASSUME NEW i \in 1 .. Len(s) - 1, Tail(s)[i] = Head(s) PROVE FALSE
        BY <1>2
      <3>2. s[i + 1] = s[1] /\ i + 1 \in 1 .. Len(s) /\ 1 \in 1 .. Len(s) /\ i + 1 # 1
        BY <1>1, <3>1
      <3> QED BY <2>2, <3>2
    <2> QED BY <2>3, <2>4
  <1> QED BY <1>1, <1>3, <1>4, <1>5

\* list_insert_ordered adds exactly one element.
LEMMA InsertOrdered ==
    ASSUME NEW S, NEW s \in Seq(S), NEW e \in S, NEW rank,
           NEW r \in ListInsertOrdered(s, e, rank)
    PROVE  /\ r \in Seq(S) /\ r # <<>>
           /\ ToSet(r) = ToSet(s) \cup {e}
           /\ NoDuplicates(s) /\ e \notin ToSet(s) => NoDuplicates(r)
  <1>1. PICK i \in 1 .. Len(s) + 1 : r = InsertAt(s, i, e)
    BY DEF ListInsertOrdered
  <1> DEFINE front == SubSeq(s, 1, i - 1)
             back  == SubSeq(s, i, Len(s))
             n == Len(s)
  <1>2. n \in Nat /\ i \in Int
    BY <1>1, LenProperties
  <1>3. /\ front \in Seq(S) /\ Len(front) = i - 1
        /\ \A k \in 1 .. i - 1 : front[k] = s[k]
    BY <1>1, <1>2, SubSeqProperties
  <1>4. /\ back \in Seq(S) /\ Len(back) = n - i + 1
        /\ \A k \in 1 .. n - i + 1 : back[k] = s[i + k - 1]
    BY <1>1, <1>2, SubSeqProperties
  <1>5. <<e>> \in Seq(S) /\ Len(<<e>>) = 1 /\ <<e>>[1] = e
    OBVIOUS
  <1>6. /\ front \o <<e>> \in Seq(S) /\ Len(front \o <<e>>) = i
        /\ \A k \in 1 .. i : (front \o <<e>>)[k] = IF k < i THEN s[k] ELSE e
    BY <1>2, <1>3, <1>5, ConcatProperties
  <1>7. /\ r \in Seq(S) /\ Len(r) = n + 1
        /\ \A k \in 1 .. n + 1 : r[k] = IF k < i THEN s[k] ELSE IF k = i THEN e ELSE s[k - 1]
    <2>1. r = (front \o <<e>>) \o back
      BY <1>1 DEF InsertAt
    <2>2. /\ r \in Seq(S) /\ Len(r) = n + 1
          /\ \A k \in 1 .. n + 1 : r[k] = IF k <= i THEN (front \o <<e>>)[k] ELSE back[k - i]
      <3> DEFINE start == front \o <<e>>
      <3>1. start \in Seq(S) /\ Len(start) = i /\ r = start \o back
        BY <1>6, <2>1
      <3>2. back \in Seq(S) /\ Len(back) = n - i + 1
        BY <1>4
      <3> HIDE DEF start, back
      <3>3. /\ r \in Seq(S) /\ Len(r) = i + (n - i + 1)
            /\ \A k \in 1 .. i + (n - i + 1) : r[k] = IF k <= i THEN start[k] ELSE back[k - i]
        <4>1. /\ start \o back \in Seq(S) /\ Len(start \o back) = Len(start) + Len(back)
              /\ \A k \in 1 .. Len(start) + Len(back) : (start \o back)[k] =
                    IF k <= Len(start) THEN start[k] ELSE back[k - Len(start)]
          BY <3>1, <3>2, ConcatProperties
        <4> QED BY <3>1, <3>2, <4>1
      <3> QED BY <1>2, <3>3 DEF start
    <2>3. \A k \in 1 .. n + 1 : k > i => back[k - i] = s[k - 1]
      BY <1>1, <1>2, <1>4
    <2> QED BY <1>1, <1>2, <1>6, <2>2, <2>3
  <1> HIDE DEF front, back
  <1>m. /\ \A x : x \in ToSet(s) <=> \E k \in 1 .. n : s[k] = x
        /\ \A x : x \in ToSet(r) <=> \E k \in 1 .. n + 1 : r[k] = x
    <2>1. \A x : x \in ToSet(r) <=> \E k \in 1 .. Len(r) : r[k] = x
      BY <1>7, MemberOfList
    <2> QED BY <1>7, <2>1, MemberOfList
  <1>8. ToSet(r) = ToSet(s) \cup {e}
    <2>1. ASSUME NEW x \in ToSet(r) PROVE x \in ToSet(s) \cup {e}
      BY <1>1, <1>2, <1>7, <2>1, <1>m
    <2>2. ASSUME NEW x \in ToSet(s) PROVE x \in ToSet(r)
      <3>1. PICK k \in 1 .. n : s[k] = x
        BY <2>2, <1>m
      <3>2. IF k < i THEN r[k] = x ELSE r[k + 1] = x
        BY <1>1, <1>2, <1>7, <3>1
      <3>3. k \in 1 .. n + 1 /\ k + 1 \in 1 .. n + 1
        BY <1>2
      <3> QED BY <3>2, <3>3, <1>m
    <2>3. e \in ToSet(r)
      BY <1>1, <1>2, <1>7, <1>m
    <2> QED BY <2>1, <2>2, <2>3
  <1>9. ASSUME NoDuplicates(s), e \notin ToSet(s) PROVE NoDuplicates(r)
    <2>1. \A j, k \in 1 .. n : s[j] = s[k] => j = k
      BY <1>9 DEF NoDuplicates, IsInjective
    <2>2. \A k \in 1 .. n : s[k] # e
      BY <1>9, <1>m
    <2>3. ASSUME NEW j \in 1 .. n + 1, NEW k \in 1 .. n + 1, r[j] = r[k], j < k PROVE FALSE
      <3> DEFINE at(h) == IF h < i THEN h ELSE h - 1
      <3>1. CASE j = i
        <4>1. r[j] = e /\ r[k] = s[k - 1] /\ k - 1 \in 1 .. n
          BY <1>2, <1>7, <2>3, <3>1
        <4> QED BY <2>2, <2>3, <4>1
      <3>2. CASE k = i
        <4>1. r[k] = e /\ r[j] = s[j] /\ j \in 1 .. n
          BY <1>2, <1>7, <2>3, <3>2
        <4> QED BY <2>2, <2>3, <4>1
      <3>3. CASE j # i /\ k # i
        <4>1. r[j] = s[at(j)] /\ r[k] = s[at(k)]
          BY <1>2, <1>7, <3>3
        <4>2. at(j) \in 1 .. n /\ at(k) \in 1 .. n /\ at(j) # at(k)
          BY <1>1, <1>2, <2>3, <3>3
        <4> HIDE DEF at
        <4> QED BY <2>1, <2>3, <4>1, <4>2
      <3> QED BY <3>1, <3>2, <3>3
    <2>4. DOMAIN r = 1 .. n + 1
      BY <1>7
    <2> QED BY <1>2, <2>3, <2>4 DEF NoDuplicates, IsInjective
  <1> QED BY <1>2, <1>7, <1>8, <1>9

\* list_sort keeps the elements, as often as they occur.
LEMMA SortKeepsElements ==
    ASSUME NEW S, NEW s \in Seq(S), NEW rank, NEW r \in ListSort(s, rank)
    PROVE  /\ r \in Seq(S) /\ Len(r) = Len(s)
           /\ ToSet(r) = ToSet(s)
           /\ NoDuplicates(s) => NoDuplicates(r)
  <1>1. PICK p \in Bijection(1 .. Len(s), 1 .. Len(s)) :
           r = [k \in 1 .. Len(s) |-> s[p[k]]]
    BY DEF ListSort
  <1>2. /\ DOMAIN p = 1 .. Len(s) /\ \A i \in 1 .. Len(s) : p[i] \in 1 .. Len(s)
        /\ \A i, j \in 1 .. Len(s) : p[i] = p[j] => i = j
        /\ \A k \in 1 .. Len(s) : \E i \in 1 .. Len(s) : p[i] = k
    BY <1>1 DEF Bijection, Injection, Surjection, IsInjective
  <1>3. r \in Seq(S) /\ Len(r) = Len(s) /\ \A k \in 1 .. Len(s) : r[k] = s[p[k]]
    <2>1. Len(s) \in Nat /\ \A k \in 1 .. Len(s) : s[k] \in S
      BY LenProperties, ElementOfSeq
    <2>2. r \in [1 .. Len(s) -> S]
      BY <1>1, <1>2, <2>1
    <2> QED BY <1>1, <2>1, <2>2
  <1>4. ToSet(r) = ToSet(s)
    <2>1. \A x : x \in ToSet(s) <=> \E k \in 1 .. Len(s) : s[k] = x
      BY MemberOfList
    <2>2. \A x : x \in ToSet(r) <=> \E k \in 1 .. Len(r) : r[k] = x
      BY <1>3, MemberOfList
    <2>3. ASSUME NEW x \in ToSet(s) PROVE x \in ToSet(r)
      <3>1. PICK k \in 1 .. Len(s) : s[k] = x
        BY <2>1, <2>3
      <3>2. PICK i \in 1 .. Len(s) : p[i] = k
        BY <1>2, <3>1
      <3>3. r[i] = x
        BY <1>3, <3>1, <3>2
      <3> QED BY <1>3, <2>2, <3>3
    <2>4. ASSUME NEW x \in ToSet(r) PROVE x \in ToSet(s)
      <3>1. PICK k \in 1 .. Len(s) : r[k] = x
        BY <1>3, <2>2, <2>4
      <3>2. s[p[k]] = x /\ p[k] \in 1 .. Len(s)
        BY <1>2, <1>3, <3>1
      <3> QED BY <2>1, <3>2
    <2> QED BY <2>3, <2>4
  <1>5. ASSUME NoDuplicates(s) PROVE NoDuplicates(r)
    <2>1. DOMAIN s = 1 .. Len(s) /\ DOMAIN r = 1 .. Len(s)
      BY <1>3
    <2>2. \A i, j \in 1 .. Len(s) : s[i] = s[j] => i = j
      BY <1>5, <2>1 DEF NoDuplicates, IsInjective
    <2>3. ASSUME NEW i \in 1 .. Len(s), NEW j \in 1 .. Len(s), r[i] = r[j] PROVE i = j
      <3>1. s[p[i]] = s[p[j]] /\ p[i] \in 1 .. Len(s) /\ p[j] \in 1 .. Len(s)
        BY <1>2, <1>3, <2>3
      <3>2. p[i] = p[j]
        BY <2>2, <3>1
      <3> QED BY <1>2, <3>2
    <2> QED BY <2>1, <2>3 DEF NoDuplicates, IsInjective
  <1> QED BY <1>3, <1>4, <1>5

\* The front of a sorted list is preceded by none of its elements.
LEMMA SortedFront ==
    ASSUME NEW S, NEW s \in Seq(S), s # <<>>, NEW rank \in [S -> Int],
           NEW r \in ListSort(s, rank)
    PROVE  \A x \in ToSet(s) : rank[x] <= rank[Head(r)]
  <1>1. PICK p \in Bijection(1 .. Len(s), 1 .. Len(s)) :
           r = [k \in 1 .. Len(s) |-> s[p[k]]] /\ InOrder(s, rank, p)
    BY DEF ListSort
  <1>2. /\ DOMAIN p = 1 .. Len(s) /\ \A i \in 1 .. Len(s) : p[i] \in 1 .. Len(s)
        /\ \A k \in 1 .. Len(s) : \E i \in 1 .. Len(s) : p[i] = k
    BY <1>1 DEF Bijection, Injection, Surjection
  <1>3. Len(s) \in Nat \ {0} /\ \A k \in 1 .. Len(s) : s[k] \in S
    BY LenProperties, ElementOfSeq, EmptySeq
  <1>4. Head(r) = s[p[1]]
    <2>1. 1 \in 1 .. Len(s) /\ r[1] = s[p[1]]
      BY <1>1, <1>3
    <2>2. Head(r) = r[1]
      BY SortKeepsElements, <1>3
    <2> QED BY <2>1, <2>2
  <1>5. ASSUME NEW x \in ToSet(s) PROVE rank[x] <= rank[Head(r)]
    <2>1. PICK k \in 1 .. Len(s) : s[k] = x
      BY <1>5, MemberOfList
    <2>2. PICK i \in 1 .. Len(s) : p[i] = k
      BY <1>2, <2>1
    <2>3. CASE i = 1
      <3>1. x = Head(r)
        BY <1>4, <2>1, <2>2, <2>3
      <3>2. x \in S
        BY <1>3, <2>1
      <3> QED BY <3>1, <3>2
    <2>4. CASE i # 1
      <3>0. 1 \in 1 .. Len(s) /\ 1 < i
        BY <1>3, <2>4
      <3>1. ~ Compare(rank, s[p[i]], s[p[1]]) \/ Compare(rank, s[p[1]], s[p[i]])
        BY <1>1, <1>2, <3>0 DEF InOrder
      <3>2. rank[s[p[1]]] \in Int /\ rank[s[p[i]]] \in Int
        <4>1. p[1] \in 1 .. Len(s) /\ p[i] \in 1 .. Len(s)
          BY <1>2, <3>0
        <4>2. s[p[1]] \in S /\ s[p[i]] \in S
          BY <1>3, <4>1
        <4> QED BY <4>2
      <3> QED BY <1>4, <2>1, <2>2, <3>1, <3>2 DEF Compare
    <2> QED BY <2>3, <2>4
  <1> QED BY <1>5

\* list_remove of some elements leaves the others.
LEMMA KeepIsSubset ==
    ASSUME NEW S, NEW s \in Seq(S), NEW K, NEW r \in ListKeep(s, K)
    PROVE  r \in Seq(S) /\ ToSet(r) \subseteq ToSet(s) \cap K
  <1> DEFINE kept == {i \in DOMAIN s : s[i] \in K}
             m == Cardinality(kept)
  <1>1. PICK f \in [1 .. m -> kept] : r = [k \in 1 .. m |-> s[f[k]]]
    BY DEF ListKeep
  <1>2. Len(s) \in Nat /\ DOMAIN s = 1 .. Len(s) /\ \A i \in DOMAIN s : s[i] \in S
    BY LenProperties, ElementOfSeq
  <1>3. m \in Nat
    <2>1. IsFiniteSet(DOMAIN s)
      BY <1>2, FS_Interval
    <2>2. IsFiniteSet(kept)
      BY <2>1, FS_Subset
    <2> QED BY <2>2, FS_CardinalityType
  <1>4. \A k \in 1 .. m : r[k] \in ToSet(s) \cap K \cap S
    BY <1>1, <1>2 DEF ToSet
  <1>5. r \in [1 .. m -> S]
    BY <1>1, <1>2
  <1> HIDE DEF m
  <1>6. r \in Seq(S) /\ Len(r) = m
    BY <1>3, <1>5, FunctionIsList
  <1>7. \A x \in ToSet(r) : \E k \in 1 .. m : r[k] = x
    BY <1>6, MemberOfList
  <1> QED BY <1>4, <1>6, <1>7

\* list_push_back.
LEMMA PushBack ==
    ASSUME NEW S, NEW s \in Seq(S), NEW e \in S
    PROVE  /\ Append(s, e) \in Seq(S) /\ Len(Append(s, e)) = Len(s) + 1
           /\ \A k \in 1 .. Len(s) + 1 :
                 Append(s, e)[k] = IF k <= Len(s) THEN s[k] ELSE e
           /\ ToSet(Append(s, e)) = ToSet(s) \cup {e}
           /\ NoDuplicates(s) /\ e \notin ToSet(s) => NoDuplicates(Append(s, e))
  <1> DEFINE r == Append(s, e)
             n == Len(s)
  <1>1. /\ n \in Nat /\ r \in Seq(S) /\ Len(r) = n + 1
        /\ \A k \in 1 .. n : r[k] = s[k]
        /\ r[n + 1] = e
    BY AppendProperties, LenProperties
  <1>2. DOMAIN r = 1 .. n + 1 /\ DOMAIN s = 1 .. n
    BY <1>1, LenProperties
  <1> HIDE DEF r
  <1>3. \A k \in 1 .. n + 1 : r[k] = IF k <= n THEN s[k] ELSE e
    BY <1>1
  <1>4. /\ \A x : x \in ToSet(r) <=> \E k \in 1 .. n + 1 : r[k] = x
        /\ \A x : x \in ToSet(s) <=> \E k \in 1 .. n : s[k] = x
    BY <1>2 DEF ToSet
  <1>5. ToSet(r) = ToSet(s) \cup {e}
    <2>1. ASSUME NEW x \in ToSet(r) PROVE x \in ToSet(s) \cup {e}
      BY <1>1, <1>3, <1>4, <2>1
    <2>2. ASSUME NEW x \in ToSet(s) PROVE x \in ToSet(r)
      BY <1>1, <1>4, <2>2
    <2>3. n + 1 \in 1 .. n + 1
      BY <1>1
    <2> QED BY <1>1, <1>4, <2>1, <2>2, <2>3
  <1>6. ASSUME NoDuplicates(s), e \notin ToSet(s) PROVE NoDuplicates(r)
    <2>1. \A j, k \in 1 .. n : s[j] = s[k] => j = k
      BY <1>2, <1>6 DEF NoDuplicates, IsInjective
    <2>2. \A k \in 1 .. n : s[k] # e
      BY <1>4, <1>6
    <2>3. \A j, k \in 1 .. n + 1 : r[j] = r[k] => j = k
      BY <1>1, <1>3, <2>1, <2>2
    <2> QED BY <1>2, <2>3 DEF NoDuplicates, IsInjective
  <1> QED BY <1>1, <1>3, <1>5, <1>6 DEF r

\* list_remove at position i: the elements behind it move up.
LEMMA RemovePlace ==
    ASSUME NEW S, NEW s \in Seq(S), NEW i \in 1 .. Len(s)
    PROVE  /\ RemoveAt(s, i) \in Seq(S) /\ Len(RemoveAt(s, i)) = Len(s) - 1
           /\ DOMAIN RemoveAt(s, i) = 1 .. Len(s) - 1
           /\ \A k \in 1 .. Len(s) - 1 :
                 RemoveAt(s, i)[k] = IF k < i THEN s[k] ELSE s[k + 1]
  <1> DEFINE front == SubSeq(s, 1, i - 1)
             back  == SubSeq(s, i + 1, Len(s))
             r == RemoveAt(s, i)
             n == Len(s)
  <1>1. n \in Nat /\ i \in 1 .. n /\ DOMAIN s = 1 .. n /\ \A k \in 1 .. n : s[k] \in S
    BY LenProperties, ElementOfSeq
  <1>2. /\ front \in Seq(S) /\ Len(front) = i - 1
        /\ \A k \in 1 .. i - 1 : front[k] = s[k]
    BY <1>1, SubSeqProperties
  <1>3. /\ back \in Seq(S) /\ Len(back) = n - i
        /\ \A k \in 1 .. n - i : back[k] = s[i + k]
    <2>1. /\ back \in Seq(S) /\ Len(back) = IF i + 1 <= n THEN n - (i + 1) + 1 ELSE 0
          /\ \A k \in 1 .. n - (i + 1) + 1 : back[k] = s[i + 1 + k - 1]
      BY <1>1, SubSeqProperties
    <2> HIDE DEF back, n
    <2>2. (IF i + 1 <= n THEN n - (i + 1) + 1 ELSE 0) = n - i /\ n - (i + 1) + 1 = n - i
      BY <1>1
    <2>3. \A k \in 1 .. n - i : i + 1 + k - 1 = i + k
      BY <1>1
    <2> QED BY <2>1, <2>2, <2>3
  <1>4. /\ front \o back \in Seq(S) /\ Len(front \o back) = Len(front) + Len(back)
        /\ \A k \in 1 .. Len(front) + Len(back) : (front \o back)[k] =
              IF k <= Len(front) THEN front[k] ELSE back[k - Len(front)]
    BY <1>2, <1>3, ConcatProperties
  <1>5. r = front \o back
    BY DEF RemoveAt
  <1> HIDE DEF front, back, r
  <1>6. /\ r \in Seq(S) /\ Len(r) = n - 1 /\ DOMAIN r = 1 .. n - 1
        /\ \A k \in 1 .. n - 1 : r[k] = IF k < i THEN s[k] ELSE s[k + 1]
    <2>1. r \in Seq(S) /\ Len(r) = n - 1
      <3> HIDE DEF n
      <3>1. (i - 1) + (n - i) = n - 1
        BY <1>1
      <3>2. r \in Seq(S) /\ Len(r) = Len(front) + Len(back)
        BY <1>4, <1>5
      <3>3. Len(front) = i - 1 /\ Len(back) = n - i
        BY <1>2, <1>3
      <3> QED BY <3>1, <3>2, <3>3
    <2>2. DOMAIN r = 1 .. n - 1
      BY <2>1, LenProperties
    <2>3. ASSUME NEW k \in 1 .. n - 1 PROVE r[k] = IF k < i THEN s[k] ELSE s[k + 1]
      <3>1. r[k] = IF k <= i - 1 THEN front[k] ELSE back[k - (i - 1)]
        BY <1>1, <1>2, <1>3, <1>4, <1>5, <2>3
      <3>2. CASE k < i
        BY <1>1, <1>2, <3>1, <3>2
      <3>3. CASE k >= i
        <4>1. k - (i - 1) \in 1 .. n - i /\ i + (k - (i - 1)) = k + 1
          BY <1>1, <3>3
        <4> QED BY <1>1, <1>3, <3>1, <3>3, <4>1
      <3> QED BY <1>1, <3>2, <3>3
    <2> QED BY <2>1, <2>2, <2>3
  <1> QED BY <1>6 DEF r

\* list_remove of the element at position i of a list without duplicates.
LEMMA RemoveElement ==
    ASSUME NEW S, NEW s \in Seq(S), NEW i \in 1 .. Len(s), NoDuplicates(s)
    PROVE  /\ RemoveAt(s, i) \in Seq(S) /\ Len(RemoveAt(s, i)) = Len(s) - 1
           /\ \A k \in 1 .. Len(s) - 1 :
                 RemoveAt(s, i)[k] = IF k < i THEN s[k] ELSE s[k + 1]
           /\ ToSet(RemoveAt(s, i)) = ToSet(s) \ {s[i]}
           /\ NoDuplicates(RemoveAt(s, i))
  <1> DEFINE r == RemoveAt(s, i)
             n == Len(s)
  <1>1. n \in Nat /\ i \in 1 .. n /\ DOMAIN s = 1 .. n /\ \A k \in 1 .. n : s[k] \in S
    BY LenProperties, ElementOfSeq
  <1>2. /\ r \in Seq(S) /\ Len(r) = n - 1 /\ DOMAIN r = 1 .. n - 1
        /\ \A k \in 1 .. n - 1 : r[k] = IF k < i THEN s[k] ELSE s[k + 1]
    BY RemovePlace
  <1> HIDE DEF r
  <1>3. \A j, k \in 1 .. n : s[j] = s[k] => j = k
    BY <1>1 DEF NoDuplicates, IsInjective
  <1>4. /\ \A x : x \in ToSet(r) <=> \E k \in 1 .. n - 1 : r[k] = x
        /\ \A x : x \in ToSet(s) <=> \E k \in 1 .. n : s[k] = x
    BY <1>1, <1>2 DEF ToSet
  <1>5. ToSet(r) = ToSet(s) \ {s[i]}
    <2>1. ASSUME NEW x \in ToSet(r) PROVE x \in ToSet(s) \ {s[i]}
      <3>1. PICK k \in 1 .. n - 1 : r[k] = x
        BY <1>4, <2>1
      <3>2. CASE k < i
        BY <1>1, <1>2, <1>3, <1>4, <3>1, <3>2
      <3>3. CASE k >= i
        <4>1. k + 1 \in 1 .. n /\ k + 1 # i /\ s[k + 1] = x
          BY <1>1, <1>2, <3>1, <3>3
        <4> QED BY <1>1, <1>3, <1>4, <4>1
      <3> QED BY <1>1, <3>2, <3>3
    <2>2. ASSUME NEW x \in ToSet(s) \ {s[i]} PROVE x \in ToSet(r)
      <3>1. PICK k \in 1 .. n : s[k] = x
        BY <1>4, <2>2
      <3>2. CASE k < i
        <4>1. k \in 1 .. n - 1 /\ r[k] = x
          BY <1>1, <1>2, <3>1, <3>2
        <4> QED BY <1>4, <4>1
      <3>3. CASE k > i
        <4>1. k - 1 \in 1 .. n - 1 /\ ~ (k - 1 < i) /\ (k - 1) + 1 = k
          BY <1>1, <3>3
        <4>2. r[k - 1] = x
          BY <1>2, <3>1, <4>1
        <4> QED BY <1>4, <4>1, <4>2
      <3>4. k # i
        BY <2>2, <3>1
      <3> QED BY <1>1, <3>2, <3>3, <3>4
    <2> QED BY <2>1, <2>2
  <1>6. NoDuplicates(r)
    <2>1. ASSUME NEW j \in 1 .. n - 1, NEW k \in 1 .. n - 1, r[j] = r[k] PROVE j = k
      <3> DEFINE at(h) == IF h < i THEN h ELSE h + 1
      <3>1. r[j] = s[at(j)] /\ r[k] = s[at(k)]
        BY <1>2
      <3>2. at(j) \in 1 .. n /\ at(k) \in 1 .. n
        BY <1>1
      <3>3. at(j) = at(k)
        <4> HIDE DEF at
        <4> QED BY <1>3, <2>1, <3>1, <3>2
      <3> QED BY <1>1, <3>3
    <2> QED BY <1>2, <2>1 DEF NoDuplicates, IsInjective
  <1> QED BY <1>2, <1>5, <1>6 DEF r

\* Removing the first e of a list that has it once: the others stay.
LEMMA RemoveFound ==
    ASSUME NEW S, NEW s \in Seq(S), NoDuplicates(s), NEW e \in ToSet(s)
    PROVE  /\ RemoveFirst(s, e) \in Seq(S) /\ NoDuplicates(RemoveFirst(s, e))
           /\ ToSet(RemoveFirst(s, e)) = ToSet(s) \ {e}
           /\ \E i \in 1 .. Len(s) : s[i] = e /\ RemoveFirst(s, e) = RemoveAt(s, i)
  <1> DEFINE I == {i \in 1 .. Len(s) : s[i] = e}
  <1>1. PICK i \in 1 .. Len(s) : s[i] = e
    BY MemberOfList
  <1>2. DOMAIN s = 1 .. Len(s) /\ Len(s) \in Nat
    OBVIOUS
  <1>3. i \in Int /\ I = {i}
    BY <1>1, <1>2 DEF NoDuplicates, IsInjective
  <1>4. SelectInSeq(s, LAMBDA v : v = e) = IF I # {} THEN Min(I) ELSE 0
    BY DEF SelectInSeq
  <1>5. SelectInSeq(s, LAMBDA v : v = e) = i
    <2> HIDE DEF I
    <2> QED BY <1>3, <1>4 DEF Min
  <1>6. RemoveFirst(s, e) = RemoveAt(s, i)
    BY <1>1, <1>5 DEF RemoveFirst
  <1> QED BY <1>1, <1>6, RemoveElement

\* A list that holds each element of a finite set once holds all of them.
LEMMA PermutationOfSet ==
    ASSUME NEW S, IsFiniteSet(S), NEW s \in SetToSeqs(S)
    PROVE  s \in Seq(S) /\ ToSet(s) = S /\ NoDuplicates(s)
  <1> DEFINE n == Cardinality(S)
  <1>1. n \in Nat
    BY FS_CardinalityType
  <1>2. /\ s \in [1 .. n -> S]
        /\ \A i, j \in 1 .. n : i # j => s[i] # s[j]
    BY DEF SetToSeqs
  <1>3. s \in Injection(1 .. n, S)
    BY <1>2 DEF Injection, IsInjective
  <1>4. Cardinality(1 .. n) = n
    <2>1. Cardinality(1 .. n) = IF 1 > n THEN 0 ELSE n - 1 + 1
      BY <1>1, FS_Interval
    <2> QED BY <1>1, <2>1
  <1>5. s \in Surjection(1 .. n, S)
    BY <1>3, <1>4, FS_Injection
  <1>6. ToSet(s) = S
    BY <1>2, <1>5 DEF ToSet, Surjection
  <1>7. s \in Seq(S)
    BY <1>1, <1>2
  <1>8. NoDuplicates(s)
    BY <1>2 DEF NoDuplicates, IsInjective
  <1> QED BY <1>6, <1>7, <1>8
=================================================================================
