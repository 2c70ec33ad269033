------------------------------ MODULE KernelList ------------------------------
(***************************************************************************)
(* The three operations of Pintos' doubly linked list (lib/kernel/list.c)  *)
(* that the scheduler and the synchronization primitives depend on, over   *)
(* sequences.  The order is the one every comparison function of the A5    *)
(* kernel defines (Compare, Compare2, Compare3): a thread precedes another *)
(* when its rank is strictly greater.                                      *)
(*                                                                         *)
(* Each operation is given as the set of the lists it can produce.  The    *)
(* set has one element: the C functions are deterministic.  This form lets *)
(* proofs use what a result satisfies without a separate existence proof.  *)
(***************************************************************************)
EXTENDS Integers, Sequences, FiniteSets, SequencesExt

\* Compare and Compare2: TRUE iff a precedes b.
Compare(rank, a, b) == rank[a] > rank[b]

NoDuplicates(s) == IsInjective(s)

(***************************************************************************)
(* list_insert_ordered: walk from the front to the first element that e    *)
(* precedes, and insert before it; at the tail when there is none.  On a   *)
(* list that is not in order this is still the first such element.         *)
(***************************************************************************)
InsertPoint(s, e, rank, i) ==
    /\ \A j \in 1 .. i - 1 : ~ Compare(rank, e, s[j])
    /\ i <= Len(s) => Compare(rank, e, s[i])

ListInsertOrdered(s, e, rank) ==
    {InsertAt(s, i, e) : i \in {k \in 1 .. Len(s) + 1 : InsertPoint(s, e, rank, k)}}

(***************************************************************************)
(* list_sort: a stable sort.  p[k] is the position that the k-th element   *)
(* of the result had in s.                                                 *)
(***************************************************************************)
InOrder(s, rank, p) ==
    \A i, j \in DOMAIN p :
        i < j => \/ Compare(rank, s[p[i]], s[p[j]])
                 \/ ~ Compare(rank, s[p[j]], s[p[i]]) /\ p[i] < p[j]

ListSort(s, rank) ==
    {[k \in 1 .. Len(s) |-> s[p[k]]] :
        p \in {q \in Bijection(1 .. Len(s), 1 .. Len(s)) : InOrder(s, rank, q)}}

(***************************************************************************)
(* A loop that walks s and calls list_remove on the elements outside K:    *)
(* what is left keeps its order.                                           *)
(***************************************************************************)
ListKeep(s, K) ==
    LET kept == {i \in DOMAIN s : s[i] \in K}
    IN  {[k \in 1 .. Cardinality(kept) |-> s[f[k]]] :
            f \in {g \in [1 .. Cardinality(kept) -> kept] :
                      \A i, j \in DOMAIN g : i < j => g[i] < g[j]}}
===============================================================================
