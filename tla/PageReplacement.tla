--------------------------- MODULE PageReplacement ---------------------------
(***************************************************************************)
(* The page replacement policies of A6 (src/G/A6/Top/src/main.c).  The     *)
(* program reads the same file once for each policy and counts its faults; *)
(* the runs share nothing, so a step here feeds the next reference of the  *)
(* file to all of them.  Clock and N_Chance, which main calls with n = 1,  *)
(* are the same code.                                                      *)
(*                                                                         *)
(* A linked list is the sequence of the nodes that its links reach from    *)
(* the head (from the hand of the clock).  Two errors of the code leave    *)
(* that abstraction and are kept as states of their own: move_back on a    *)
(* list of one node drops its head, and list_pop_D may return an           *)
(* uninitialized node.                                                     *)
(***************************************************************************)
EXTENDS Naturals, Sequences, SequencesExt, FiniteSetsExt

CONSTANTS Address,          \* the addresses in the file
          Capacities,       \* the numbers of pages the file may ask for
          MaxQueries        \* bound: references in the file

ASSUME CapacitiesAssumption == Capacities \subseteq Nat \ {0}

VARIABLES pages,            \* how many pages the list may hold
          file,             \* the references read so far
          atEnd,            \* the last one has been processed again
          fifo, lfu, lru,   \* the policies: the list, present, page_faults,
          clock,            \* and for lru and clock how the list fares
          replaced          \* history: length of the file at the last sweep

vars == <<pages, file, atEnd, fifo, lfu, lru, clock, replaced>>

Full(p) == Len(p.list) = pages

\* What every policy does about a miss on i that makes the given list: one
\* fault, and present says which addresses the list holds.
Missed(p, i, list, evicted) ==
    [p EXCEPT !.list = list, !.faults = @ + 1, !.present = (@ \cup {i}) \ evicted]

(***************************************************************************)
(* FIFO                                                                    *)
(***************************************************************************)
\* Variant: the evicted page stays marked as present.
FifoKeeping(i) ==
    fifo' = IF i \in fifo.present THEN fifo
            ELSE Missed(fifo, i, Append(IF Full(fifo) THEN Tail(fifo.list) ELSE fifo.list, i), {})

Fifo(i) ==
    fifo' = IF i \in fifo.present THEN fifo
            ELSE IF Full(fifo)
                 THEN Missed(fifo, i, Append(Tail(fifo.list), i), {Head(fifo.list)})
                 ELSE Missed(fifo, i, Append(fifo.list, i), {})

(***************************************************************************)
(* LFU: the list is sorted by count, and list_insert puts a node in front  *)
(***************************************************************************)
IndexOf(list, i) == CHOOSE k \in DOMAIN list : list[k].address = i

\* Variant: the node moves past the next one only.
UpdateCountOnce(list, i) ==
    LET k == IndexOf(list, i)
        node == [list[k] EXCEPT !.count = @ + 1]
        m == IF k < Len(list) /\ list[k + 1].count < node.count THEN k + 1 ELSE k
    IN  SubSeq(list, 1, k - 1) \o SubSeq(list, k + 1, m) \o <<node>>
            \o SubSeq(list, m + 1, Len(list))

\* The node of i moves past the nodes behind it that have a lower count.
UpdateCount(list, i) ==
    LET k == IndexOf(list, i)
        node == [list[k] EXCEPT !.count = @ + 1]
        stop == {j \in k + 1 .. Len(list) : list[j].count >= node.count}
        m == IF stop = {} THEN Len(list) ELSE Min(stop) - 1
    IN  SubSeq(list, 1, k - 1) \o SubSeq(list, k + 1, m) \o <<node>>
            \o SubSeq(list, m + 1, Len(list))

ListInsert(list, i) == <<[address |-> i, count |-> 1]>> \o list

Lfu(i) ==
    lfu' = IF i \in lfu.present THEN [lfu EXCEPT !.list = UpdateCount(@, i)]
           ELSE IF Full(lfu)
                THEN Missed(lfu, i, ListInsert(Tail(lfu.list), i), {Head(lfu.list).address})
                ELSE Missed(lfu, i, ListInsert(lfu.list, i), {})

(***************************************************************************)
(* LRU: a hit moves the node to the back                                   *)
(***************************************************************************)
\* The node moved to the back was the whole list: head takes its link, which
\* is null, and the nodes are reached from the tail only.
MoveBack(p, i) ==
    [p EXCEPT !.list = Append(RemoveFirst(@, i), i),
              !.state = IF Len(p.list) = 1 THEN "headless" ELSE @]

\* Variant: a hit on the head leaves it in front.
LruHitKeeping(i) ==
    IF lru.state = "headless" THEN [lru EXCEPT !.state = "crashed"]
    ELSE IF Head(lru.list) = i /\ Len(lru.list) > 1 THEN lru ELSE MoveBack(lru, i)

\* move_back reads the node at the head, and there may be none.
LruHit(i) ==
    IF lru.state = "headless" THEN [lru EXCEPT !.state = "crashed"]
    ELSE MoveBack(lru, i)

LruMiss(i) ==
    IF ~Full(lru) THEN Missed(lru, i, Append(lru.list, i), {})
    ELSE IF lru.state = "headless" THEN [lru EXCEPT !.state = "crashed"]
    ELSE Missed(lru, i, Append(Tail(lru.list), i), {Head(lru.list)})

Lru(i) ==
    lru' = IF lru.state = "crashed" THEN lru
           ELSE IF i \in lru.present THEN LruHit(i) ELSE LruMiss(i)

(***************************************************************************)
(* Clock and N_Chance                                                      *)
(***************************************************************************)
\* Variant: a hit leaves the use bit as it was.
SetUseBitKeeping(list, i) == list

SetUseBit(list, i) == [list EXCEPT ![IndexOf(list, i)].useBit = @ + 1]

ListInsertD(list, i) ==
    <<[address |-> i, useBit |-> 1, insertTime |-> Len(file)]>> \o list

\* The sweep of list_pop_D takes one from every use bit that is not 0.
Swept(list) ==
    [k \in DOMAIN list |-> [list[k] EXCEPT !.useBit = IF @ = 0 THEN 0 ELSE @ - 1]]

\* The oldest node whose use bit is 0 when the sweep finds it.
Victims(list) ==
    LET unused == {k \in DOMAIN list : list[k].useBit = 0}
    IN  {k \in unused : \A j \in unused : list[k].insertTime <= list[j].insertTime}

Replace(i, k) ==
    Missed(clock, i, ListInsertD(RemoveAt(Swept(clock.list), k), i), {clock.list[k].address})

\* When no node qualifies, rem is uninitialized: whatever its stack slot holds,
\* which is a node of the list or leads out of it.
ClockMiss(i) ==
    IF ~Full(clock)
    THEN clock' = Missed(clock, i, ListInsertD(clock.list, i), {})
    ELSE IF Victims(clock.list) # {}
         THEN \E k \in Victims(clock.list) : clock' = Replace(i, k)
         ELSE \/ \E k \in DOMAIN clock.list : clock' = Replace(i, k)
              \/ clock' = [clock EXCEPT !.state = "crashed"]

Clock(i) ==
    IF clock.state = "crashed" THEN UNCHANGED <<clock, replaced>>
    ELSE IF i \in clock.present
         THEN clock' = [clock EXCEPT !.list = SetUseBit(@, i)] /\ UNCHANGED replaced
         ELSE /\ ClockMiss(i)
              /\ replaced' = IF Full(clock) THEN Len(file) ELSE replaced

(***************************************************************************)
(* The loop over the file                                                  *)
(***************************************************************************)
Empty == [list |-> <<>>, present |-> {}, faults |-> 0, state |-> "ok"]

Init ==
    /\ pages \in Capacities
    /\ file = <<>> /\ atEnd = FALSE
    /\ fifo = Empty /\ lfu = Empty /\ lru = Empty /\ clock = Empty
    /\ replaced = 0

Policies(i) == Fifo(i) /\ Lfu(i) /\ Lru(i) /\ Clock(i)

Query(i) ==
    /\ Len(file) < MaxQueries /\ ~atEnd
    /\ file' = Append(file, i)
    /\ Policies(i)
    /\ UNCHANGED <<pages, atEnd>>

\* When the file ends with a newline, feof is still false after the last
\* reference: fscanf fails, and i is processed once more.
QueryAgain ==
    /\ file # <<>> /\ ~atEnd
    /\ atEnd' = TRUE
    /\ Policies(Last(file))
    /\ UNCHANGED <<pages, file>>

Next == (\E i \in Address : Query(i)) \/ QueryAgain

Spec == Init /\ [][Next]_vars

(***************************************************************************)
(* Properties                                                              *)
(***************************************************************************)
Addresses(list) == [k \in DOMAIN list |-> list[k].address]

ListOK(p, addresses) ==
    /\ IsInjective(addresses)
    /\ ToSet(addresses) = p.present
    /\ Len(addresses) <= pages
    /\ p.faults \in 0 .. Len(file)
    /\ p.state \in {"ok", "headless", "crashed"}

\* The type invariant.  In every policy the array present says exactly which
\* addresses the list holds, and no address has two nodes: a page that is
\* marked and has no node would send setUseBit round its ring for ever.
TypeOK ==
    /\ pages \in Capacities /\ file \in Seq(Address) /\ atEnd \in BOOLEAN
    /\ ListOK(fifo, fifo.list)
    /\ ListOK(lfu, Addresses(lfu.list))
    /\ ListOK(lru, lru.list)
    /\ ListOK(clock, Addresses(clock.list))
    /\ replaced \in 0 .. Len(file)

\* LFU finds its victim at the head without searching: the order that
\* update_count keeps makes it a page with the fewest references since it was
\* loaded.
LFUEvictsLeast ==
    [][\A k, j \in DOMAIN lfu.list :
            lfu.list[k].address \notin lfu'.present => lfu.list[k].count <= lfu.list[j].count]_vars

\* In the references f, the last one to a comes after all references to b.
UsedAfter(f, a, b) == \E k \in DOMAIN f : f[k] = a /\ \A j \in k .. Len(f) : f[j] # b

\* The list of LRU holds the most recently used addresses, as many as fit, in
\* the order of their last use.  It loses its head, and the program later
\* crashes on that, only after a hit on a page that was alone in the list.
LRUExact ==
    /\ lru.state # "crashed" =>
          /\ ToSet(lru.list) \subseteq ToSet(file)
          /\ \A j, k \in DOMAIN lru.list : j < k => UsedAfter(file, lru.list[k], lru.list[j])
          /\ \A a \in ToSet(file) \ ToSet(lru.list) :
                Full(lru) /\ \A b \in ToSet(lru.list) : UsedAfter(file, b, a)
    /\ lru.state # "ok" => pages = 1 \/ Len(file) = 1 \/ file[1] = file[2]

\* The addresses loaded or referenced since the last sweep of the clock.
UsedSinceSweep == {file[k] : k \in replaced + 1 .. Len(file)}

\* When some use bit is 0, the clock replaces a page that has not been used
\* since the last replacement, and does not crash: no page loses its place
\* right after a hit.  A sweep that finds no such bit takes what it finds in
\* the uninitialized rem, and promises neither.
ClockSparesUsed ==
    [][Victims(clock.list) # {} =>
           /\ (clock.present \ clock'.present) \cap UsedSinceSweep = {}
           /\ clock'.state = clock.state]_vars

FifoPaging == INSTANCE Paging
                WITH capacity <- pages, requests <- file, resident <- fifo.present,
                     faults <- fifo.faults, running <- TRUE
LfuPaging == INSTANCE Paging
                WITH capacity <- pages, requests <- file, resident <- lfu.present,
                     faults <- lfu.faults, running <- TRUE
LruPaging == INSTANCE Paging
                WITH capacity <- pages, requests <- file, resident <- lru.present,
                     faults <- lru.faults, running <- lru.state # "crashed"
ClockPaging == INSTANCE Paging
                WITH capacity <- pages, requests <- file, resident <- clock.present,
                     faults <- clock.faults, running <- clock.state # "crashed"

\* Every policy implements demand paging: until it crashes, which FIFO and LFU
\* never do, each reference of the file to a page that is not resident counts
\* one fault and loads that page, every other one counts none and moves no
\* page, and a page is evicted only when all places are taken.  The reference
\* processed twice at the end counts no fault and moves no page, though it does
\* change counts and use bits, and may crash LRU.
ImplementsPaging ==
    FifoPaging!Spec /\ LfuPaging!Spec /\ LruPaging!Spec /\ ClockPaging!Spec
==============================================================================
