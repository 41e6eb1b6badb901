----------------------------- MODULE PriorityQueue -----------------------------
(***************************************************************************)
(* priority_queue.go over heap_queue.go and Go's container/heap: items in  *)
(* an array, each of whose entries goes before its children or ties with   *)
(* them.  Every operation has the queue's mutex from beginning to end.     *)
(***************************************************************************)
EXTENDS Integers, Sequences, SequencesExt

CONSTANTS
    Item,
    Priority,    \* the priority each item is pushed with
    MaxFirst     \* NewMaxPriorityQueue, or NewMinPriorityQueue

ASSUME PriorityAssumption == Priority \in [Item -> Int]
ASSUME MaxFirstAssumption == MaxFirst \in BOOLEAN

VARIABLES
    items,   \* the heap's array
    last     \* history: the last operation and its item

vars == <<items, last>>

less(x, y) == IF MaxFirst THEN Priority[x] > Priority[y] ELSE Priority[x] < Priority[y]

Init ==
    /\ items = <<>>
    /\ last = <<"new">>

Swap(s, i, j) == [s EXCEPT ![i] = s[j], ![j] = s[i]]

-----------------------------------------------------------------------------
(* container/heap; entry i has its parent at i \div 2 *)

\* A round of up's loop: entry p[2] of the array p[1] rises if it goes before
\* its parent.
Rise(p) ==
    LET s == p[1]
        i == p[2]
    IN  IF i > 1 /\ less(s[i], s[i \div 2]) THEN <<Swap(s, i, i \div 2), i \div 2>> ELSE p

\* An entry rises until it does not go before its parent, which is after i rounds
\* at the latest; a round after that changes nothing.
Up(s, i) ==
    LET round[n \in Nat] == IF n = 0 THEN <<s, i>> ELSE Rise(round[n - 1])
    IN  round[i][1]

Children(s, i) == {2 * i, 2 * i + 1} \cap DOMAIN s

\* The child an entry is compared with: the left one, unless the right one
\* goes before it.
NextChild(s, i) ==
    IF 2 * i + 1 \in DOMAIN s /\ less(s[2 * i + 1], s[2 * i]) THEN 2 * i + 1 ELSE 2 * i

\* A round of down's loop: entry p[2] of the array p[1] sinks if its child goes
\* before it.
Sink(p) ==
    LET s == p[1]
        i == p[2]
        j == NextChild(s, i)
    IN  IF Children(s, i) # {} /\ less(s[j], s[i]) THEN <<Swap(s, i, j), j>> ELSE p

\* An entry sinks until its child does not go before it.
Down(s, i) ==
    LET round[n \in Nat] == IF n = 0 THEN <<s, i>> ELSE Sink(round[n - 1])
    IN  round[Len(s)][1]

-----------------------------------------------------------------------------
\* (faulty) The queue's own Push and Pop, without those of container/heap.
PushBare(x) ==
    /\ x \notin ToSet(items)
    /\ items' = Append(items, x)
    /\ last' = <<"push", x>>
PopBare ==
    /\ items # <<>>
    /\ items' = Front(items)
    /\ last' = <<"pop", Last(items)>>

Push(x) ==
    /\ x \notin ToSet(items)
    /\ items' = Up(Append(items, x), Len(items) + 1)
    /\ last' = <<"push", x>>

\* The last entry takes the place of the first, which is returned.  On an
\* empty queue Pop panics; TurboRun has that.
Pop ==
    /\ items # <<>>
    /\ items' = Down(Front(Swap(items, 1, Len(items))), 1)
    /\ last' = <<"pop", Head(items)>>

\* The array as it is.
GetSnapshot == items

Next == Pop \/ \E x \in Item : Push(x)

Spec == Init /\ [][Next]_vars

-----------------------------------------------------------------------------
\* The array keeps what it is handed, and pops an item that none goes before,
\* with ties in whatever order.  A snapshot begins with one that Pop may return
\* next, although the rest is not in the order priority_queue.go:76 speaks of.
Order == INSTANCE PriorityOrder
    WITH GoesBefore <- less, queued <- ToSet(items), shown <- GetSnapshot

RefinesPriorityOrder == Order!Spec
=============================================================================
