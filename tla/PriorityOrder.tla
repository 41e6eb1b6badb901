----------------------------- MODULE PriorityOrder -----------------------------
(***************************************************************************)
(* What a priority queue promises: a set of items of which one that no     *)
(* other goes before is popped, and a list of them that begins with such a *)
(* one.                                                                    *)
(***************************************************************************)
EXTENDS SequencesExt

CONSTANTS Item, GoesBefore(_, _)

VARIABLES
    queued,   \* the items in the queue
    last,     \* what the last operation was, and its item
    shown     \* a snapshot of the items

First(x) == x \in queued /\ \A y \in queued : ~GoesBefore(y, x)

\* Nothing is shown twice, and what Pop may return next is shown first.
Shown == IsInjective(shown) /\ ToSet(shown) = queued /\ (queued # {} => First(shown[1]))

Init ==
    /\ queued = {}
    /\ last = <<"new">>
    /\ shown = <<>>

Push(x) ==
    /\ x \notin queued
    /\ queued' = queued \cup {x}
    /\ last' = <<"push", x>>

Pop(x) ==
    /\ First(x)
    /\ queued' = queued \ {x}
    /\ last' = <<"pop", x>>

Next == (\E x \in Item : Push(x) \/ Pop(x)) /\ Shown'

Spec == Init /\ [][Next]_<<queued, last, shown>>
=============================================================================
