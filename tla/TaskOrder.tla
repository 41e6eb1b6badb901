------------------------------ MODULE TaskOrder ------------------------------
(***************************************************************************)
(* What the dependency graph promises its users, with no graph in it: a    *)
(* task is released for execution at most once, and only when each of its  *)
(* dependencies has succeeded (Propagate) or at least finished (Isolate);  *)
(* a task is cancelled only because a dependency failed or was cancelled,  *)
(* and is never executed afterwards; a finished task stays as it is.       *)
(* Dropping tasks is what Reset may do, at any moment.                     *)
(***************************************************************************)
EXTENDS Naturals, Sequences

CONSTANTS Node, Deps, Strategy

VARIABLE status   \* one of the stages below for each task

Stage == {"new", "waiting", "ready", "succeeded", "failed", "cancelled", "dropped"}

Dependencies(n) == {Deps[n][i] : i \in DOMAIN Deps[n]}

Permits(d) == \/ status[d] = "succeeded"
              \/ Strategy = "isolate" /\ status[d] = "failed"

Init == status = [n \in Node |-> "new"]

Submit(n) ==
    /\ status[n] = "new"
    /\ status' = [status EXCEPT ![n] = "waiting"]

Release(n) ==
    /\ status[n] = "waiting"
    /\ \A d \in Dependencies(n) : Permits(d)
    /\ status' = [status EXCEPT ![n] = "ready"]

Finish(n) ==
    /\ status[n] = "ready"
    /\ \E result \in {"succeeded", "failed"} : status' = [status EXCEPT ![n] = result]

\* A failure takes a set of waiting tasks with it, each because of a failed
\* dependency or of another task of the set.
Cancel(C) ==
    /\ Strategy = "propagate"
    /\ C # {}
    /\ \A c \in C :
          /\ status[c] = "waiting"
          /\ \E d \in Dependencies(c) : status[d] = "failed" \/ d \in C
    /\ status' = [n \in Node |-> IF n \in C THEN "cancelled" ELSE status[n]]

Drop(D) ==
    /\ D # {}
    /\ \A n \in D : status[n] \in {"waiting", "ready"}
    /\ status' = [n \in Node |-> IF n \in D THEN "dropped" ELSE status[n]]

Next ==
    \/ \E n \in Node : Submit(n) \/ Release(n) \/ Finish(n)
    \/ \E S \in SUBSET Node : Cancel(S) \/ Drop(S)

Spec == Init /\ [][Next]_status
=============================================================================
