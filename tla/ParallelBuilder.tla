---------------------------- MODULE ParallelBuilder ----------------------------
(***************************************************************************)
(* utils/parallel/parallel.go: tasks are added under keys, Run forks one   *)
(* goroutine for each, waits for all of them and returns their results     *)
(* under the same keys.  What a task does is up to the module that uses it.*)
(***************************************************************************)
CONSTANTS Key, Task, Result

VARIABLES
    tasks,      \* the builder's map
    running,    \* goroutines that have not recorded their result
    results,    \* the map Run will return
    builder     \* where the caller of the builder is

builderVars == <<tasks, running, results, builder>>

PartialFunctions(S, T) == UNION {[D -> T] : D \in SUBSET S}

BuilderTypeOK ==
    /\ tasks \in PartialFunctions(Key, Task)
    /\ running \subseteq DOMAIN tasks
    /\ results \in PartialFunctions(Key, Result)
    /\ builder \in {"adding", "running", "returned"}

Empty == [k \in {} |-> {}]

With(f, k, x) == [j \in DOMAIN f \cup {k} |-> IF j = k THEN x ELSE f[j]]

BuilderInit ==
    /\ tasks = Empty
    /\ running = {}
    /\ results = Empty
    /\ builder = "adding"

\* Add replaces a task that has the key already.
Add(k, task) ==
    /\ builder = "adding"
    /\ tasks' = With(tasks, k, task)
    /\ UNCHANGED <<running, results, builder>>

Run ==
    /\ builder = "adding"
    /\ builder' = IF tasks = Empty THEN "returned" ELSE "running"
    /\ running' = DOMAIN tasks
    /\ UNCHANGED <<tasks, results>>

\* A task has returned r, which its goroutine records under the mutex.
Record(k, r) ==
    /\ k \in running
    /\ results' = With(results, k, r)
    /\ running' = running \ {k}
    /\ UNCHANGED <<tasks, builder>>

\* (faulty) The first result is enough.
ReturnEarly ==
    /\ builder = "running"
    /\ results # Empty
    /\ builder' = "returned"
    /\ UNCHANGED <<tasks, running, results>>

\* wg.Wait.
Return ==
    /\ builder = "running"
    /\ running = {}
    /\ builder' = "returned"
    /\ UNCHANGED <<tasks, running, results>>
=============================================================================
