---------------------------- MODULE GraphProtocol ----------------------------
(***************************************************************************)
(* The dependency graph under its callers' rules, without their threads.   *)
(* The push listener submits each node once and only below the graph's     *)
(* capacity; the ready listener takes what the graph publishes; a node     *)
(* taken may at some later time finish, and a finished node's result       *)
(* callback removes it, with its descendants when it failed under the      *)
(* Propagate strategy; Reset may clear the graph at any time, and throws   *)
(* away nodes it finds in the queue.  Everything else between taking a     *)
(* node and finishing it (queue, budget, workers) is the delay before      *)
(* Finish.  EngineRefinement shows that the engine does nothing else to    *)
(* its graph.                                                              *)
(***************************************************************************)
EXTENDS DependencyGraph

CONSTANT Strategy   \* TurboRun.failureHandlingStrategy

ASSUME StrategyAssumption == Strategy \in {"propagate", "isolate"}

VARIABLES
    taken,       \* nodes the ready listener has received and Reset has not lost
    outcome,     \* the error part of the result each node emitted
    settled,     \* nodes whose result callback has removed them
    cancelled    \* descendants removed because an ancestor failed

vars == <<graphVars, taken, outcome, settled, cancelled>>

Outcome == {"none", "ok", "err"}

TypeOK ==
    /\ GraphTypeOK
    /\ taken \in SUBSET Node
    /\ outcome \in [Node -> Outcome]
    /\ settled \in SUBSET Node
    /\ cancelled \in SUBSET Node

Init ==
    /\ GraphInit
    /\ taken = {}
    /\ outcome = [n \in Node |-> "none"]
    /\ settled = {}
    /\ cancelled = {}

\* listenForWorkNodePushRequests, once the capacity check has passed.
Submit(n) ==
    /\ n \notin added
    /\ Size < MaxGraphSize
    /\ Add(n)
    /\ UNCHANGED <<taken, outcome, settled, cancelled>>

Emit(n) ==
    /\ EmitReady(n)
    /\ UNCHANGED <<taken, outcome, settled, cancelled>>

Take(n) ==
    /\ ReceiveReady(n)
    /\ taken' = taken \cup {n}
    /\ UNCHANGED <<outcome, settled, cancelled>>

\* The worker has a result for n and emits it.
Finish(n) ==
    /\ n \in taken
    /\ outcome[n] = "none"
    /\ \E r \in Outcome \ {"none"} : outcome' = [outcome EXCEPT ![n] = r]
    /\ UNCHANGED <<graphVars, taken, settled, cancelled>>

CascadesFrom(n) == outcome[n] = "err" /\ Strategy = "propagate"

\* The result callback of n.
Settle(n) ==
    /\ outcome[n] # "none"
    /\ n \notin settled
    /\ settled' = settled \cup {n}
    /\ IF CascadesFrom(n)
       THEN /\ RemoveSubtree(n)
            /\ cancelled' = cancelled \cup ((nodes \ nodes') \ {n})
       ELSE /\ Remove(n)
            /\ UNCHANGED cancelled
    /\ UNCHANGED <<taken, outcome>>

ResetGraph ==
    /\ Clear
    /\ UNCHANGED <<taken, outcome, settled, cancelled>>

\* Reset drains the queue after it has cleared the graph: what it pops may be
\* a node that was pushed and published in between.
Lose(n) ==
    /\ n \in taken
    /\ outcome[n] = "none"
    /\ taken' = taken \ {n}
    /\ UNCHANGED <<graphVars, outcome, settled, cancelled>>

Next ==
    \/ \E n \in Node : Submit(n) \/ Emit(n) \/ Take(n) \/ Finish(n) \/ Settle(n) \/ Lose(n)
    \/ ResetGraph

Spec == Init /\ [][Next]_vars

\* The engine keeps taking, executing and settling; nobody has to submit, to
\* reset or to lose a node.
Fairness ==
    \A n \in Node : WF_vars(Emit(n)) /\ WF_vars(Take(n)) /\ WF_vars(Finish(n)) /\ WF_vars(Settle(n))

FairSpec == Spec /\ Fairness

-----------------------------------------------------------------------------
Satisfied(d) == outcome[d] = "ok" \/ (Strategy = "isolate" /\ outcome[d] = "err")

\* No node is published, or is about to be, before each of its dependencies
\* has finished the way the strategy asks: a counter that reached zero by
\* miscounting (a repeated dependency, a late or an early push, a cascade, a
\* Reset in between) would publish it too early.
DependencyOrder ==
    \A n \in emitting \cup released : \A i \in DOMAIN Deps[n] : Satisfied(Deps[n][i])

\* What remove sends is g.nodes[child]: for a child no longer in the map that
\* is a nil node, which the ready listener would dereference.  And no node
\* is sent twice.
PublishesLiveNodesOnce ==
    /\ emitting \subseteq nodes
    /\ emitting \cap released = {}
    /\ \A i, j \in DOMAIN readyNodesChan :
          readyNodesChan[i] = readyNodesChan[j] => i = j

\* A node cancelled with a failed ancestor is never executed, whatever its
\* other dependencies do afterwards.
CancelledNeverRuns == cancelled \cap (released \cup emitting) = {}

\* The dependencies of c that still keep it waiting: those with an edge to
\* c, and those without one (lost, or never there) that have not finished.
Pending(c) ==
    {i \in DOMAIN Deps[c] : \/ i \in Positions(Deps[c][i], c)
                            \/ ~Satisfied(Deps[c][i])}

-----------------------------------------------------------------------------
\* The inductive invariant behind the four properties above.
EdgesMatchDeps ==
    \A p \in Node : \A e \in children[p] :
        /\ e[1] \in added /\ e[2] \in DOMAIN Deps[e[1]]
        /\ Deps[e[1]][e[2]] = p

CountsPending == \A c \in nodes : indegree[c] >= Cardinality(Pending(c))

PositiveIsWaiting ==
    \A c \in Node : indegree[c] >= 1 => c \in nodes /\ c \notin released \cup emitting

\* Where a node can be, given where it has been.
Histories ==
    /\ nodes \cup released \subseteq added
    /\ taken \subseteq released
    /\ \A n \in Node : outcome[n] # "none" => n \in taken
    /\ \A n \in settled : outcome[n] # "none" /\ n \notin nodes
    /\ \A i \in DOMAIN readyNodesChan : readyNodesChan[i] \in released \ taken

Inv ==
    /\ TypeOK
    /\ EdgesMatchDeps
    /\ CountsPending
    /\ PositiveIsWaiting
    /\ Histories
    /\ DependencyOrder
    /\ PublishesLiveNodesOnce
    /\ CancelledNeverRuns /\ cancelled \subseteq added \ nodes

-----------------------------------------------------------------------------
(* The refinement of TaskOrder: a task's stage, read off the graph. *)
InPipeline(n) == n \in taken \/ \E i \in DOMAIN readyNodesChan : readyNodesChan[i] = n

StageOf(n) ==
    IF n \notin added THEN "new"
    ELSE IF outcome[n] = "ok" THEN "succeeded"
    ELSE IF outcome[n] = "err" THEN "failed"
    ELSE IF n \in cancelled THEN "cancelled"
    ELSE IF n \in released /\ InPipeline(n) THEN "ready"
    ELSE IF n \in nodes /\ n \notin released THEN "waiting"
    ELSE "dropped"

Order == INSTANCE TaskOrder WITH status <- [n \in Node |-> StageOf(n)]

\* The graph, its counters and its channel together do what TaskOrder says.
RefinesTaskOrder == Order!Spec

-----------------------------------------------------------------------------
\* Every dependency a counter stands for is an edge from a node that is
\* still in the graph, so that removing that node will count it down.  The
\* code has this as long as parents are pushed before their children, and
\* children before their parents finish, with no Reset meanwhile.
Wired ==
    \A c \in nodes :
        indegree[c] = Cardinality({i \in DOMAIN Deps[c] :
                                      /\ Deps[c][i] \in nodes
                                      /\ i \in Positions(Deps[c][i], c)})

\* The published nodes of the graph are on their way, or have finished.
NobodyLost == \A n \in nodes \cap released : InPipeline(n)

Done(n) == StageOf(n) \in {"succeeded", "failed", "cancelled"}

\* A graph that stays wired, and of which Reset loses no node, forgets nobody:
\* each node in it is executed or is cancelled by a failed ancestor.
WiredGraphFinishes ==
    [](Wired /\ NobodyLost) => \A n \in Node : n \in added ~> Done(n) \/ StageOf(n) = "dropped"
=============================================================================
