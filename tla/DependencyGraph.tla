--------------------------- MODULE DependencyGraph ---------------------------
(***************************************************************************)
(* The graph of turbo_run/graph.go: the work nodes waiting for their       *)
(* dependencies, the adjacency lists and the indegree counters that tell   *)
(* when a node is ready, and the bounded channel it publishes ready nodes  *)
(* on.  This module has the state and the operations; GraphProtocol closes *)
(* it under the rules its callers follow and TurboRun drives it with the   *)
(* engine's goroutines.                                                    *)
(*                                                                         *)
(* Every method takes the graph's mutex for its whole body, so each is one *)
(* atomic step, with one exception: the sends on readyNodesChan block, with *)
(* the mutex held, when the channel is full.  An operation therefore       *)
(* leaves the nodes it has still to send in the set "emitting", EmitReady  *)
(* sends one of them, and the mutex is free exactly when nothing is left.  *)
(*                                                                         *)
(* A definition marked (faulty) is used by no specification: the           *)
(* properties are tested with it in place of the definition it precedes.   *)
(***************************************************************************)
EXTENDS Integers, Sequences, FiniteSets

CONSTANTS
    Node,          \* the work nodes a caller may push, by their IDs
    Deps,          \* Deps[n] is the dependency list n is pushed with
    MaxGraphSize   \* Options.MaxGraphSize, after its default

ASSUME NodeAssumption == IsFiniteSet(Node)
ASSUME DepsAssumption == Deps \in [Node -> Seq(Node)]

\* Pushing a cycle is the caller's error: its nodes are never ready, and when
\* an ancestor of it fails removeSubtreeRecursive recurses without end.
ASSUME AcyclicAssumption ==
    \A S \in SUBSET Node :
        S # {} => \E n \in S : \A i \in DOMAIN Deps[n] : Deps[n][i] \notin S

ASSUME MaxGraphSizeAssumption == MaxGraphSize \in Nat \ {0}

VARIABLES
    nodes,           \* the keys of Graph.nodes
    children,        \* Graph.children, see Positions
    indegree,        \* Graph.indegree; an absent key reads as 0
    readyNodesChan,  \* the buffer of the channel of ready nodes
    emitting,        \* nodes the holder of the mutex has still to send
    added,           \* history: the nodes Add was called for
    released         \* history: the nodes sent on readyNodesChan

graphVars == <<nodes, children, indegree, readyNodesChan, emitting, added, released>>

-----------------------------------------------------------------------------
(* children[p] holds <<c, i>> when p's adjacency list holds c because p is *)
(* the i-th dependency of c: a list with c twice keeps both occurrences.   *)
Edges(n) == {n} \X DOMAIN Deps[n]

Positions(p, c) == {i \in DOMAIN Deps[c] : <<c, i>> \in children[p]}

PositionsOf(D, c) == {i \in DOMAIN Deps[c] : \E p \in D : i \in Positions(p, c)}

\* NewGraph's buffer size: a third of the graph's, at most 10,000.
ReadyCap ==
    LET third == MaxGraphSize \div 3
    IN  IF third <= 0 THEN 1000 ELSE IF third <= 10000 THEN third ELSE 10000

MutexFree == emitting = {}

Size == Cardinality(nodes)

GraphTypeOK ==
    /\ nodes \in SUBSET Node
    /\ children \in [Node -> SUBSET (Node \X Nat)]
    /\ indegree \in [Node -> Int]
    /\ readyNodesChan \in Seq(Node) /\ Len(readyNodesChan) <= ReadyCap
    /\ emitting \in SUBSET Node
    /\ added \in SUBSET Node
    /\ released \in SUBSET Node

GraphInit ==
    /\ nodes = {}
    /\ children = [p \in Node |-> {}]
    /\ indegree = [n \in Node |-> 0]
    /\ readyNodesChan = <<>>
    /\ emitting = {}
    /\ added = {}
    /\ released = {}

-----------------------------------------------------------------------------
\* The new node's own adjacency list is reset, then it joins its parents'.
ChildrenWith(n) ==
    [p \in Node |-> (IF p = n THEN {} ELSE children[p])
                      \cup {e \in Edges(n) : Deps[n][e[2]] = p}]

\* (faulty) Counts a repeated dependency once.
DistinctCount(n) == Cardinality({Deps[n][i] : i \in DOMAIN Deps[n]})

DependencyCount(n) == Len(Deps[n])

Add(n) ==
    /\ MutexFree
    /\ nodes' = nodes \cup {n}
    /\ indegree' = [indegree EXCEPT ![n] = DependencyCount(n)]
    /\ children' = ChildrenWith(n)
    /\ emitting' = IF Deps[n] = <<>> THEN {n} ELSE {}
    /\ added' = added \cup {n}
    /\ UNCHANGED <<readyNodesChan, released>>

\* (faulty) The removed nodes' counters stay.
IndegreeKept(D) == [c \in Node |-> indegree[c] - Cardinality(PositionsOf(D, c))]

\* A removed node's counter is deleted before its parents, removed after it,
\* count it down: the leftovers are negative and never read as ready.
IndegreeWithout(D) ==
    [c \in Node |-> (IF c \in D THEN 0 ELSE indegree[c])
                      - Cardinality(PositionsOf(D, c))]

\* (faulty) Publishes at the first finished dependency; at zero or below;
\* with a repeated dependency counted down once; never.
FreedByAny(n) == {c \in Node \ {n} : Positions(n, c) # {}}
FreedNonPositive(n) ==
    {c \in Node \ {n} : Positions(n, c) # {} /\ indegree[c] <= Cardinality(Positions(n, c))}
FreedOnce(n) == {c \in Node \ {n} : indegree[c] = 1 /\ Positions(n, c) # {}}
FreedNone(n) == {}

\* Counting down one occurrence at a time, the counter passes through 0.
Freed(n) ==
    {c \in Node \ {n} : indegree[c] \in 1 .. Cardinality(Positions(n, c))}

Remove(n) ==
    /\ MutexFree
    /\ nodes' = nodes \ {n}
    /\ indegree' = IndegreeWithout({n})
    /\ children' = [children EXCEPT ![n] = {}]
    /\ emitting' = Freed(n)
    /\ UNCHANGED <<readyNodesChan, added, released>>

\* What removeSubtreeRecursive visits: n and the nodes still in the graph
\* that adjacency lists lead to.  (SubtreeRemoval compares it, and the
\* counters it leaves, with the recursion.)
ClosedUnderChildren(S) ==
    \A p \in S, c \in nodes : Positions(p, c) # {} => c \in S

Subtree(n) ==
    {m \in nodes : \A S \in SUBSET nodes : n \in S /\ ClosedUnderChildren(S) => m \in S}

\* No child is published: remove is called with emitReady = false.
RemoveSubtree(n) ==
    LET D == IF n \in nodes THEN Subtree(n) ELSE {}
    IN  /\ MutexFree
        /\ nodes' = nodes \ D
        /\ indegree' = IndegreeWithout(D)
        /\ children' = [p \in Node |-> IF p \in D THEN {} ELSE children[p]]
        /\ UNCHANGED <<readyNodesChan, emitting, added, released>>

Clear ==
    /\ MutexFree
    /\ nodes' = {}
    /\ children' = [p \in Node |-> {}]
    /\ indegree' = [n \in Node |-> 0]
    /\ readyNodesChan' = <<>>
    /\ UNCHANGED <<emitting, added, released>>

\* (faulty) A channel without a bound.
EmitUnbounded(n) ==
    /\ n \in emitting
    /\ readyNodesChan' = Append(readyNodesChan, n)
    /\ emitting' = emitting \ {n}
    /\ released' = released \cup {n}
    /\ UNCHANGED <<nodes, children, indegree, added>>

\* One send of the operation that holds the mutex; it waits for room.
EmitReady(n) ==
    /\ n \in emitting
    /\ Len(readyNodesChan) < ReadyCap
    /\ readyNodesChan' = Append(readyNodesChan, n)
    /\ emitting' = emitting \ {n}
    /\ released' = released \cup {n}
    /\ UNCHANGED <<nodes, children, indegree, added>>

\* The only receiver takes the head.
ReceiveReady(n) ==
    /\ readyNodesChan # <<>>
    /\ n = Head(readyNodesChan)
    /\ readyNodesChan' = Tail(readyNodesChan)
    /\ UNCHANGED <<nodes, children, indegree, emitting, added, released>>
=============================================================================
