---------------------------- MODULE SubtreeRemoval ----------------------------
(***************************************************************************)
(* RemoveSubtree of DependencyGraph says what the recursion of             *)
(* removeSubtreeRecursive leaves behind without recursion, so that it can  *)
(* be proved about.  This module has the recursion itself, with the list   *)
(* of removed IDs it builds, and compares the two in every state that      *)
(* GraphProtocol reaches.                                                  *)
(***************************************************************************)
EXTENDS GraphProtocol

\* By name, because it has a Remove of its own.
Lists == INSTANCE SequencesExt

\* (faulty) The node stays in the map.
RemoveOneKeepsNode(g, n) ==
    [g EXCEPT !.children[n] = {}, !.removed = Append(@, n)]

\* (faulty) The node's counter stays in the map.
RemoveOneKeepsCount(g, n) ==
    [nodes    |-> g.nodes \ {n},
     children |-> [g.children EXCEPT ![n] = {}],
     indegree |-> [c \in Node |-> g.indegree[c] - Cardinality({e \in g.children[n] : e[1] = c})],
     removed  |-> Append(g.removed, n)]

\* remove with emitReady = false, on a graph g of nodes, adjacency and counters.
RemoveOne(g, n) ==
    [nodes    |-> g.nodes \ {n},
     children |-> [g.children EXCEPT ![n] = {}],
     indegree |-> [c \in Node |-> (IF c = n THEN 0 ELSE g.indegree[c])
                                    - Cardinality({e \in g.children[n] : e[1] = c})],
     removed  |-> Append(g.removed, n)]

\* The adjacency list is copied before the recursion; its order is arbitrary.
RECURSIVE RemoveRecursive(_, _)
RemoveRecursive(g, n) ==
    IF n \notin g.nodes
    THEN g
    ELSE LET below == Lists!FoldLeft(LAMBDA h, e : RemoveRecursive(h, e[1]),
                                     g, Lists!SetToSeq(g.children[n]))
         IN  RemoveOne(below, n)

\* RemovedIDs returns the IDs root first.
Recursion(n) ==
    RemoveRecursive([nodes |-> nodes, children |-> children, indegree |-> indegree,
                     removed |-> <<>>], n)

RemovedIDs(n) == Lists!Reverse(Recursion(n).removed)

-----------------------------------------------------------------------------
\* The closed form leaves the nodes, lists and counters of the recursion,
\* negative leftovers included, whatever was pushed late, removed before or
\* wiped by a Reset: shared descendants, missing nodes and stale edges too.
\* Each removed node is reported once, the root at index 0, so that the
\* callback counts and announces each cancelled node once.
ClosedFormIsRecursion ==
    [][\A n \in Node : Settle(n) /\ CascadesFrom(n) =>
            /\ nodes' = Recursion(n).nodes
            /\ children' = Recursion(n).children
            /\ indegree' = Recursion(n).indegree
            /\ n \in nodes =>
                  /\ Lists!IsInjective(RemovedIDs(n)) /\ Head(RemovedIDs(n)) = n
                  /\ Lists!ToSet(RemovedIDs(n)) = Subtree(n)]_vars
=============================================================================
