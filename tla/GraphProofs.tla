----------------------------- MODULE GraphProofs -----------------------------
(***************************************************************************)
(* Proofs about GraphProtocol, for every finite set of nodes, dependency   *)
(* lists, capacity and strategy.  Inv is inductive; its heart is that the  *)
(* counter of a node in the graph is at least the number of its pending    *)
(* dependencies, so that it can only be counted down to zero when none is  *)
(* pending, and that a positive counter belongs to a node not yet          *)
(* published, so that it reaches zero once.                                *)
(***************************************************************************)
EXTENDS GraphProtocol, GraphLemmas

\* A count never grows when a step leaves the counter alone and makes
\* nothing pending that was not.
LEMMA CountKept ==
    ASSUME NEW c \in Node, indegree[c] >= Cardinality(Pending(c)),
           indegree[c] \in Int, Pending(c)' \subseteq Pending(c),
           indegree'[c] = indegree[c]
    PROVE  indegree'[c] >= Cardinality(Pending(c)')
<1> DEFINE before == Pending(c)
           after  == Pending(c)'
<1>1. before \subseteq DOMAIN Deps[c]
  BY DEF Pending
<1>2. after \subseteq before
  OBVIOUS
<1> HIDE DEF before, after
<1>3. Cardinality(before) \in Nat /\ Cardinality(after) \in Nat
      /\ Cardinality(after) <= Cardinality(before)
  BY <1>1, <1>2, FewerPositions, PositionSets
<1> QED
  BY <1>3 DEF before, after

-----------------------------------------------------------------------------
\* The empty graph satisfies the invariant.
LEMMA InitInv == Init => Inv
<1> SUFFICES ASSUME Init PROVE Inv
  OBVIOUS
<1> USE DEF Init, GraphInit
<1>1. TypeOK
  BY ReadyCapPositive DEF TypeOK, GraphTypeOK, Outcome
<1>2. EdgesMatchDeps /\ CountsPending
  BY DEF EdgesMatchDeps, CountsPending
<1>3. PositiveIsWaiting /\ Histories
  BY DEF PositiveIsWaiting, Histories
<1>4. DependencyOrder /\ PublishesLiveNodesOnce
  BY DEF DependencyOrder, PublishesLiveNodesOnce
<1>5. CancelledNeverRuns /\ cancelled \subseteq added \ nodes
  BY DEF CancelledNeverRuns
<1> QED
  BY <1>1, <1>2, <1>3, <1>4, <1>5 DEF Inv

\* A new node has all its dependencies to wait for, and adds nothing to what
\* others wait for.
LEMMA SubmitInv == ASSUME Inv, NEW n \in Node, Submit(n) PROVE Inv'
<1> USE DEF Inv, Submit, Add, MutexFree, DependencyCount
<1>1. /\ Len(Deps[n]) \in Nat
      /\ Edges(n) \subseteq Node \X Nat
      /\ \A e \in Edges(n) : e[1] = n /\ e[2] \in DOMAIN Deps[n]
  BY DepsAssumption DEF Edges
<1>2. TypeOK'
  <2>1. children' \in [Node -> SUBSET (Node \X Nat)]
    BY <1>1 DEF TypeOK, GraphTypeOK, ChildrenWith
  <2>2. indegree' \in [Node -> Int]
    BY <1>1 DEF TypeOK, GraphTypeOK
  <2>3. emitting' \in SUBSET Node /\ nodes' \in SUBSET Node /\ added' \in SUBSET Node
    BY DEF TypeOK, GraphTypeOK
  <2> QED
    BY <2>1, <2>2, <2>3 DEF TypeOK, GraphTypeOK
<1>3. ASSUME NEW p \in Node, NEW e \in children'[p]
      PROVE  e \in children[p] \/ (e[1] = n /\ e[2] \in DOMAIN Deps[n] /\ Deps[n][e[2]] = p)
  BY <1>1, <1>3 DEF ChildrenWith
<1>4. EdgesMatchDeps'
  BY <1>3 DEF EdgesMatchDeps
<1>5. CountsPending'
  <2> SUFFICES ASSUME NEW c \in nodes'
               PROVE  indegree'[c] >= Cardinality(Pending(c)')
    BY DEF CountsPending
  <2>0. c \in Node /\ indegree \in [Node -> Int]
    BY <1>2 DEF TypeOK, GraphTypeOK
  <2>1. CASE c = n
    <3>1. indegree'[n] = Len(Deps[n])
      BY <2>0
    <3>2. Pending(c)' \subseteq DOMAIN Deps[c]
      BY DEF Pending
    <3> QED
      BY <2>0, <2>1, <3>1, <3>2, PositionSets
  <2>2. CASE c # n
    <3>1. ASSUME NEW i \in Pending(c)'
          PROVE  i \in Pending(c)
      <4>1. CASE ~Satisfied(Deps[c][i])'
        BY <4>1 DEF Pending, Satisfied
      <4>2. CASE Satisfied(Deps[c][i])'
        <5>1. i \in DOMAIN Deps[c] /\ <<c, i>> \in children'[Deps[c][i]]
          BY <4>2 DEF Pending, Positions
        <5>2. Deps[c][i] \in Node
          BY <2>0, <5>1, DepsAssumption
        <5>3. <<c, i>> \in children[Deps[c][i]]
          BY <1>3, <2>2, <5>1, <5>2
        <5> QED
          BY <5>1, <5>3 DEF Pending, Positions
      <4> QED
        BY <4>1, <4>2
    <3>2. indegree'[c] = indegree[c] /\ c \in nodes
      BY <2>0, <2>2
    <3> QED
      BY <2>0, <3>1, <3>2, CountKept DEF CountsPending
  <2> QED
    BY <2>1, <2>2
<1>6. PositiveIsWaiting'
  <2> SUFFICES ASSUME NEW c \in Node, indegree'[c] >= 1
               PROVE  c \in nodes' /\ c \notin released' \cup emitting'
    BY DEF PositiveIsWaiting
  <2>1. CASE c = n
    <3>1. Deps[n] # <<>>
      BY <2>1 DEF TypeOK, GraphTypeOK
    <3> QED
      BY <2>1, <3>1 DEF Histories
  <2>2. CASE c # n
    BY <2>2 DEF PositiveIsWaiting, TypeOK, GraphTypeOK
  <2> QED
    BY <2>1, <2>2
<1>7. Histories'
  <2>1. n \notin settled
    BY DEF Histories
  <2> QED
    BY <2>1 DEF Histories
<1>8. DependencyOrder'
  BY DEF DependencyOrder, Satisfied
<1>9. PublishesLiveNodesOnce'
  BY DEF PublishesLiveNodesOnce, Histories
<1>10. CancelledNeverRuns' /\ cancelled' \subseteq added' \ nodes'
  BY DEF CancelledNeverRuns
<1> QED
  BY <1>2, <1>4, <1>5, <1>6, <1>7, <1>8, <1>9, <1>10

\* Sending a node moves it from the set still to send to the released ones.
LEMMA EmitInv == ASSUME Inv, NEW n \in Node, Emit(n) PROVE Inv'
<1> USE DEF Inv, Emit, EmitReady
<1>1. /\ readyNodesChan \in Seq(Node)
      /\ DOMAIN readyNodesChan' = 1 .. Len(readyNodesChan) + 1
      /\ Len(readyNodesChan) \in Nat
      /\ readyNodesChan'[Len(readyNodesChan) + 1] = n
      /\ \A i \in DOMAIN readyNodesChan : readyNodesChan'[i] = readyNodesChan[i]
      /\ DOMAIN readyNodesChan = 1 .. Len(readyNodesChan)
  BY DEF TypeOK, GraphTypeOK
<1>2. n \notin released /\ n \in nodes /\ n \in added /\ n \notin taken
  BY DEF PublishesLiveNodesOnce, Histories
<1>3. \A i \in DOMAIN readyNodesChan : readyNodesChan[i] # n
  BY <1>2 DEF Histories
<1>4. \A i \in DOMAIN readyNodesChan' :
          i \in DOMAIN readyNodesChan \/ i = Len(readyNodesChan) + 1
  BY <1>1
<1>5. TypeOK'
  BY ReadyCapPositive DEF TypeOK, GraphTypeOK
<1>6. EdgesMatchDeps'
  BY DEF EdgesMatchDeps
<1>7. CountsPending'
  BY DEF CountsPending, Pending, Positions, Satisfied
<1>8. PositiveIsWaiting'
  BY DEF PositiveIsWaiting
<1>9. Histories'
  BY <1>1, <1>2, <1>4 DEF Histories
<1>10. DependencyOrder'
  BY DEF DependencyOrder, Satisfied
<1>11. PublishesLiveNodesOnce'
  BY <1>1, <1>3, <1>4 DEF PublishesLiveNodesOnce
<1>12. CancelledNeverRuns' /\ cancelled' \subseteq added' \ nodes'
  BY DEF CancelledNeverRuns
<1> QED
  BY <1>5, <1>6, <1>7, <1>8, <1>9, <1>10, <1>11, <1>12

\* Receiving the head shifts the others.
LEMMA TakeInv == ASSUME Inv, NEW n \in Node, Take(n) PROVE Inv'
<1> USE DEF Inv, Take, ReceiveReady
<1>1. /\ readyNodesChan \in Seq(Node) /\ readyNodesChan # <<>>
      /\ Len(readyNodesChan) \in Nat
      /\ DOMAIN readyNodesChan = 1 .. Len(readyNodesChan)
      /\ DOMAIN readyNodesChan' = 1 .. Len(readyNodesChan) - 1
      /\ readyNodesChan[1] = n
      /\ \A i \in DOMAIN readyNodesChan' : readyNodesChan'[i] = readyNodesChan[i + 1]
  BY DEF TypeOK, GraphTypeOK
<1>2. n \in released \ taken
  BY <1>1 DEF Histories
<1>3. ASSUME NEW i \in DOMAIN readyNodesChan'
      PROVE  i + 1 \in DOMAIN readyNodesChan /\ i + 1 # 1 /\ i \in Int
  BY <1>1
<1>4. TypeOK'
  BY ReadyCapPositive DEF TypeOK, GraphTypeOK
<1>5. EdgesMatchDeps'
  BY DEF EdgesMatchDeps
<1>6. CountsPending'
  BY DEF CountsPending, Pending, Positions, Satisfied
<1>7. PositiveIsWaiting'
  BY DEF PositiveIsWaiting
<1>8. PublishesLiveNodesOnce'
  <2>1. ASSUME NEW i \in DOMAIN readyNodesChan', NEW j \in DOMAIN readyNodesChan',
               readyNodesChan'[i] = readyNodesChan'[j]
        PROVE  i = j
    <3>1. i + 1 = j + 1
      BY <1>1, <1>3, <2>1 DEF PublishesLiveNodesOnce
    <3> QED
      BY <1>3, <3>1
  <2> QED
    BY <2>1 DEF PublishesLiveNodesOnce
<1>9. Histories'
  <2>1. ASSUME NEW i \in DOMAIN readyNodesChan'
        PROVE  readyNodesChan'[i] \in released' \ taken'
    <3>1. readyNodesChan'[i] = readyNodesChan[i + 1] /\ i + 1 \in DOMAIN readyNodesChan
      BY <1>1, <1>3
    <3>2. readyNodesChan[i + 1] # n
      BY <1>1, <1>3 DEF PublishesLiveNodesOnce
    <3> QED
      BY <3>1, <3>2 DEF Histories
  <2> QED
    BY <1>2, <2>1 DEF Histories
<1>10. DependencyOrder'
  BY DEF DependencyOrder, Satisfied
<1>11. CancelledNeverRuns' /\ cancelled' \subseteq added' \ nodes'
  BY DEF CancelledNeverRuns
<1> QED
  BY <1>4, <1>5, <1>6, <1>7, <1>8, <1>9, <1>10, <1>11

\* A result can only satisfy dependencies, never withdraw them.
LEMMA FinishInv == ASSUME Inv, NEW n \in Node, Finish(n) PROVE Inv'
<1> USE DEF Inv, Finish, graphVars
<1>1. /\ outcome \in [Node -> Outcome] /\ outcome' \in [Node -> Outcome]
      /\ outcome'[n] # "none"
      /\ \A m \in Node \ {n} : outcome'[m] = outcome[m]
  BY DEF TypeOK, Outcome
<1>2. \A m \in Node : Satisfied(m) => Satisfied(m)'
  BY <1>1 DEF Satisfied
<1>3. TypeOK'
  BY <1>1 DEF TypeOK, GraphTypeOK
<1>4. EdgesMatchDeps'
  BY DEF EdgesMatchDeps
<1>5. CountsPending'
  <2> SUFFICES ASSUME NEW c \in nodes
               PROVE  indegree'[c] >= Cardinality(Pending(c)')
    BY DEF CountsPending
  <2>1. c \in Node /\ indegree[c] \in Int
    BY DEF TypeOK, GraphTypeOK
  <2>2. \A i \in DOMAIN Deps[c] : Deps[c][i] \in Node
    BY <2>1, DepsAssumption
  <2>3. Pending(c)' \subseteq Pending(c)
    BY <1>2, <2>2 DEF Pending, Positions
  <2> QED
    BY <2>1, <2>3, CountKept DEF CountsPending
<1>6. PositiveIsWaiting'
  BY DEF PositiveIsWaiting
<1>7. Histories'
  BY <1>1 DEF Histories
<1>8. DependencyOrder'
  <2>1. emitting \cup released \subseteq Node
    BY DEF TypeOK, GraphTypeOK
  <2>2. ASSUME NEW m \in emitting \cup released, NEW i \in DOMAIN Deps[m]
        PROVE  Satisfied(Deps[m][i])'
    <3>1. Deps[m][i] \in Node
      BY <2>1, DepsAssumption
    <3> QED
      BY <1>2, <3>1 DEF DependencyOrder
  <2> QED
    BY <2>2 DEF DependencyOrder
<1>9. PublishesLiveNodesOnce'
  BY DEF PublishesLiveNodesOnce
<1>10. CancelledNeverRuns' /\ cancelled' \subseteq added' \ nodes'
  BY DEF CancelledNeverRuns
<1> QED
  BY <1>3, <1>4, <1>5, <1>6, <1>7, <1>8, <1>9, <1>10

\* A node that is lost had not finished, so it has satisfied nobody.
LEMMA LoseInv == ASSUME Inv, NEW n \in Node, Lose(n) PROVE Inv'
<1> USE DEF Inv, Lose, graphVars
<1>1. TypeOK' /\ Histories'
  BY DEF TypeOK, GraphTypeOK, Histories
<1>2. EdgesMatchDeps' /\ CountsPending' /\ PositiveIsWaiting'
  BY DEF EdgesMatchDeps, CountsPending, Pending, Positions, Satisfied, PositiveIsWaiting
<1>3. DependencyOrder' /\ PublishesLiveNodesOnce'
  BY DEF DependencyOrder, Satisfied, PublishesLiveNodesOnce
<1>4. CancelledNeverRuns' /\ cancelled' \subseteq added' \ nodes'
  BY DEF CancelledNeverRuns
<1> QED
  BY <1>1, <1>2, <1>3, <1>4

\* Clearing the graph leaves nothing to count.
LEMMA ResetInv == ASSUME Inv, ResetGraph PROVE Inv'
<1> USE DEF Inv, ResetGraph, Clear, MutexFree
<1>1. TypeOK'
  BY ReadyCapPositive DEF TypeOK, GraphTypeOK
<1>2. EdgesMatchDeps' /\ CountsPending'
  BY DEF EdgesMatchDeps, CountsPending
<1>3. PositiveIsWaiting' /\ Histories'
  BY DEF PositiveIsWaiting, Histories
<1>4. DependencyOrder' /\ PublishesLiveNodesOnce'
  BY DEF DependencyOrder, PublishesLiveNodesOnce, Satisfied
<1>5. CancelledNeverRuns' /\ cancelled' \subseteq added' \ nodes'
  BY DEF CancelledNeverRuns
<1> QED
  BY <1>1, <1>2, <1>3, <1>4, <1>5

\* A finished node that does not cascade satisfies the nodes that wait for
\* it; the ones it frees were waiting for nothing else.
LEMMA RemoveInv ==
    ASSUME Inv, NEW n \in Node, Settle(n), ~CascadesFrom(n)
    PROVE  Inv'
<1> USE DEF Inv
<1>1. /\ Remove(n) /\ cancelled' = cancelled /\ settled' = settled \cup {n}
      /\ taken' = taken /\ outcome' = outcome /\ n \notin settled /\ outcome[n] # "none"
  BY DEF Settle
<1>2. /\ emitting = {} /\ emitting' = Freed(n) /\ nodes' = nodes \ {n}
      /\ indegree' = IndegreeWithout({n}) /\ children' = [children EXCEPT ![n] = {}]
      /\ readyNodesChan' = readyNodesChan /\ added' = added /\ released' = released
  BY <1>1 DEF Remove, MutexFree
<1>3. Satisfied(n)
  BY <1>1, StrategyAssumption DEF Satisfied, CascadesFrom, TypeOK, Outcome
<1>4. /\ children \in [Node -> SUBSET (Node \X Nat)] /\ indegree \in [Node -> Int]
      /\ nodes \subseteq Node
  BY DEF TypeOK, GraphTypeOK
<1>5. ASSUME NEW c \in Node
      PROVE  PositionsOf({n}, c) = Positions(n, c)
  BY DEF PositionsOf, Positions
<1>6. ASSUME NEW c \in Node, NEW i \in Positions(n, c)
      PROVE  i \in DOMAIN Deps[c] /\ Deps[c][i] = n /\ i \in Pending(c)
  BY DEF Positions, EdgesMatchDeps, Pending
<1>7. ASSUME NEW c \in Node \ {n}
      PROVE  /\ indegree'[c] = indegree[c] - Cardinality(Positions(n, c))
             /\ Cardinality(Positions(n, c)) \in Nat
  BY <1>2, <1>5, CountersTyped DEF TypeOK
<1>8. Freed(n) \subseteq nodes \ ({n} \cup released)
  BY <1>7, <1>4 DEF Freed, PositiveIsWaiting
<1>9. TypeOK'
  <2>1. indegree' \in [Node -> Int]
    BY <1>2, CountersTyped DEF TypeOK
  <2>2. children' \in [Node -> SUBSET (Node \X Nat)]
    BY <1>2, <1>4
  <2>3. emitting' \subseteq Node
    BY <1>2 DEF Freed
  <2> QED
    BY <1>1, <1>2, <2>1, <2>2, <2>3 DEF TypeOK, GraphTypeOK
<1>10. EdgesMatchDeps'
  <2>1. \A p \in Node : children'[p] \subseteq children[p]
    BY <1>2, <1>4
  <2> QED
    BY <1>2, <2>1 DEF EdgesMatchDeps
<1>11. CountsPending'
  <2> SUFFICES ASSUME NEW c \in nodes'
               PROVE  indegree'[c] >= Cardinality(Pending(c)')
    BY DEF CountsPending
  <2>1. c \in Node \ {n} /\ c \in nodes
    BY <1>2, <1>4
  <2>2. Pending(c)' \subseteq Pending(c) \ Positions(n, c)
    <3> SUFFICES ASSUME NEW i \in Pending(c)'
                 PROVE  i \in Pending(c) /\ i \notin Positions(n, c)
      OBVIOUS
    <3>0. i \in DOMAIN Deps[c] /\ Deps[c][i] \in Node
      BY <2>1, DepsAssumption DEF Pending
    <3>1. CASE <<c, i>> \in children'[Deps[c][i]]
      <4>1. Deps[c][i] # n /\ <<c, i>> \in children[Deps[c][i]]
        BY <1>2, <1>4, <3>0, <3>1
      <4> QED
        BY <2>1, <3>0, <4>1, <1>6 DEF Pending, Positions
    <3>2. CASE ~Satisfied(Deps[c][i])
      BY <1>3, <1>6, <2>1, <3>0, <3>2 DEF Pending
    <3> QED
      BY <1>1, <3>1, <3>2 DEF Pending, Positions, Satisfied
  <2>3. Positions(n, c) \subseteq Pending(c) /\ Pending(c) \subseteq DOMAIN Deps[c]
    BY <1>6, <2>1 DEF Pending
  <2>4. Cardinality(Pending(c) \ Positions(n, c))
          = Cardinality(Pending(c)) - Cardinality(Positions(n, c))
    BY <2>1, <2>3, CountDown
  <2>5. /\ Cardinality(Pending(c)') <= Cardinality(Pending(c) \ Positions(n, c))
        /\ Cardinality(Pending(c)') \in Nat
    <3>1. Pending(c) \ Positions(n, c) \subseteq DOMAIN Deps[c]
      BY <2>3
    <3> QED
      BY <2>1, <2>2, <3>1, FewerPositions
  <2>6. indegree[c] >= Cardinality(Pending(c)) /\ Cardinality(Pending(c)) \in Nat
    BY <2>1, <2>3, PositionSets DEF CountsPending
  <2> QED
    BY <1>4, <1>7, <2>1, <2>4, <2>5, <2>6
<1>12. PositiveIsWaiting'
  <2> SUFFICES ASSUME NEW c \in Node, indegree'[c] >= 1
               PROVE  c \in nodes' /\ c \notin released' \cup emitting'
    BY DEF PositiveIsWaiting
  <2>1. c # n
    BY <1>2, CountersTyped DEF TypeOK
  <2>2. indegree[c] >= 1 /\ c \notin Freed(n)
    BY <1>4, <1>7, <2>1 DEF Freed
  <2> QED
    BY <1>2, <2>1, <2>2 DEF PositiveIsWaiting
<1>13. Histories'
  BY <1>1, <1>2 DEF Histories
<1>14. DependencyOrder'
  <2> SUFFICES ASSUME NEW c \in emitting' \cup released', NEW i \in DOMAIN Deps[c]
               PROVE  Satisfied(Deps[c][i])
    BY <1>1 DEF DependencyOrder, Satisfied
  <2>1. CASE c \in released
    BY <2>1 DEF DependencyOrder
  <2>2. CASE c \in Freed(n)
    <3>1. /\ c \in Node \ {n} /\ c \in nodes /\ indegree[c] \in Int
          /\ indegree[c] <= Cardinality(Positions(n, c))
      BY <1>4, <1>7, <1>8, <2>2 DEF Freed
    <3>2. Positions(n, c) \subseteq Pending(c) /\ Pending(c) \subseteq DOMAIN Deps[c]
      BY <1>6, <3>1 DEF Pending
    <3>3. Cardinality(Pending(c)) <= Cardinality(Positions(n, c))
      BY <1>7, <3>1, <3>2, PositionSets DEF CountsPending
    <3>4. Pending(c) \subseteq Positions(n, c)
      BY <3>1, <3>2, <3>3, CountDown
    <3> QED
      BY <1>3, <1>6, <3>1, <3>4 DEF Pending
  <2> QED
    BY <1>2, <2>1, <2>2
<1>15. PublishesLiveNodesOnce'
  BY <1>2, <1>8 DEF PublishesLiveNodesOnce
<1>16. CancelledNeverRuns' /\ cancelled' \subseteq added' \ nodes'
  BY <1>1, <1>2, <1>8 DEF CancelledNeverRuns
<1> QED
  BY <1>9, <1>10, <1>11, <1>12, <1>13, <1>14, <1>15, <1>16

\* The subtree of a failed node holds, besides it, only nodes not yet
\* published: each is reached through an edge from a node that has not
\* succeeded.
LEMMA SubtreeWaits ==
    ASSUME Inv, NEW n \in nodes, outcome[n] = "err", Strategy = "propagate"
    PROVE  /\ n \in Subtree(n)
           /\ Subtree(n) \subseteq nodes
           /\ Subtree(n) \cap released \subseteq {n}
           /\ ClosedUnderChildren(Subtree(n))
<1> USE DEF Inv
<1> DEFINE Waiting == {m \in nodes : m = n \/ m \notin released}
<1>1. n \in Subtree(n) /\ Subtree(n) \subseteq nodes
  BY DEF Subtree
<1>2. ClosedUnderChildren(Waiting)
  <2> SUFFICES ASSUME NEW p \in Waiting, NEW c \in nodes, NEW i \in Positions(p, c), c \in released
               PROVE  FALSE
    BY DEF ClosedUnderChildren
  <2>1. p \in Node /\ i \in DOMAIN Deps[c] /\ Deps[c][i] = p
    BY DEF TypeOK, GraphTypeOK, Positions, EdgesMatchDeps
  <2>2. Satisfied(p)
    BY <2>1 DEF DependencyOrder
  <2>3. outcome[p] = "ok"
    BY <2>2 DEF Satisfied
  <2>4. p # n /\ p \in taken
    BY <2>1, <2>3 DEF Histories
  <2> QED
    BY <2>4 DEF Histories
<1>3. n \in Waiting /\ Waiting \in SUBSET nodes
  OBVIOUS
<1>4. Subtree(n) \subseteq Waiting
  BY <1>2, <1>3 DEF Subtree
<1>5. ClosedUnderChildren(Subtree(n))
  BY DEF Subtree, ClosedUnderChildren
<1> QED
  BY <1>1, <1>4, <1>5

\* A cascade takes whole subtrees, so the nodes it leaves lose no edge.
LEMMA CascadeInv ==
    ASSUME Inv, NEW n \in Node, Settle(n), CascadesFrom(n)
    PROVE  Inv'
<1> USE DEF Inv
<1> DEFINE D == IF n \in nodes THEN Subtree(n) ELSE {}
<1>1. /\ RemoveSubtree(n) /\ settled' = settled \cup {n}
      /\ cancelled' = cancelled \cup ((nodes \ nodes') \ {n})
      /\ taken' = taken /\ outcome' = outcome /\ n \notin settled
      /\ outcome[n] = "err" /\ Strategy = "propagate"
  BY DEF Settle, CascadesFrom
<1>2. /\ emitting = {} /\ emitting' = emitting /\ nodes' = nodes \ D
      /\ indegree' = IndegreeWithout(D)
      /\ children' = [p \in Node |-> IF p \in D THEN {} ELSE children[p]]
      /\ readyNodesChan' = readyNodesChan /\ added' = added /\ released' = released
  BY <1>1 DEF RemoveSubtree, MutexFree
<1>3. /\ children \in [Node -> SUBSET (Node \X Nat)] /\ indegree \in [Node -> Int]
      /\ nodes \subseteq Node
  BY DEF TypeOK, GraphTypeOK
<1>4. /\ D \subseteq nodes /\ D \cap released \subseteq {n}
      /\ n \notin nodes'
      /\ \A p \in D, c \in nodes : Positions(p, c) # {} => c \in D
  BY <1>1, <1>2, SubtreeWaits DEF ClosedUnderChildren
<1> HIDE DEF D
<1>5. ASSUME NEW c \in Node
      PROVE  /\ PositionsOf(D, c) \subseteq DOMAIN Deps[c]
             /\ Cardinality(PositionsOf(D, c)) \in Nat
             /\ c \in D => indegree'[c] <= 0
             /\ c \notin D => indegree'[c] = indegree[c] - Cardinality(PositionsOf(D, c))
  BY <1>2, CountersTyped DEF TypeOK
<1>6. TypeOK'
  <2>1. indegree' \in [Node -> Int]
    BY <1>2, CountersTyped DEF TypeOK
  <2>2. children' \in [Node -> SUBSET (Node \X Nat)]
    BY <1>2, <1>3
  <2>3. settled' \subseteq Node /\ cancelled' \subseteq Node /\ nodes' \subseteq Node
    BY <1>1, <1>2, <1>3 DEF TypeOK
  <2> QED
    BY <1>1, <1>2, <2>1, <2>2, <2>3 DEF TypeOK, GraphTypeOK
<1>7. \A p \in Node : children'[p] \subseteq children[p]
  BY <1>2
<1>8. EdgesMatchDeps'
  BY <1>2, <1>7 DEF EdgesMatchDeps
<1>9. CountsPending'
  <2> SUFFICES ASSUME NEW c \in nodes'
               PROVE  indegree'[c] >= Cardinality(Pending(c)')
    BY DEF CountsPending
  <2>1. c \in Node /\ c \in nodes /\ c \notin D
    BY <1>2, <1>3
  <2>2. PositionsOf(D, c) = {}
    BY <1>4, <2>1 DEF PositionsOf
  <2>3. indegree'[c] = indegree[c]
    <3>1. indegree'[c] = indegree[c] - Cardinality(PositionsOf(D, c)) /\ indegree[c] \in Int
      BY <1>3, <1>5, <2>1
    <3>2. Cardinality(PositionsOf(D, c)) = 0
      BY <2>2, FS_EmptySet
    <3> QED
      BY <3>1, <3>2
  <2>4. Pending(c)' \subseteq Pending(c)
    <3> SUFFICES ASSUME NEW i \in Pending(c)' PROVE i \in Pending(c)
      OBVIOUS
    <3>1. i \in DOMAIN Deps[c] /\ Deps[c][i] \in Node
      BY <2>1, DepsAssumption DEF Pending
    <3> QED
      BY <1>1, <1>7, <3>1 DEF Pending, Positions, Satisfied
  <2> QED
    BY <1>3, <2>1, <2>3, <2>4, CountKept DEF CountsPending
<1>10. PositiveIsWaiting'
  <2> SUFFICES ASSUME NEW c \in Node, indegree'[c] >= 1
               PROVE  c \in nodes' /\ c \notin released' \cup emitting'
    BY DEF PositiveIsWaiting
  <2>1. c \notin D /\ indegree[c] >= 1
    <3> DEFINE lost == Cardinality(PositionsOf(D, c))
    <3>1. /\ lost \in Nat /\ indegree[c] \in Int /\ indegree'[c] \in Int
          /\ c \in D => indegree'[c] <= 0
          /\ c \notin D => indegree'[c] = indegree[c] - lost
      BY <1>3, <1>5, <1>6 DEF TypeOK, GraphTypeOK
    <3> HIDE DEF lost
    <3>2. c \notin D
      BY <3>1
    <3> QED
      BY <3>1, <3>2
  <2> QED
    BY <1>2, <2>1 DEF PositiveIsWaiting
<1>11. Histories'
  BY <1>1, <1>2, <1>4 DEF Histories
<1>12. DependencyOrder'
  BY <1>1, <1>2 DEF DependencyOrder, Satisfied
<1>13. PublishesLiveNodesOnce'
  BY <1>2 DEF PublishesLiveNodesOnce
<1>14. CancelledNeverRuns' /\ cancelled' \subseteq added' \ nodes'
  <2>1. cancelled' = cancelled \cup (D \ {n})
    BY <1>1, <1>2, <1>4
  <2>2. D \subseteq added /\ (D \ {n}) \cap released = {}
    BY <1>4 DEF Histories
  <2> QED
    BY <1>2, <2>1, <2>2 DEF CancelledNeverRuns
<1> QED
  BY <1>6, <1>8, <1>9, <1>10, <1>11, <1>12, <1>13, <1>14

-----------------------------------------------------------------------------
\* Inv is inductive.
LEMMA NextInv == Inv /\ [Next]_vars => Inv'
<1> SUFFICES ASSUME Inv, [Next]_vars PROVE Inv'
  OBVIOUS
<1>1. ASSUME NEW n \in Node, Submit(n) PROVE Inv'
  BY <1>1, SubmitInv
<1>2. ASSUME NEW n \in Node, Emit(n) PROVE Inv'
  BY <1>2, EmitInv
<1>3. ASSUME NEW n \in Node, Take(n) PROVE Inv'
  BY <1>3, TakeInv
<1>4. ASSUME NEW n \in Node, Finish(n) PROVE Inv'
  BY <1>4, FinishInv
<1>5. ASSUME NEW n \in Node, Settle(n) PROVE Inv'
  BY <1>5, RemoveInv, CascadeInv
<1>6. CASE ResetGraph
  BY <1>6, ResetInv
<1>7. ASSUME NEW n \in Node, Lose(n) PROVE Inv'
  BY <1>7, LoseInv
<1>8. CASE UNCHANGED vars
  BY <1>8 DEF vars, graphVars, Inv, TypeOK, GraphTypeOK, EdgesMatchDeps, CountsPending,
              Pending, Positions, PositiveIsWaiting, Histories, DependencyOrder, Satisfied,
              PublishesLiveNodesOnce, CancelledNeverRuns
<1> QED
  BY <1>1, <1>2, <1>3, <1>4, <1>5, <1>6, <1>7, <1>8 DEF Next

\* Every reachable state of graph.go's graph, under its callers' rules,
\* satisfies the inductive invariant.
THEOREM Invariance == Spec => []Inv
<1> QED
  BY InitInv, NextInv, PTL DEF Spec

\* The graph's maps, counters and channel keep their types.
THEOREM TypeCorrect == Spec => []TypeOK
<1>1. Inv => TypeOK
  BY DEF Inv
<1> QED
  BY <1>1, Invariance, PTL

\* Add and remove publish a node only after each of its dependencies has
\* finished the way the failure strategy asks.
THEOREM OrderedRelease == Spec => []DependencyOrder
<1>1. Inv => DependencyOrder
  BY DEF Inv
<1> QED
  BY <1>1, Invariance, PTL

\* remove never publishes a nil node, nor a node for the second time.
THEOREM ReleaseOnce == Spec => []PublishesLiveNodesOnce
<1>1. Inv => PublishesLiveNodesOnce
  BY DEF Inv
<1> QED
  BY <1>1, Invariance, PTL

\* No in-degree runs below the number of dependencies still missing, so no
\* decrement of remove brings it to zero too early.
THEOREM CountersAgree == Spec => []CountsPending
<1>1. Inv => CountsPending
  BY DEF Inv
<1> QED
  BY <1>1, Invariance, PTL

\* A node RemoveSubtree cancelled is never published.
THEOREM CancelledStays == Spec => []CancelledNeverRuns
<1>1. Inv => CancelledNeverRuns
  BY DEF Inv
<1> QED
  BY <1>1, Invariance, PTL

-----------------------------------------------------------------------------
(* The refinement of TaskOrder, under the stage each node is in.           *)

Stages == [n \in Node |-> StageOf(n)]

\* The stages, told apart by the graph's state.
LEMMA StageMeans ==
    ASSUME Inv, NEW n \in Node
    PROVE  /\ StageOf(n) = "new" <=> n \notin added
           /\ StageOf(n) = "waiting" <=> n \in nodes \ released
           /\ StageOf(n) = "ready" <=> outcome[n] = "none" /\ InPipeline(n)
           /\ StageOf(n) = "succeeded" <=> outcome[n] = "ok"
           /\ StageOf(n) = "failed" <=> outcome[n] = "err"
           /\ StageOf(n) = "cancelled" <=> n \in cancelled
<1> USE DEF Inv
<1>1. /\ n \in nodes \cup released \cup cancelled => n \in added
      /\ outcome[n] # "none" => n \in released
      /\ InPipeline(n) => n \in released
      /\ n \in released => n \notin cancelled
      /\ n \in nodes => n \notin cancelled
  BY DEF Histories, InPipeline, CancelledNeverRuns
<1>2. outcome[n] \in {"none", "ok", "err"}
  BY DEF TypeOK, Outcome
<1> HIDE DEF Inv
<1>3. CASE n \notin added
  BY <1>1, <1>2, <1>3 DEF StageOf
<1>4. CASE n \in added /\ outcome[n] # "none"
  BY <1>1, <1>2, <1>4 DEF StageOf
<1>5. CASE n \in added /\ outcome[n] = "none" /\ n \in released
  BY <1>1, <1>2, <1>5 DEF StageOf
<1>6. CASE n \in added /\ outcome[n] = "none" /\ n \notin released
  BY <1>1, <1>2, <1>6 DEF StageOf
<1> QED
  BY <1>3, <1>4, <1>5, <1>6

\* A node none of whose marks changes stays in its stage.
LEMMA StageKept ==
    ASSUME NEW n \in Node,
           (n \in added)' <=> n \in added, outcome'[n] = outcome[n],
           (n \in cancelled)' <=> n \in cancelled, (n \in released)' <=> n \in released,
           (n \in nodes)' <=> n \in nodes, InPipeline(n)' <=> InPipeline(n)
    PROVE  StageOf(n)' = StageOf(n)
BY DEF StageOf

\* A pipeline is where the channel and the receiver have it.
LEMMA PipelineKept ==
    ASSUME readyNodesChan' = readyNodesChan, taken' = taken, NEW n \in Node
    PROVE  InPipeline(n)' <=> InPipeline(n)
BY DEF InPipeline

\* One node changes its stage, or none does.
LEMMA OneMoves ==
    ASSUME NEW n \in Node, \A m \in Node \ {n} : StageOf(m)' = StageOf(m)
    PROVE  Stages' = [Stages EXCEPT ![n] = StageOf(n)']
BY DEF Stages

\* The map is the same if every node's stage is.
LEMMA NoneMoves ==
    ASSUME \A m \in Node : StageOf(m)' = StageOf(m)
    PROVE  Stages' = Stages
BY DEF Stages

-----------------------------------------------------------------------------
\* A push makes a new node wait.
LEMMA SubmitRefines ==
    ASSUME Inv, NEW n \in Node, Submit(n)
    PROVE  Order!Submit(n)
<1> USE DEF Submit, Add
<1>1. StageOf(n) = "new"
  BY StageMeans
<1>2. StageOf(n)' = "waiting"
  <2>1. outcome[n] = "none" /\ n \notin cancelled /\ n \notin released
    BY DEF Inv, TypeOK, Outcome, Histories
  <2> QED
    BY <2>1 DEF StageOf
<1>3. \A m \in Node \ {n} : StageOf(m)' = StageOf(m)
  BY PipelineKept, StageKept
<1>4. Stages' = [Stages EXCEPT ![n] = "waiting"]
  BY <1>2, <1>3, OneMoves
<1> QED
  BY <1>1, <1>4 DEF Order!Submit, Stages

\* A send on the channel releases a node whose dependencies permit it.
LEMMA EmitRefines ==
    ASSUME Inv, NEW n \in Node, Emit(n)
    PROVE  Order!Release(n)
<1> USE DEF Emit, EmitReady
<1>1. /\ n \in emitting /\ n \in nodes \ released
      /\ outcome[n] = "none" /\ n \in added /\ n \notin cancelled /\ n \notin taken
  BY DEF Inv, TypeOK, Outcome, Histories, PublishesLiveNodesOnce, CancelledNeverRuns
<1>2. StageOf(n) = "waiting"
  BY <1>1, StageMeans
<1>3. /\ readyNodesChan \in Seq(Node)
      /\ Len(readyNodesChan) \in Nat
      /\ DOMAIN readyNodesChan' = 1 .. Len(readyNodesChan) + 1
      /\ DOMAIN readyNodesChan = 1 .. Len(readyNodesChan)
      /\ readyNodesChan'[Len(readyNodesChan) + 1] = n
      /\ \A i \in DOMAIN readyNodesChan : readyNodesChan'[i] = readyNodesChan[i]
  BY DEF Inv, TypeOK, GraphTypeOK
<1>4. StageOf(n)' = "ready"
  <2>1. InPipeline(n)'
    BY <1>3 DEF InPipeline
  <2> QED
    BY <1>1, <2>1 DEF StageOf
<1>5. ASSUME NEW m \in Node \ {n}
      PROVE  StageOf(m)' = StageOf(m)
  <2>1. InPipeline(m)' <=> InPipeline(m)
    BY <1>3 DEF InPipeline
  <2> QED
    BY <2>1, StageKept
<1>6. Stages' = [Stages EXCEPT ![n] = "ready"]
  BY <1>4, <1>5, OneMoves
<1>7. ASSUME NEW i \in DOMAIN Deps[n]
      PROVE  \/ StageOf(Deps[n][i]) = "succeeded"
             \/ Strategy = "isolate" /\ StageOf(Deps[n][i]) = "failed"
  <2>1. Satisfied(Deps[n][i]) /\ Deps[n][i] \in Node
    BY <1>1, DepsAssumption DEF Inv, DependencyOrder
  <2> QED
    BY <2>1, StageMeans DEF Satisfied
<1>8. \A d \in Order!Dependencies(n) : Order!Permits(d)
  <2> SUFFICES ASSUME NEW i \in DOMAIN Deps[n] PROVE Order!Permits(Deps[n][i])
    BY DEF Order!Dependencies
  <2>1. Deps[n][i] \in Node
    BY DepsAssumption
  <2> QED
    BY <1>7, <2>1 DEF Order!Permits
<1> QED
  BY <1>2, <1>6, <1>8 DEF Order!Release, Stages

\* Taking a node off the channel leaves it in the pipeline.
LEMMA TakeRefines ==
    ASSUME Inv, NEW n \in Node, Take(n)
    PROVE  Stages' = Stages
<1> USE DEF Take, ReceiveReady
<1>1. /\ readyNodesChan \in Seq(Node) /\ readyNodesChan # <<>>
      /\ Len(readyNodesChan) \in Nat
      /\ DOMAIN readyNodesChan = 1 .. Len(readyNodesChan)
      /\ DOMAIN readyNodesChan' = 1 .. Len(readyNodesChan) - 1
      /\ readyNodesChan[1] = n
      /\ \A i \in DOMAIN readyNodesChan' : readyNodesChan'[i] = readyNodesChan[i + 1]
  BY DEF Inv, TypeOK, GraphTypeOK
<1>2. ASSUME NEW m \in Node
      PROVE  InPipeline(m)' <=> InPipeline(m)
  <2>1. ASSUME NEW i \in DOMAIN readyNodesChan, readyNodesChan[i] = m
        PROVE  InPipeline(m)'
    <3>1. CASE i = 1
      BY <1>1, <2>1, <3>1 DEF InPipeline
    <3>2. CASE i # 1
      <4>1. i - 1 \in DOMAIN readyNodesChan' /\ readyNodesChan'[i - 1] = readyNodesChan[i]
        BY <1>1, <3>2
      <4> QED
        BY <2>1, <4>1 DEF InPipeline
    <3> QED
      BY <3>1, <3>2
  <2>2. ASSUME NEW i \in DOMAIN readyNodesChan', readyNodesChan'[i] = m
        PROVE  InPipeline(m)
    <3>1. i + 1 \in DOMAIN readyNodesChan
      BY <1>1
    <3> QED
      BY <1>1, <2>2, <3>1 DEF InPipeline
  <2>3. n \in Node /\ InPipeline(n)
    BY <1>1 DEF InPipeline
  <2> QED
    BY <2>1, <2>2, <2>3 DEF InPipeline
<1>3. \A m \in Node : StageOf(m)' = StageOf(m)
  BY <1>2, StageKept
<1> QED
  BY <1>3, NoneMoves

\* A result ends the stage of a node that was ready.
LEMMA FinishRefines ==
    ASSUME Inv, NEW n \in Node, Finish(n)
    PROVE  Order!Finish(n)
<1> USE DEF Finish, graphVars
<1>1. StageOf(n) = "ready"
  BY StageMeans DEF InPipeline
<1>2. n \in added
  BY DEF Inv, Histories
<1>3. /\ outcome'[n] \in {"ok", "err"}
      /\ \A m \in Node \ {n} : outcome'[m] = outcome[m]
  BY DEF Inv, TypeOK, Outcome
<1>4. StageOf(n)' \in {"succeeded", "failed"}
  BY <1>2, <1>3 DEF StageOf
<1>5. \A m \in Node \ {n} : StageOf(m)' = StageOf(m)
  BY <1>3, PipelineKept, StageKept
<1>6. Stages' = [Stages EXCEPT ![n] = StageOf(n)']
  BY <1>5, OneMoves
<1> QED
  BY <1>1, <1>4, <1>6 DEF Order!Finish, Stages

\* Removing a finished node changes no stage.
LEMMA RemoveRefines ==
    ASSUME Inv, NEW n \in Node, Settle(n), ~CascadesFrom(n)
    PROVE  Stages' = Stages
<1>1. /\ nodes' = nodes \ {n} /\ outcome' = outcome /\ cancelled' = cancelled /\ taken' = taken
      /\ readyNodesChan' = readyNodesChan /\ added' = added /\ released' = released
      /\ outcome[n] # "none"
  BY DEF Settle, Remove
<1>2. outcome[n] \in {"ok", "err"} /\ n \in added
  BY <1>1 DEF Inv, TypeOK, Outcome, Histories
<1>3. StageOf(n)' = StageOf(n)
  BY <1>1, <1>2 DEF StageOf
<1>4. ASSUME NEW m \in Node \ {n}
      PROVE  StageOf(m)' = StageOf(m)
  <2>1. (m \in nodes)' <=> m \in nodes
    BY <1>1
  <2> QED
    BY <1>1, <2>1, PipelineKept, StageKept
<1> QED
  BY <1>3, <1>4, NoneMoves

\* Each node of a subtree but its root has a parent in it: without one, the
\* subtree would do without that node.
LEMMA SubtreeHasParents ==
    ASSUME NEW n \in nodes, NEW c \in Subtree(n) \ {n}
    PROVE  \E p \in Subtree(n) \ {c} : Positions(p, c) # {}
<1> SUFFICES ASSUME \A p \in Subtree(n) \ {c} : Positions(p, c) = {}
             PROVE  FALSE
  OBVIOUS
<1> DEFINE Rest == Subtree(n) \ {c}
<1>1. n \in Subtree(n) /\ Subtree(n) \in SUBSET nodes /\ ClosedUnderChildren(Subtree(n))
  BY DEF Subtree, ClosedUnderChildren
<1>2. n \in Rest /\ Rest \in SUBSET nodes /\ ClosedUnderChildren(Rest)
  BY <1>1 DEF ClosedUnderChildren
<1>3. c \in Rest
  BY <1>2 DEF Subtree
<1> QED
  BY <1>3

\* A cascade cancels waiting nodes, each for a parent that failed or is
\* cancelled with it.
LEMMA CascadeRefines ==
    ASSUME Inv, NEW n \in Node, Settle(n), CascadesFrom(n)
    PROVE  Stages' = Stages \/ \E C \in SUBSET Node : Order!Cancel(C)
<1> DEFINE D == IF n \in nodes THEN Subtree(n) ELSE {}
           C == D \ {n}
<1>1. /\ RemoveSubtree(n) /\ cancelled' = cancelled \cup ((nodes \ nodes') \ {n})
      /\ taken' = taken /\ outcome' = outcome
      /\ outcome[n] = "err" /\ Strategy = "propagate"
  BY DEF Settle, CascadesFrom
<1>2. /\ nodes' = nodes \ D /\ readyNodesChan' = readyNodesChan
      /\ added' = added /\ released' = released
  BY <1>1 DEF RemoveSubtree
<1>3. D \subseteq nodes /\ D \cap released \subseteq {n} /\ nodes \subseteq Node
  BY <1>1, SubtreeWaits DEF Inv, TypeOK, GraphTypeOK
<1>4. ASSUME NEW c \in C
      PROVE  \E d \in Order!Dependencies(c) : StageOf(d) = "failed" \/ d \in C
  <2>1. n \in nodes /\ c \in Subtree(n) \ {n} /\ c \in Node
    BY <1>3
  <2>2. PICK p \in Subtree(n) \ {c} : Positions(p, c) # {}
    BY <2>1, SubtreeHasParents
  <2>3. p \in Node /\ p \in D
    BY <1>3, <2>1, <2>2
  <2>4. PICK i \in Positions(p, c) : TRUE
    BY <2>2
  <2>5. i \in DOMAIN Deps[c] /\ Deps[c][i] = p
    BY <2>3, <2>4 DEF Positions, Inv, EdgesMatchDeps
  <2>6. p \in Order!Dependencies(c)
    BY <2>5 DEF Order!Dependencies
  <2>7. CASE p = n
    BY <1>1, <2>6, <2>7, StageMeans
  <2>8. CASE p # n
    BY <2>3, <2>6, <2>8
  <2> QED
    BY <2>7, <2>8
<1> HIDE DEF D
<1>5. cancelled' = cancelled \cup C
  BY <1>1, <1>2, <1>3
<1>6. ASSUME NEW c \in C
      PROVE  StageOf(c) = "waiting" /\ StageOf(c)' = "cancelled"
  <2>1. c \in nodes /\ c \notin released /\ c \in Node
    BY <1>3
  <2>2. c \in added /\ outcome[c] = "none"
    BY <2>1 DEF Inv, TypeOK, Outcome, Histories
  <2> QED
    BY <1>1, <1>2, <1>5, <2>1, <2>2, StageMeans DEF StageOf
<1>7. ASSUME NEW m \in Node \ C
      PROVE  StageOf(m)' = StageOf(m)
  <2>1. CASE m = n
    <3>1. n \in added
      BY <1>1 DEF Inv, Histories
    <3> QED
      BY <1>1, <1>2, <2>1, <3>1 DEF StageOf
  <2>2. CASE m # n
    <3>1. /\ (m \in nodes)' <=> m \in nodes
          /\ (m \in cancelled)' <=> m \in cancelled
      BY <1>2, <1>5, <2>2
    <3> QED
      BY <1>1, <1>2, <3>1, PipelineKept, StageKept
  <2> QED
    BY <2>1, <2>2
<1> HIDE DEF C
<1>8. C \in SUBSET Node
  BY <1>3 DEF C
<1>9. CASE C = {}
  BY <1>7, <1>9, NoneMoves
<1>10. CASE C # {}
  <2>1. Stages' = [m \in Node |-> IF m \in C THEN "cancelled" ELSE Stages[m]]
    BY <1>6, <1>7, <1>8 DEF Stages
  <2>2. \A c \in C : /\ Stages[c] = "waiting"
                     /\ \E d \in Order!Dependencies(c) : Stages[d] = "failed" \/ d \in C
    <3> SUFFICES ASSUME NEW c \in C
                 PROVE  /\ Stages[c] = "waiting"
                        /\ \E d \in Order!Dependencies(c) : Stages[d] = "failed" \/ d \in C
      OBVIOUS
    <3>1. c \in Node /\ Order!Dependencies(c) \subseteq Node
      BY <1>8, DepsAssumption DEF Order!Dependencies
    <3> QED
      BY <1>4, <1>6, <3>1 DEF Stages
  <2>3. Order!Cancel(C)
    BY <1>1, <1>10, <2>1, <2>2 DEF Order!Cancel, Stages
  <2> QED
    BY <1>8, <2>3
<1> QED
  BY <1>9, <1>10

\* A Reset drops the nodes that wait and those in the channel; it lets the
\* ones already taken finish.
LEMMA ResetRefines ==
    ASSUME Inv, ResetGraph
    PROVE  Stages' = Stages \/ \E D \in SUBSET Node : Order!Drop(D)
<1> USE DEF ResetGraph, Clear
<1> DEFINE D == {m \in Node : StageOf(m)' # StageOf(m)}
<1>1. ASSUME NEW m \in Node, StageOf(m) \notin {"waiting", "ready"}
      PROVE  StageOf(m)' = StageOf(m)
  <2>1. InPipeline(m)' => InPipeline(m)
    BY DEF InPipeline
  <2> QED
    BY <1>1, <2>1 DEF StageOf
<1>2. ASSUME NEW m \in Node, StageOf(m)' # StageOf(m)
      PROVE  StageOf(m) \in {"waiting", "ready"} /\ StageOf(m)' = "dropped"
  <2>1. CASE StageOf(m) = "waiting"
    <3>1. m \in nodes \ released
      BY <2>1, StageMeans
    <3>2. m \in added /\ outcome[m] = "none" /\ m \notin cancelled
      BY <3>1 DEF Inv, TypeOK, Outcome, Histories
    <3> QED
      BY <2>1, <3>1, <3>2 DEF StageOf
  <2>2. CASE StageOf(m) = "ready"
    <3>1. outcome[m] = "none" /\ InPipeline(m)
      BY <2>2, StageMeans
    <3>2. m \in released /\ m \in added /\ m \notin cancelled
      BY <3>1 DEF InPipeline, Inv, Histories, CancelledNeverRuns
    <3>3. ~InPipeline(m)'
      BY <1>2, <2>2, <3>1, <3>2 DEF StageOf
    <3> QED
      BY <2>2, <3>1, <3>2, <3>3 DEF StageOf
  <2> QED
    BY <1>1, <1>2, <2>1, <2>2
<1>3. CASE D = {}
  BY <1>3, NoneMoves
<1>4. CASE D # {}
  <2>1. Stages' = [m \in Node |-> IF m \in D THEN "dropped" ELSE Stages[m]]
    BY <1>2 DEF Stages
  <2>2. \A m \in D : Stages[m] \in {"waiting", "ready"}
    BY <1>2 DEF Stages
  <2> HIDE DEF D
  <2>3. Order!Drop(D)
    BY <1>4, <2>1, <2>2 DEF Order!Drop, Stages
  <2>4. D \in SUBSET Node
    BY DEF D
  <2> QED
    BY <2>3, <2>4
<1> QED
  BY <1>3, <1>4

\* A lost node is dropped.
LEMMA LoseRefines ==
    ASSUME Inv, NEW n \in Node, Lose(n)
    PROVE  Order!Drop({n})
<1> USE DEF Lose, graphVars
<1>1. StageOf(n) = "ready"
  BY StageMeans DEF InPipeline
<1>2. StageOf(n)' = "dropped"
  <2>1. n \in released /\ n \in added /\ n \notin cancelled
    BY DEF Inv, Histories, CancelledNeverRuns
  <2>2. ~InPipeline(n)'
    BY DEF InPipeline, Inv, Histories
  <2> QED
    BY <2>1, <2>2 DEF StageOf
<1>3. ASSUME NEW m \in Node \ {n}
      PROVE  StageOf(m)' = StageOf(m)
  <2>1. InPipeline(m)' <=> InPipeline(m)
    BY DEF InPipeline
  <2> QED
    BY <2>1, StageKept
<1>4. Stages' = [m \in Node |-> IF m \in {n} THEN "dropped" ELSE Stages[m]]
  BY <1>2, <1>3 DEF Stages
<1> QED
  BY <1>1, <1>4 DEF Order!Drop, Stages

-----------------------------------------------------------------------------
\* A step of the graph is a step of TaskOrder, or none.
LEMMA StepRefines == Inv /\ [Next]_vars => [Order!Next]_Stages
<1> SUFFICES ASSUME Inv, [Next]_vars PROVE Order!Next \/ Stages' = Stages
  OBVIOUS
<1>1. ASSUME NEW n \in Node, Submit(n) PROVE Order!Next
  BY <1>1, SubmitRefines DEF Order!Next
<1>2. ASSUME NEW n \in Node, Emit(n) PROVE Order!Next
  BY <1>2, EmitRefines DEF Order!Next
<1>3. ASSUME NEW n \in Node, Take(n) PROVE Stages' = Stages
  BY <1>3, TakeRefines
<1>4. ASSUME NEW n \in Node, Finish(n) PROVE Order!Next
  BY <1>4, FinishRefines DEF Order!Next
<1>5. ASSUME NEW n \in Node, Settle(n) PROVE Order!Next \/ Stages' = Stages
  BY <1>5, RemoveRefines, CascadeRefines DEF Order!Next
<1>6. CASE ResetGraph
  BY <1>6, ResetRefines DEF Order!Next
<1>7. ASSUME NEW n \in Node, Lose(n) PROVE Order!Next
  BY <1>7, LoseRefines DEF Order!Next
<1>8. CASE UNCHANGED vars
  <2>1. \A m \in Node : StageOf(m)' = StageOf(m)
    BY <1>8, PipelineKept, StageKept DEF vars, graphVars
  <2> QED
    BY <2>1, NoneMoves
<1> QED
  BY <1>1, <1>2, <1>3, <1>4, <1>5, <1>6, <1>7, <1>8 DEF Next

\* graph.go, under its callers' rules, does what TaskOrder promises: a node is
\* released at most once, after the dependencies the strategy asks for, and
\* cancelled only for a dependency that failed or was itself cancelled.
THEOREM GraphImplementsTaskOrder == Spec => RefinesTaskOrder
<1>1. Init => Order!Init
  BY DEF Init, GraphInit, Order!Init, StageOf
<1>2. Inv /\ [Next]_vars => [Order!Next]_[n \in Node |-> StageOf(n)]
  BY StepRefines DEF Stages
<1> QED
  BY <1>1, <1>2, Invariance, PTL DEF Spec, RefinesTaskOrder, Order!Spec
-----------------------------------------------------------------------------
(* Without a Reset nothing gets lost *)

\* The steps of the protocol but for the two of a Reset.
Onward == \E n \in Node : Submit(n) \/ Emit(n) \/ Take(n) \/ Finish(n) \/ Settle(n)

FailedNodes == {n \in Node : outcome[n] = "err"}

\* The nodes that depend on a member of S are members of S.
TakesDependents(S) == \A n \in added : (\E i \in DOMAIN Deps[n] : Deps[n][i] \in S) => n \in S

\* The nodes a failure takes with it.
Fallen ==
    IF Strategy = "isolate" THEN FailedNodes
    ELSE {n \in Node :
             \A S \in SUBSET Node : FailedNodes \subseteq S /\ TakesDependents(S) => n \in S}

\* What was published is on its way or has its result; what has left the
\* graph has its result or was cancelled, which happens only to what depends
\* on a failed node; and what waits for nothing is published.
Conserved ==
    /\ \A n \in released : InPipeline(n)
    /\ \A n \in added \ nodes : outcome[n] # "none" \/ n \in cancelled
    /\ \A n \in nodes : indegree[n] = 0 => n \in emitting \cup released
    /\ cancelled # {} => Strategy = "propagate"
    /\ \A S \in SUBSET Node : FailedNodes \subseteq S /\ TakesDependents(S) => cancelled \subseteq S

\* Results stay, and so a set that held what failed and depends on it held
\* less before.
LEMMA FallsMore ==
    ASSUME NEW S, FailedNodes \subseteq FailedNodes', added \subseteq added',
           (FailedNodes \subseteq S)', TakesDependents(S)'
    PROVE  FailedNodes \subseteq S /\ TakesDependents(S)
<1>1. FailedNodes \subseteq S
  OBVIOUS
<1>2. TakesDependents(S)
  BY DEF TakesDependents
<1> QED
  BY <1>1, <1>2

\* Submitting, sending, taking and finishing.
LEMMA StepConserves ==
    ASSUME Inv, Conserved, NEW n \in Node, Submit(n) \/ Emit(n) \/ Take(n) \/ Finish(n)
    PROVE  Conserved'
<1> USE DEF Inv
<1>0. /\ cancelled' = cancelled /\ added \subseteq added' /\ nodes \subseteq nodes'
      /\ \A m \in Node : outcome[m] # "none" => outcome'[m] = outcome[m]
  BY DEF Submit, Emit, Take, Finish, Add, EmitReady, ReceiveReady, graphVars, TypeOK, Histories
<1>1. FailedNodes \subseteq FailedNodes'
  BY <1>0 DEF FailedNodes
<1>2. \A S \in SUBSET Node : (FailedNodes \subseteq S)' /\ TakesDependents(S)' => cancelled' \subseteq S
  BY <1>0, <1>1, FallsMore DEF Conserved
<1>3. cancelled' # {} => Strategy = "propagate"
  BY <1>0 DEF Conserved
<1>4. CASE Submit(n)
  <2>1. /\ UNCHANGED <<taken, outcome, readyNodesChan, released>>
        /\ emitting = {} /\ nodes' = nodes \cup {n} /\ added' = added \cup {n}
        /\ indegree' = [indegree EXCEPT ![n] = Len(Deps[n])]
        /\ emitting' = IF Deps[n] = <<>> THEN {n} ELSE {}
    BY <1>4 DEF Submit, Add, MutexFree, DependencyCount
  <2>2. \A m \in released' : InPipeline(m)'
    BY <2>1 DEF Conserved, InPipeline
  <2>3. \A m \in added' \ nodes' : outcome'[m] # "none" \/ m \in cancelled'
    BY <1>0, <2>1 DEF Conserved
  <2>4. Len(Deps[n]) = 0 => Deps[n] = <<>>
    BY DepsAssumption
  <2>5. \A m \in nodes' : indegree'[m] = 0 => m \in emitting' \cup released'
    BY <2>1, <2>4 DEF Conserved, TypeOK, GraphTypeOK
  <2> QED
    BY <1>2, <1>3, <2>2, <2>3, <2>5 DEF Conserved
<1>5. CASE Emit(n)
  <2>1. /\ UNCHANGED <<taken, outcome, nodes, indegree, added>>
        /\ readyNodesChan' = Append(readyNodesChan, n)
        /\ emitting' = emitting \ {n} /\ released' = released \cup {n}
        /\ readyNodesChan \in Seq(Node)
    BY <1>5 DEF Emit, EmitReady, TypeOK, GraphTypeOK
  <2>2. /\ DOMAIN readyNodesChan \subseteq DOMAIN readyNodesChan'
        /\ \A i \in DOMAIN readyNodesChan : readyNodesChan'[i] = readyNodesChan[i]
        /\ Len(readyNodesChan) + 1 \in DOMAIN readyNodesChan'
        /\ readyNodesChan'[Len(readyNodesChan) + 1] = n
    BY <2>1
  <2>3. \A m \in released' : InPipeline(m)'
    BY <2>1, <2>2 DEF Conserved, InPipeline
  <2> QED
    BY <1>0, <1>2, <1>3, <2>1, <2>3 DEF Conserved
<1>6. CASE Take(n)
  <2>1. /\ UNCHANGED <<outcome, nodes, indegree, emitting, added, released>>
        /\ readyNodesChan # <<>> /\ n = Head(readyNodesChan)
        /\ readyNodesChan' = Tail(readyNodesChan)
        /\ taken' = taken \cup {n}
        /\ readyNodesChan \in Seq(Node)
    BY <1>6 DEF Take, ReceiveReady, TypeOK, GraphTypeOK
  <2>2. ASSUME NEW i \in DOMAIN readyNodesChan, readyNodesChan[i] # n
        PROVE  i - 1 \in DOMAIN readyNodesChan' /\ readyNodesChan'[i - 1] = readyNodesChan[i]
    <3>1. /\ i \in 2 .. Len(readyNodesChan) /\ Len(readyNodesChan) \in Nat
          /\ DOMAIN readyNodesChan' = 1 .. Len(readyNodesChan) - 1
      BY <2>1, <2>2
    <3>2. /\ i - 1 \in 1 .. Len(readyNodesChan) - 1
          /\ \A j \in 1 .. Len(readyNodesChan) - 1 : readyNodesChan'[j] = readyNodesChan[j + 1]
      BY <2>1, <3>1
    <3>3. (i - 1) + 1 = i
      BY <3>1
    <3> QED
      BY <3>1, <3>2, <3>3
  <2>3. \A m \in released' : InPipeline(m)'
    BY <2>1, <2>2 DEF Conserved, InPipeline
  <2> QED
    BY <1>0, <1>2, <1>3, <2>1, <2>3 DEF Conserved
<1>7. CASE Finish(n)
  <2>1. UNCHANGED <<taken, nodes, indegree, readyNodesChan, emitting, added, released>>
    BY <1>7 DEF Finish, graphVars
  <2>2. \A m \in released' : InPipeline(m)'
    BY <2>1 DEF Conserved, InPipeline
  <2>3. \A m \in added' \ nodes' : outcome'[m] # "none" \/ m \in cancelled'
    BY <1>0, <2>1 DEF Conserved, TypeOK, GraphTypeOK
  <2>4. \A m \in nodes' : indegree'[m] = 0 => m \in emitting' \cup released'
    BY <2>1 DEF Conserved
  <2> QED
    BY <1>2, <1>3, <2>2, <2>3, <2>4 DEF Conserved
<1> QED
  BY <1>4, <1>5, <1>6, <1>7

\* A node removed by itself has its result, and publishes those it was the
\* last to keep waiting.
LEMMA RemoveConserves ==
    ASSUME Inv, Conserved, NEW n \in Node, Settle(n), ~CascadesFrom(n)
    PROVE  Conserved'
<1> USE DEF Inv
<1>1. /\ UNCHANGED <<taken, outcome, cancelled, readyNodesChan, added, released>>
      /\ outcome[n] # "none" /\ nodes' = nodes \ {n} /\ emitting = {}
      /\ indegree' = IndegreeWithout({n}) /\ emitting' = Freed(n)
  BY DEF Settle, Remove, MutexFree
<1>2. ASSUME NEW m \in nodes', indegree'[m] = 0
      PROVE  m \in emitting' \cup released'
  <2>1. m \in nodes /\ m \in Node /\ m # n /\ indegree[m] \in Int
    BY <1>1 DEF TypeOK, GraphTypeOK
  <2>2. PositionsOf({n}, m) = Positions(n, m)
    BY DEF PositionsOf, Positions
  <2> DEFINE lost == Cardinality(Positions(n, m))
  <2>3. indegree'[m] = indegree[m] - lost
    BY <1>1, <2>1, <2>2 DEF IndegreeWithout
  <2>4. lost \in Nat
    BY <2>1, PositionSets DEF Positions
  <2>5. m \in Freed(n) <=> indegree[m] \in 1 .. lost
    BY <2>1 DEF Freed
  <2> HIDE DEF lost
  <2>6. indegree[m] = lost
    BY <1>2, <2>1, <2>3, <2>4
  <2>7. CASE lost = 0
    BY <1>1, <2>1, <2>6, <2>7 DEF Conserved
  <2>8. CASE lost # 0
    <3>1. indegree[m] \in 1 .. lost
      BY <2>4, <2>6, <2>8
    <3> QED
      BY <1>1, <2>5, <3>1
  <2> QED
    BY <2>7, <2>8
<1>3. \A m \in released' : InPipeline(m)'
  BY <1>1 DEF Conserved, InPipeline
<1>4. \A m \in added' \ nodes' : outcome'[m] # "none" \/ m \in cancelled'
  BY <1>1 DEF Conserved
<1>5. FailedNodes' = FailedNodes /\ \A S : TakesDependents(S)' <=> TakesDependents(S)
  BY <1>1 DEF FailedNodes, TakesDependents
<1> QED
  BY <1>1, <1>2, <1>3, <1>4, <1>5 DEF Conserved

\* A cascade cancels nodes that depend on the failed one, and leaves none
\* waiting for what it takes.
LEMMA CascadeConserves ==
    ASSUME Inv, Conserved, NEW n \in Node, Settle(n), CascadesFrom(n)
    PROVE  Conserved'
<1> USE DEF Inv
<1> DEFINE D == IF n \in nodes THEN Subtree(n) ELSE {}
<1>1. /\ UNCHANGED <<taken, outcome, readyNodesChan, added, released, emitting>>
      /\ cancelled' = cancelled \cup ((nodes \ nodes') \ {n})
      /\ outcome[n] = "err" /\ Strategy = "propagate"
      /\ nodes' = nodes \ D /\ indegree' = IndegreeWithout(D)
  BY DEF Settle, CascadesFrom, RemoveSubtree
<1>2. /\ D \subseteq nodes
      /\ \A p \in D, c \in nodes : Positions(p, c) # {} => c \in D
  BY <1>1, SubtreeWaits DEF ClosedUnderChildren
<1>3. ASSUME NEW S \in SUBSET Node, FailedNodes \subseteq S, TakesDependents(S)
      PROVE  D \subseteq S
  <2> SUFFICES ASSUME n \in nodes PROVE Subtree(n) \subseteq S
    OBVIOUS
  <2>1. n \in S \cap nodes
    BY <1>1, <1>3 DEF FailedNodes
  <2>2. ASSUME NEW p \in S \cap nodes, NEW c \in nodes, Positions(p, c) # {}
        PROVE  c \in S \cap nodes
    <3>1. PICK i \in DOMAIN Deps[c] : <<c, i>> \in children[p]
      BY <2>2 DEF Positions
    <3>2. p \in Node /\ c \in added
      BY DEF TypeOK, GraphTypeOK, Histories
    <3>3. Deps[c][i] = p
      BY <3>1, <3>2 DEF EdgesMatchDeps
    <3> QED
      BY <1>3, <3>2, <3>3 DEF TakesDependents
  <2>3. ClosedUnderChildren(S \cap nodes)
    BY <2>2 DEF ClosedUnderChildren
  <2> QED
    BY <2>1, <2>3 DEF Subtree
<1> HIDE DEF D
<1>4. \A S \in SUBSET Node : (FailedNodes \subseteq S)' /\ TakesDependents(S)' => cancelled' \subseteq S
  BY <1>1, <1>2, <1>3 DEF Conserved, FailedNodes, TakesDependents
<1>5. ASSUME NEW m \in nodes', indegree'[m] = 0
      PROVE  m \in emitting' \cup released'
  <2>1. m \in nodes /\ m \in Node /\ m \notin D /\ indegree[m] \in Int
    BY <1>1 DEF TypeOK, GraphTypeOK
  <2>2. PositionsOf(D, m) = {}
    BY <1>2, <2>1 DEF PositionsOf
  <2>3. indegree'[m] = indegree[m] - 0
    BY <1>1, <2>1, <2>2, FS_EmptySet DEF IndegreeWithout
  <2> QED
    BY <1>1, <1>5, <2>1, <2>3 DEF Conserved
<1>6. \A m \in released' : InPipeline(m)'
  BY <1>1 DEF Conserved, InPipeline
<1>7. \A m \in added' \ nodes' : outcome'[m] # "none" \/ m \in cancelled'
  BY <1>1, <1>2 DEF Conserved
<1> QED
  BY <1>1, <1>4, <1>5, <1>6, <1>7 DEF Conserved

\* Every step without a Reset.
LEMMA OnwardConserves == Inv /\ Conserved /\ [Onward]_vars => Conserved'
<1> SUFFICES ASSUME Inv, Conserved, [Onward]_vars PROVE Conserved'
  OBVIOUS
<1>1. CASE UNCHANGED vars
  BY <1>1 DEF vars, graphVars, Conserved, InPipeline, FailedNodes, TakesDependents
<1> QED
  BY <1>1, StepConserves, RemoveConserves, CascadeConserves DEF Onward

LEMMA OnwardIsNext == Onward => Next
  BY DEF Onward, Next

LEMMA NothingLostAtFirst == Init => Conserved
  BY DEF Init, GraphInit, Conserved

\* So a wired graph with nobody on the way is empty: a node in it that depends
\* on no other waits for nothing, and was published and removed.
LEMMA QuietGraphIsEmpty ==
    ASSUME Inv, Conserved, Wired, emitting = {}, readyNodesChan = <<>>, taken \subseteq settled
    PROVE  nodes = {}
<1> SUFFICES ASSUME nodes # {} PROVE FALSE
  OBVIOUS
<1>1. nodes \in SUBSET Node
  BY DEF Inv, TypeOK, GraphTypeOK
<1>2. PICK n \in nodes : \A i \in DOMAIN Deps[n] : Deps[n][i] \notin nodes
  BY <1>1, AcyclicAssumption
<1>3. {i \in DOMAIN Deps[n] : Deps[n][i] \in nodes /\ i \in Positions(Deps[n][i], n)} = {}
  BY <1>2
<1>4. indegree[n] = 0
  BY <1>3, FS_EmptySet DEF Wired
<1>5. n \in released
  BY <1>4 DEF Conserved
<1>6. n \in taken
  BY <1>5 DEF Conserved, InPipeline
<1> QED
  BY <1>6 DEF Inv, Histories

\* And the nodes that fell with a failed one have failed or were cancelled,
\* each of them one or the other.
LEMMA QuietGraphHasFallen ==
    ASSUME Inv, Conserved, nodes = {}
    PROVE  Fallen = FailedNodes \cup cancelled /\ FailedNodes \cap cancelled = {}
<1> USE DEF Inv
<1>1. FailedNodes \cap cancelled = {}
  BY DEF FailedNodes, Histories, CancelledNeverRuns
<1>2. CASE Strategy = "isolate"
  BY <1>1, <1>2 DEF Fallen, Conserved
<1>3. CASE Strategy = "propagate"
  <2> DEFINE F == FailedNodes \cup cancelled
  <2>1. F \in SUBSET Node /\ cancelled \subseteq Node /\ added \subseteq Node
    BY DEF FailedNodes, TypeOK, GraphTypeOK
  <2>2. ASSUME NEW n \in added, NEW i \in DOMAIN Deps[n], Deps[n][i] \in F
        PROVE  n \in F
    <3>1. CASE n \in cancelled
      BY <3>1
    <3>2. CASE outcome[n] # "none"
      <4>1. n \in released
        BY <2>1, <3>2 DEF Histories
      <4>2. Satisfied(Deps[n][i])
        BY <4>1 DEF DependencyOrder
      <4>3. outcome[Deps[n][i]] = "ok" /\ Deps[n][i] \in Node
        BY <1>3, <2>1, <2>2, <4>2 DEF Satisfied
      <4>4. Deps[n][i] \in cancelled
        BY <2>2, <4>3 DEF FailedNodes
      <4>5. Deps[n][i] \in released
        BY <4>3 DEF Histories
      <4> QED
        BY <4>4, <4>5 DEF CancelledNeverRuns
    <3> QED
      BY <3>1, <3>2 DEF Conserved
  <2>3. TakesDependents(F)
    BY <2>2 DEF TakesDependents
  <2>4. Fallen \subseteq F
    BY <1>3, <2>1, <2>3 DEF Fallen
  <2>5. F \subseteq Fallen
    BY <1>3, <2>1 DEF Fallen, Conserved, FailedNodes
  <2> QED
    BY <1>1, <2>4, <2>5
<1> QED
  BY <1>2, <1>3, StrategyAssumption
=============================================================================
