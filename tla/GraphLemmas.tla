----------------------------- MODULE GraphLemmas -----------------------------
(***************************************************************************)
(* What the operations of DependencyGraph do to its state, for every       *)
(* finite set of nodes, dependency lists and capacity.  The proofs about   *)
(* the graph on its own and those about the engine around it rest on this. *)
(***************************************************************************)
EXTENDS DependencyGraph, FiniteSetTheorems, TLAPS

\* The dependency list of a node is a finite sequence, and every set of its
\* positions is finite and no larger than the list.
LEMMA PositionSets ==
    ASSUME NEW c \in Node, NEW S \in SUBSET DOMAIN Deps[c]
    PROVE  /\ DOMAIN Deps[c] = 1 .. Len(Deps[c])
           /\ Len(Deps[c]) \in Nat
           /\ IsFiniteSet(S)
           /\ Cardinality(S) \in Nat
           /\ Cardinality(S) <= Len(Deps[c])
<1>1. DOMAIN Deps[c] = 1 .. Len(Deps[c]) /\ Len(Deps[c]) \in Nat
  BY DepsAssumption
<1>2. /\ IsFiniteSet(1 .. Len(Deps[c]))
      /\ Cardinality(1 .. Len(Deps[c])) = Len(Deps[c])
  <2>1. 1 \in Int /\ Len(Deps[c]) \in Int
    BY <1>1
  <2>2. /\ IsFiniteSet(1 .. Len(Deps[c]))
        /\ Cardinality(1 .. Len(Deps[c]))
             = IF 1 > Len(Deps[c]) THEN 0 ELSE Len(Deps[c]) - 1 + 1
    BY <2>1, FS_Interval
  <2> QED
    BY <1>1, <2>2
<1>3. IsFiniteSet(S) /\ Cardinality(S) <= Len(Deps[c])
  BY <1>1, <1>2, FS_Subset
<1> QED
  BY <1>1, <1>3, FS_CardinalityType

\* A smaller set of positions has a smaller count.
LEMMA FewerPositions ==
    ASSUME NEW c \in Node, NEW S \in SUBSET DOMAIN Deps[c], NEW T \in SUBSET S
    PROVE  Cardinality(T) <= Cardinality(S) /\ Cardinality(T) \in Nat
<1>1. IsFiniteSet(S)
  BY PositionSets
<1> QED
  BY <1>1, FS_Subset, PositionSets

\* Counting positions down: removing a part subtracts its count, and when
\* the part is as large as the whole nothing is left.
LEMMA CountDown ==
    ASSUME NEW c \in Node, NEW S \in SUBSET DOMAIN Deps[c], NEW T \in SUBSET S
    PROVE  /\ Cardinality(S \ T) = Cardinality(S) - Cardinality(T)
           /\ Cardinality(S) <= Cardinality(T) => S \subseteq T
<1>1. IsFiniteSet(S) /\ IsFiniteSet(S \ T) /\ Cardinality(S) \in Nat /\ Cardinality(T) \in Nat
      /\ Cardinality(S \ T) \in Nat
  BY PositionSets
<1>2. Cardinality(S \ T) = Cardinality(S) - Cardinality(T)
  <2>1. Cardinality(S \ T) = Cardinality(S) - Cardinality(S \cap T)
    BY <1>1, FS_Difference
  <2>2. S \cap T = T
    OBVIOUS
  <2> QED
    BY <2>1, <2>2
<1>3. ASSUME Cardinality(S) <= Cardinality(T)
      PROVE  S \subseteq T
  <2>1. Cardinality(S \ T) = 0
    BY <1>1, <1>2, <1>3
  <2>2. S \ T = {}
    BY <1>1, <2>1, FS_EmptySet
  <2> QED
    BY <2>2
<1> QED
  BY <1>2, <1>3

\* The channel has room for at least one node.
LEMMA ReadyCapPositive == ReadyCap \in Nat \ {0}
  BY MaxGraphSizeAssumption DEF ReadyCap

\* The counters an operation leaves are integers, and every edge it keeps is
\* one that was there.
LEMMA CountersTyped ==
    ASSUME GraphTypeOK, NEW D, NEW c \in Node
    PROVE  /\ PositionsOf(D, c) \subseteq DOMAIN Deps[c]
           /\ Cardinality(PositionsOf(D, c)) \in Nat
           /\ IndegreeWithout(D) \in [Node -> Int]
           /\ c \in D => IndegreeWithout(D)[c] <= 0
           /\ c \notin D => IndegreeWithout(D)[c] = indegree[c] - Cardinality(PositionsOf(D, c))
<1>1. \A x \in Node : /\ PositionsOf(D, x) \subseteq DOMAIN Deps[x]
                      /\ Cardinality(PositionsOf(D, x)) \in Nat
  <2> SUFFICES ASSUME NEW x \in Node
               PROVE  /\ PositionsOf(D, x) \subseteq DOMAIN Deps[x]
                      /\ Cardinality(PositionsOf(D, x)) \in Nat
    OBVIOUS
  <2>1. PositionsOf(D, x) \subseteq DOMAIN Deps[x]
    BY DEF PositionsOf
  <2> QED
    BY <2>1, PositionSets
<1>2. indegree \in [Node -> Int]
  BY DEF GraphTypeOK
<1> QED
  BY <1>1, <1>2 DEF IndegreeWithout

-----------------------------------------------------------------------------
(* Types *)

\* Every operation of the graph keeps its type.
LEMMA GraphInitTyped == GraphInit => GraphTypeOK
  BY ReadyCapPositive DEF GraphInit, GraphTypeOK

\* An added node may publish itself; nothing else changes but its edges and counter.
LEMMA AddTyped == ASSUME GraphTypeOK, NEW n \in Node, Add(n) PROVE GraphTypeOK'
<1> USE DEF GraphTypeOK
<1>1. indegree' \in [Node -> Int]
  BY DepsAssumption DEF Add, DependencyCount
<1>2. children' \in [Node -> SUBSET (Node \X Nat)]
  <2>1. DOMAIN Deps[n] \subseteq Nat
    BY PositionSets
  <2>2. Edges(n) \subseteq Node \X Nat
    BY <2>1 DEF Edges
  <2> QED
    BY <2>2 DEF Add, ChildrenWith
<1> QED
  BY <1>1, <1>2 DEF Add

\* A removal takes away, and frees children that are still in the graph.
LEMMA RemoveTyped == ASSUME GraphTypeOK, NEW n \in Node, Remove(n) PROVE GraphTypeOK'
<1>1. IndegreeWithout({n}) \in [Node -> Int]
  BY CountersTyped
<1>2. Freed(n) \in SUBSET Node
  BY DEF Freed
<1> QED
  BY <1>1, <1>2 DEF GraphTypeOK, Remove

\* A cascade only takes away.
LEMMA RemoveSubtreeTyped == ASSUME GraphTypeOK, NEW n, RemoveSubtree(n) PROVE GraphTypeOK'
<1>1. PICK D :
          /\ nodes' = nodes \ D /\ indegree' = IndegreeWithout(D)
          /\ children' = [p \in Node |-> IF p \in D THEN {} ELSE children[p]]
          /\ UNCHANGED <<readyNodesChan, emitting, added, released>>
  BY Zenon DEF RemoveSubtree
<1>2. IndegreeWithout(D) \in [Node -> Int]
  <2>1. CASE Node = {}
    BY <2>1 DEF IndegreeWithout
  <2>2. ASSUME NEW c \in Node PROVE IndegreeWithout(D) \in [Node -> Int]
    BY CountersTyped
  <2> QED
    BY <2>1, <2>2
<1> QED
  BY <1>1, <1>2 DEF GraphTypeOK

\* A cleared graph is empty.
LEMMA ClearTyped == ASSUME GraphTypeOK, Clear PROVE GraphTypeOK'
  BY ReadyCapPositive DEF GraphTypeOK, Clear

\* A sent node moves from those still to send into the channel, which has room.
LEMMA EmitReadyTyped == ASSUME GraphTypeOK, NEW n \in Node, EmitReady(n) PROVE GraphTypeOK'
<1>1. /\ Append(readyNodesChan, n) \in Seq(Node)
      /\ Len(Append(readyNodesChan, n)) = Len(readyNodesChan) + 1
      /\ Len(readyNodesChan) \in Nat
  BY DEF GraphTypeOK
<1>2. Len(readyNodesChan) < ReadyCap /\ ReadyCap \in Nat
  BY ReadyCapPositive DEF EmitReady
<1> QED
  BY <1>1, <1>2 DEF GraphTypeOK, EmitReady

\* What is received is a node.
LEMMA ReceiveReadyTyped ==
    ASSUME GraphTypeOK, NEW n, ReceiveReady(n)
    PROVE  GraphTypeOK' /\ n \in Node
<1>1. readyNodesChan \in Seq(Node) /\ readyNodesChan # <<>>
  BY DEF GraphTypeOK, ReceiveReady
<1>2. /\ Head(readyNodesChan) \in Node /\ Tail(readyNodesChan) \in Seq(Node)
      /\ Len(Tail(readyNodesChan)) = Len(readyNodesChan) - 1 /\ Len(readyNodesChan) \in Nat
  BY <1>1
<1> QED
  BY <1>2, ReadyCapPositive DEF GraphTypeOK, ReceiveReady
=============================================================================
