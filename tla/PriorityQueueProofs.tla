-------------------------- MODULE PriorityQueueProofs --------------------------
(***************************************************************************)
(* The heap's array implements PriorityOrder for any set of items, any     *)
(* priorities and a queue of any length.  The loops of container/heap are  *)
(* rounds of a step on an array and a position in it; what a round keeps   *)
(* the loop keeps, and a round either ends the loop or brings the position *)
(* nearer to an end of the array.                                          *)
(***************************************************************************)
EXTENDS PriorityQueue, WellFoundedInduction, TLAPS

-----------------------------------------------------------------------------
(* Loops *)

Below == {p \in Nat \X Nat : p[1] < p[2]}

\* A set of numbers that is not empty has a least member.
LEMMA LeastNumber ==
    ASSUME NEW T \in SUBSET Nat, T # {}
    PROVE  \E x \in T : \A y \in T : x <= y
<1>1. IsWellFoundedOn(Below, Nat)
  BY NatLessThanWellFounded DEF OpToRel, Below
<1>2. PICK x \in T : \A y \in T : ~(<<y, x>> \in Below)
  BY <1>1, WFMin
<1>3. \A y \in T : ~(y < x)
  BY <1>2 DEF Below
<1> QED
  BY <1>3

\* h holds the first m rounds of a loop that starts with a.
Rounds(S, g, a, m, h) ==
    /\ h \in [0 .. m -> S] /\ h[0] = a
    /\ \A n \in 1 .. m : h[n] = g[h[n - 1]]

\* There are such rounds, as many as one likes.
LEMMA RoundsExist ==
    ASSUME NEW S, NEW a \in S, NEW g \in [S -> S], NEW m \in Nat
    PROVE  \E h : Rounds(S, g, a, m, h)
<1> DEFINE T == {k \in Nat : ~\E h : Rounds(S, g, a, k, h)}
<1>1. ASSUME T # {} PROVE FALSE
  <2>1. PICK x \in T : \A y \in T : x <= y
    BY <1>1, LeastNumber
  <2>2. x # 0
    <3>1. Rounds(S, g, a, 0, [k \in 0 .. 0 |-> a])
      BY DEF Rounds
    <3> QED
      BY <3>1
  <2>3. x - 1 \in Nat /\ x - 1 \notin T
    BY <2>1, <2>2
  <2>4. PICK h : Rounds(S, g, a, x - 1, h)
    BY <2>3
  <2> DEFINE more == [k \in 0 .. x |-> IF k = x THEN g[h[x - 1]] ELSE h[k]]
  <2>5. x - 1 \in 0 .. x - 1 /\ h[x - 1] \in S
    BY <2>3, <2>4 DEF Rounds
  <2>6. more \in [0 .. x -> S] /\ more[0] = a
    BY <2>2, <2>3, <2>4, <2>5 DEF Rounds
  <2>7. ASSUME NEW n \in 1 .. x PROVE more[n] = g[more[n - 1]]
    <3>1. n \in Nat /\ n - 1 \in 0 .. x /\ n - 1 # x /\ more[n - 1] = h[n - 1]
      BY <2>3
    <3>2. CASE n = x
      BY <3>1, <3>2
    <3>3. CASE n # x
      BY <2>3, <2>4, <3>1, <3>3 DEF Rounds
    <3> QED
      BY <3>2, <3>3
  <2>8. Rounds(S, g, a, x, more)
    BY <2>6, <2>7 DEF Rounds
  <2> QED
    BY <2>8
<1> QED
  BY <1>1

\* They do not depend on how many there are.
LEMMA RoundsAgree ==
    ASSUME NEW S, NEW a \in S, NEW g \in [S -> S], NEW m \in Nat, NEW l \in Nat, m <= l,
           NEW h, NEW f, Rounds(S, g, a, m, h), Rounds(S, g, a, l, f),
           NEW n \in 0 .. m
    PROVE  h[n] = f[n]
<1> DEFINE T == {k \in Nat : k <= m /\ h[k] # f[k]}
<1>1. ASSUME T # {} PROVE FALSE
  <2>1. PICK x \in T : \A y \in T : x <= y
    BY <1>1, LeastNumber
  <2>2. x # 0
    BY DEF Rounds
  <2>3. x - 1 \in Nat /\ x - 1 <= m /\ x - 1 \notin T
    BY <2>1, <2>2
  <2>4. h[x] = g[h[x - 1]] /\ f[x] = g[f[x - 1]]
    BY <2>2 DEF Rounds
  <2> QED
    BY <2>3, <2>4
<1> QED
  BY <1>1

\* So a loop has a sequence of rounds without end.
LEMMA LoopExists ==
    ASSUME NEW S, NEW a \in S, NEW g \in [S -> S]
    PROVE  \E f \in [Nat -> S] : f[0] = a /\ \A n \in Nat \ {0} : f[n] = g[f[n - 1]]
<1> DEFINE run(m) == CHOOSE h : Rounds(S, g, a, m, h)
           f == [n \in Nat |-> run(n)[n]]
<1>1. \A m \in Nat : Rounds(S, g, a, m, run(m))
  BY RoundsExist
<1> HIDE DEF run
<1>2. f \in [Nat -> S]
  BY <1>1 DEF Rounds
<1>3. f[0] = a
  BY <1>1 DEF Rounds
<1>4. ASSUME NEW n \in Nat \ {0} PROVE f[n] = g[f[n - 1]]
  <2>1. n - 1 \in Nat /\ n - 1 <= n /\ n - 1 \in 0 .. n - 1
    OBVIOUS
  <2>2. run(n)[n - 1] = run(n - 1)[n - 1]
    BY <1>1, <2>1, RoundsAgree
  <2>3. run(n)[n] = g[run(n)[n - 1]]
    BY <1>1 DEF Rounds
  <2> QED
    BY <2>1, <2>2, <2>3
<1> QED
  BY <1>2, <1>3, <1>4

\* What the rounds of a loop keep holds after each; and when each brings nearer
\* an end that is v away at first, or changes nothing, then nothing changes any
\* more after v rounds.
LEMMA LoopEnds ==
    ASSUME NEW S, NEW a \in S, NEW g \in [S -> S], NEW v \in [S -> Nat],
           \A p \in S : g[p] = p \/ v[g[p]] < v[p],
           NEW f, f[0] = a, \A n \in Nat \ {0} : f[n - 1] \in S => f[n] = g[f[n - 1]],
           NEW m \in Nat, v[a] <= m
    PROVE  f[m] \in S /\ g[f[m]] = f[m]
<1> DEFINE T == {n \in Nat : ~(f[n] \in S /\ (g[f[n]] = f[n] \/ v[f[n]] + n <= v[a]))}
<1>1. ASSUME T # {} PROVE FALSE
  <2>1. PICK x \in T : \A y \in T : x <= y
    BY <1>1, LeastNumber
  <2>2. x # 0
    BY <2>1
  <2>3. x - 1 \in Nat /\ x - 1 \notin T
    BY <2>1, <2>2
  <2>4. /\ f[x - 1] \in S
        /\ g[f[x - 1]] = f[x - 1] \/ v[f[x - 1]] + (x - 1) <= v[a]
    BY <2>3
  <2>5. f[x] = g[f[x - 1]]
    BY <2>2, <2>4
  <2>6. CASE g[f[x - 1]] = f[x - 1]
    BY <2>4, <2>5, <2>6
  <2>7. CASE g[f[x - 1]] # f[x - 1]
    <3>1. /\ v[f[x - 1]] \in Nat /\ v[f[x]] \in Nat /\ v[a] \in Nat
          /\ v[f[x]] < v[f[x - 1]] /\ f[x] \in S
      BY <2>4, <2>5, <2>7
    <3>2. v[f[x]] + x <= v[a]
      BY <2>2, <2>4, <2>7, <3>1
    <3> QED
      BY <3>1, <3>2
  <2> QED
    BY <2>6, <2>7
<1>2. f[m] \in S /\ (g[f[m]] = f[m] \/ v[f[m]] + m <= v[a])
  BY <1>1
<1>3. ASSUME g[f[m]] # f[m] PROVE FALSE
  <2>1. v[g[f[m]]] \in Nat /\ v[f[m]] \in Nat /\ v[a] \in Nat /\ v[g[f[m]]] < v[f[m]]
    BY <1>2, <1>3
  <2> QED
    BY <1>2, <1>3, <2>1
<1> QED
  BY <1>2, <1>3

-----------------------------------------------------------------------------
(* Sifting *)

\* less compares ranks.
Rank(x) == IF MaxFirst THEN -Priority[x] ELSE Priority[x]

LEMMA LessRanks ==
    \A x \in Item : /\ Rank(x) \in Int
                    /\ \A y \in Item : less(x, y) <=> Rank(x) < Rank(y)
BY PriorityAssumption, MaxFirstAssumption DEF less, Rank

Heap(s) == \A k \in 2 .. Len(s) : ~less(s[k], s[k \div 2])

\* t is s in another order.
Same(s, t) == t \in Seq(Item) /\ Len(t) = Len(s) /\ ToSet(t) = ToSet(s) /\ IsInjective(t)

\* While entry i rises only it may go before its parent, and what is below it
\* already lies right below its parent.
Rising(s) ==
    {p \in Seq(Item) \X Nat :
        /\ Same(s, p[1]) /\ p[2] \in 1 .. Len(s)
        /\ \A k \in 2 .. Len(s) : k # p[2] => ~less(p[1][k], p[1][k \div 2])
        /\ \A k \in 2 .. Len(s) : k \div 2 = p[2] /\ p[2] > 1 => ~less(p[1][k], p[1][p[2] \div 2])}

\* While entry i sinks only its children may go before it, and they do not go
\* before its parent.
Sinking(s) ==
    {p \in Seq(Item) \X Nat :
        /\ Same(s, p[1]) /\ p[2] \in 1 .. Len(s)
        /\ \A k \in 2 .. Len(s) : k \div 2 # p[2] => ~less(p[1][k], p[1][k \div 2])
        /\ \A k \in 2 .. Len(s) : k \div 2 = p[2] /\ p[2] > 1 => ~less(p[1][k], p[1][p[2] \div 2])}

\* Where parents and children are.
LEMMA Halves ==
    \A k \in Nat : /\ k \div 2 \in Nat /\ (k = 2 * (k \div 2) \/ k = 2 * (k \div 2) + 1)
                   /\ k > 1 => k \div 2 >= 1 /\ k \div 2 < k
OBVIOUS

\* Swapping two entries.
LEMMA SwapKeeps ==
    ASSUME NEW s \in Seq(Item), NEW t, Same(s, t), NEW i \in 1 .. Len(s), NEW j \in 1 .. Len(s)
    PROVE  /\ Same(s, Swap(t, i, j))
           /\ Swap(t, i, j)[i] = t[j] /\ Swap(t, i, j)[j] = t[i]
           /\ \A k \in 1 .. Len(s) : k # i /\ k # j => Swap(t, i, j)[k] = t[k]
           /\ \A k \in 1 .. Len(s) : t[k] \in Item
<1> DEFINE u == Swap(t, i, j)
<1>1. /\ t \in Seq(Item) /\ Len(t) = Len(s) /\ DOMAIN t = 1 .. Len(s) /\ Len(s) \in Nat
      /\ \A k \in 1 .. Len(s) : t[k] \in Item
  BY DEF Same
<1>2. /\ u[i] = t[j] /\ u[j] = t[i]
      /\ \A k \in 1 .. Len(s) : k # i /\ k # j => u[k] = t[k]
  BY <1>1 DEF Swap
<1>3. u \in Seq(Item) /\ Len(u) = Len(s) /\ DOMAIN u = 1 .. Len(s)
  BY <1>1 DEF Swap
<1> HIDE DEF u
<1>4. \A k, l \in 1 .. Len(s) : t[k] = t[l] => k = l
  BY <1>1 DEF Same, IsInjective
<1>5. IsInjective(u)
  BY <1>2, <1>3, <1>4 DEF IsInjective
<1>6. ToSet(u) = ToSet(t)
  <2>1. \A k \in 1 .. Len(s) : \E l \in 1 .. Len(s) : u[k] = t[l]
    BY <1>2
  <2>2. ASSUME NEW k \in 1 .. Len(s)
        PROVE  \E l \in 1 .. Len(s) : t[k] = u[l]
    <3>1. t[k] = u[j] \/ t[k] = u[i] \/ t[k] = u[k]
      BY <1>2
    <3> QED
      BY <3>1
  <2> QED
    <3>1. ToSet(t) = {t[k] : k \in 1 .. Len(s)} /\ ToSet(u) = {u[k] : k \in 1 .. Len(s)}
      BY <1>1, <1>3 DEF ToSet
    <3>2. ToSet(u) \subseteq ToSet(t)
      BY <2>1, <3>1
    <3>3. ToSet(t) \subseteq ToSet(u)
      BY <2>2, <3>1
    <3> QED
      BY <3>2, <3>3
<1> QED
  BY <1>1, <1>2, <1>3, <1>5, <1>6 DEF u, Same

\* A round of up's loop brings the entry nearer to the root, or the array is a
\* heap.
LEMMA RiseRound ==
    ASSUME NEW s \in Seq(Item), NEW p \in Rising(s)
    PROVE  /\ Rise(p) \in Rising(s)
           /\ Rise(p) = p \/ Rise(p)[2] < p[2]
           /\ Rise(p) = p => Heap(p[1])
<1> DEFINE t == p[1]
           i == p[2]
           h == i \div 2
           u == Swap(t, i, h)
           n == Len(s)
<1>1. /\ Same(s, t) /\ i \in 1 .. n /\ n \in Nat /\ p = <<t, i>>
      /\ \A k \in 2 .. n : k # i => ~less(t[k], t[k \div 2])
      /\ \A k \in 2 .. n : k \div 2 = i /\ i > 1 => ~less(t[k], t[h])
  BY DEF Rising
<1>2. \A k \in 1 .. n : t[k] \in Item
  BY <1>1, SwapKeeps
<1> HIDE DEF t, i, n
<1>3. CASE ~(i > 1 /\ less(t[i], t[h]))
  <2>1. Rise(p) = p
    BY <1>3 DEF Rise, t, i
  <2>2. Heap(t)
    BY <1>1, <1>3 DEF Heap, Same, n
  <2> QED
    BY <2>1, <2>2 DEF t
<1>4. CASE i > 1 /\ less(t[i], t[h])
  <2>1. Rise(p) = <<u, h>>
    BY <1>4 DEF Rise, t, i
  <2>2. h \in 1 .. n /\ h < i
    BY <1>1, <1>4, Halves
  <2> HIDE DEF h
  <2>3. /\ Same(s, u) /\ u[i] = t[h] /\ u[h] = t[i]
        /\ \A k \in 1 .. n : k # i /\ k # h => u[k] = t[k]
    BY <1>1, <2>2, SwapKeeps DEF n
  <2> HIDE DEF u
  <2>4. \A k \in 2 .. n : k \div 2 \in 1 .. n /\ k \div 2 < k
    BY <1>1, Halves
  <2>5. Rank(t[i]) < Rank(t[h])
    BY <1>1, <1>2, <1>4, <2>2, LessRanks
  <2>6. ASSUME NEW k \in 2 .. n, k # h
        PROVE  ~less(u[k], u[k \div 2])
    <3>1. /\ t[k] \in Item /\ t[k \div 2] \in Item /\ t[i] \in Item /\ t[h] \in Item
          /\ k \in 1 .. n /\ k \div 2 \in 1 .. n /\ k # k \div 2
      BY <1>1, <1>2, <2>2, <2>4
    <3>2. CASE k = i
      BY <2>3, <2>5, <3>1, <3>2, LessRanks DEF h
    <3>3. CASE k # i /\ k \div 2 = i
      <4>1. ~less(t[k], t[h])
        BY <1>1, <1>4, <3>3
      <4> QED
        BY <2>3, <2>6, <3>1, <3>3, <4>1
    <3>4. CASE k # i /\ k \div 2 = h
      <4>1. ~less(t[k], t[h])
        BY <1>1, <3>4
      <4> QED
        BY <2>3, <2>5, <2>6, <3>1, <3>4, <4>1, LessRanks
    <3>5. CASE k # i /\ k \div 2 # i /\ k \div 2 # h
      BY <1>1, <2>3, <2>6, <3>1, <3>5
    <3> QED
      BY <3>2, <3>3, <3>4, <3>5
  <2>7. ASSUME NEW k \in 2 .. n, k \div 2 = h, h > 1
        PROVE  ~less(u[k], u[h \div 2])
    <3>1. /\ h \in 2 .. n /\ h \div 2 \in 1 .. n /\ h \div 2 < h /\ k \in 1 .. n /\ k # h
          /\ h # i /\ h \div 2 # i
      BY <1>1, <2>2, <2>4, <2>7
    <3>2. u[h \div 2] = t[h \div 2] /\ ~less(t[h], t[h \div 2])
      BY <1>1, <2>2, <2>3, <3>1
    <3>3. CASE k = i
      BY <2>3, <3>2, <3>3
    <3>4. CASE k # i
      <4>1. u[k] = t[k] /\ ~less(t[k], t[h])
        BY <1>1, <2>3, <2>7, <3>1, <3>4
      <4>2. t[k] \in Item /\ t[h] \in Item /\ t[h \div 2] \in Item
        BY <1>2, <3>1
      <4> QED
        BY <3>2, <4>1, <4>2, LessRanks
    <3> QED
      BY <3>3, <3>4
  <2>8. <<u, h>> \in Rising(s)
    BY <2>2, <2>3, <2>6, <2>7 DEF Rising, Same, n
  <2> QED
    BY <2>1, <2>2, <2>8 DEF i
<1> QED
  BY <1>3, <1>4

\* A round of down's loop brings the entry nearer to the end, or the array is a
\* heap.
LEMMA SinkRound ==
    ASSUME NEW s \in Seq(Item), NEW p \in Sinking(s)
    PROVE  /\ Sink(p) \in Sinking(s)
           /\ Sink(p) = p \/ Sink(p)[2] > p[2]
           /\ Sink(p) = p => Heap(p[1])
<1> DEFINE t == p[1]
           i == p[2]
           j == NextChild(t, i)
           u == Swap(t, i, j)
           n == Len(s)
<1>1. /\ Same(s, t) /\ i \in 1 .. n /\ n \in Nat /\ p = <<t, i>>
      /\ \A k \in 2 .. n : k \div 2 # i => ~less(t[k], t[k \div 2])
      /\ \A k \in 2 .. n : k \div 2 = i /\ i > 1 => ~less(t[k], t[i \div 2])
  BY DEF Sinking
<1>2. /\ \A k \in 1 .. n : t[k] \in Item
      /\ DOMAIN t = 1 .. n /\ Len(t) = n
  BY <1>1, SwapKeeps DEF Same
<1> HIDE DEF t, i, n
<1>3. \A k \in 2 .. n : /\ k \div 2 \in 1 .. n /\ k \div 2 < k
                        /\ k = 2 * (k \div 2) \/ k = 2 * (k \div 2) + 1
  BY <1>1, Halves
<1>4. CASE Children(t, i) = {}
  <2>1. Sink(p) = p
    BY <1>4 DEF Sink, t, i
  <2>2. \A k \in 2 .. n : k \div 2 # i
    <3>1. 2 * i \notin 1 .. n /\ 2 * i + 1 \notin 1 .. n
      BY <1>2, <1>4 DEF Children
    <3> QED
      BY <1>1, <1>3, <3>1
  <2> QED
    BY <1>1, <1>2, <2>1, <2>2 DEF Heap, t
<1>5. CASE Children(t, i) # {}
  <2>1. 2 * i \in 2 .. n
    BY <1>1, <1>2, <1>5 DEF Children
  <2>2. j \in 2 .. n /\ (j = 2 * i \/ j = 2 * i + 1)
    BY <1>1, <1>2, <2>1 DEF NextChild
  <2>3. \A k \in 2 .. n : k \div 2 = i => ~less(t[k], t[j])
    <3> SUFFICES ASSUME NEW k \in 2 .. n, k \div 2 = i PROVE ~less(t[k], t[j])
      OBVIOUS
    <3>1. k = 2 * i \/ k = 2 * i + 1
      BY <1>3
    <3>2. 2 * i \in 1 .. n /\ k \in 1 .. n
      BY <2>1
    <3>3. t[2 * i] \in Item /\ t[k] \in Item
      BY <1>2, <3>2
    <3>4. CASE k = 2 * i + 1
      <4>1. 2 * i + 1 \in DOMAIN t
        BY <1>2, <3>2, <3>4
      <4>2. j = 2 * i + 1 \/ (j = 2 * i /\ ~less(t[2 * i + 1], t[2 * i]))
        BY <4>1 DEF NextChild
      <4>3. CASE j = 2 * i + 1
        BY <3>3, <3>4, <4>3, LessRanks
      <4> QED
        BY <3>4, <4>2, <4>3
    <3>5. CASE k = 2 * i
      BY <1>2, <3>2, <3>3, <3>5, LessRanks DEF NextChild
    <3> QED
      BY <3>1, <3>4, <3>5
  <2>4. j \div 2 = i /\ i < j /\ i \in 1 .. n /\ j \in 1 .. n
    BY <1>1, <2>2
  <2> HIDE DEF j
  <2>5. CASE ~less(t[j], t[i])
    <3>1. Sink(p) = p
      BY <2>5 DEF Sink, t, i, j
    <3>2. ASSUME NEW k \in 2 .. n PROVE ~less(t[k], t[k \div 2])
      <4>1. CASE k \div 2 # i
        BY <1>1, <4>1
      <4>2. CASE k \div 2 = i
        <5>1. t[k] \in Item /\ t[j] \in Item /\ t[i] \in Item
          BY <1>2, <2>4
        <5>2. ~less(t[k], t[j])
          BY <2>3, <4>2
        <5> QED
          BY <2>5, <4>2, <5>1, <5>2, LessRanks
      <4> QED
        BY <4>1, <4>2
    <3> QED
      BY <1>2, <3>1, <3>2 DEF Heap, t
  <2>6. CASE less(t[j], t[i])
    <3>1. Sink(p) = <<u, j>>
      BY <1>5, <2>6 DEF Sink, t, i, j
    <3>2. /\ Same(s, u) /\ u[i] = t[j] /\ u[j] = t[i]
          /\ \A k \in 1 .. n : k # i /\ k # j => u[k] = t[k]
      <4>1. i \in 1 .. Len(s) /\ j \in 1 .. Len(s) /\ Same(s, t)
        BY <1>1, <2>4 DEF n
      <4> QED
        BY <4>1, SwapKeeps DEF n
    <3> HIDE DEF u
    <3>3. ASSUME NEW k \in 2 .. n, k \div 2 # j
          PROVE  ~less(u[k], u[k \div 2])
      <4>1. /\ t[j] \in Item /\ t[i] \in Item
            /\ k \in 1 .. n /\ k \div 2 \in 1 .. n /\ k # k \div 2
        BY <1>2, <1>3, <2>4
      <4>2. CASE k = j
        BY <2>4, <2>6, <3>2, <4>1, <4>2, LessRanks
      <4>3. CASE k # j /\ k \div 2 = i
        <5>1. u[k] = t[k] /\ ~less(t[k], t[j])
          BY <2>3, <3>2, <4>1, <4>3
        <5> QED
          BY <3>2, <4>3, <5>1
      <4>4. CASE k = i
        <5>1. u[k \div 2] = t[i \div 2] /\ u[k] = t[j]
          BY <3>2, <3>3, <4>1, <4>4
        <5>2. ~less(t[j], t[i \div 2])
          BY <1>1, <2>2, <2>4, <4>4
        <5> QED
          BY <5>1, <5>2
      <4>5. CASE k # i /\ k # j /\ k \div 2 # i
        BY <1>1, <3>2, <3>3, <4>1, <4>5
      <4> QED
        BY <4>2, <4>3, <4>4, <4>5
    <3>4. ASSUME NEW k \in 2 .. n, k \div 2 = j
          PROVE  ~less(u[k], u[j \div 2])
      <4>1. ~less(t[k], t[j])
        <5>1. k \div 2 # i
          BY <2>4, <3>4
        <5>2. ~less(t[k], t[k \div 2])
          BY <1>1, <5>1
        <5> QED
          BY <3>4, <5>2
      <4>2. k \in 1 .. n /\ k # j /\ k # i
        BY <1>3, <2>4, <3>4
      <4> QED
        BY <2>4, <3>2, <4>1, <4>2
    <3>5. <<u, j>> \in Sinking(s)
      <4>1. Same(s, u) /\ u \in Seq(Item) /\ j \in 1 .. Len(s) /\ j \in Nat
        BY <2>4, <3>2 DEF Same, n
      <4>2. <<u, j>> \in Seq(Item) \X Nat /\ <<u, j>>[1] = u /\ <<u, j>>[2] = j
        BY <4>1
      <4> QED
        BY <3>3, <3>4, <4>1, <4>2 DEF Sinking, n
    <3> QED
      BY <2>4, <3>1, <3>5 DEF i
  <2> QED
    BY <2>5, <2>6
<1> QED
  BY <1>4, <1>5

\* The loops make a heap of the same items.
LEMMA UpRestores ==
    ASSUME NEW s, NEW i, <<s, i>> \in Rising(s)
    PROVE  Same(s, Up(s, i)) /\ Heap(Up(s, i))
<1> DEFINE S == Rising(s)
           a == <<s, i>>
           g == [p \in S |-> Rise(p)]
           v == [p \in S |-> p[2]]
           round[n \in Nat] == IF n = 0 THEN a ELSE Rise(round[n - 1])
<1>1. /\ s \in Seq(Item) /\ Len(s) \in Nat /\ i \in 1 .. Len(s) /\ a \in S
      /\ \A p \in S : p[2] \in 1 .. Len(s) /\ Same(s, p[1])
  <2>1. s \in Seq(Item) /\ a \in S /\ \A p \in S : p[2] \in 1 .. Len(s) /\ Same(s, p[1])
    BY DEF Rising
  <2>2. a[2] \in 1 .. Len(s)
    BY <2>1
  <2> QED
    BY <2>1, <2>2
<1>2. /\ g \in [S -> S] /\ v \in [S -> Nat] /\ v[a] <= i /\ i \in Nat
      /\ \A p \in S : g[p] = p \/ v[g[p]] < v[p]
      /\ \A p \in S : g[p] = Rise(p) /\ (g[p] = p => Heap(p[1]))
  BY <1>1, RiseRound
<1>3. /\ round[0] = a
      /\ \A n \in Nat \ {0} : round[n] = Rise(round[n - 1])
  <2>1. PICK f \in [Nat -> S] : f[0] = a /\ \A n \in Nat \ {0} : f[n] = g[f[n - 1]]
    <3>1. a \in S /\ g \in [S -> S]
      BY <1>1, <1>2
    <3> HIDE DEF S, a, g, v, round
    <3> QED
      BY <3>1, LoopExists
  <2>2. \A n \in Nat : n # 0 => n - 1 \in Nat /\ f[n - 1] \in S
    BY <2>1
  <2>3. \A n \in Nat : f[n] = IF n = 0 THEN a ELSE Rise(f[n - 1])
    BY <1>2, <2>1, <2>2
  <2>4. f = [n \in Nat |-> IF n = 0 THEN a ELSE Rise(f[n - 1])]
    BY <2>1, <2>3
  <2>5. round = [n \in Nat |-> IF n = 0 THEN a ELSE Rise(round[n - 1])]
    BY <2>4
  <2> QED
    BY <2>5
<1>4. round[i] \in S /\ g[round[i]] = round[i]
  <2>1. \A n \in Nat \ {0} : round[n - 1] \in S => round[n] = g[round[n - 1]]
    BY <1>2, <1>3
  <2>2. a \in S /\ g \in [S -> S]
    BY <1>1, <1>2
  <2>3. v \in [S -> Nat] /\ v[a] <= i /\ i \in Nat /\ round[0] = a
    BY <1>2, <1>3
  <2>4. \A p \in S : g[p] = p \/ v[g[p]] < v[p]
    BY <1>2
  <2> HIDE DEF S, a, g, v, round
  <2> QED
    BY <2>1, <2>2, <2>3, <2>4, LoopEnds
<1>5. Up(s, i) = round[i][1]
  BY DEF Up
<1> QED
  BY <1>1, <1>2, <1>4, <1>5

LEMMA DownRestores ==
    ASSUME NEW s, NEW i, <<s, i>> \in Sinking(s)
    PROVE  Same(s, Down(s, i)) /\ Heap(Down(s, i))
<1> DEFINE S == Sinking(s)
           a == <<s, i>>
           g == [p \in S |-> Sink(p)]
           v == [p \in S |-> Len(s) - p[2]]
           m == Len(s)
           round[n \in Nat] == IF n = 0 THEN a ELSE Sink(round[n - 1])
<1>1. /\ s \in Seq(Item) /\ Len(s) \in Nat /\ i \in 1 .. Len(s) /\ a \in S
      /\ \A p \in S : p[2] \in 1 .. Len(s) /\ Same(s, p[1])
  <2>1. s \in Seq(Item) /\ a \in S /\ \A p \in S : p[2] \in 1 .. Len(s) /\ Same(s, p[1])
    BY DEF Sinking
  <2>2. a[2] \in 1 .. Len(s)
    BY <2>1
  <2> QED
    BY <2>1, <2>2
<1>2. /\ g \in [S -> S] /\ v \in [S -> Nat] /\ v[a] <= m /\ m \in Nat
      /\ \A p \in S : g[p] = p \/ v[g[p]] < v[p]
      /\ \A p \in S : g[p] = Sink(p) /\ (g[p] = p => Heap(p[1]))
  BY <1>1, SinkRound
<1>3. /\ round[0] = a
      /\ \A n \in Nat \ {0} : round[n] = Sink(round[n - 1])
  <2>1. PICK f \in [Nat -> S] : f[0] = a /\ \A n \in Nat \ {0} : f[n] = g[f[n - 1]]
    <3>1. a \in S /\ g \in [S -> S]
      BY <1>1, <1>2
    <3> HIDE DEF S, a, g, v, round
    <3> QED
      BY <3>1, LoopExists
  <2>2. \A n \in Nat : n # 0 => n - 1 \in Nat /\ f[n - 1] \in S
    BY <2>1
  <2>3. \A n \in Nat : f[n] = IF n = 0 THEN a ELSE Sink(f[n - 1])
    BY <1>2, <2>1, <2>2
  <2>4. f = [n \in Nat |-> IF n = 0 THEN a ELSE Sink(f[n - 1])]
    BY <2>1, <2>3
  <2>5. round = [n \in Nat |-> IF n = 0 THEN a ELSE Sink(round[n - 1])]
    BY <2>4
  <2> QED
    BY <2>5
<1>4. round[m] \in S /\ g[round[m]] = round[m]
  <2>1. \A n \in Nat \ {0} : round[n - 1] \in S => round[n] = g[round[n - 1]]
    BY <1>2, <1>3
  <2>2. a \in S /\ g \in [S -> S]
    BY <1>1, <1>2
  <2>3. v \in [S -> Nat] /\ v[a] <= m /\ m \in Nat /\ round[0] = a
    BY <1>2, <1>3
  <2>4. \A p \in S : g[p] = p \/ v[g[p]] < v[p]
    BY <1>2
  <2> HIDE DEF S, a, g, v, m, round
  <2> QED
    BY <2>1, <2>2, <2>3, <2>4, LoopEnds
<1>5. Down(s, i) = round[Len(s)][1]
  BY DEF Down
<1> QED
  BY <1>1, <1>2, <1>4, <1>5

\* The first entry of a heap goes after no other: if one went before it, the
\* parent of the foremost such one would, too.
LEMMA RootIsFirst ==
    ASSUME NEW s \in Seq(Item), Heap(s), NEW k \in DOMAIN s
    PROVE  ~less(s[k], s[1])
<1> DEFINE T == {l \in Nat : l \in 1 .. Len(s) /\ less(s[l], s[1])}
<1>1. /\ DOMAIN s = 1 .. Len(s) /\ Len(s) \in Nat
      /\ \A l \in 1 .. Len(s) : s[l] \in Item
  OBVIOUS
<1>2. ASSUME T # {} PROVE FALSE
  <2>1. PICK x \in T : \A y \in T : x <= y
    BY <1>2, LeastNumber
  <2>2. x # 1
    BY <1>1, <2>1, LessRanks
  <2>3. x \in 2 .. Len(s) /\ x \div 2 \in 1 .. Len(s) /\ x \div 2 < x
    BY <1>1, <2>2, Halves
  <2>4. ~less(s[x \div 2], s[1])
    BY <2>1, <2>3
  <2>5. s[x] \in Item /\ s[x \div 2] \in Item /\ s[1] \in Item
    BY <1>1, <2>3
  <2>6. ~less(s[x], s[x \div 2])
    BY <2>3 DEF Heap
  <2>7. less(s[x], s[1])
    OBVIOUS
  <2> QED
    BY <2>4, <2>5, <2>6, <2>7, LessRanks
<1> QED
  BY <1>1, <1>2

-----------------------------------------------------------------------------
(* The queue *)

QueueInv == items \in Seq(Item) /\ IsInjective(items) /\ Heap(items)

\* What the queue shows is all of it, and first what Pop returns.
LEMMA QueueShown == QueueInv => Order!Shown /\ (items # <<>> => Order!First(items[1]))
<1> SUFFICES ASSUME QueueInv PROVE Order!Shown /\ (items # <<>> => Order!First(items[1]))
  OBVIOUS
<1>1. items \in Seq(Item) /\ ToSet(items) = {items[k] : k \in DOMAIN items}
  BY DEF QueueInv, ToSet
<1>2. \A x \in ToSet(items) : ~less(x, items[1])
  BY <1>1, RootIsFirst DEF QueueInv
<1>3. items # <<>> => items[1] \in ToSet(items)
  BY <1>1
<1>4. ToSet(items) # {} => items # <<>>
  BY <1>1
<1> QED
  BY <1>2, <1>3, <1>4 DEF Order!Shown, Order!First, Order!ToSet, Order!IsInjective,
                        GetSnapshot, QueueInv, ToSet, IsInjective

\* A new entry rises from the end of the array.
LEMMA PushOrders ==
    ASSUME QueueInv, NEW x \in Item, Push(x)
    PROVE  QueueInv' /\ ToSet(items') = ToSet(items) \cup {x}
<1> DEFINE t == Append(items, x)
           i == Len(items) + 1
<1>1. /\ items \in Seq(Item) /\ DOMAIN items = 1 .. Len(items) /\ Len(items) \in Nat
      /\ \A k \in 1 .. Len(items) : items[k] \in Item /\ items[k] # x
      /\ \A k, l \in 1 .. Len(items) : items[k] = items[l] => k = l
  BY DEF QueueInv, Push, IsInjective, ToSet
<1>2. /\ t \in Seq(Item) /\ Len(t) = i /\ i \in Nat /\ DOMAIN t = 1 .. i
      /\ t[i] = x /\ \A k \in 1 .. Len(items) : t[k] = items[k]
  BY <1>1
<1> HIDE DEF t
<1>3. IsInjective(t)
  BY <1>1, <1>2 DEF IsInjective
<1>4. ToSet(t) = ToSet(items) \cup {x}
  <2>1. /\ ToSet(t) = {t[k] : k \in 1 .. i}
        /\ ToSet(items) = {items[k] : k \in 1 .. Len(items)}
    BY <1>1, <1>2 DEF ToSet
  <2>2. 1 .. i = 1 .. Len(items) \cup {i}
    BY <1>1
  <2>3. ToSet(t) \subseteq ToSet(items) \cup {x}
    BY <1>2, <2>1, <2>2
  <2>4. ToSet(items) \cup {x} \subseteq ToSet(t)
    BY <1>2, <2>1, <2>2
  <2> QED
    BY <2>3, <2>4
<1>5. <<t, i>> \in Rising(t)
  <2>1. Same(t, t)
    BY <1>2, <1>3 DEF Same
  <2>2. \A k \in 2 .. i : k # i => ~less(t[k], t[k \div 2])
    <3> SUFFICES ASSUME NEW k \in 2 .. i, k # i PROVE ~less(t[k], t[k \div 2])
      OBVIOUS
    <3>1. k \in 2 .. Len(items) /\ k \div 2 \in 1 .. Len(items) /\ k \in 1 .. Len(items)
      BY <1>1, Halves
    <3> QED
      BY <1>2, <3>1 DEF QueueInv, Heap
  <2>3. \A k \in 2 .. i : k \div 2 # i
    BY <1>2, Halves
  <2>4. i \in 1 .. Len(t)
    BY <1>1, <1>2
  <2> QED
    BY <1>2, <2>1, <2>2, <2>3, <2>4 DEF Rising
<1>6. items' = Up(t, i)
  BY DEF Push, t
<1> QED
  BY <1>4, <1>5, <1>6, UpRestores DEF QueueInv, Same

\* The last entry sinks from the beginning of the array.
LEMMA PopOrders ==
    ASSUME QueueInv, Pop
    PROVE  QueueInv' /\ ToSet(items') = ToSet(items) \ {items[1]}
<1> DEFINE n == Len(items)
           u == Swap(items, 1, n)
           t == Front(u)
<1>1. /\ items \in Seq(Item) /\ DOMAIN items = 1 .. n /\ n \in Nat \ {0}
      /\ \A k \in 1 .. n : items[k] \in Item
      /\ \A k, l \in 1 .. n : items[k] = items[l] => k = l
  BY DEF QueueInv, Pop, IsInjective
<1>2. /\ u \in Seq(Item) /\ Len(u) = n /\ u[1] = items[n]
      /\ \A k \in 1 .. n : k # 1 /\ k # n => u[k] = items[k]
  <2>1. Same(items, items)
    BY DEF QueueInv, Same
  <2>2. 1 \in 1 .. n /\ n \in 1 .. n /\ items \in Seq(Item)
    BY <1>1
  <2> HIDE DEF t
  <2>3. /\ Same(items, u) /\ u[1] = items[n]
        /\ \A k \in 1 .. n : k # 1 /\ k # n => u[k] = items[k]
    BY <2>1, <2>2, SwapKeeps
  <2> QED
    BY <2>3 DEF Same
<1>3. /\ t \in Seq(Item) /\ Len(t) = n - 1 /\ DOMAIN t = 1 .. n - 1
      /\ \A k \in 1 .. n - 1 : t[k] = IF k = 1 THEN items[n] ELSE items[k]
  <2> HIDE DEF n, u
  <2>1. t = SubSeq(u, 1, n - 1)
    BY <1>2 DEF Front
  <2>2. /\ t \in Seq(Item) /\ Len(t) = n - 1 /\ DOMAIN t = 1 .. n - 1
        /\ \A k \in 1 .. n - 1 : t[k] = u[k]
    BY <1>1, <1>2, <2>1
  <2> HIDE DEF t
  <2> QED
    BY <1>1, <1>2, <2>2
<1> HIDE DEF n, t, u
<1>4. IsInjective(t)
  BY <1>1, <1>3 DEF IsInjective
<1>5. ToSet(t) = ToSet(items) \ {items[1]}
  <2>1. /\ ToSet(t) = {t[k] : k \in 1 .. n - 1}
        /\ ToSet(items) = {items[k] : k \in 1 .. n}
    BY <1>1, <1>3 DEF ToSet
  <2>2. ASSUME NEW k \in 1 .. n - 1
        PROVE  t[k] \in {items[l] : l \in 1 .. n} /\ t[k] # items[1]
    BY <1>1, <1>3
  <2>3. ASSUME NEW l \in 1 .. n, l # 1
        PROVE  items[l] \in {t[k] : k \in 1 .. n - 1}
    <3>1. CASE l = n
      <4>1. 1 \in 1 .. n - 1 /\ t[1] = items[l]
        BY <1>1, <1>3, <2>3, <3>1
      <4> QED
        BY <4>1
    <3>2. CASE l # n
      <4>1. l \in 1 .. n - 1 /\ t[l] = items[l]
        BY <1>1, <1>3, <2>3, <3>2
      <4> QED
        BY <4>1
    <3> QED
      BY <3>1, <3>2
  <2>4. ToSet(t) \subseteq ToSet(items) \ {items[1]}
    BY <2>1, <2>2
  <2>5. ToSet(items) \ {items[1]} \subseteq ToSet(t)
    BY <2>1, <2>3
  <2> QED
    BY <2>4, <2>5
<1>6. items' = Down(t, 1)
  BY DEF Pop, t, u, n
<1>7. Same(t, items') /\ Heap(items')
  <2>1. CASE n = 1
    <3>1. t = <<>>
      BY <1>3, <2>1
    <3>2. Down(t, 1) = t
      <4> DEFINE round[k \in Nat] == IF k = 0 THEN <<t, 1>> ELSE Sink(round[k - 1])
      <4>1. Sink(<<t, 1>>) = <<t, 1>>
        BY <3>1 DEF Sink, Children
      <4> DEFINE f == [k \in Nat |-> <<t, 1>>]
      <4>2. f = [k \in Nat |-> IF k = 0 THEN <<t, 1>> ELSE Sink(f[k - 1])]
        <5>1. \A k \in Nat : k # 0 => f[k - 1] = <<t, 1>>
          OBVIOUS
        <5> QED
          BY <4>1, <5>1
      <4>3. round = [k \in Nat |-> IF k = 0 THEN <<t, 1>> ELSE Sink(round[k - 1])]
        BY <4>2
      <4>4. round[0] = <<t, 1>>
        BY <4>3
      <4>5. Down(t, 1) = round[0][1]
        BY <1>3, <2>1 DEF Down
      <4> QED
        BY <4>4, <4>5
    <3> QED
      <4>1. items' = t /\ Len(t) = 0
        BY <1>3, <1>6, <2>1, <3>2
      <4>2. Same(t, t)
        BY <1>3, <1>4 DEF Same
      <4>3. Heap(t)
        BY <4>1 DEF Heap
      <4> QED
        BY <4>1, <4>2, <4>3
  <2>2. CASE n # 1
    <3>1. Same(t, t)
      BY <1>3, <1>4 DEF Same
    <3>2. \A k \in 2 .. n - 1 : k \div 2 # 1 => ~less(t[k], t[k \div 2])
      <4> SUFFICES ASSUME NEW k \in 2 .. n - 1, k \div 2 # 1 PROVE ~less(t[k], t[k \div 2])
        OBVIOUS
      <4>1. k \in 2 .. n /\ k \div 2 \in 2 .. n - 1
        BY <1>1, Halves
      <4> QED
        BY <1>3, <4>1 DEF QueueInv, Heap, n
    <3>3. 1 \in 1 .. Len(t)
      BY <1>1, <1>3, <2>2
    <3>4. <<t, 1>> \in Sinking(t)
      BY <1>3, <3>1, <3>2, <3>3 DEF Sinking
    <3> QED
      BY <1>6, <3>4, DownRestores
  <2> QED
    BY <2>1, <2>2
<1> QED
  BY <1>5, <1>7 DEF QueueInv, Same

\* The heap's array is a priority queue, of any length, for any priorities and
\* either order: it keeps what it is handed, pops an item that none goes
\* before, and shows it first.
THEOREM HeapImplementsPriorityOrder == Spec => RefinesPriorityOrder
<1>1. Init => QueueInv /\ Order!Init
  <2>1. <<>> \in Seq(Item) /\ IsInjective(<<>>) /\ Heap(<<>>) /\ ToSet(<<>>) = {}
    BY DEF IsInjective, Heap, ToSet
  <2> QED
    BY <2>1 DEF Init, QueueInv, Order!Init, GetSnapshot
<1>2. QueueInv /\ [Next]_vars => QueueInv' /\ [Order!Next]_<<ToSet(items), last, GetSnapshot>>
  <2> SUFFICES ASSUME QueueInv, [Next]_vars
               PROVE  QueueInv' /\ [Order!Next]_<<ToSet(items), last, GetSnapshot>>
    OBVIOUS
  <2>1. ASSUME NEW x \in Item, Push(x)
        PROVE  QueueInv' /\ Order!Next
    <3>1. QueueInv' /\ ToSet(items') = ToSet(items) \cup {x}
      BY <2>1, PushOrders
    <3>2. Order!Push(x)
      BY <2>1, <3>1 DEF Push, Order!Push
    <3>3. Order!Shown'
      BY <3>1, QueueShown, PTL
    <3> QED
      BY <3>1, <3>2, <3>3 DEF Order!Next
  <2>2. ASSUME Pop
        PROVE  QueueInv' /\ Order!Next
    <3>1. QueueInv' /\ ToSet(items') = ToSet(items) \ {items[1]}
      BY <2>2, PopOrders
    <3>2. Order!First(items[1]) /\ items[1] \in Item
      BY <2>2, QueueShown DEF Pop, QueueInv
    <3>3. Order!Pop(items[1])
      BY <2>2, <3>1, <3>2 DEF Pop, Order!Pop, QueueInv
    <3>4. Order!Shown'
      BY <3>1, QueueShown, PTL
    <3> QED
      BY <3>1, <3>2, <3>3, <3>4 DEF Order!Next
  <2>3. CASE UNCHANGED vars
    BY <2>3 DEF vars, QueueInv, GetSnapshot
  <2> QED
    BY <2>1, <2>2, <2>3 DEF Next
<1> QED
  BY <1>1, <1>2, PTL DEF Spec, RefinesPriorityOrder, Order!Spec
=============================================================================
