----------------------------- MODULE TrackerProofs -----------------------------
(***************************************************************************)
(* Proofs about the budgets, for any processes, providers, limits and      *)
(* work.  The types and what the backend knows hold together: what a       *)
(* budget leaves out is counted in natural numbers because the backend     *)
(* never knows of more than has been charged.  That charges fit away from  *)
(* the minute boundaries rests on what a listener remembers of its budget  *)
(* while the others go on charging.                                        *)
(***************************************************************************)
EXTENDS ConsumptionTracker, TLAPS

\* A new minute's usage is a usage, and a charge to one gives one.
LEMMA UsageTypes ==
    /\ Nothing \in Usage /\ None \in Amount /\ None \in Budget
    /\ \A used \in Usage, fresh \in BOOLEAN : Current(used, fresh) \in Usage
    /\ \A amount \in Amount, work \in Work : More(amount, work) \in Amount
    /\ \A used \in Usage, work \in Work : Charge(used, work) \in Usage
<1>1. Nothing \in Usage /\ None \in Amount /\ None \in Budget
  BY DEF Nothing, None, Usage, Amount, Budget
<1>2. \A used \in Usage, fresh \in BOOLEAN : Current(used, fresh) \in Usage
  BY <1>1 DEF Current
<1>3. \A amount \in Amount, work \in Work : More(amount, work) \in Amount
  BY WorkAssumption DEF More, Amount
<1>4. ASSUME NEW used \in Usage, NEW work \in Work PROVE Charge(used, work) \in Usage
  BY <1>3, WorkAssumption DEF Charge, Usage
<1> QED
  BY <1>1, <1>2, <1>3, <1>4

\* What is left of a budget is a pair of integers, and of natural numbers
\* once overdrafts are cut off.
LEMMA BudgetTypes ==
    ASSUME NEW used \in Usage, NEW v \in Provider
    PROVE  /\ Minus(v, used) \in Budget /\ NotNegative(Minus(v, used)) \in Amount
           /\ Minus(v, Nothing) \in Amount
<1>1. TPM[v] \in Nat /\ RPM[v] \in Nat
  BY LimitAssumption
<1>2. used[v].tokens \in Nat /\ used[v].requests \in Nat
  BY DEF Usage, Amount
<1>3. Minus(v, used) \in Budget
  BY <1>1, <1>2 DEF Minus, Budget
<1>4. NotNegative(Minus(v, used)) \in Amount
  BY <1>1, <1>2 DEF NotNegative, Minus, Amount
<1>5. Minus(v, Nothing) \in Amount
  BY <1>1 DEF Minus, Nothing, None, Amount
<1> QED
  BY <1>3, <1>4, <1>5

\* The initial budgets are typed, and no minute has been charged.
LEMMA InitTyped == Init => TypeOK /\ BackendCountsCharges
<1> SUFFICES ASSUME Init PROVE TypeOK /\ BackendCountsCharges
  OBVIOUS
<1>1. PICK work \in Work :
        launcher = [p \in Process |->
            [pc |-> "idle", work |-> work, shared |-> None, local |-> None]]
  BY DEF Init
<1>2. launcher \in [Process -> Listener]
  BY <1>1, UsageTypes DEF Listener, Point
<1>3. TypeOK
  BY <1>2, UsageTypes DEF Init, TypeOK, Phase
<1>4. BackendCountsCharges
  BY UsageTypes DEF Init, BackendCountsCharges, Current, Nothing, None
<1> QED
  BY <1>3, <1>4

\* A listener that moves on keeps its type.
LEMMA ListenerTypes ==
    ASSUME NEW l \in Listener
    PROVE  /\ \A pc \in Point : [l EXCEPT !.pc = pc] \in Listener
           /\ \A pc \in Point :
                 [l EXCEPT !.pc = pc, !.shared = None, !.local = None] \in Listener
           /\ \A work \in Work : [l EXCEPT !.pc = "shared", !.work = work] \in Listener
           /\ \A amount \in Amount : [l EXCEPT !.pc = "local", !.shared = amount] \in Listener
           /\ \A budget \in Budget : [l EXCEPT !.pc = "merge", !.local = budget] \in Listener
           /\ l.work \in Work /\ l.work.provider \in Provider /\ l.work.tokens \in Nat \ {0}
           /\ l.shared \in Amount /\ l.local \in Budget
  BY UsageTypes, WorkAssumption DEF Listener, Point

\* A backend that knows of no more than the charges leaves a natural amount
\* out of the budget it reports.
LEMMA ReadTypes ==
    ASSUME TypeOK, NEW p \in Process, NEW budget \in Amount, NEW known \in Amount,
           HasRead(p, budget, known),
           known.tokens <= charged[launcher[p].work.provider].tokens,
           known.requests <= charged[launcher[p].work.provider].requests
    PROVE  /\ launcher' \in [Process -> Listener]
           /\ calm' \subseteq Process /\ unseen' \in [Process -> Amount]
<1> DEFINE v == launcher[p].work.provider
           out == [f \in {"tokens", "requests"} |-> charged[v][f] - known[f]]
<1>1. launcher[p] \in Listener /\ v \in Provider
  BY ListenerTypes DEF TypeOK
<1>2. launcher' = [launcher EXCEPT ![p] = [launcher[p] EXCEPT !.pc = "local", !.shared = budget]]
  BY <1>1 DEF HasRead, TypeOK
<1>3. launcher' \in [Process -> Listener]
  BY <1>1, <1>2, ListenerTypes DEF TypeOK
<1>4. out \in Amount
  BY <1>1 DEF TypeOK, Usage, Amount
<1>5. unseen' \in [Process -> Amount]
  <2>1. unseen' = unseen \/ unseen' = [unseen EXCEPT ![p] = out]
    BY DEF HasRead
  <2> HIDE DEF out
  <2> QED
    BY <1>4, <2>1 DEF TypeOK
<1> QED
  BY <1>3, <1>5 DEF HasRead, TypeOK

\* Every step keeps the types, as long as the backend invents no charges.
LEMMA NextTyped == TypeOK /\ BackendCountsCharges /\ [Next]_vars => TypeOK'
<1> SUFFICES ASSUME TypeOK, BackendCountsCharges, [Next]_vars PROVE TypeOK'
  OBVIOUS
<1> USE DEF clockVars, sharedVars, localVars, historyVars
<1>0. /\ launcher \in [Process -> Listener]
      /\ \A p \in Process : launcher[p] \in Listener /\ launcher[p].work \in Work
                             /\ launcher[p].work.provider \in Provider
  BY ListenerTypes DEF TypeOK
<1>1. CASE Tick
  <2>1. launcher' \in [Process -> Listener]
    <3>1. \A p \in Process : [launcher[p] EXCEPT !.pc = "due"] \in Listener
      BY <1>0, ListenerTypes DEF Point
    <3> QED
      BY <1>0, <1>1, <3>1 DEF Tick, NewMinute, NextPhase
  <2> QED
    BY <1>1, <2>1, UsageTypes DEF TypeOK, Tick, NewMinute, NextPhase, Phase
<1>2. ASSUME NEW p \in Process, Launch(p) PROVE TypeOK'
  <2> DEFINE l == launcher[p]
  <2>1. CASE Pop(p)
    <3>1. PICK work \in Work :
            launcher' = [launcher EXCEPT ![p].pc = "shared", ![p].work = work]
      BY <2>1 DEF Pop
    <3>2. launcher' = [launcher EXCEPT ![p] = [l EXCEPT !.pc = "shared", !.work = work]]
      BY <1>0, <3>1
    <3>3. launcher' \in [Process -> Listener]
      BY <1>0, <3>2, ListenerTypes
    <3> QED
      BY <2>1, <3>3 DEF TypeOK, Pop
  <2>2. CASE ReadShared(p)
    <3>1. sharedUsed' \in Usage /\ sharedUsed' = Current(sharedUsed, sharedFresh)
      BY <2>2, UsageTypes DEF TypeOK, ReadShared
    <3>2. /\ NotNegative(Minus(l.work.provider, sharedUsed')) \in Amount
          /\ sharedUsed'[l.work.provider] \in Amount
      BY <1>0, <3>1, BudgetTypes DEF Usage
    <3>3. /\ launcher' \in [Process -> Listener]
          /\ calm' \subseteq Process /\ unseen' \in [Process -> Amount]
      BY <1>0, <2>2, <3>1, <3>2, ReadTypes DEF ReadShared, BackendCountsCharges
    <3> QED
      BY <2>2, <3>1, <3>3 DEF TypeOK, ReadShared
  <2>3. CASE ReadNothing(p)
    <3>1. None \in Amount /\ Minus(l.work.provider, Nothing) \in Amount
      BY <1>0, UsageTypes, BudgetTypes
    <3>2. charged[l.work.provider].tokens \in Nat /\ charged[l.work.provider].requests \in Nat
      BY <1>0 DEF TypeOK, Usage, Amount
    <3>3. None.tokens = 0 /\ None.requests = 0
      BY DEF None
    <3>4. /\ launcher' \in [Process -> Listener]
          /\ calm' \subseteq Process /\ unseen' \in [Process -> Amount]
      BY <2>3, <3>1, <3>2, <3>3, ReadTypes DEF ReadNothing
    <3> QED
      BY <2>3, <3>4 DEF TypeOK, ReadNothing
  <2>4. CASE ReadLocal(p)
    <3>1. localUsed' \in [Process -> Usage]
      BY <2>4, UsageTypes DEF TypeOK, ReadLocal
    <3>2. Minus(l.work.provider, localUsed'[p]) \in Budget
      BY <1>0, <3>1, BudgetTypes
    <3>3. launcher' \in [Process -> Listener]
      <4> DEFINE budget == Minus(l.work.provider, localUsed'[p])
      <4>1. launcher' = [launcher EXCEPT ![p].pc = "merge", ![p].local = budget]
        BY <2>4 DEF ReadLocal
      <4> HIDE DEF budget
      <4>2. launcher' = [launcher EXCEPT ![p] = [l EXCEPT !.pc = "merge", !.local = budget]]
        BY <1>0, <4>1
      <4> QED
        BY <1>0, <3>2, <4>2, ListenerTypes DEF budget
    <3> QED
      BY <2>4, <3>1, <3>3 DEF TypeOK, ReadLocal
  <2>5. CASE Merge(p)
    <3>1. PICK pc \in Point :
            launcher' = [launcher EXCEPT ![p].pc = pc, ![p].shared = None, ![p].local = None]
      BY <2>5 DEF Merge, Point
    <3>2. launcher' = [launcher EXCEPT ![p] =
                          [l EXCEPT !.pc = pc, !.shared = None, !.local = None]]
      BY <1>0, <3>1
    <3>3. launcher' \in [Process -> Listener]
      BY <1>0, <3>2, ListenerTypes
    <3>4. calm' \subseteq Process /\ unseen' \in [Process -> Amount]
      BY <2>5, UsageTypes DEF Merge, Forget, TypeOK
    <3> QED
      BY <2>5, <3>3, <3>4 DEF TypeOK, Merge
  <2>6. ASSUME NEW pc \in Point, Go(p, pc) PROVE launcher' \in [Process -> Listener]
    <3>1. launcher' = [launcher EXCEPT ![p] = [l EXCEPT !.pc = pc]]
      BY <1>0, <2>6 DEF Go
    <3> QED
      BY <1>0, <3>1, ListenerTypes
  <2>7. ASSUME RecordLocally(p)
        PROVE  /\ launcher' \in [Process -> Listener]
               /\ localUsed' \in [Process -> Usage] /\ charged' \in Usage
               /\ own' \in [Process -> Usage] /\ early' \in [Process -> Usage]
               /\ calm' \subseteq Process /\ unseen' \in [Process -> Amount]
    <3>1. /\ Charge(charged, l.work) \in Usage /\ Charge(localUsed[p], l.work) \in Usage
          /\ Charge(own[p], l.work) \in Usage /\ Charge(early[p], l.work) \in Usage
          /\ \A q \in Process : More(unseen[q], l.work) \in Amount
      BY <1>0, UsageTypes DEF TypeOK
    <3>2. launcher' \in [Process -> Listener]
      BY <2>6, <2>7 DEF RecordLocally, Point
    <3>3. unseen' \in [Process -> Amount]
      BY <2>7, <3>1, UsageTypes DEF RecordLocally, TypeOK
    <3> QED
      BY <2>7, <3>1, <3>2, <3>3 DEF RecordLocally, TypeOK
  <2>8. CASE Record(p)
    <3>1. Recorded(l.work) \in Usage
      BY <1>0, UsageTypes DEF TypeOK, Recorded
    <3> QED
      BY <2>7, <2>8, <3>1 DEF TypeOK, Record, RecordLocally
  <2>9. CASE RecordUnheard(p)
    BY <2>7, <2>9 DEF TypeOK, RecordUnheard, RecordLocally
  <2>10. CASE ReportShared(p)
    <3>1. Current(sharedUsed, sharedFresh) \in Usage /\ launcher' \in [Process -> Listener]
      BY <2>6, <2>10, UsageTypes DEF ReportShared, TypeOK, Point
    <3> QED
      BY <2>10, <3>1 DEF TypeOK, ReportShared
  <2>11. CASE ReportLocal(p)
    <3>1. localUsed' \in [Process -> Usage] /\ launcher' \in [Process -> Listener]
      BY <2>6, <2>11, UsageTypes DEF ReportLocal, TypeOK, Point
    <3> QED
      BY <2>11, <3>1 DEF TypeOK, ReportLocal
  <2>12. CASE Wait(p) \/ Wake(p) \/ WaitQuit(p) \/ Exit(p)
    <3>1. launcher' \in [Process -> Listener]
      BY <2>6, <2>12 DEF Wait, Wake, WaitQuit, Exit, Point
    <3> QED
      BY <2>12, <3>1 DEF TypeOK, Wait, Wake, WaitQuit, Exit
  <2> QED
    BY <1>2, <2>1, <2>2, <2>3, <2>4, <2>5, <2>8, <2>9, <2>10, <2>11, <2>12 DEF Launch
<1>3. ASSUME NEW p \in Process, Cycle(p) PROVE TypeOK'
  BY <1>3, UsageTypes DEF TypeOK, Cycle
<1>4. CASE Stop
  BY <1>4 DEF TypeOK, Stop
<1>5. CASE Restart
  BY <1>5, UsageTypes DEF TypeOK, Restart
<1>6. CASE UNCHANGED vars
  BY <1>6 DEF TypeOK, vars
<1> QED
  BY <1>1, <1>2, <1>3, <1>4, <1>5, <1>6 DEF Next

-----------------------------------------------------------------------------
\* A charge adds the same to both sides of a comparison.
LEMMA ChargeAdds ==
    ASSUME NEW used \in Usage, NEW work \in Work, NEW v \in Provider
    PROVE  /\ Charge(used, work)[v].tokens =
                 used[v].tokens + (IF v = work.provider THEN work.tokens ELSE 0)
           /\ Charge(used, work)[v].requests =
                 used[v].requests + (IF v = work.provider THEN 1 ELSE 0)
           /\ used[v].tokens \in Nat /\ used[v].requests \in Nat /\ work.tokens \in Nat
  BY WorkAssumption DEF Charge, More, Usage, Amount

\* The backend never invents a charge, and misses none while it is told of
\* each: BackendCountsCharges is inductive among typed states.
LEMMA NextCounts == TypeOK /\ BackendCountsCharges /\ [Next]_vars => BackendCountsCharges'
<1> SUFFICES ASSUME TypeOK, BackendCountsCharges, [Next]_vars PROVE BackendCountsCharges'
  OBVIOUS
<1> USE DEF clockVars, sharedVars, localVars, historyVars
<1> DEFINE known == Current(sharedUsed, sharedFresh)
<1>0. /\ known \in Usage /\ charged \in Usage
      /\ \A v \in Provider : Nothing[v].tokens = 0 /\ Nothing[v].requests = 0
      /\ \A v \in Provider : charged[v].tokens \in Nat /\ charged[v].requests \in Nat
      /\ \A p \in Process : launcher[p].work \in Work
  BY UsageTypes, ListenerTypes DEF TypeOK, Nothing, None, Usage, Amount
<1>1. CASE NewMinute
  BY <1>0, <1>1 DEF NewMinute, BackendCountsCharges, Current
<1>2. ASSUME NEW p \in Process, ReadShared(p) \/ ReportShared(p) PROVE BackendCountsCharges'
  BY <1>2 DEF ReadShared, ReportShared, BackendCountsCharges, Current
<1>3. ASSUME NEW p \in Process, Record(p) PROVE BackendCountsCharges'
  <2> DEFINE work == launcher[p].work
  <2>1. /\ Current(sharedUsed, sharedFresh)' = Charge(known, work)
        /\ charged' = Charge(charged, work) /\ faulty' = faulty
    BY <1>3 DEF Record, RecordLocally, Recorded, Current
  <2>2. ASSUME NEW v \in Provider
        PROVE  /\ Charge(known, work)[v].tokens <= Charge(charged, work)[v].tokens
               /\ Charge(known, work)[v].requests <= Charge(charged, work)[v].requests
    <3>1. known[v].tokens <= charged[v].tokens /\ known[v].requests <= charged[v].requests
      BY DEF BackendCountsCharges
    <3> HIDE DEF known, work
    <3>2. work \in Work
      BY <1>0 DEF work
    <3> QED
      BY <1>0, <3>1, <3>2, ChargeAdds
  <2>3. ~faulty => known = charged
    BY DEF BackendCountsCharges
  <2> QED
    BY <2>1, <2>2, <2>3 DEF BackendCountsCharges
<1>4. ASSUME NEW p \in Process, RecordUnheard(p) PROVE BackendCountsCharges'
  <2> DEFINE work == launcher[p].work
  <2>1. /\ Current(sharedUsed, sharedFresh)' = known
        /\ charged' = Charge(charged, work) /\ faulty'
    BY <1>4 DEF RecordUnheard, RecordLocally, Current
  <2>2. ASSUME NEW v \in Provider
        PROVE  /\ known[v].tokens <= Charge(charged, work)[v].tokens
               /\ known[v].requests <= Charge(charged, work)[v].requests
    <3>1. known[v].tokens <= charged[v].tokens /\ known[v].requests <= charged[v].requests
      BY DEF BackendCountsCharges
    <3>2. known[v].tokens \in Nat /\ known[v].requests \in Nat
      BY <1>0 DEF Usage, Amount
    <3> HIDE DEF known, work
    <3>3. work \in Work
      BY <1>0 DEF work
    <3> QED
      BY <1>0, <3>1, <3>2, <3>3, ChargeAdds
  <2> QED
    BY <2>1, <2>2 DEF BackendCountsCharges
<1>5. CASE Restart
  BY <1>0, <1>5 DEF Restart, BackendCountsCharges, Current
<1>6. ASSUME NEW p \in Process, ReadNothing(p) PROVE BackendCountsCharges'
  BY <1>6 DEF ReadNothing, BackendCountsCharges, Current
<1>7. ASSUME NEW p \in Process,
             \/ Pop(p) \/ ReadLocal(p) \/ Merge(p) \/ Wait(p) \/ Wake(p) \/ WaitQuit(p)
             \/ ReportLocal(p) \/ Exit(p) \/ Cycle(p)
      PROVE  BackendCountsCharges'
  BY <1>7 DEF Pop, ReadLocal, Merge, Wait, Wake, WaitQuit, ReportLocal, Exit, Cycle, Go,
              BackendCountsCharges, Current
<1>8. CASE NextPhase \/ Stop \/ UNCHANGED vars
  BY <1>8 DEF NextPhase, Stop, vars, BackendCountsCharges, Current
<1> QED
  BY <1>1, <1>2, <1>3, <1>4, <1>5, <1>6, <1>7, <1>8 DEF Next, Launch, Tick

\* The usages, budgets and listeners keep their types.
THEOREM TrackerTypes == Spec => []TypeOK
  BY InitTyped, NextTyped, NextCounts, PTL DEF Spec

\* In every behaviour the backend knows of no charge that was not made, and
\* of all of them in a minute without faults.
THEOREM BackendExact == Spec => []BackendCountsCharges
  BY InitTyped, NextTyped, NextCounts, PTL DEF Spec

-----------------------------------------------------------------------------
\* What a calm listener may still count on: the limits, less what it knows to
\* be charged.
Left(p) ==
    LET v == launcher[p].work.provider
    IN  [tokens   |-> TPM[v] - (charged[v].tokens - unseen[p].tokens),
         requests |-> RPM[v] - (charged[v].requests - unseen[p].requests)]

\* A calm listener's budget is what is left, however much the others charge;
\* its tracker's is what its process has left; once the listener has decided,
\* its node fits in both.
CalmOne(p) ==
    LET work == launcher[p].work
        left == Left(p)
        mine == Minus(work.provider, localUsed[p])
    IN  /\ phase = "middle"
        /\ launcher[p].pc \in {"local", "merge", "record"}
        /\ launcher[p].pc \in {"local", "merge"} => launcher[p].shared = NotNegative(left)
        /\ launcher[p].pc = "merge" => launcher[p].local = mine
        /\ launcher[p].pc = "record" =>
              /\ work.tokens <= left.tokens /\ 1 <= left.requests
              /\ work.tokens <= mine.tokens /\ 1 <= mine.requests

CalmInv == \A p \in calm : CalmOne(p)

\* What a calm listener has left are integers.
LEMMA LeftTypes ==
    ASSUME TypeOK, NEW p \in Process
    PROVE  /\ Left(p) \in Budget
           /\ launcher[p].work.tokens \in Nat \ {0}
           /\ Minus(launcher[p].work.provider, localUsed[p]) \in Budget
<1>1. launcher[p].work.provider \in Provider /\ launcher[p].work.tokens \in Nat \ {0}
  BY ListenerTypes DEF TypeOK
<1>2. Left(p) \in Budget
  BY <1>1, LimitAssumption DEF Left, TypeOK, Usage, Amount, Budget
<1>3. Minus(launcher[p].work.provider, localUsed[p]) \in Budget
  BY <1>1, BudgetTypes DEF TypeOK
<1> QED
  BY <1>1, <1>2, <1>3

\* A listener whose own state, minute and view of the charges stay the same
\* stays calm.
LEMMA CalmStays ==
    ASSUME NEW p \in calm, CalmOne(p), UNCHANGED <<phase, launcher[p], localUsed[p]>>,
           Left(p)' = Left(p)
    PROVE  CalmOne(p)'
  BY DEF CalmOne, Minus

\* Each charge a calm listener does not make is one it has not seen.
LEMMA OthersCharge ==
    ASSUME TypeOK, NEW p \in Process, NEW q \in calm', RecordLocally(p)
    PROVE  /\ q # p /\ q \in calm /\ Left(q)' = Left(q)
           /\ UNCHANGED <<phase, launcher[q], localUsed[q]>>
<1> DEFINE v == launcher[q].work.provider
           work == launcher[p].work
<1>1. q # p /\ q \in calm /\ q \in Process
  BY DEF RecordLocally, TypeOK
<1>2. UNCHANGED <<phase, launcher[q], localUsed[q]>>
  BY <1>1 DEF RecordLocally, Go, TypeOK, clockVars
<1>3. v \in Provider /\ work \in Work /\ charged \in Usage /\ unseen[q] \in Amount
  BY <1>1, ListenerTypes DEF TypeOK
<1>4. charged' = Charge(charged, work)
  BY DEF RecordLocally
<1>5. unseen'[q] = IF work.provider = v THEN More(unseen[q], work) ELSE unseen[q]
  BY <1>1 DEF RecordLocally
<1>6. charged'[v].tokens - unseen'[q].tokens = charged[v].tokens - unseen[q].tokens
  BY <1>3, <1>4, <1>5, ChargeAdds DEF More, Amount
<1>7. charged'[v].requests - unseen'[q].requests = charged[v].requests - unseen[q].requests
  BY <1>3, <1>4, <1>5, ChargeAdds DEF More, Amount
<1> QED
  BY <1>1, <1>2, <1>6, <1>7 DEF Left

\* Asking the backend leaves out what it does not know, and nothing else.
LEMMA ReadLeaves ==
    ASSUME TypeOK, CalmInv, NEW p \in Process,
           launcher[p].pc = "shared", NEW known \in Amount, NEW budget,
           HasRead(p, budget, known),
           budget = NotNegative([tokens   |-> TPM[launcher[p].work.provider] - known.tokens,
                                 requests |-> RPM[launcher[p].work.provider] - known.requests]),
           UNCHANGED <<clockVars, localVars, charged>>
    PROVE  CalmInv'
<1> USE DEF clockVars, localVars
<1> DEFINE v == launcher[p].work.provider
<1>0. v \in Provider /\ launcher[p] \in Listener
  BY ListenerTypes DEF TypeOK
<1>1. p \notin calm
  BY DEF CalmInv, CalmOne
<1>2. ASSUME NEW q \in calm', q # p PROVE CalmOne(q)'
  <2>1. q \in calm /\ q \in Process
    BY <1>2 DEF HasRead, TypeOK
  <2>2. UNCHANGED <<phase, launcher[q], localUsed[q], charged, unseen[q]>>
    BY <1>2, <2>1 DEF HasRead, TypeOK
  <2>3. Left(q)' = Left(q)
    BY <2>2 DEF Left
  <2> QED
    BY <2>1, <2>2, <2>3, CalmStays DEF CalmInv
<1>3. ASSUME p \in calm' PROVE CalmOne(p)'
  <2>1. phase = "middle" /\ phase' = "middle"
    BY <1>1, <1>3 DEF HasRead
  <2>2. /\ launcher'[p].pc = "local" /\ launcher'[p].shared = budget
        /\ launcher'[p].work = launcher[p].work
    BY <1>0 DEF HasRead, TypeOK, Listener
  <2>3. unseen'[p].tokens = charged[v].tokens - known.tokens
        /\ unseen'[p].requests = charged[v].requests - known.requests
    BY <2>1 DEF HasRead, TypeOK
  <2>4. /\ charged[v].tokens \in Int /\ charged[v].requests \in Int
        /\ known.tokens \in Int /\ known.requests \in Int
        /\ TPM[v] \in Int /\ RPM[v] \in Int
    BY <1>0, LimitAssumption DEF TypeOK, Usage, Amount
  <2>5. Left(p)' = [tokens |-> TPM[v] - known.tokens, requests |-> RPM[v] - known.requests]
    <3>1. /\ charged[v].tokens - unseen'[p].tokens = known.tokens
          /\ charged[v].requests - unseen'[p].requests = known.requests
      BY <2>3, <2>4
    <3> QED
      BY <2>2, <3>1 DEF Left
  <2>6. launcher'[p].shared = NotNegative(Left(p)')
    BY <2>2, <2>5
  <2> QED
    BY <2>1, <2>2, <2>6 DEF CalmOne, NotNegative
<1> QED
  BY <1>2, <1>3 DEF CalmInv

\* Away from the boundaries the listener goes by the smaller of its budgets.
LEMMA MiddleIsStrict ==
    ASSUME NEW b, b.shared \in Amount, b.local \in Budget, phase = "middle"
    PROVE  /\ Available(b).tokens <= b.shared.tokens /\ Available(b).tokens <= b.local.tokens
           /\ Available(b).requests <= b.shared.requests
           /\ Available(b).requests <= b.local.requests
           /\ Available(b).tokens \in Int /\ Available(b).requests \in Int
  BY DEF Available, Smaller, Budget, Amount

\* A listener that decides to launch has room in both budgets.
LEMMA MergeFits ==
    ASSUME TypeOK, NEW p \in calm, CalmOne(p), Merge(p), p \in calm'
    PROVE  CalmOne(p)'
<1> USE DEF clockVars, sharedVars, localVars
<1> DEFINE b == launcher[p]
           left == Left(p)
           mine == Minus(b.work.provider, localUsed[p])
<1>0. p \in Process /\ b \in Listener
  BY DEF TypeOK
<1>1. /\ phase = "middle" /\ b.pc = "merge"
      /\ b.shared = NotNegative(left) /\ b.local = mine
  BY DEF Merge, CalmOne
<1>2. /\ left \in Budget /\ mine \in Budget /\ b.work.tokens \in Nat \ {0}
      /\ b.shared \in Amount /\ b.local \in Budget
  BY <1>0, LeftTypes, ListenerTypes
<1>3. /\ Available(b).tokens >= b.work.tokens /\ Available(b).requests >= 1
      /\ launcher' = [launcher EXCEPT ![p].pc = "record", ![p].shared = None, ![p].local = None]
      /\ unseen' = unseen
  BY <1>0 DEF Merge, Forget
<1>4. /\ b.work.tokens <= b.shared.tokens /\ 1 <= b.shared.requests
      /\ b.work.tokens <= mine.tokens /\ 1 <= mine.requests
  <2>1. /\ Available(b).tokens <= b.shared.tokens /\ Available(b).tokens <= b.local.tokens
        /\ Available(b).requests <= b.shared.requests
        /\ Available(b).requests <= b.local.requests
        /\ Available(b).tokens \in Int /\ Available(b).requests \in Int
    BY <1>1, <1>2, MiddleIsStrict
  <2> HIDE DEF b, mine
  <2> QED
    BY <1>1, <1>2, <1>3, <2>1 DEF Amount, Budget
<1>5. b.work.tokens <= left.tokens /\ 1 <= left.requests
  <2> HIDE DEF left, b
  <2> QED
    BY <1>1, <1>2, <1>4 DEF NotNegative, Budget
<1>6. /\ launcher'[p].pc = "record" /\ launcher'[p].work = b.work
      /\ UNCHANGED <<phase, charged, unseen, localUsed>>
  BY <1>0, <1>3 DEF Merge, TypeOK, Listener
<1>7. left' = left /\ mine' = mine
  BY <1>6 DEF Left, Minus
<1> HIDE DEF left, mine
<1> QED
  BY <1>1, <1>4, <1>5, <1>6, <1>7 DEF CalmOne, left, mine

\* Every step of every process keeps the calm invariant.
LEMMA NextCalm == TypeOK /\ BackendCountsCharges /\ CalmInv /\ [Next]_vars => CalmInv'
<1> SUFFICES ASSUME TypeOK, BackendCountsCharges, CalmInv, [Next]_vars PROVE CalmInv'
  OBVIOUS
<1> USE DEF clockVars, sharedVars, localVars, historyVars
<1>1. CASE Tick
  BY <1>1 DEF Tick, NewMinute, NextPhase, CalmInv
<1>2. ASSUME NEW p \in Process, ReadShared(p) PROVE CalmInv'
  <2>1. /\ sharedUsed' \in Usage /\ launcher[p].work.provider \in Provider
        /\ UNCHANGED <<clockVars, localVars, charged>>
    BY <1>2, UsageTypes, ListenerTypes DEF TypeOK, ReadShared
  <2>2. sharedUsed'[launcher[p].work.provider] \in Amount
    BY <2>1 DEF Usage
  <2> QED
    BY <1>2, <2>1, <2>2, ReadLeaves DEF ReadShared, Minus
<1>3. ASSUME NEW p \in Process, ReadNothing(p) PROVE CalmInv'
  <2> DEFINE v == launcher[p].work.provider
             full == [tokens |-> TPM[v] - 0, requests |-> RPM[v] - 0]
  <2>1. v \in Provider
    BY ListenerTypes DEF TypeOK
  <2>2. Minus(v, Nothing) = full /\ full = NotNegative(full)
    BY <2>1, LimitAssumption DEF Minus, Nothing, None, NotNegative
  <2>3. None \in Amount /\ None.tokens = 0 /\ None.requests = 0
    BY UsageTypes DEF None
  <2>4. launcher[p].pc = "shared" /\ HasRead(p, full, None)
    BY <1>3, <2>2 DEF ReadNothing
  <2>5. UNCHANGED <<clockVars, localVars, charged>>
    BY <1>3 DEF ReadNothing
  <2> HIDE DEF full
  <2>6. full = NotNegative([tokens |-> TPM[v] - None.tokens,
                            requests |-> RPM[v] - None.requests])
    BY <2>2, <2>3 DEF full
  <2> QED
    BY <2>3, <2>4, <2>5, <2>6, ReadLeaves
<1>4. ASSUME NEW p \in Process, ReadLocal(p) PROVE CalmInv'
  <2>1. ASSUME NEW q \in calm', q # p PROVE CalmOne(q)'
    <3>1. /\ q \in calm /\ q \in Process
          /\ UNCHANGED <<phase, launcher[q], localUsed[q], charged, unseen>>
      BY <1>4, <2>1 DEF ReadLocal, TypeOK
    <3> QED
      BY <3>1, CalmStays DEF CalmInv, Left
  <2>2. ASSUME p \in calm' PROVE CalmOne(p)'
    <3>1. /\ p \in calm /\ CalmOne(p) /\ launcher[p].pc = "local"
          /\ UNCHANGED <<phase, charged, unseen>>
      BY <1>4, <2>2 DEF ReadLocal, CalmInv
    <3>2. /\ launcher'[p].pc = "merge" /\ launcher'[p].work = launcher[p].work
          /\ launcher'[p].shared = launcher[p].shared
          /\ launcher'[p].local = Minus(launcher[p].work.provider, localUsed'[p])
      BY <1>4 DEF ReadLocal, TypeOK, Listener
    <3>3. Left(p)' = Left(p)
      BY <3>1, <3>2 DEF Left
    <3> QED
      BY <3>1, <3>2, <3>3 DEF CalmOne, Minus, NotNegative
  <2> QED
    BY <2>1, <2>2 DEF CalmInv
<1>5. ASSUME NEW p \in Process, Merge(p) PROVE CalmInv'
  <2>1. calm' \subseteq calm
    BY <1>5 DEF Merge, Forget
  <2>2. ASSUME NEW q \in calm', q # p PROVE CalmOne(q)'
    <3>1. /\ q \in calm /\ q \in Process
          /\ UNCHANGED <<phase, launcher[q], localUsed[q], charged, unseen[q]>>
      BY <1>5, <2>1, <2>2 DEF Merge, Forget, TypeOK
    <3> QED
      BY <3>1, CalmStays DEF CalmInv, Left
  <2>3. ASSUME p \in calm' PROVE CalmOne(p)'
    BY <1>5, <2>1, <2>3, MergeFits DEF CalmInv
  <2> QED
    BY <2>2, <2>3 DEF CalmInv
<1>6. ASSUME NEW p \in Process, Record(p) \/ RecordUnheard(p) PROVE CalmInv'
  <2>1. RecordLocally(p)
    BY <1>6 DEF Record, RecordUnheard
  <2> QED
    BY <2>1, OthersCharge, CalmStays DEF CalmInv
<1>7. ASSUME NEW p \in Process,
             \/ Pop(p) \/ Wait(p) \/ Wake(p) \/ WaitQuit(p) \/ Exit(p)
             \/ ReportShared(p) \/ ReportLocal(p)
      PROVE  CalmInv'
  <2>1. p \notin calm
    BY <1>7 DEF Pop, Wait, Wake, WaitQuit, Exit, ReportShared, ReportLocal, CalmInv, CalmOne
  <2>2. ASSUME NEW q \in calm' PROVE CalmOne(q)'
    <3>1. /\ q \in calm /\ q \in Process /\ q # p
          /\ UNCHANGED <<phase, launcher[q], localUsed[q], charged, unseen>>
      BY <1>7, <2>1, <2>2 DEF Pop, Wait, Wake, WaitQuit, Exit, ReportShared, ReportLocal, Go,
                              TypeOK
    <3> QED
      BY <3>1, CalmStays DEF CalmInv, Left
  <2> QED
    BY <2>2 DEF CalmInv
<1>8. ASSUME NEW p \in Process, Cycle(p) PROVE CalmInv'
  <2>1. ASSUME NEW q \in calm', q # p PROVE CalmOne(q)'
    <3>1. /\ q \in calm /\ q \in Process
          /\ UNCHANGED <<phase, launcher[q], localUsed[q], charged, unseen>>
      BY <1>8, <2>1 DEF Cycle, TypeOK
    <3> QED
      BY <3>1, CalmStays DEF CalmInv, Left
  <2>2. ASSUME p \in calm' PROVE CalmOne(p)'
    <3> DEFINE v == launcher[p].work.provider
    <3>1. /\ CalmOne(p) /\ launcher[p].pc # "merge" /\ localUsed'[p] = Nothing
          /\ UNCHANGED <<phase, launcher, charged, unseen>>
      BY <1>8, <2>2 DEF Cycle, CalmInv, TypeOK
    <3>2. v \in Provider /\ launcher[p].work.tokens \in Int /\ localUsed[p] \in Usage
      <4>1. v \in Provider /\ localUsed[p] \in Usage
        BY ListenerTypes DEF TypeOK
      <4>2. launcher[p].work.tokens \in Nat \ {0}
        BY LeftTypes
      <4> QED
        BY <4>1, <4>2
    <3>3. /\ v \in Provider /\ TPM[v] \in Int /\ RPM[v] \in Int
          /\ localUsed[p][v].tokens \in Nat /\ localUsed[p][v].requests \in Nat
          /\ launcher[p].work.tokens \in Int
      BY <3>2, LimitAssumption DEF Usage, Amount
    <3>4. /\ Minus(v, localUsed[p]).tokens <= Minus(v, localUsed'[p]).tokens
          /\ Minus(v, localUsed[p]).requests <= Minus(v, localUsed'[p]).requests
          /\ Minus(v, localUsed[p]) \in Budget /\ Minus(v, localUsed'[p]) \in Budget
      BY <3>1, <3>3 DEF Minus, Nothing, None, Budget
    <3>5. Left(p)' = Left(p) /\ Left(p) \in Budget
      BY <3>1, LeftTypes DEF Left
    <3>6. Minus(v, localUsed[p])' = Minus(v, localUsed'[p])
      BY <3>1 DEF Minus
    <3>7. launcher[p].pc = "record" =>
              /\ launcher[p].work.tokens <= Minus(v, localUsed'[p]).tokens
              /\ 1 <= Minus(v, localUsed'[p]).requests
      BY <3>1, <3>3, <3>4 DEF CalmOne, Budget
    <3> QED
      BY <3>1, <3>5, <3>6, <3>7 DEF CalmOne, NotNegative
  <2> QED
    BY <2>1, <2>2 DEF CalmInv
<1>9. CASE Stop \/ Restart \/ UNCHANGED vars
  BY <1>9, CalmStays DEF Stop, Restart, vars, CalmInv, Left
<1> QED
  BY <1>1, <1>2, <1>3, <1>4, <1>5, <1>6, <1>7, <1>8, <1>9 DEF Next, Launch

\* A charge by a calm listener finds room in what is left of the minute, and
\* in what is left of it to its own process.
LEMMA CalmCharge ==
    ASSUME TypeOK, CalmInv, NEW p \in calm, RecordLocally(p)
    PROVE  /\ Within(launcher[p].work.provider, Seen(p, launcher[p].work.provider), 1)
           /\ Within(launcher[p].work.provider, localUsed'[p][launcher[p].work.provider], 1)
<1> DEFINE v == launcher[p].work.provider
           work == launcher[p].work
<1>1. /\ p \in Process /\ work \in Work /\ v \in Provider /\ work.tokens \in Nat \ {0}
      /\ charged \in Usage /\ localUsed[p] \in Usage /\ unseen[p] \in Amount
      /\ TPM[v] \in Nat /\ RPM[v] \in Nat
  BY ListenerTypes, LimitAssumption DEF TypeOK
<1>2. /\ charged' = Charge(charged, work) /\ localUsed'[p] = Charge(localUsed[p], work)
  BY <1>1 DEF RecordLocally, TypeOK
<1>3. /\ work.tokens <= TPM[v] - (charged[v].tokens - unseen[p].tokens)
      /\ 1 <= RPM[v] - (charged[v].requests - unseen[p].requests)
      /\ work.tokens <= TPM[v] - localUsed[p][v].tokens
      /\ 1 <= RPM[v] - localUsed[p][v].requests
  BY DEF RecordLocally, CalmInv, CalmOne, Left, Minus
<1>4. /\ charged'[v].tokens = charged[v].tokens + work.tokens
      /\ charged'[v].requests = charged[v].requests + 1
      /\ localUsed'[p][v].tokens = localUsed[p][v].tokens + work.tokens
      /\ localUsed'[p][v].requests = localUsed[p][v].requests + 1
      /\ charged[v].tokens \in Nat /\ charged[v].requests \in Nat
      /\ localUsed[p][v].tokens \in Nat /\ localUsed[p][v].requests \in Nat
      /\ unseen[p].tokens \in Nat /\ unseen[p].requests \in Nat
  BY <1>1, <1>2, ChargeAdds DEF Amount
<1> HIDE DEF work
<1>5. charged'[v].tokens - unseen[p].tokens <= TPM[v]
      /\ charged'[v].requests - unseen[p].requests <= RPM[v]
  BY <1>1, <1>3, <1>4
<1>6. localUsed'[p][v].tokens <= TPM[v] /\ localUsed'[p][v].requests <= RPM[v]
  BY <1>1, <1>3, <1>4
<1>7. 1 * TPM[v] = TPM[v] /\ 1 * RPM[v] = RPM[v]
  BY <1>1
<1> QED
  BY <1>5, <1>6, <1>7 DEF Within, Seen

\* The types, the backend's knowledge and the calm invariant together.
LEMMA CalmInductive ==
    LET Inv == TypeOK /\ BackendCountsCharges /\ CalmInv
    IN  (Init => Inv) /\ (Inv /\ [Next]_vars => Inv')
<1>1. Init => CalmInv
  BY DEF Init, CalmInv
<1> QED
  BY <1>1, InitTyped, NextTyped, NextCounts, NextCalm

\* However many processes share the backend, and whatever becomes of it and of
\* their calls: away from the boundaries a minute is charged with more than
\* its budget only by what the backend could not have told.
THEOREM CalmFits == Spec => CalmChargesFit
<1> DEFINE Inv == TypeOK /\ BackendCountsCharges /\ CalmInv
<1>1. Init => Inv
  BY CalmInductive
<1>2. Inv /\ [Next]_vars => Inv'
  BY CalmInductive
<1>3. Inv => [CalmRecordFits]_vars
  BY CalmCharge DEF CalmRecordFits, Record, RecordUnheard
<1> HIDE DEF Inv
<1> QED
  BY <1>1, <1>2, <1>3, PTL DEF Spec, CalmChargesFit

-----------------------------------------------------------------------------
(* What a process charges by itself *)

\* What p has charged in this minute is what its tracker knows of it and what
\* it was early to charge, and that is one node's work.  A tracker that has not
\* noticed the minute is about to be asked for the report of that node.
EarlyOne(p) ==
    /\ \A v \in Provider :
          /\ own[p][v].tokens = Current(localUsed[p], localFresh[p])[v].tokens + early[p][v].tokens
          /\ own[p][v].requests =
                Current(localUsed[p], localFresh[p])[v].requests + early[p][v].requests
    /\ OneNodesWork(early[p])
    /\ ~localFresh[p] => early[p] = Nothing \/ launcher[p].pc \in {"report", "reported"}

EarlyInv == \A p \in Process : EarlyOne(p)

\* It matters only what the tracker counts, not when it notices the minute.
LEMMA EarlyStays ==
    ASSUME NEW p \in Process, EarlyOne(p), UNCHANGED <<own[p], early[p]>>,
           Current(localUsed[p], localFresh[p])' = Current(localUsed[p], localFresh[p]),
           \/ localFresh'[p]
           \/ localFresh'[p] = localFresh[p]
              /\ (launcher[p].pc \in {"report", "reported"} =>
                      launcher'[p].pc \in {"report", "reported"})
    PROVE  EarlyOne(p)'
  BY DEF EarlyOne, OneNodesWork

\* Steps of the listener, or of the timer, by which a tracker may notice the
\* minute.
LEMMA EarlyNotices ==
    ASSUME TypeOK, NEW p \in Process, EarlyInv, UNCHANGED <<own, early>>,
           localUsed' = [localUsed EXCEPT ![p] = Current(@, localFresh[p])],
           localFresh' = [localFresh EXCEPT ![p] = TRUE],
           \A q \in Process : q # p => launcher'[q] = launcher[q]
    PROVE  EarlyInv'
<1>1. ASSUME NEW q \in Process PROVE EarlyOne(q)'
  <2>1. CASE q = p
    <3>1. localFresh'[p] /\ localUsed'[p] = Current(localUsed[p], localFresh[p])
      BY DEF TypeOK
    <3>2. Current(localUsed[p], localFresh[p])' = Current(localUsed[p], localFresh[p])
      BY <3>1 DEF Current
    <3> QED
      BY <2>1, <3>1, <3>2, EarlyStays DEF EarlyInv
  <2>2. CASE q # p
    <3>1. UNCHANGED <<localFresh[q], localUsed[q], launcher[q]>>
      BY <2>2 DEF TypeOK
    <3>2. Current(localUsed[q], localFresh[q])' = Current(localUsed[q], localFresh[q])
      BY <3>1 DEF Current
    <3> QED
      BY <3>1, <3>2, EarlyStays DEF EarlyInv
  <2> QED
    BY <2>1, <2>2
<1> QED
  BY <1>1 DEF EarlyInv

\* A charge is early or counted by the tracker, and no second one is early: a
\* listener that has charged reports, and its tracker notices the minute.
LEMMA EarlyCharge ==
    ASSUME TypeOK, NEW p \in Process, EarlyOne(p), RecordLocally(p)
    PROVE  EarlyOne(p)'
<1> DEFINE work == launcher[p].work
<1>1. /\ work \in Work /\ own[p] \in Usage /\ early[p] \in Usage /\ localUsed[p] \in Usage
      /\ localFresh[p] \in BOOLEAN
  BY ListenerTypes DEF TypeOK
<1>2. /\ launcher[p].pc = "record" /\ launcher'[p].pc = "report"
      /\ own'[p] = Charge(own[p], work) /\ localUsed'[p] = Charge(localUsed[p], work)
      /\ localFresh'[p] = localFresh[p]
  BY DEF RecordLocally, Go, TypeOK, Listener
<1>3. CASE localFresh[p]
  <2>1. early'[p] = early[p] /\ localFresh'[p]
    BY <1>2, <1>3 DEF RecordLocally
  <2>2. /\ Current(localUsed[p], localFresh[p]) = localUsed[p]
        /\ Current(localUsed[p], localFresh[p])' = Charge(localUsed[p], work)
    BY <1>2, <1>3 DEF Current
  <2> HIDE DEF work
  <2>3. ASSUME NEW v \in Provider
        PROVE  /\ own'[p][v].tokens = Charge(localUsed[p], work)[v].tokens + early'[p][v].tokens
               /\ own'[p][v].requests =
                     Charge(localUsed[p], work)[v].requests + early'[p][v].requests
    <3>1. early[p][v].tokens \in Nat /\ early[p][v].requests \in Nat
      BY <1>1 DEF Usage, Amount
    <3>2. /\ own[p][v].tokens = localUsed[p][v].tokens + early[p][v].tokens
          /\ own[p][v].requests = localUsed[p][v].requests + early[p][v].requests
      BY <2>2 DEF EarlyOne
    <3> QED
      BY <1>1, <1>2, <2>1, <3>1, <3>2, ChargeAdds
  <2> QED
    BY <2>1, <2>2, <2>3 DEF EarlyOne, OneNodesWork
<1>4. CASE ~localFresh[p]
  <2>1. early[p] = Nothing /\ early'[p] = Charge(Nothing, work) /\ ~localFresh'[p]
    BY <1>1, <1>2, <1>4 DEF RecordLocally, EarlyOne, TypeOK
  <2>2. /\ Current(localUsed[p], localFresh[p]) = Nothing
        /\ Current(localUsed[p], localFresh[p])' = Nothing
    BY <1>2, <1>4 DEF Current
  <2> HIDE DEF work
  <2>3. ASSUME NEW v \in Provider
        PROVE  /\ own'[p][v].tokens = Nothing[v].tokens + early'[p][v].tokens
               /\ own'[p][v].requests = Nothing[v].requests + early'[p][v].requests
    <3>1. Nothing[v].tokens = 0 /\ Nothing[v].requests = 0 /\ Nothing \in Usage
      BY UsageTypes DEF Nothing, None
    <3>2. own[p][v].tokens = 0 /\ own[p][v].requests = 0
      BY <2>1, <2>2, <3>1 DEF EarlyOne
    <3> QED
      BY <1>1, <1>2, <2>1, <3>1, <3>2, ChargeAdds
  <2>4. OneNodesWork(early'[p])
    BY <1>1, <2>1 DEF OneNodesWork
  <2> QED
    BY <1>2, <2>2, <2>3, <2>4 DEF EarlyOne, OneNodesWork
<1> QED
  BY <1>1, <1>3, <1>4

\* Every step keeps count of the early charges.
LEMMA NextEarly == TypeOK /\ EarlyInv /\ [Next]_vars => EarlyInv'
<1> SUFFICES ASSUME TypeOK, EarlyInv, [Next]_vars PROVE EarlyInv'
  OBVIOUS
<1> USE DEF clockVars, sharedVars, localVars, historyVars
<1>1. CASE NewMinute
  <2>1. ASSUME NEW p \in Process PROVE EarlyOne(p)'
    <3>1. own'[p] = Nothing /\ early'[p] = Nothing /\ ~localFresh'[p]
      BY <1>1 DEF NewMinute
    <3>2. \A v \in Provider : Nothing[v].tokens = 0 /\ Nothing[v].requests = 0
      BY DEF Nothing, None
    <3> QED
      BY <3>1, <3>2 DEF EarlyOne, OneNodesWork, Current
  <2> QED
    BY <2>1 DEF EarlyInv
<1>2. ASSUME NEW p \in Process, ReadLocal(p) \/ ReportLocal(p) PROVE EarlyInv'
  <2>1. \A q \in Process : q # p => launcher'[q] = launcher[q]
    BY <1>2 DEF ReadLocal, ReportLocal, Go, TypeOK
  <2> QED
    BY <1>2, <2>1, EarlyNotices DEF ReadLocal, ReportLocal
<1>3. ASSUME NEW p \in Process, Cycle(p) PROVE EarlyInv'
  <2>1. localUsed' = [localUsed EXCEPT ![p] = Current(@, localFresh[p])]
    BY <1>3 DEF Cycle, Current
  <2> QED
    BY <1>3, <2>1, EarlyNotices DEF Cycle
<1>4. ASSUME NEW p \in Process, Record(p) \/ RecordUnheard(p) PROVE EarlyInv'
  <2>1. RecordLocally(p)
    BY <1>4 DEF Record, RecordUnheard
  <2>2. ASSUME NEW q \in Process, q # p PROVE EarlyOne(q)'
    <3>1. UNCHANGED <<own[q], early[q], localUsed[q], localFresh[q], launcher[q]>>
      BY <2>1, <2>2 DEF RecordLocally, Go, TypeOK
    <3>2. Current(localUsed[q], localFresh[q])' = Current(localUsed[q], localFresh[q])
      BY <3>1 DEF Current
    <3> QED
      BY <3>1, <3>2, EarlyStays DEF EarlyInv
  <2> QED
    BY <2>1, <2>2, EarlyCharge DEF EarlyInv
<1>5. ASSUME UNCHANGED <<own, early, localUsed, localFresh>>,
             \A p \in Process : launcher[p].pc \in {"report", "reported"} =>
                 launcher'[p].pc \in {"report", "reported"}
      PROVE  EarlyInv'
  BY <1>5, EarlyStays DEF EarlyInv, Current
<1>6. ASSUME NEW p \in Process,
             \/ Pop(p) \/ ReadShared(p) \/ ReadNothing(p) \/ Merge(p) \/ Wait(p) \/ Wake(p)
             \/ WaitQuit(p) \/ ReportShared(p) \/ Exit(p)
      PROVE  EarlyInv'
  <2>1. UNCHANGED <<own, early, localUsed, localFresh>>
    BY <1>6 DEF Pop, ReadShared, ReadNothing, Merge, Wait, Wake, WaitQuit, ReportShared, Exit
  <2>2. ASSUME NEW q \in Process, launcher[q].pc \in {"report", "reported"}
        PROVE  launcher'[q].pc \in {"report", "reported"}
    <3>1. launcher[p] \in Listener /\ launcher \in [Process -> Listener]
      BY DEF TypeOK
    <3>2. CASE q # p
      BY <1>6, <2>2, <3>1, <3>2 DEF Pop, ReadShared, ReadNothing, HasRead, Merge, Wait, Wake,
                                    WaitQuit, ReportShared, Exit, Go
    <3>3. CASE q = p
      <4>1. ReportShared(p) /\ launcher[p].pc = "report"
        BY <1>6, <2>2, <3>3 DEF Pop, ReadShared, ReadNothing, Merge, Wait, Wake, WaitQuit,
                                ReportShared, Exit
      <4> QED
        BY <3>1, <3>3, <4>1 DEF ReportShared, Go, Listener
    <3> QED
      BY <3>2, <3>3
  <2> QED
    BY <1>5, <2>1, <2>2
<1>7. CASE NextPhase \/ Stop \/ Restart \/ UNCHANGED vars
  BY <1>5, <1>7 DEF NextPhase, Stop, Restart, vars
<1> QED
  BY <1>1, <1>2, <1>3, <1>4, <1>6, <1>7 DEF Next, Launch, Tick

\* The types, the calm invariant and the count of early charges together.
LEMMA EarlyInductive ==
    LET Inv == TypeOK /\ BackendCountsCharges /\ CalmInv /\ EarlyInv
    IN  (Init => Inv) /\ (Inv /\ [Next]_vars => Inv')
<1>1. ASSUME Init PROVE EarlyInv
  <2>1. \A v \in Provider : Nothing[v].tokens = 0 /\ Nothing[v].requests = 0
    BY DEF Nothing, None
  <2>2. ASSUME NEW p \in Process PROVE EarlyOne(p)
    <3>1. /\ own[p] = Nothing /\ early[p] = Nothing /\ localUsed[p] = Nothing
          /\ localFresh[p] = TRUE
      BY <1>1 DEF Init
    <3> QED
      BY <2>1, <3>1 DEF EarlyOne, OneNodesWork, Current
  <2> QED
    BY <2>2 DEF EarlyInv
<1> QED
  BY <1>1, CalmInductive, NextEarly

\* A calm listener's charge fits in what its tracker knows, which is all that
\* its process has charged but for what was early.
LEMMA OwnFits ==
    ASSUME TypeOK, CalmInv, EarlyInv, NEW p \in calm, RecordLocally(p)
    PROVE  /\ Within(launcher[p].work.provider, Besides(p, launcher[p].work.provider), 1)
           /\ OneNodesWork(early'[p])
<1> DEFINE v == launcher[p].work.provider
           known == Current(localUsed[p], localFresh[p])'
<1>1. /\ p \in Process /\ v \in Provider /\ launcher[p].work \in Work
      /\ localUsed[p] \in Usage /\ early[p] \in Usage /\ own[p] \in Usage
      /\ TPM[v] \in Nat /\ RPM[v] \in Nat
  BY ListenerTypes, LimitAssumption DEF TypeOK
<1>2. EarlyOne(p)'
  BY <1>1, EarlyCharge DEF EarlyInv
<1>3. /\ localUsed'[p] = Charge(localUsed[p], launcher[p].work)
      /\ early'[p] \in {early[p], Charge(early[p], launcher[p].work)}
  BY <1>1 DEF RecordLocally, TypeOK
<1>4. localUsed'[p] \in Usage /\ early'[p] \in Usage
  BY <1>1, <1>3, UsageTypes
<1>5. /\ early'[p][v].tokens \in Nat /\ early'[p][v].requests \in Nat
      /\ localUsed'[p][v].tokens \in Nat /\ localUsed'[p][v].requests \in Nat
  BY <1>1, <1>4 DEF Usage, Amount
<1>6. /\ own'[p][v].tokens = known[v].tokens + early'[p][v].tokens
      /\ own'[p][v].requests = known[v].requests + early'[p][v].requests
  BY <1>1, <1>2 DEF EarlyOne
<1>7. known = localUsed'[p] \/ known = Nothing
  BY DEF Current
<1>8. Nothing[v].tokens = 0 /\ Nothing[v].requests = 0
  BY <1>1 DEF Nothing, None
<1>9. Within(v, localUsed'[p][v], 1)
  BY CalmCharge
<1>10. 1 * TPM[v] = TPM[v] /\ 1 * RPM[v] = RPM[v]
  BY <1>1
<1>11. /\ known[v].tokens \in Nat /\ known[v].tokens <= TPM[v]
       /\ known[v].requests \in Nat /\ known[v].requests <= RPM[v]
  BY <1>1, <1>5, <1>7, <1>8, <1>9, <1>10 DEF Within
<1> HIDE DEF v, known
<1>12. Within(v, Besides(p, v), 1)
  BY <1>1, <1>5, <1>6, <1>10, <1>11 DEF Within, Besides
<1> QED
  BY <1>2, <1>12 DEF EarlyOne, OneNodesWork, v

\* And by itself no process charges more than the whole budget and one node
\* that it was early to charge, if it never reaches the backend or the backend
\* forgets.
THEOREM LocalFits == Spec => LocalTrackingWorks
<1> DEFINE Inv == TypeOK /\ BackendCountsCharges /\ CalmInv /\ EarlyInv
<1>1. Init => Inv
  BY EarlyInductive
<1>2. Inv /\ [Next]_vars => Inv'
  BY EarlyInductive
<1>3. Inv => [LocalRecordFits]_vars
  BY OwnFits DEF LocalRecordFits, Record, RecordUnheard
<1> HIDE DEF Inv
<1> QED
  BY <1>1, <1>2, <1>3, PTL DEF Spec, LocalTrackingWorks

-----------------------------------------------------------------------------
(* What a process may charge near a boundary *)

\* A part of an amount is not more than the other.
Below(x, y) == x.tokens <= y.tokens /\ x.requests <= y.requests

Limit(v) == [tokens |-> TPM[v], requests |-> RPM[v]]

Sound == ~quit /\ ~faulty

\* What p's tracker knows of what p has charged in this minute.  Before it has
\* noticed the minute it has charged one node at most, by a decision of the
\* minute before, and this is all that it forgets when it notices; after that,
\* it counts everything.
TrackerInv(p) ==
    /\ \A v \in Provider : Below(own[p][v], charged[v])
    /\ ~localFresh[p] => own[p] = Nothing \/ launcher[p].pc \in {"report", "reported"}
    /\ ~localFresh[p] /\ Sound => \A v \in Provider : Within(v, own[p][v], 1)
    /\ localFresh[p] => \A v \in Provider : Below(localUsed[p][v], own[p][v])
    /\ localFresh[p] /\ Sound =>
          \A v \in Provider : /\ Within(v, localUsed[p][v], 1)
                              /\ own[p][v].tokens <= localUsed[p][v].tokens + TPM[v]
                              /\ own[p][v].requests <= localUsed[p][v].requests + RPM[v]

\* What p's listener has read, and decided.  What the backend has left is no
\* more than what p has left, because it counts all of p's charges; so it does
\* not overrule a tracker that knows the minute and has nothing left.
DecisionInv(p) ==
    LET l == launcher[p]
        v == l.work.provider
    IN  /\ l.pc \in {"local", "merge"} =>
              /\ Below(l.shared, Limit(v))
              /\ ~faulty => Below(l.shared, NotNegative(Minus(v, own[p])))
        /\ l.pc = "merge" =>
              /\ Below(l.local, Limit(v))
              /\ localFresh[p] => l.local = Minus(v, localUsed[p])
        /\ l.pc = "record" /\ ~quit =>
              /\ Below(More(None, l.work), Limit(v))
              /\ localFresh[p] /\ ~faulty => Below(More(None, l.work), Minus(v, localUsed[p]))

OverchargeInv == \A p \in Process : TrackerInv(p) /\ DecisionInv(p)

\* What Below and Within compare are natural numbers.
LEMMA FieldTypes ==
    ASSUME TypeOK, NEW p \in Process, NEW v \in Provider
    PROVE  /\ own[p][v].tokens \in Nat /\ own[p][v].requests \in Nat
           /\ charged[v].tokens \in Nat /\ charged[v].requests \in Nat
           /\ localUsed[p][v].tokens \in Nat /\ localUsed[p][v].requests \in Nat
           /\ TPM[v] \in Nat \ {0} /\ RPM[v] \in Nat \ {0}
           /\ 1 * TPM[v] = TPM[v] /\ 1 * RPM[v] = RPM[v]
           /\ Nothing[v].tokens = 0 /\ Nothing[v].requests = 0
<1>1. TPM[v] \in Nat \ {0} /\ RPM[v] \in Nat \ {0}
  BY LimitAssumption
<1> QED
  BY <1>1 DEF TypeOK, Usage, Amount, Nothing, None

\* The invariant of a process survives steps that leave it alone.
LEMMA TrackerStays ==
    ASSUME TypeOK, NEW p \in Process, TrackerInv(p), DecisionInv(p),
           UNCHANGED <<launcher[p], localUsed[p], localFresh[p], own[p]>>,
           faulty => faulty', quit => quit',
           \A v \in Provider : Below(charged[v], charged'[v]), charged' \in Usage
    PROVE  TrackerInv(p)' /\ DecisionInv(p)'
<1>1. Sound' => Sound
  BY DEF Sound
<1>2. \A v \in Provider : Below(own'[p][v], charged'[v])
  <2>1. ASSUME NEW v \in Provider PROVE Below(own[p][v], charged'[v])
    <3>1. charged'[v].tokens \in Nat /\ charged'[v].requests \in Nat
      BY DEF Usage, Amount
    <3> QED
      BY <3>1, FieldTypes DEF TrackerInv, Below
  <2> QED
    BY <2>1
<1>3. TrackerInv(p)'
  BY <1>1, <1>2 DEF TrackerInv, Below, Within
<1>4. DecisionInv(p)'
  BY DEF DecisionInv, Below, Minus, NotNegative, More, None, Limit
<1> QED
  BY <1>3, <1>4

\* The tracker's half survives steps of the listener that change no usage,
\* unless it has finished a report.
LEMMA TrackerKept ==
    ASSUME TypeOK, NEW p \in Process, TrackerInv(p),
           UNCHANGED <<charged, localUsed[p], localFresh[p], own[p], quit>>,
           faulty => faulty',
           launcher[p].pc \in {"report", "reported"} =>
               launcher'[p].pc \in {"report", "reported"}
    PROVE  TrackerInv(p)'
<1>1. Sound' => Sound
  BY DEF Sound
<1> QED
  BY <1>1 DEF TrackerInv, Below, Within

\* A tracker that notices the minute has forgotten at most one charge, which
\* fits the budget.
LEMMA Notices ==
    ASSUME TypeOK, NEW p \in Process, TrackerInv(p), ~localFresh[p],
           localUsed'[p] = Nothing, localFresh'[p] = TRUE,
           UNCHANGED <<own[p], charged, quit, faulty>>
    PROVE  TrackerInv(p)'
<1>1. \A v \in Provider : Below(localUsed'[p][v], own'[p][v])
  BY FieldTypes DEF Below
<1>2. Sound' => \A v \in Provider :
          /\ Within(v, localUsed'[p][v], 1)
          /\ own'[p][v].tokens <= localUsed'[p][v].tokens + TPM[v]
          /\ own'[p][v].requests <= localUsed'[p][v].requests + RPM[v]
  <2> SUFFICES ASSUME Sound, NEW v \in Provider
               PROVE  /\ Within(v, localUsed'[p][v], 1)
                      /\ own[p][v].tokens <= localUsed'[p][v].tokens + TPM[v]
                      /\ own[p][v].requests <= localUsed'[p][v].requests + RPM[v]
    BY DEF Sound
  <2>1. Within(v, own[p][v], 1)
    BY DEF TrackerInv
  <2> QED
    BY <2>1, FieldTypes DEF Within
<1>3. \A v \in Provider : Below(own'[p][v], charged'[v])
  BY DEF TrackerInv, Below
<1> QED
  BY <1>1, <1>2, <1>3 DEF TrackerInv, Below, Within

\* A minute begins with nothing charged; whoever has decided by then has
\* room for one charge.
LEMMA MinuteBegins == TypeOK /\ OverchargeInv /\ NewMinute => OverchargeInv'
<1> SUFFICES ASSUME TypeOK, OverchargeInv, NewMinute, NEW p \in Process
             PROVE  TrackerInv(p)' /\ DecisionInv(p)'
  BY DEF OverchargeInv
<1>1. own'[p] = Nothing /\ localFresh'[p] = FALSE /\ charged' = Nothing /\ quit' = quit
  BY DEF NewMinute
<1>2. TrackerInv(p)'
  <2>1. \A v \in Provider : /\ Below(Nothing[v], Nothing[v])
                            /\ Within(v, Nothing[v], 1)
    BY FieldTypes DEF Below, Within
  <2> QED
    BY <1>1, <2>1 DEF TrackerInv, Below, Within
<1>3. DecisionInv(p)'
  <2> DEFINE l == launcher[p]
             v == l.work.provider
  <2>1. /\ v \in Provider /\ l \in Listener /\ DecisionInv(p)
    BY ListenerTypes DEF TypeOK, OverchargeInv
  <2>2. /\ launcher'[p].work = l.work /\ launcher'[p].shared = l.shared
        /\ launcher'[p].local = l.local
        /\ launcher'[p].pc = l.pc \/ launcher'[p].pc = "due"
    BY <2>1 DEF NewMinute, Listener
  <2>3. NotNegative(Minus(v, Nothing)) = Limit(v)
    BY <2>1, LimitAssumption DEF NotNegative, Minus, Nothing, None, Limit
  <2>4. NotNegative(Minus(v, own[p]))' = Limit(v)
    BY <1>1, <2>2, <2>3 DEF NotNegative, Minus
  <2> QED
    BY <1>1, <2>1, <2>2, <2>3 DEF DecisionInv, NotNegative, Minus, Below, Limit, More, None
<1> QED
  BY <1>2, <1>3

\* A backend that answers has left no more than what p itself has left.
LEMMA ReadDecides ==
    ASSUME TypeOK, BackendCountsCharges, NEW p \in Process, TrackerInv(p),
           ReadShared(p) \/ ReadNothing(p)
    PROVE  DecisionInv(p)'
<1> DEFINE v == launcher[p].work.provider
<1>1. v \in Provider /\ launcher[p] \in Listener
  BY ListenerTypes DEF TypeOK
<1>2. /\ launcher'[p].pc = "local" /\ launcher'[p].work = launcher[p].work
      /\ UNCHANGED own
  BY <1>1 DEF ReadShared, ReadNothing, HasRead, TypeOK, Listener
<1>3. CASE ReadShared(p)
  <2> DEFINE known == sharedUsed'[v]
  <2>1. /\ sharedUsed' = Current(sharedUsed, sharedFresh) /\ sharedUsed' \in Usage
        /\ launcher'[p].shared = NotNegative(Minus(v, sharedUsed')) /\ faulty' = faulty
    BY <1>1, <1>3, UsageTypes DEF ReadShared, HasRead, TypeOK, Listener
  <2>2. known.tokens \in Nat /\ known.requests \in Nat
    BY <1>1, <2>1 DEF Usage, Amount
  <2>3. ~faulty => own[p][v].tokens <= known.tokens /\ own[p][v].requests <= known.requests
    BY <1>1, <2>1 DEF BackendCountsCharges, TrackerInv, Below
  <2>4. /\ launcher'[p].shared.tokens =
              IF TPM[v] - known.tokens < 0 THEN 0 ELSE TPM[v] - known.tokens
        /\ launcher'[p].shared.requests =
              IF RPM[v] - known.requests < 0 THEN 0 ELSE RPM[v] - known.requests
    BY <2>1 DEF NotNegative, Minus
  <2>5. Below(launcher'[p].shared, Limit(v))
    <3> HIDE DEF known
    <3> QED
      BY <1>1, <2>2, <2>4, FieldTypes DEF Below, Limit
  <2>6. ~faulty => Below(launcher'[p].shared, NotNegative(Minus(v, own[p])))
    <3>1. /\ NotNegative(Minus(v, own[p])).tokens =
                IF TPM[v] - own[p][v].tokens < 0 THEN 0 ELSE TPM[v] - own[p][v].tokens
          /\ NotNegative(Minus(v, own[p])).requests =
                IF RPM[v] - own[p][v].requests < 0 THEN 0 ELSE RPM[v] - own[p][v].requests
      BY DEF NotNegative, Minus
    <3> HIDE DEF known
    <3> QED
      BY <1>1, <2>2, <2>3, <2>4, <3>1, FieldTypes DEF Below
  <2> QED
    BY <1>2, <2>1, <2>5, <2>6 DEF DecisionInv, Below, Limit, NotNegative, Minus
<1>4. CASE ReadNothing(p)
  <2>1. launcher'[p].shared = Minus(v, Nothing) /\ faulty'
    BY <1>1, <1>4 DEF ReadNothing, HasRead, TypeOK, Listener
  <2>2. Below(launcher'[p].shared, Limit(v))
    BY <1>1, <2>1, FieldTypes DEF Below, Limit, Minus
  <2> QED
    BY <1>2, <2>1, <2>2 DEF DecisionInv, Below, Limit
<1> QED
  BY <1>3, <1>4

\* Each part of what a listener goes by is one of its two budgets, and is the
\* backend's when its own is larger only if its own is spent.
LEMMA AvailableParts ==
    ASSUME NEW b, b.shared \in Amount, b.local \in Budget, NEW f \in {"tokens", "requests"}
    PROVE  /\ b.shared[f] \in Nat /\ b.local[f] \in Int /\ Available(b)[f] \in Int
           /\ Available(b)[f] \in {b.shared[f], b.local[f]}
           /\ \/ Available(b)[f] <= b.local[f]
              \/ b.local[f] = 0 /\ b.shared[f] > 0
<1>1. b.shared[f] \in Nat /\ b.local[f] \in Int
  BY DEF Amount, Budget
<1>2. Available(b)[f] = IF phase = "middle" THEN Smaller(b.shared[f], b.local[f])
                                           ELSE Lenient(b.shared[f], b.local[f])
  BY DEF Available
<1> QED
  BY <1>1, <1>2 DEF Smaller, Lenient

\* A listener that decides to launch has room in its tracker, if that knows
\* the minute.
LEMMA MergeDecides ==
    ASSUME TypeOK, NEW p \in Process, TrackerInv(p), DecisionInv(p), Merge(p)
    PROVE  DecisionInv(p)'
<1> DEFINE b == launcher[p]
           v == b.work.provider
           mine == Minus(v, localUsed[p])
<1>1. /\ b \in Listener /\ v \in Provider /\ b.work.tokens \in Nat
      /\ b.shared \in Amount /\ b.local \in Budget
  BY ListenerTypes DEF TypeOK
<1>2. /\ launcher'[p].work = b.work /\ launcher'[p].pc \in {"record", "wait"}
      /\ launcher'[p].pc = "record" =>
            b.work.tokens <= Available(b).tokens /\ 1 <= Available(b).requests
      /\ b.pc = "merge" /\ UNCHANGED <<localUsed, localFresh, faulty>>
  <2>1. Available(b).tokens \in Int /\ Available(b).requests \in Int
    BY <1>1, AvailableParts
  <2>2. launcher[p] \in Listener /\ launcher \in [Process -> Listener]
    BY DEF TypeOK
  <2> QED
    BY <1>1, <2>1, <2>2 DEF Merge, Listener, localVars
<1>3. /\ Below(b.shared, Limit(v)) /\ Below(b.local, Limit(v))
      /\ ~faulty => Below(b.shared, NotNegative(Minus(v, own[p])))
      /\ localFresh[p] => b.local = mine
  BY <1>2 DEF DecisionInv
<1>4. ASSUME launcher'[p].pc = "record"
      PROVE  /\ Below(More(None, b.work), Limit(v))
             /\ localFresh[p] /\ ~faulty => Below(More(None, b.work), mine)
  <2> DEFINE need == More(None, b.work)
  <2>1. need.tokens = b.work.tokens /\ need.requests = 1
    BY <1>1 DEF More, None
  <2>2. /\ TPM[v] \in Nat /\ RPM[v] \in Nat
        /\ b.shared.tokens <= TPM[v] /\ b.shared.requests <= RPM[v]
        /\ b.local.tokens <= TPM[v] /\ b.local.requests <= RPM[v]
    BY <1>1, <1>3, LimitAssumption DEF Below, Limit
  <2>3. /\ \/ Available(b).tokens <= b.local.tokens
           \/ b.local.tokens = 0 /\ b.shared.tokens > 0
        /\ \/ Available(b).requests <= b.local.requests
           \/ b.local.requests = 0 /\ b.shared.requests > 0
        /\ Available(b).tokens \in {b.shared.tokens, b.local.tokens}
        /\ Available(b).requests \in {b.shared.requests, b.local.requests}
        /\ b.shared.tokens \in Int /\ b.local.tokens \in Int /\ Available(b).tokens \in Int
        /\ b.shared.requests \in Int /\ b.local.requests \in Int
        /\ Available(b).requests \in Int
    BY <1>1, AvailableParts
  <2>4. b.work.tokens <= Available(b).tokens /\ 1 <= Available(b).requests
    BY <1>2, <1>4
  <2>5. Below(need, Limit(v))
    <3> HIDE DEF b
    <3> QED
      BY <1>1, <2>1, <2>2, <2>3, <2>4 DEF Below, Limit
  <2>6. ASSUME localFresh[p], ~faulty PROVE Below(need, mine)
    <3>1. /\ b.local.tokens = TPM[v] - localUsed[p][v].tokens
          /\ b.local.requests = RPM[v] - localUsed[p][v].requests
      BY <1>3, <2>6 DEF Minus
    <3>2. /\ b.shared.tokens <= (IF TPM[v] - own[p][v].tokens < 0 THEN 0
                                 ELSE TPM[v] - own[p][v].tokens)
          /\ b.shared.requests <= (IF RPM[v] - own[p][v].requests < 0 THEN 0
                                   ELSE RPM[v] - own[p][v].requests)
      BY <1>3, <2>6 DEF Below, NotNegative, Minus
    <3>3. /\ localUsed[p][v].tokens <= own[p][v].tokens
          /\ localUsed[p][v].requests <= own[p][v].requests
          /\ localUsed[p][v].tokens \in Nat /\ localUsed[p][v].requests \in Nat
          /\ own[p][v].tokens \in Nat /\ own[p][v].requests \in Nat
      BY <1>1, <2>6, FieldTypes DEF TrackerInv, Below
    <3>4. ~(b.local.tokens = 0 /\ b.shared.tokens > 0)
      <4> HIDE DEF b
      <4> QED
        BY <2>2, <2>3, <3>1, <3>2, <3>3
    <3>5. ~(b.local.requests = 0 /\ b.shared.requests > 0)
      <4> HIDE DEF b
      <4> QED
        BY <2>2, <2>3, <3>1, <3>2, <3>3
    <3>6. b.work.tokens <= b.local.tokens /\ 1 <= b.local.requests
      <4> HIDE DEF b
      <4> QED
        BY <1>1, <2>3, <2>4, <3>4, <3>5
    <3>7. mine = b.local
      BY <1>3, <2>6
    <3> QED
      BY <2>1, <3>6, <3>7 DEF Below
  <2> QED
    BY <2>5, <2>6
<1> QED
  BY <1>2, <1>4 DEF DecisionInv, Below, Limit, More, None, Minus

\* A charge adds the same to what a process has charged and to what its
\* tracker counts; if the tracker does not know the minute it is the first.
LEMMA RecordKeeps ==
    ASSUME TypeOK, TypeOK', NEW p \in Process, TrackerInv(p), DecisionInv(p),
           RecordLocally(p), faulty => faulty'
    PROVE  TrackerInv(p)'
<1> DEFINE work == launcher[p].work
           w == work.provider
<1>1. /\ launcher[p] \in Listener /\ w \in Provider /\ work \in Work /\ work.tokens \in Nat \ {0}
      /\ charged \in Usage /\ own[p] \in Usage /\ localUsed[p] \in Usage
  BY ListenerTypes DEF TypeOK
<1>2. /\ charged' = Charge(charged, work) /\ own'[p] = Charge(own[p], work)
      /\ localUsed'[p] = Charge(localUsed[p], work)
      /\ UNCHANGED <<localFresh, quit>> /\ launcher[p].pc = "record"
      /\ launcher'[p].pc = "report"
  BY DEF RecordLocally, Go, TypeOK, clockVars, Listener
<1>3. Sound' => Sound /\ ~quit /\ ~faulty
  BY <1>2 DEF Sound
<1>4. ASSUME NEW v \in Provider
      PROVE  \E t \in Nat, r \in Nat :
                /\ own'[p][v].tokens = own[p][v].tokens + t
                /\ own'[p][v].requests = own[p][v].requests + r
                /\ charged'[v].tokens = charged[v].tokens + t
                /\ charged'[v].requests = charged[v].requests + r
                /\ localUsed'[p][v].tokens = localUsed[p][v].tokens + t
                /\ localUsed'[p][v].requests = localUsed[p][v].requests + r
                /\ v # w => t = 0 /\ r = 0
                /\ v = w => t = work.tokens /\ r = 1
  <2> DEFINE t == IF v = w THEN work.tokens ELSE 0
             r == IF v = w THEN 1 ELSE 0
  <2>1. t \in Nat /\ r \in Nat
    BY <1>1
  <2> QED
    BY <1>1, <1>2, <2>1, ChargeAdds
<1>5. ASSUME NEW v \in Provider
      PROVE  /\ Below(own'[p][v], charged'[v])
             /\ localFresh[p] => Below(localUsed'[p][v], own'[p][v])
  <2>1. PICK t \in Nat, r \in Nat :
          /\ own'[p][v].tokens = own[p][v].tokens + t
          /\ own'[p][v].requests = own[p][v].requests + r
          /\ charged'[v].tokens = charged[v].tokens + t
          /\ charged'[v].requests = charged[v].requests + r
          /\ localUsed'[p][v].tokens = localUsed[p][v].tokens + t
          /\ localUsed'[p][v].requests = localUsed[p][v].requests + r
    BY <1>4
  <2> QED
    BY <2>1, FieldTypes DEF TrackerInv, Below
<1>6. ASSUME Sound', ~localFresh[p], NEW v \in Provider PROVE Within(v, own'[p][v], 1)
  <2>1. PICK t \in Nat, r \in Nat :
          /\ own'[p][v].tokens = own[p][v].tokens + t
          /\ own'[p][v].requests = own[p][v].requests + r
          /\ v # w => t = 0 /\ r = 0
          /\ v = w => t = work.tokens /\ r = 1
    BY <1>4
  <2>2. own[p][v].tokens = 0 /\ own[p][v].requests = 0
    BY <1>2, <1>6, FieldTypes DEF TrackerInv
  <2>3. work.tokens <= TPM[w] /\ 1 <= RPM[w]
    BY <1>1, <1>2, <1>3, <1>6 DEF DecisionInv, Below, Limit, More, None
  <2>4. own'[p][v].tokens <= TPM[v] /\ own'[p][v].requests <= RPM[v]
    <3> HIDE DEF work
    <3>1. CASE v = w
      BY <1>1, <2>1, <2>2, <2>3, <3>1, FieldTypes
    <3>2. CASE v # w
      BY <1>1, <2>1, <2>2, <3>2, FieldTypes
    <3> QED
      BY <3>1, <3>2
  <2> QED
    BY <2>4, FieldTypes DEF Within
<1>7. ASSUME Sound', localFresh[p], NEW v \in Provider
      PROVE  /\ Within(v, localUsed'[p][v], 1)
             /\ own'[p][v].tokens <= localUsed'[p][v].tokens + TPM[v]
             /\ own'[p][v].requests <= localUsed'[p][v].requests + RPM[v]
  <2>1. PICK t \in Nat, r \in Nat :
          /\ own'[p][v].tokens = own[p][v].tokens + t
          /\ own'[p][v].requests = own[p][v].requests + r
          /\ localUsed'[p][v].tokens = localUsed[p][v].tokens + t
          /\ localUsed'[p][v].requests = localUsed[p][v].requests + r
          /\ v # w => t = 0 /\ r = 0
          /\ v = w => t = work.tokens /\ r = 1
    BY <1>4
  <2>2. /\ Within(v, localUsed[p][v], 1)
        /\ own[p][v].tokens <= localUsed[p][v].tokens + TPM[v]
        /\ own[p][v].requests <= localUsed[p][v].requests + RPM[v]
    BY <1>3, <1>7 DEF TrackerInv
  <2>3. /\ work.tokens <= TPM[w] - localUsed[p][w].tokens
        /\ 1 <= RPM[w] - localUsed[p][w].requests
    BY <1>1, <1>2, <1>3, <1>7 DEF DecisionInv, Below, Minus, More, None
  <2>4. localUsed'[p][v].tokens <= TPM[v] /\ localUsed'[p][v].requests <= RPM[v]
    BY <1>1, <2>1, <2>2, <2>3, FieldTypes DEF Within
  <2>5. /\ own'[p][v].tokens <= localUsed'[p][v].tokens + TPM[v]
        /\ own'[p][v].requests <= localUsed'[p][v].requests + RPM[v]
    BY <2>1, <2>2, FieldTypes
  <2> QED
    BY <2>4, <2>5, FieldTypes DEF Within
<1> QED
  BY <1>2, <1>5, <1>6, <1>7 DEF TrackerInv, Below, Within

\* Every step keeps what the processes' trackers know of their charges.
LEMMA NextOvercharge ==
    TypeOK /\ BackendCountsCharges /\ OverchargeInv /\ [Next]_vars => OverchargeInv'
<1> SUFFICES ASSUME TypeOK, BackendCountsCharges, OverchargeInv, [Next]_vars
             PROVE  OverchargeInv'
  OBVIOUS
<1> USE DEF clockVars, sharedVars, localVars, historyVars
<1>0. /\ TypeOK' /\ charged' \in Usage
      /\ \A p \in Process : TrackerInv(p) /\ DecisionInv(p) /\ launcher[p] \in Listener
      /\ \A v \in Provider : Below(charged[v], charged[v])
  <2>1. TypeOK'
    BY NextTyped
  <2>2. ASSUME NEW v \in Provider PROVE Below(charged[v], charged[v])
    BY DEF TypeOK, Usage, Amount, Below
  <2> QED
    BY <2>1, <2>2 DEF TypeOK, OverchargeInv
<1>1. CASE NewMinute
  BY <1>1, MinuteBegins
<1>2. CASE NextPhase \/ Stop \/ Restart \/ UNCHANGED vars
  <2>1. /\ UNCHANGED <<launcher, localUsed, localFresh, own, charged>>
        /\ (faulty => faulty') /\ (quit => quit')
    BY <1>2 DEF NextPhase, Stop, Restart, vars
  <2> QED
    BY <1>0, <2>1, TrackerStays DEF OverchargeInv
<1>3. ASSUME NEW p \in Process, Launch(p) \/ Cycle(p) PROVE OverchargeInv'
  <2>1. ASSUME NEW q \in Process, q # p PROVE TrackerInv(q)' /\ DecisionInv(q)'
    <3>1. /\ UNCHANGED <<launcher[q], localUsed[q], localFresh[q], own[q]>>
          /\ (faulty => faulty') /\ (quit => quit')
      BY <1>3, <2>1 DEF Launch, Cycle, Pop, ReadShared, ReadNothing, ReadLocal, Merge, Wait,
           Wake, WaitQuit, Record, RecordUnheard, RecordLocally, ReportShared, ReportLocal,
           Exit, Go, HasRead, Forget, TypeOK
    <3>2. charged' = charged \/ charged' = Charge(charged, launcher[p].work)
      BY <1>3 DEF Launch, Cycle, Pop, ReadShared, ReadNothing, ReadLocal, Merge, Wait,
           Wake, WaitQuit, Record, RecordUnheard, RecordLocally, ReportShared, ReportLocal,
           Exit
    <3>3. \A v \in Provider : Below(charged[v], charged'[v])
      <4>1. launcher[p].work \in Work /\ charged \in Usage
        BY <1>0, ListenerTypes DEF TypeOK
      <4>2. ASSUME NEW v \in Provider
            PROVE  Below(charged[v], Charge(charged, launcher[p].work)[v])
        BY <4>1, ChargeAdds DEF Below
      <4> QED
        BY <1>0, <3>2, <4>2
    <3> QED
      BY <1>0, <3>1, <3>3, TrackerStays
  <2>2. TrackerInv(p)' /\ DecisionInv(p)'
    <3>1. CASE ReadShared(p) \/ ReadNothing(p)
      <4>1. TrackerInv(p)'
        BY <1>0, <3>1, TrackerKept DEF ReadShared, ReadNothing
      <4> QED
        BY <1>0, <3>1, <4>1, ReadDecides
    <3>2. CASE Merge(p)
      <4>1. TrackerInv(p)'
        BY <1>0, <3>2, TrackerKept DEF Merge
      <4> QED
        BY <1>0, <3>2, <4>1, MergeDecides
    <3>3. CASE Record(p) \/ RecordUnheard(p)
      <4>1. RecordLocally(p) /\ (faulty => faulty')
        BY <3>3 DEF Record, RecordUnheard
      <4>2. launcher'[p].pc = "report"
        BY <1>0, <4>1 DEF RecordLocally, Go, TypeOK, Listener
      <4> QED
        BY <1>0, <4>1, <4>2, RecordKeeps DEF DecisionInv
    <3>4. CASE Pop(p) \/ Wait(p) \/ Wake(p) \/ WaitQuit(p) \/ Exit(p) \/ ReportShared(p)
      <4>1. launcher'[p].pc \notin {"local", "merge"} /\ (launcher'[p].pc = "record" => quit')
        BY <1>0, <3>4 DEF Pop, Wait, Wake, WaitQuit, Exit, ReportShared, Go, TypeOK, Listener
      <4>2. TrackerInv(p)'
        <5>1. launcher[p].pc \in {"report", "reported"} => launcher'[p].pc = "reported"
          BY <1>0, <3>4 DEF Pop, Wait, Wake, WaitQuit, Exit, ReportShared, Go, TypeOK, Listener
        <5> QED
          BY <1>0, <3>4, <5>1, TrackerKept DEF Pop, Wait, Wake, WaitQuit, Exit, ReportShared
      <4> QED
        BY <4>1, <4>2 DEF DecisionInv
    <3>5. CASE ReadLocal(p) \/ ReportLocal(p)
      <4>1. /\ localUsed'[p] = Current(localUsed[p], localFresh[p]) /\ localFresh'[p] = TRUE
            /\ UNCHANGED <<own, charged, quit, faulty>>
        BY <3>5 DEF ReadLocal, ReportLocal, TypeOK
      <4>2. TrackerInv(p)'
        <5>1. CASE localFresh[p]
          <6>1. localUsed'[p] = localUsed[p] /\ localFresh'[p] = localFresh[p]
            BY <4>1, <5>1 DEF Current, TypeOK
          <6> QED
            BY <1>0, <4>1, <5>1, <6>1 DEF TrackerInv, Below, Within, Sound
        <5>2. CASE ~localFresh[p]
          BY <1>0, <4>1, <5>2, Notices DEF Current
        <5> QED
          BY <5>1, <5>2
      <4>3. DecisionInv(p)'
        <5>1. CASE ReportLocal(p)
          BY <1>0, <5>1 DEF DecisionInv, ReportLocal, Go, TypeOK, Listener
        <5>2. CASE ReadLocal(p)
          <6> DEFINE v == launcher[p].work.provider
                     mine == Minus(v, localUsed'[p])
          <6>1. v \in Provider /\ launcher[p].pc = "local"
            BY <1>0, <5>2, ListenerTypes DEF ReadLocal
          <6>2. /\ launcher'[p].pc = "merge" /\ launcher'[p].work = launcher[p].work
                /\ launcher'[p].shared = launcher[p].shared
                /\ launcher'[p].local = mine
            <7> HIDE DEF mine
            <7>1. launcher' = [launcher EXCEPT ![p].pc = "merge", ![p].local = mine]
              BY <5>2 DEF ReadLocal, mine
            <7> QED
              BY <1>0, <7>1 DEF TypeOK, Listener
          <6>3. /\ localUsed'[p][v].tokens \in Nat /\ localUsed'[p][v].requests \in Nat
            BY <1>0, <6>1 DEF TypeOK, Usage, Amount
          <6>4. Below(mine, Limit(v))
            BY <6>1, <6>3, FieldTypes DEF Below, Minus, Limit
          <6>5. /\ Below(launcher[p].shared, Limit(v))
                /\ ~faulty => Below(launcher[p].shared, NotNegative(Minus(v, own[p])))
            BY <1>0, <6>1 DEF DecisionInv
          <6> QED
            BY <4>1, <6>2, <6>4, <6>5 DEF DecisionInv, Below, Limit, NotNegative, Minus
        <5> QED
          BY <3>5, <5>1, <5>2
      <4> QED
        BY <4>2, <4>3
    <3>6. CASE Cycle(p)
      <4>1. /\ localUsed'[p] = Nothing /\ localFresh'[p] = TRUE /\ ~localFresh[p]
            /\ UNCHANGED <<own, charged, quit, faulty, launcher>> /\ launcher[p].pc # "merge"
        BY <3>6 DEF Cycle, TypeOK
      <4>2. TrackerInv(p)'
        BY <1>0, <4>1, Notices
      <4>3. DecisionInv(p)'
        <5> DEFINE v == launcher[p].work.provider
        <5>1. v \in Provider
          BY <1>0, ListenerTypes
        <5>2. Minus(v, Nothing) = Limit(v)
          BY <5>1, LimitAssumption DEF Minus, Nothing, None, Limit
        <5> QED
          BY <1>0, <4>1, <5>2 DEF DecisionInv, Below, Limit, NotNegative, Minus, More, None
      <4> QED
        BY <4>2, <4>3
    <3> QED
      BY <1>3, <3>1, <3>2, <3>3, <3>4, <3>5, <3>6 DEF Launch
  <2> QED
    BY <2>1, <2>2 DEF OverchargeInv
<1> QED
  BY <1>1, <1>2, <1>3 DEF Next, Tick

\* Nothing has been charged at first.
LEMMA InitOvercharge == Init => OverchargeInv
<1> SUFFICES ASSUME Init, NEW p \in Process PROVE TrackerInv(p) /\ DecisionInv(p)
  BY DEF OverchargeInv
<1>1. TypeOK
  BY InitTyped
<1>2. own[p] = Nothing /\ localUsed[p] = Nothing /\ localFresh[p] = TRUE /\ charged = Nothing
  BY DEF Init
<1>3. launcher[p].pc = "idle"
  BY DEF Init
<1>4. \A v \in Provider : /\ Below(Nothing[v], Nothing[v]) /\ Within(v, Nothing[v], 1)
                          /\ Nothing[v].tokens <= Nothing[v].tokens + TPM[v]
                          /\ Nothing[v].requests <= Nothing[v].requests + RPM[v]
  BY <1>1, FieldTypes DEF Below, Within
<1> QED
  BY <1>2, <1>3, <1>4 DEF TrackerInv, DecisionInv

\* While the backend answers and knows, no process charges a minute with more
\* than twice its budget, whatever the two sides make of the minute's
\* boundaries: its tracker forgets one charge at most, and counts no more than
\* the budget from then on.
THEOREM OverchargeBounded == Spec => []OverchargeIsBounded
<1> DEFINE Inv == TypeOK /\ BackendCountsCharges /\ OverchargeInv
<1>1. Init => Inv
  BY InitTyped, InitOvercharge
<1>2. Inv /\ [Next]_vars => Inv'
  BY NextTyped, NextCounts, NextOvercharge
<1>3. Inv => OverchargeIsBounded
  <2> SUFFICES ASSUME Inv, Sound, NEW p \in Process, NEW v \in Provider
               PROVE  Within(v, own[p][v], 2)
    BY DEF OverchargeIsBounded, Sound
  <2>1. TrackerInv(p) /\ localFresh[p] \in BOOLEAN
    BY DEF OverchargeInv, TypeOK
  <2>2. own[p][v].tokens <= TPM[v] + TPM[v] /\ own[p][v].requests <= RPM[v] + RPM[v]
    BY <2>1, FieldTypes DEF TrackerInv, Within
  <2>3. 2 * TPM[v] = TPM[v] + TPM[v] /\ 2 * RPM[v] = RPM[v] + RPM[v]
    BY FieldTypes
  <2> QED
    BY <2>2, <2>3 DEF Within
<1> HIDE DEF Inv
<1> QED
  BY <1>1, <1>2, <1>3, PTL DEF Spec
=============================================================================
