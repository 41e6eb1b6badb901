-------------------------- MODULE ConsumptionTracker --------------------------
(***************************************************************************)
(* The per-minute budgets: the launchpad listener's wait for budget, the   *)
(* consumption tracker of its process, and the rate limit backend behind   *)
(* it.  The memory backend belongs to one process and answers every call;  *)
(* the one on a Unix socket is shared, may leave calls unanswered, and may *)
(* lose what it knows.                                                     *)
(*                                                                         *)
(* Tracker and backend each keep the usage of the minute they have last    *)
(* looked at the clock in, and notice a new minute at different moments.   *)
(* The clock is modelled by the phase of the current minute and, for each  *)
(* of them, by whether the minute it keeps is the current one.             *)
(***************************************************************************)
EXTENDS Integers

CONSTANTS
    Process,
    Remote,      \* the processes whose calls of the backend may go unanswered
    Provider,
    Work,        \* what may come off a priority queue: [provider, tokens]
    TPM, RPM,    \* the tokens and the requests a minute allows, by provider
    MaxRequests  \* bound on the requests charged in one minute

ASSUME WorkAssumption == Work \subseteq [provider : Provider, tokens : Nat \ {0}]
ASSUME RemoteAssumption == Remote \subseteq Process
ASSUME LimitAssumption == TPM \in [Provider -> Nat \ {0}] /\ RPM \in [Provider -> Nat \ {0}]
ASSUME MaxRequestsAssumption == MaxRequests \in Nat

VARIABLES
    phase,        \* within two seconds of the minute's start, of its end, or neither
    sharedUsed, sharedFresh,   \* the backend's state and minute
    localUsed, localFresh,     \* current and currentMinute of each tracker
    launcher,     \* each process's launchpad listener
    quit,
    charged, own, \* history: the usage recorded in the current minute, in all and by each
    early,        \* history: of these, the usage recorded by each in its tracker's last minute
    faulty,       \* history: a call has gone unanswered in it, or usage been lost
    calm,         \* history: listeners that got their budget with no boundary near
    unseen        \* history: for these, what is charged that their budget leaves out

clockVars   == <<phase, quit>>
sharedVars  == <<sharedUsed, sharedFresh>>
localVars   == <<localUsed, localFresh>>
historyVars == <<charged, own, early, faulty, calm, unseen>>
vars        == <<clockVars, sharedVars, localVars, launcher, historyVars>>

Phase == {"start", "middle", "end"}

Amount  == [tokens : Nat, requests : Nat]
Usage   == [Provider -> Amount]
Budget == [tokens : Int, requests : Int]

None    == [tokens |-> 0, requests |-> 0]
Nothing == [v \in Provider |-> None]

Point == {"idle", "shared", "local", "merge", "wait", "sleep", "due", "record", "report",
          "reported", "exited"}

Listener == [pc : Point, work : Work, shared : Amount, local : Budget]

TypeOK ==
    /\ phase \in Phase
    /\ sharedUsed \in Usage /\ charged \in Usage
    /\ localUsed \in [Process -> Usage]
    /\ sharedFresh \in BOOLEAN /\ localFresh \in [Process -> BOOLEAN]
    /\ launcher \in [Process -> Listener]
    /\ quit \in BOOLEAN
    /\ own \in [Process -> Usage] /\ early \in [Process -> Usage]
    /\ faulty \in BOOLEAN
    /\ calm \subseteq Process
    /\ unseen \in [Process -> Amount]

Init ==
    /\ phase \in Phase
    /\ sharedUsed = Nothing /\ sharedFresh = TRUE
    /\ localUsed = [p \in Process |-> Nothing] /\ localFresh = [p \in Process |-> TRUE]
    /\ \E work \in Work :
          launcher = [p \in Process |->
              [pc |-> "idle", work |-> work, shared |-> None, local |-> None]]
    /\ quit = FALSE
    /\ charged = Nothing /\ own = [p \in Process |-> Nothing] /\ faulty = FALSE
    /\ early = [p \in Process |-> Nothing]
    /\ calm = {} /\ unseen = [p \in Process |-> None]

-----------------------------------------------------------------------------
(* The clock *)

\* Whoever sleeps until the next minute is due.
NewMinute ==
    /\ phase = "end"
    /\ phase' = "start"
    /\ sharedFresh' = FALSE
    /\ localFresh' = [p \in Process |-> FALSE]
    /\ launcher' = [p \in Process |->
          IF launcher[p].pc = "sleep" THEN [launcher[p] EXCEPT !.pc = "due"] ELSE launcher[p]]
    /\ charged' = Nothing /\ own' = [p \in Process |-> Nothing] /\ faulty' = FALSE
    /\ early' = [p \in Process |-> Nothing]
    /\ calm' = {} /\ unseen' = [p \in Process |-> None]
    /\ UNCHANGED <<sharedUsed, localUsed, quit>>

NextPhase ==
    /\ phase # "end"
    /\ phase' = IF phase = "start" THEN "middle" ELSE "end"
    /\ calm' = {} /\ unseen' = [p \in Process |-> None]
    /\ UNCHANGED <<sharedVars, localVars, launcher, quit, charged, own, early, faulty>>

Tick == NewMinute \/ NextPhase

-----------------------------------------------------------------------------
(* Reading budgets *)

\* Both sides forget their usage when they find that the minute has changed.
Current(used, fresh) == IF fresh THEN used ELSE Nothing

Minus(v, used) == [tokens   |-> TPM[v] - used[v].tokens,
                   requests |-> RPM[v] - used[v].requests]

\* (faulty) What is left may be less than nothing.
MaybeNegative(budget) == budget

NotNegative(budget) == [f \in DOMAIN budget |-> IF budget[f] < 0 THEN 0 ELSE budget[f]]

Smaller(x, y) == IF y < x THEN y ELSE x

\* Near a boundary one side may have reset and the other not: a side that
\* has nothing left is overruled.
Lenient(shared, local) ==
    IF shared = 0 /\ local > 0 THEN local
    ELSE IF local = 0 /\ shared > 0 THEN shared
    ELSE Smaller(shared, local)

\* (faulty) The leniency all the time.
AlwaysLenient(b) ==
    [f \in {"tokens", "requests"} |-> Lenient(b.shared[f], b.local[f])]

Available(b) ==
    [f \in {"tokens", "requests"} |->
        IF phase = "middle" THEN Smaller(b.shared[f], b.local[f])
                            ELSE Lenient(b.shared[f], b.local[f])]

-----------------------------------------------------------------------------
(* The launchpad listener, from a node it has popped to its dispatch *)

Go(p, pc) == launcher' = [launcher EXCEPT ![p].pc = pc]

\* The history of a listener whose budget no longer counts.
Forget(p) == calm' = calm \ {p} /\ unseen' = [unseen EXCEPT ![p] = None]

Pop(p) ==
    /\ launcher[p].pc = "idle"
    /\ \E work \in Work :
          /\ charged[work.provider].requests < MaxRequests
          /\ launcher' = [launcher EXCEPT ![p].pc = "shared", ![p].work = work]
    /\ UNCHANGED <<clockVars, sharedVars, localVars, historyVars>>

\* A listener has read what the backend has left, of which it knows that
\* much is used.
HasRead(p, budget, known) ==
    LET used == charged[launcher[p].work.provider]
    IN  /\ launcher' = [launcher EXCEPT ![p].pc = "local", ![p].shared = budget]
        /\ IF phase = "middle"
           THEN /\ calm' = calm \cup {p}
                /\ unseen' = [unseen EXCEPT ![p] =
                      [f \in {"tokens", "requests"} |-> used[f] - known[f]]]
           ELSE UNCHANGED <<calm, unseen>>

\* Backend.BudgetAvailable.
ReadShared(p) ==
    LET v == launcher[p].work.provider
    IN  /\ launcher[p].pc = "shared"
        /\ sharedUsed' = Current(sharedUsed, sharedFresh)
        /\ sharedFresh' = TRUE
        /\ HasRead(p, NotNegative(Minus(v, sharedUsed')), sharedUsed'[v])
        /\ UNCHANGED <<clockVars, localVars, charged, own, early, faulty>>

\* A call that gets no answer stands for the full budget.
ReadNothing(p) ==
    /\ p \in Remote
    /\ launcher[p].pc = "shared"
    /\ HasRead(p, Minus(launcher[p].work.provider, Nothing), None)
    /\ faulty' = TRUE
    /\ UNCHANGED <<clockVars, sharedVars, localVars, charged, own, early>>

\* The tracker's own minute and budget, under its mutex, ...
ReadLocal(p) ==
    /\ launcher[p].pc = "local"
    /\ localUsed' = [localUsed EXCEPT ![p] = Current(@, localFresh[p])]
    /\ localFresh' = [localFresh EXCEPT ![p] = TRUE]
    /\ launcher' = [launcher EXCEPT
          ![p].pc = "merge",
          ![p].local = Minus(launcher[p].work.provider, localUsed'[p])]
    /\ UNCHANGED <<clockVars, sharedVars, historyVars>>

\* ... and a second look at the clock, for the phase, before it is released.
Merge(p) ==
    LET budget == Available(launcher[p])
        enough == budget.tokens >= launcher[p].work.tokens /\ budget.requests >= 1
    IN  /\ launcher[p].pc = "merge"
        /\ launcher' = [launcher EXCEPT ![p].pc = IF enough THEN "record" ELSE "wait",
                                       ![p].shared = None, ![p].local = None]
        /\ IF enough THEN UNCHANGED <<calm, unseen>> ELSE Forget(p)
        /\ UNCHANGED <<clockVars, sharedVars, localVars, charged, own, early, faulty>>

\* TimeUntilReset: up to the next minute, and a millisecond at most.
Wait(p) ==
    /\ launcher[p].pc = "wait"
    /\ Go(p, "sleep")
    /\ UNCHANGED <<clockVars, sharedVars, localVars, historyVars>>

\* (faulty) Gives up after the wait for budget.
WakeToExit(p) ==
    /\ launcher[p].pc = "due"
    /\ Go(p, "exited")
    /\ UNCHANGED <<clockVars, sharedVars, localVars, historyVars>>

Wake(p) ==
    /\ launcher[p].pc = "due"
    /\ Go(p, "shared")
    /\ UNCHANGED <<clockVars, sharedVars, localVars, historyVars>>

\* A quit during the wait leaves the loop, and the node is dispatched.
WaitQuit(p) ==
    /\ launcher[p].pc \in {"sleep", "due"}
    /\ quit
    /\ Go(p, "record")
    /\ UNCHANGED <<clockVars, sharedVars, localVars, historyVars>>

More(amount, work) ==
    [tokens |-> amount.tokens + work.tokens, requests |-> amount.requests + 1]

Charge(used, work) == [used EXCEPT ![work.provider] = More(@, work)]

\* (faulty) A backend that does not look at the clock when it records.
RecordedStale(work) == Charge(sharedUsed, work)

Recorded(work) == Charge(Current(sharedUsed, sharedFresh), work)

\* RecordConsumption: the tracker adds to the minute it has, whichever that
\* is.  The others do not see the charge in the budgets they have read.
RecordLocally(p) ==
    LET work == launcher[p].work
    IN  /\ launcher[p].pc = "record"
        /\ localUsed' = [localUsed EXCEPT ![p] = Charge(@, work)]
        /\ charged' = Charge(charged, work)
        /\ own' = [own EXCEPT ![p] = Charge(@, work)]
        /\ early' = IF localFresh[p] THEN early ELSE [early EXCEPT ![p] = Charge(@, work)]
        /\ Go(p, "report")
        /\ calm' = calm \ {p}
        /\ unseen' = [q \in Process |->
              IF q \notin calm \ {p} THEN None
              ELSE IF launcher[q].work.provider = work.provider THEN More(unseen[q], work)
              ELSE unseen[q]]
        /\ UNCHANGED <<clockVars, localFresh>>

\* The backend looks at the clock first.
Record(p) ==
    /\ RecordLocally(p)
    /\ sharedUsed' = Recorded(launcher[p].work)
    /\ sharedFresh' = TRUE
    /\ UNCHANGED faulty

\* A call that gets no answer and was not obeyed either: nobody is told.
RecordUnheard(p) ==
    /\ p \in Remote
    /\ RecordLocally(p)
    /\ faulty' = TRUE
    /\ UNCHANGED sharedVars

\* The listener reads both budgets once more, for the events it emits; either
\* side may find that the minute has changed.
ReportShared(p) ==
    /\ launcher[p].pc = "report"
    /\ sharedUsed' = Current(sharedUsed, sharedFresh)
    /\ sharedFresh' = TRUE
    /\ Go(p, "reported")
    /\ UNCHANGED <<clockVars, localVars, historyVars>>

ReportLocal(p) ==
    /\ launcher[p].pc = "reported"
    /\ localUsed' = [localUsed EXCEPT ![p] = Current(@, localFresh[p])]
    /\ localFresh' = [localFresh EXCEPT ![p] = TRUE]
    /\ Go(p, "idle")
    /\ UNCHANGED <<clockVars, sharedVars, historyVars>>

Exit(p) ==
    /\ launcher[p].pc = "idle"
    /\ quit
    /\ Go(p, "exited")
    /\ UNCHANGED <<clockVars, sharedVars, localVars, historyVars>>

Launch(p) ==
    \/ Pop(p) \/ ReadShared(p) \/ ReadNothing(p) \/ ReadLocal(p) \/ Merge(p)
    \/ Wait(p) \/ Wake(p) \/ WaitQuit(p) \/ Record(p) \/ RecordUnheard(p)
    \/ ReportShared(p) \/ ReportLocal(p) \/ Exit(p)

\* (faulty) A timer that fires late, or twice, resets the minute again.
CycleTwice(p) ==
    /\ launcher[p].pc # "merge"
    /\ localUsed' = [localUsed EXCEPT ![p] = Nothing]
    /\ localFresh' = [localFresh EXCEPT ![p] = TRUE]
    /\ UNCHANGED <<clockVars, sharedVars, launcher, historyVars>>

\* Cycle, by the minute timer, when the tracker's mutex is free.
Cycle(p) ==
    /\ launcher[p].pc # "merge"
    /\ ~localFresh[p]
    /\ localUsed' = [localUsed EXCEPT ![p] = Nothing]
    /\ localFresh' = [localFresh EXCEPT ![p] = TRUE]
    /\ UNCHANGED <<clockVars, sharedVars, launcher, historyVars>>

\* The manager behind the socket is another one, or its ticker has come after
\* the minute had begun; see UnixSocketBackend.
Restart ==
    /\ Remote # {}
    /\ sharedUsed' = Nothing
    /\ sharedFresh' = TRUE
    /\ faulty' = TRUE
    /\ UNCHANGED <<clockVars, localVars, launcher, charged, own, early, calm, unseen>>

Stop ==
    /\ ~quit
    /\ quit' = TRUE
    /\ UNCHANGED <<phase, sharedVars, localVars, launcher, historyVars>>

Next ==
    \/ Tick
    \/ Stop
    \/ Restart
    \/ \E p \in Process : Launch(p) \/ Cycle(p)

Spec == Init /\ [][Next]_vars

\* Time passes and the listeners run; the timer may be late, and nobody has
\* to stop the engine.
Fairness == WF_vars(Tick) /\ \A p \in Process : WF_vars(Launch(p))

FairSpec == Spec /\ Fairness

-----------------------------------------------------------------------------
\* The backend never counts more than has been charged in this minute, whoever
\* notices the new minute first: nothing is carried over from one minute into
\* the next.  Unless a process has failed to tell it, or it has been replaced,
\* it knows exactly: no charge is lost to a late reset.
BackendCountsCharges ==
    LET known == Current(sharedUsed, sharedFresh)
    IN  /\ \A v \in Provider : known[v].tokens <= charged[v].tokens
                            /\ known[v].requests <= charged[v].requests
        /\ ~faulty => known = charged

Within(v, amount, times) ==
    amount.tokens <= times * TPM[v] /\ amount.requests <= times * RPM[v]

Seen(p, v) == [f \in {"tokens", "requests"} |-> charged'[v][f] - unseen[p][f]]

CalmRecordFits ==
    \A p \in calm :
        Record(p) \/ RecordUnheard(p) =>
            Within(launcher[p].work.provider, Seen(p, launcher[p].work.provider), 1)

\* Away from the boundaries a minute is charged with more than its budget only
\* by what the backend did not know or others have charged since it was asked:
\* what a boundary let through before still counts.
CalmChargesFit == [][CalmRecordFits]_vars

Besides(p, v) == [f \in {"tokens", "requests"} |-> own'[p][v][f] - early'[p][v][f]]

OneNodesWork(used) == used = Nothing \/ \E work \in Work : used = Charge(Nothing, work)

LocalRecordFits ==
    \A p \in calm :
        Record(p) \/ RecordUnheard(p) =>
            /\ Within(launcher[p].work.provider, Besides(p, launcher[p].work.provider), 1)
            /\ OneNodesWork(early'[p])

\* Away from the boundaries a process's own charges keep to the whole budget,
\* even if the backend has forgotten everything or is never reached, but for
\* one node's at most: one charged before the process's tracker had looked at
\* the clock in this minute, which forgets it when it does.
LocalTrackingWorks == [][LocalRecordFits]_vars

\* Near a boundary a process may charge too much, but never more than twice
\* the budget while the backend answers and knows: the side that overrules the
\* other runs out as well.
OverchargeIsBounded ==
    ~quit /\ ~faulty =>
        \A p \in Process, v \in Provider : Within(v, own[p][v], 2)

\* Work that fits a minute's budget is not kept waiting forever, unless other
\* work is launched over and over.
FittingWorkIsLaunched ==
    (\E p \in Process :
        /\ launcher[p].pc = "shared"
        /\ launcher[p].work.tokens <= TPM[launcher[p].work.provider])
            ~> (\E p \in Process : launcher[p].pc = "record")
=============================================================================
