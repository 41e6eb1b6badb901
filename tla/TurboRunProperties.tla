-------------------------- MODULE TurboRunProperties --------------------------
(* What the engine of TurboRun must do, and what its docs say of it. *)
EXTENDS TurboRun

-----------------------------------------------------------------------------
(* The engine does what TaskOrder promises *)

Doomed == UNION {worker[w].doomed : w \in Worker}

\* Every place on the way from the graph's channel to a worker's result that
\* holds n, once for each copy it holds.
Copies(n) ==
      {<<"readyNodesChan", i>> : i \in {i \in DOMAIN readyNodesChan : readyNodesChan[i] = n}}
      \cup {<<"pool", i>> : i \in {i \in DOMAIN pool : pool[i] = n}}
      \cup {<<"priorityQueue", 0>> : m \in priorityQueue \cap {n}}
      \cup {<<"readyListener", 0>> : l \in {readyListener} \cap {At("enqueue", n)}}
      \cup {<<"launcher", 0>> : l \in {launcher} \cap {At("dispatch", n)}}
      \cup {<<"worker", w>> : w \in {w \in Worker : worker[w].pc = "run" /\ worker[w].node = n}}

StageOf(n) ==
    IF n \notin added THEN "new"
    ELSE IF outcome[n] = "ok" THEN "succeeded"
    ELSE IF outcome[n] = "err" THEN "failed"
    ELSE IF n \in cancelled \cup Doomed THEN "cancelled"
    ELSE IF n \in released /\ Copies(n) # {} THEN "ready"
    ELSE IF n \in nodes /\ n \notin released THEN "waiting"
    ELSE "dropped"

Order == INSTANCE TaskOrder WITH status <- [n \in Node |-> StageOf(n)]

\* Whatever the goroutines' interleaving, nodes run at most once, after their
\* dependencies, and never after having been cancelled by a failed one.
RefinesTaskOrder == Order!Spec

\* A published node is in one place of the pipeline, or has its result, and
\* not both: it is neither duplicated nor executed again.
OneCopyEach ==
    \A n \in Node : Cardinality(Copies(n)) + (IF outcome[n] = "none" THEN 0 ELSE 1) <= 1

-----------------------------------------------------------------------------
(* Backpressure and signals *)

\* The capacity check and the Add are two steps; callbacks in between only
\* remove, and nobody else adds.
GraphBounded == Size <= MaxGraphSize

\* turbo_run/turbo_run.go:184, of Push: "This will block if the graph is at
\* max capacity".  The push listener does not go on sleeping when it is not,
\* as long as nobody calls Reset, which makes room without a wake-up.
SleepsOnlyWhenFull ==
    (pushListener.pc = "full" /\ Size < MaxGraphSize) ~>
        (pushListener.pc # "full" \/ Size >= MaxGraphSize \/ crashed)

\* Signals a goroutine is about to send, or has received and not yet spent.
SignalsInFlight ==
    Cardinality({l \in {readyListener} : l.pc = "signal"})
      + Cardinality({l \in {launcher} : l.pc \in {"paused", "size", "pop"}})

StartSignalsLeft(c) == IF client[c].pc = "signal" THEN client[c].left ELSE 0

\* While the engine is started, every queued node has a signal of its own on
\* the launchpad or on its way there; otherwise it would stay queued until
\* some other node's signal comes.
SignalsCoverQueue ==
    ~paused => \/ Cardinality(priorityQueue) <= launchpad + SignalsInFlight
               \/ \E c \in Client : StartSignalsLeft(c) > 0

\* The two steps after which it may not be so: one of Start's signals finds the
\* launchpad full, and there are more nodes in the queue than that; or Reset,
\* which has emptied the queue, takes the signal of a node queued since.
LosesSignal ==
    \E c \in Client :
        \/ StartSignal(c) /\ client[c].left > 0 /\ launchpad = PoolSize
             /\ Cardinality(priorityQueue) > PoolSize
        \/ ResetDrainLaunchpad(c) /\ launchpad > 0 /\ priorityQueue # {}

NoSignalLost == [][~LosesSignal]_vars

-----------------------------------------------------------------------------
(* The quiet engine *)

Wired ==
    \A c \in nodes :
        indegree[c] = Cardinality({i \in DOMAIN Deps[c] :
                                      /\ Deps[c][i] \in nodes
                                      /\ i \in Positions(Deps[c][i], c)})

\* Started, with nothing for any goroutine to do.
Quiet ==
    /\ ~paused /\ ~crashed
    /\ {pushListener, readyListener, launcher} = {Idle}
    /\ \A w \in Worker : worker[w].pc = "idle"
    /\ \A c \in Client : client[c].pc = "idle"
    /\ pushChan = <<>> /\ readyNodesChan = <<>> /\ pool = <<>> /\ launchpad = 0

FailedNodes == {n \in Node : outcome[n] = "err"}

\* The nodes that depend on a member of S are members of S.
TakesDependents(S) == \A n \in added : (\E i \in DOMAIN Deps[n] : Deps[n][i] \in S) => n \in S

\* The nodes a failure takes with it: the failed ones and, when failures
\* propagate, whatever depends on them, at any distance.
Fallen ==
    IF Strategy = "isolate" THEN FailedNodes
    ELSE {n \in Node :
             \A S \in SUBSET Node : FailedNodes \subseteq S /\ TakesDependents(S) => n \in S}

\* An engine with nothing left to do has forgotten nobody and has counted
\* everybody once, provided no callback came too late (what happens otherwise
\* is CompletedNodesLeaveGraph, below) and no dependency was pushed too late.
QuietEngineIsDone ==
    Quiet /\ Wired /\ missed = {} =>
        /\ nodes = {} /\ priorityQueue = {}
        /\ failedCount = Cardinality(Fallen)
        /\ completedCount = Cardinality({n \in Node : outcome[n] = "ok"})
        /\ launchedCount = Cardinality({n \in Node : outcome[n] # "none"})

Finished(n) == StageOf(n) \in {"succeeded", "failed", "cancelled"}

\* The engine does go on to that point: every node in the graph is executed
\* or cancelled, under the same two provisos.
EveryNodeFinishes ==
    [](Wired /\ missed = {}) => \A n \in Node : (n \in nodes /\ ~paused) ~> (Finished(n) \/ paused)

\* A call of WaitFor returns unless its node was cancelled with a parent.
WaitForReturns ==
    [](Wired /\ missed = {}) =>
        \A c \in Client : Calls(c, "wait") ~>
            \/ ~Calls(c, "wait")
            \/ Calls(c, "wait") /\ Argument(c) \in cancelled

-----------------------------------------------------------------------------
(* Shutdown *)

Working == {w \in Worker : worker[w].pc \notin {"idle", "exited"}}

\* Once Stop has returned nothing is left running: no result appears, no
\* node moves, no counter changes, unless a caller resets.
NothingAfterStop ==
    [][pushClosed /\ ~muHeld => UNCHANGED <<graphVars, priorityQueue, pool, counters, outcome,
                                        pushListener, readyListener, launcher, worker>>]_vars

\* Somebody holds a node or a signal, or one waits to be received.
Busy ==
    \/ \E l \in {pushListener, readyListener, launcher} : l.pc \notin {"idle", "exited"}
    \/ pushChan # <<>> \/ readyNodesChan # <<>> \/ pool # <<>> \/ launchpad > 0
    \/ Working # {}

\* Stop returns when it is called on an engine that has nothing to do, and
\* gets nothing to do meanwhile.
RestingEngineStops ==
    \A c \in Client : (client[c].pc = "workers" /\ ~Busy) ~> (pushClosed \/ crashed \/ Busy)

-----------------------------------------------------------------------------
(* What the repository says of the engine, and the engine does not do *)

\* turbo_run/runner_lifecycle.go:290: "removes a node from the graph after it
\* has completed".
CompletedNodesLeaveGraph ==
    \A n \in Node : outcome[n] # "none" /\ (\A w \in Worker : worker[w].node # n) => n \notin nodes

\* README.md:153: "All components of TurboRun are designed to be thread-safe."
\* Here: a call of GetStats returns.
StatsReturn == \A c \in Client : (client[c].pc = "stats") ~> (client[c].pc # "stats" \/ crashed)
=============================================================================
