# TurboRun: TLA+ models and proofs

TurboRun (`src/`, Go) runs LLM requests, wrapped as *work nodes*, in the order
of their dependencies, within the tokens and requests per minute that each
provider allows. This directory models its engine, its dependency graph, its
per-minute budgets and the requests to the provider in TLA+, checks them with
TLC on small instances, and proves the most important safety properties with
TLAPS for every instance. The source is the reference: each definition that models code is listed in `PROJECT.json`
with the lines it stands for.

## The system

| component | state | operations | talks to |
|---|---|---|---|
| dependency graph (`turbo_run/graph.go`) | `nodes`, adjacency lists `children`, counters `indegree`, the bounded `readyNodesChan`, one mutex | `Add`, `Remove`, `RemoveSubtree` (recursive), `Size`, `Clear` | publishes ready nodes on its channel, *with its mutex held* |
| engine (`turbo_run/turbo_run.go`, `runner_lifecycle.go`) | `pushChan`, `graphSpaceNotify`, `launchpad`, `quit`, `paused` and the counters under `mu` | callers: `Push`, `PushWithDependencies`, `WaitFor`, `Start`, `Pause`, `Reset`, `Stop`; goroutines: push listener, ready listener, launchpad listener | everything below |
| worker pool (`worker_pool.go`) | job channel (two per worker), busy counters | `Dispatch`, `worker`, `Stop` | runs work functions, emits results to channel and callbacks |
| work node (`work_node.go`) | status, result channel, callbacks | `Run` (with retries), `EmitResult`, `AddResultCallback`, `GetResult` | retry, groq client |
| priority queue (`utils/priority_queue`) | a heap under a mutex | `Push`, `Pop`, `Size`, `GetSnapshot` | ready and launchpad listeners, `Reset` |
| consumption tracker and minute timer (`runner_consumption_tracker.go`, `runner_timing.go`) | usage and number of the minute it has last seen, totals, history | `BudgetAvailableForCycle`, `RecordConsumption`, `Cycle` | the rate limit backend; the launchpad listener waits for it |
| memory backend (`rate_limit/backends/memory`) | usage of the minute *it* has last seen | `BudgetAvailable`, `RecordConsumption`, `TimeUntilReset` | one tracker |
| UDS backend (`rate_limit/backends/uds`) | a manager's usage, its ticker, sockets, clients' connections | the same over a Unix socket, spawn and stop of the manager | several processes |
| groq client (`clients/groq`) over retry (`utils/retry`) | attempt, `RetryChan`, what a stream has brought so far | `ChatCompletion`, `ChatCompletionStream`; `Execute` | the provider; work functions, tasks of a parallel builder |
| parallel builder (`utils/parallel`) | `tasks`, `results` | `Add`, `Run` | its tasks call the client or push nodes |
| logger, token counter, observability | files, encoder; event channel | pure input and output, `GetStats` | |

A node goes from `Push` to its result through

    pushChan -> push listener -> graph -> readyNodesChan -> ready listener
      -> priority queue + launchpad signal -> launchpad listener (budget)
      -> pool -> worker -> result channel and callback -> graph (children), counters,
      graphSpaceNotify

What is hard here is that eight kinds of goroutines share it: signals and nodes
travel separately (launchpad and queue), checks and acts are separate critical
sections (capacity and `Add`, `Size` and `Pop`, `Dispatch` and the callback,
`Size` and the wake-up, budget and charge), two sends block with a mutex held,
two parents of a node may fail and finish in any order, clocks are read on two
sides at different moments, and `Pause`, `Reset` and `Stop` may come between any
two steps. `PROJECT.json` lists each hazard at its line, with the property that
would catch it.

What makes each component correct:

- graph: no node before its dependencies, none twice, none after its ancestor
  failed; the recursion removes and reports each descendant once; a graph whose
  edges are complete is worked off.
- engine: it implements the same promise in spite of its goroutines; a node is
  in one place; signals cover the queue; wake-ups are not lost; capacity holds;
  nothing moves after `Stop`; it goes on until everything is executed or
  cancelled, and then its counters add up.
- budgets: the backend knows what was charged; a minute's budget is kept; work
  that fits gets its turn.
- shared backend: a call is obeyed at most once and gets its own reply, or an
  error; a manager counts its minute's charges; managers nobody needs go away.
- requests: an answer is what one attempt brought, whole and in order; retries
  on two levels are neither too few nor too many and end with the context; a
  status tells what became of its node; nobody waits forever.
- priority queue: the array stays a heap, so that what is popped, and what a
  snapshot begins with, is an item that none goes before.

## Modules

| module | what it is |
|---|---|
| `TaskOrder` | the abstract specification: a status for each task, and which status may follow which |
| `DependencyGraph` | `graph.go`: state and operations, one action per operation and per blocking send |
| `GraphProtocol` | the graph closed under its callers' rules, without their threads; its properties and refinement of `TaskOrder`; the engine is shown to implement it |
| `SubtreeRemoval` | `removeSubtreeRecursive` as a recursive operator, compared with the closed form of `DependencyGraph` |
| `TurboRun` | the engine: callers, listeners, workers over the same `DependencyGraph` |
| `TurboRunProperties` | what the engine promises, what its documents say of it, and its refinement of `TaskOrder` |
| `UnixSocketBackend` | the shared backend: a client in each process, the managers they start, connections, the socket path |
| `ConsumptionTracker` | in each process, the launchpad listener's wait for budget, the tracker and the timer's `Cycle`; the backend they share, in memory or behind a socket, under a clock |
| `Backoff` | the configuration of a retry and its delays, with the conversion from float to integer |
| `GroqClient` | the client's plain and streaming calls over `Execute`, with everything the provider may answer; extends `Backoff` |
| `WorkNode` | status, result and retries of a node while a worker has it; extends `GroqClient` |
| `ParallelBuilder` | `Add` and `Run`, whatever the tasks do |
| `Requests` | composition: tasks of a parallel builder that call the client, under one context, or push nodes that do |
| `PriorityOrder` | the abstract priority queue: a set of which an item that none goes before is taken, and a snapshot that begins with one |
| `PriorityQueue` | the heap's array with `container/heap`'s sifting, which implements it |
| `GraphLemmas`, `GraphProofs` | what the graph's operations do, shared by the proofs; theorems about `GraphProtocol` |
| `TurboRunProofs`, `EngineRefinement` | theorems about the engine: types, capacity, shutdown, one copy of each node; the refinement of `GraphProtocol` and of `TaskOrder`, signals, the mutex and the counters of a quiet engine |
| `TrackerProofs`, `UnixSocketProofs`, `RequestsProofs`, `PriorityQueueProofs` | theorems about budgets, the shared backend, requests and the heap |
| `MCGraph`, `MCTurboRun`, `MCTracker`, `MCUnixSocket`, `MCRequests`, `MCPriorityQueue` | instances for TLC |

Definitions marked *(faulty)* are plausible mistakes in the code. No
specification uses them; each property has been seen to fail when one of them
takes the place of the definition that follows it (`mutants` in `PROJECT.json`).

### How the models correspond to the code

**Graph.** Adjacency lists may hold a child twice (a dependency named twice), so
an edge is a pair of child and position in its dependency list. A missing
counter reads as 0, as in a Go map. Each method is one step, because it keeps
the mutex, except that its sends on `readyNodesChan` may block: the nodes it
has still to send are in `emitting`, and the mutex is free when that is empty.
`Freed` says which children a removal publishes: the counter is decremented
once per occurrence and is compared with zero each time, so a child is freed if
its counter is between 1 and the number of its occurrences. `RemoveSubtree` is a
closed form; that it leaves exactly what the recursion leaves, negative
leftovers of deleted counters included, is the property `ClosedFormIsRecursion`.

**Engine.** A step is what a goroutine does between two points at which another
may interfere: a channel operation, a mutex, a read of shared state. The model
keeps the order of these points: `Dispatch`, then `AddResultCallback`, then
`launchedCount`; `Size`, then `Pop`; the check for room, then `Add`; counters,
then removal, then sends, then cancellations, then the wake-up. A worker's emit is
one step with its result channel and the callbacks registered at that moment.
`TurboRun.mu` is a flag while `Reset` holds it, and `GetStats` holds it for
reading while it waits for the graph. Go lets no new reader of an `RWMutex` in
while a writer waits; the model lets them in, which allows more behaviours and
is needed by none of the results. The priority queue is a set of which one with the
highest priority is popped. A panic (a closed channel, an empty heap, a work
function) sets `crashed`, and the process does nothing more.

**Priority queue.** That it may be such a set is what `PriorityQueue` shows: items are
numbers with priorities that may be equal, the array is a sequence, `Push` and `Pop` are
`container/heap`'s (modelled from its use, hence external), and `GetSnapshot` maps the
array, which is the variable `shown` of `PriorityOrder`.

**Budgets.** The clock is abstracted to what the code can tell apart: within two
seconds of the minute's start, of its end, or in its middle, and for each tracker
and the backend whether the minute they keep is the current one. A new minute
may begin between any two steps. After a charge the listener reads both budgets
again for its events, which changes state too (`ReportShared`, `ReportLocal`),
so it is part of the model. `Process` are the processes that share one backend,
which is in memory if there is only one and it is not in `Remote`. The calls of a
process in `Remote` may go unanswered (`ReadNothing`, `RecordUnheard`), which is
what `UnixSocketBackend` leaves of a broken connection: the client then reports
the full budget and records nothing. `Restart` stands for what happens to a
manager there, a successor that counts from zero or a late tick. History:
`charged` and `own` are what was really charged in the minute, by all and by
each, and `early` the part of `own` that was charged while the process's tracker
still kept an earlier minute; `faulty` says that something was lost in it; `calm` are the listeners that
read their budget away from the boundaries, and `unseen` what was charged that
their reading leaves out.

**Shared backend.** `sendCommand` holds the client's mutex from the write to the
reply, so a client is one sequence of steps: write, dial again, start a manager,
dial once more, write again, read. A connection has two ends: `client[c].conn`
and `open[m]`; it may be open before the manager accepts it. `wire` is what lies
between them. A broken connection stays in the client until its next write
fails, as in the code; a client whose reconnection failed has none and never
tries again. `socket` says whose socket the path names. A manager removes the
file, listens, sets the file's mode, each a step another manager may come
between, and when it stops it removes the file that is there by then. Its
ticker is counted from the boundary at which it was created (`first`, `waiting`,
`due`); `fresh` says whether the minute it keeps is the current one. The kernel
is modelled from its use: a reply that was written before an end closed is still
read, a command that was not is lost. `handled` and `recorded` are history
variables.

**Requests.** `Execute` is a loop of `Request`, an outcome, `Returned`, and `Waited`
or `Abandoned`; both kinds of call go through it. An outcome is one of what the code
tells apart: an answer, a doubtful one (complete and without content, or with
`failed_generation` in its body, whatever its content; a plain call repeats it, a
stream shows the checker no body), and errors, which differ only by whether a
work node repeats them (`passing`), does not (`lasting`), they are the context's, or
the request could not be encoded or created and so was never sent (`Unsendable`).
A chunk of a stream carries a token, a piece of one tool call, or neither; what is
gathered is kept as the positions of the chunks it came in, so that a piece of an
earlier attempt or a wrong order would show. A delay is computed with an integer
of `Width` bits, and a float that does not fit becomes the least or the greatest,
as the two processor architectures have it. `ChatCompletion` does not pass its
context to the request, so only its waits are cut short. A wait is a `select` over
the context and a timer: when the context is done it may still choose the timer,
if that is due by the time the goroutine looks. `SelectLag` is how long that takes
it at most, so a wait that is longer is cut short, and one that is not, such as
one of a negative length, may go either way.

In `WorkNode` a standard node, one with a user's function wrapped by
`wrapWithRetry`, and one without a function go from worker to result; `SetStatus`
drops what its channel of two does not take. The wrapped function calls the client
once, so both levels of retries meet. What the engine does with a node before
a worker takes it is a delay in `Requests`. `tries`, `answered`, `late` (the attempts that
sent a request when the context was already cancelled, all of them) and `lines` are
history.

## Runs

All instances are small on purpose; each is just large enough for the case its
properties are about. Deadlock is not an error for a graph, an engine or a set of
requests that has run out of work or whose process has ended; it is one in
`budget`, `uds`, `uds_live` and `heap`. `uds` takes processes and managers as
interchangeable.

| run | instance and why it is enough | properties |
|---|---|---|
| `graph` | two roots, a child that names one of them twice, a grandchild with an edge from a root and from the child; room for 3 of 4, so that additions interleave with removals | `DependencyOrder`, `PublishesLiveNodesOnce`, `CancelledNeverRuns`, `CountsPending`, `ClosedFormIsRecursion`, `RefinesTaskOrder`, `WiredGraphFinishes`, `TypeOK` |
| `diamond` | a diamond of four nodes with room for three, two workers, every node may fail: two parents finish and fail in any order, the fourth push waits for room, a child of both may be cancelled twice | `SleepsOnlyWhenFull`, `QuietEngineIsDone`, `RefinesTaskOrder`, `TypeOK` |
| `live` | Isolate strategy; one client submits, starts, reads the statistics, waits, submits again; another pauses and resumes at any moment. One worker, so one launchpad signal | `SignalsCoverQueue`, `EveryNodeFinishes`, `WaitForReturns` |
| `stop` | room for one node, so that every push has to wait; one client pushes, starts and pushes again, another resets and stops at any moment; one node panics | `OneCopyEach`, `GraphBounded`, `RefinesTaskOrder`, `NothingAfterStop`, `RestingEngineStops` |
| `budget` | two processes over one backend that both may fail to reach; two tokens and one request a minute, nodes of one token, so that the second request of a minute is too much, whoever makes it | `BackendCountsCharges`, `CalmChargesFit`, `LocalTrackingWorks`, `OverchargeIsBounded`, `FittingWorkIsLaunched`, `TypeOK` |
| `uds` | two processes and two managers, any number of calls and minutes, a budget of one charge, and no new charge once a manager has recorded one in the minute, so that two begun together overdraw it: two managers start at once, take the path from one another, stop and are killed | `HandledOnce`, `RepliesAnswerCalls`, `UsageIsThisMinutes`, `TypeOK` |
| `uds_live` | one process and three managers, of which it starts the next when it has lost one | `CallsReturn`, `LonelyManagersExit` |
| `requests` | one task of any kind and one that calls the client; three attempts of the client, two of the node, so that the retries multiply; durations of three bits, so that the third attempt's delay overflows, and a `SelectLag` of one, so that the second's is long and the third's may not be; streams of up to two chunks, tokens and two tool calls, so that pieces come in the wrong order; a context cancelled at any moment; a retry channel of one, which overflows | `AnswerIsOneAttempts`, `GivesUpOnlyWhenSpent`, `CancelledCallsStop`, `ResultsAreComplete`, `StatusTellsResult`, `RunReturns`, `TypeOK` |
| `heap` | seven items, three full levels of the heap, with ties on every level, pushed and popped in any order | `RefinesPriorityOrder` |

`RefinesTaskOrder` is the main result of the first four: with a mapping from
queues, channels, workers and history to a status, every step of the graph and
of the engine is a step of `TaskOrder` or changes no status. The other
properties say what `TaskOrder` does not: that the pipeline holds one copy, that
nothing is forgotten, that signals and wake-ups are enough.

`WiredGraphFinishes` adds a proviso of its own, `NobodyLost`: a `Reset` first clears
the graph and then drains the queue, and what it pops may have been pushed in
between (`Lose`); such a node stays in the graph and is never executed.

Two provisos appear in the liveness properties and in `QuietEngineIsDone`.
`Wired`: each counter stands for edges from nodes that are still in the graph;
`missed = {}`: no result was emitted before its callback was registered. Both
can fail in the code, as is described below. `SleepsOnlyWhenFull` is checked
without a `Reset`, and `SignalsCoverQueue` where the queue is no longer than the
launchpad, for the same reason.

`CalmChargesFit` and `LocalTrackingWorks` together say how far budgets hold for
processes that share a backend. Away from the minute boundaries a charge
exceeds the limit by no more than what the backend did not know or what others
have charged since it was asked, because check and charge are two calls. What that
may be is not said there, but by the second property: away from the boundaries all
that a process has itself charged in the minute (`own`, and not what its tracker
remembers of it) is within the whole limit, even if it never reaches the backend, but
for one node at most (`early`). A node may be charged right after a minute has
begun, while the tracker still keeps the last one; when the tracker notices, it
forgets that node, and grants the whole budget again. Near a boundary one process may charge up to twice the budget
(`OverchargeIsBounded`, which is stated without faults and before a `Stop`).

The remaining runs each check one sentence of the repository and find that the
code does otherwise:

| run | sentence | what happens |
|---|---|---|
| `missed_callback` | "removes a node from the graph after it has completed" | a worker is faster than `AddResultCallback`; the node stays and its children never start |
| `stats_hang` | "All components of TurboRun are designed to be thread-safe" | `GetStats`, `Add` and the launchpad listener wait for one another; five nodes and one worker, because the ready channel has room for one, the launchpad for one and the pool for two |
| `two_managers` | backends "track and enforce rate limits across single or multiple processes" | two processes start managers at once; the second takes the socket path, the first keeps its connection, and each manager grants the whole budget |

More disagreements can be read off the models; no run is kept for them.

In the engine:

- A node pushed after its dependency has completed counts it and waits for it
  forever, against `src/README.md:19`.
- `Start` drops signals that the launchpad has no room for, and nothing makes up
  for them, against "nodes will be processed eventually" (`runner_lifecycle.go:40`).
- `Reset` may pop the node whose presence the launchpad listener has just seen, and
  the listener's `Pop` then panics, against `src/README.md:153`. It may also drain a
  signal of a node that the ready listener enqueues afterwards, sends no
  `graphSpaceNotify`, so that a push listener may sleep on an empty graph, and
  leaves nodes in the pool, in a worker or in a listener's hands, which run after they
  were announced cancelled, against `runner_lifecycle.go:84`. And it may pop a node
  that was pushed after it had cleared the graph, which then stays there.
- A child pushed after a `Reset` on a parent that was in flight then hangs in the graph
  if that parent fails: `RemoveSubtree` finds no root to start from.
- `WaitFor` does not return for a node that was cancelled or reset: it never emits a
  result.
- `Stop` ends the workers and then waits for listeners that may be blocked in a
  send to them and do not see `quit`, against `runner_lifecycle.go:63`. After a
  `Stop`, `Reset` does not return: the closed channel is always ready.
- A node that has been popped is dispatched although `Pause` was called meanwhile,
  against `turbo_run.go:45`.
- `recover()` in `worker_pool.go:111` is called before the work function and not in a
  deferred call, so it recovers nothing.
- When channel, launchpad and pool are full and all workers wait in callbacks for
  the graph's mutex, nobody moves, without any client involved.

About budgets:

- A charge across a boundary is wiped on the tracker's side, whose full budget then
  overrules the backend's empty one: more is launched than a minute allows, against
  "will wait until the next reset cycle" (`src/README.md:31`).
- A client without an answer reports the full budget and records nothing. Near a
  boundary that full budget overrules a tracker that has nothing left, against
  "local tracking is still functional" (`runner_consumption_tracker.go:122`).
- "use maximum unless one system shows zero budget"
  (`runner_consumption_tracker.go:159`) stands above code that takes the minimum.
- A manager's ticker wipes charges of a minute that has begun.
- `BudgetAvailableForCycle` moves to a new minute without writing the history that
  `Cycle` writes.

About the tracker: a process whose backend is not reached may, in one minute, charge
the whole budget and one node more, for the reason given at `LocalTrackingWorks`.

About requests:

- A node with retries of its own, over a client that retries, makes up to the product
  of both numbers of attempts, which is one request to the budget.
- Past the range of an `int64` a delay is negative on amd64, and a retry follows at
  once, where `retry/doc.go:38` says it is capped. The same comment gives the
  default delay as 200ms.
- A cancelled context does not end a plain request that is under way, against
  "immediately return" (`retry/doc.go:48`), and the client's HTTP client has no
  timeout.
- After a cancellation a call may send more than the one request that it had begun:
  a wait of negative length (an overflow), or one over before the `select` is
  reached, does not keep the loop from going on. `CancelledCallsStop` counts every
  such request and allows one only after a wait that was not long (`LongWait`).
- An answer with status 200 that mentions `failed_generation` anywhere in its body, in
  a text about it as well, is asked for again, and so is one without content that
  calls tools and says *stop*; when the attempts are spent the last is returned as
  the answer, and no error tells the caller.
- A request that cannot be encoded is tried as often as one that fails on its way,
  without a word on the retry channel.
- What the error checker says of status codes, and `evalMode`, decide nothing, since
  every such status comes with an error, which is always repeated.
- A stream that ends without `[DONE]` is taken for a whole answer; a stream without
  content is not repeated, a plain answer without it is; tokens of an attempt that fails have been
  handed to the caller's callback and come again with the next.
- Tool calls with an index beyond their number are left out of the answer.
- The final status of a node with its own work function is set after its result was
  emitted, so that a caller of `WaitFor` may still read *running*, where
  `turbo_run_test.go:351` expects the final one; and it is not sent if two
  earlier statuses were not read. A node without a work function keeps *pending*.
- A negative `MaxRetries` makes a wrapped work function succeed without being called.
- `GetSnapshot` shows the heap's array, which is not the order of popping beyond its
  first item.

### Bounds and fairness

The engine is bounded by its programs: each client makes a fixed list of calls
and pushes each node once. The graph's model submits each node once. The budgets
are bounded by `MaxRequests`, the requests charged in one minute, set above
twice the request limit so that `OverchargeIsBounded` can fail. The shared backend
is bounded by the processes and managers there ever are, and by `MaxCharges`.
Requests are bounded by the code's own attempts and by `MaxChunks`.
Nothing else is bounded; there are no state constraints.

Fairness is weak, per goroutine: the Go scheduler runs what can run, requests to
a provider return, and the wait for budget ends (which `FittingWorkIsLaunched`
shows of the budgets for nodes that fit). A `select` with several ready cases
may choose any, so no single case is fair. In `ConsumptionTracker` time passes
and listeners run; the timer's `Cycle` is not fair, and nobody has to call `Stop`.
Clients need not be fair to one another; a client that can make its call
makes it. In `UnixSocketBackend` a call that was begun, a manager and each of its
handlers go on; new processes, new calls, minutes, ticks and kills are not fair.
In `Requests` the goroutines of tasks, client calls and workers go on, and the
provider ends each request some way; nobody has to read a status, add a task,
run the builder or cancel. That the provider answers is more than the code
assures: its HTTP client has no timeout.

## Theorems

Assumptions are those declared with the constants: finitely many nodes,
dependency lists over them without cycles, a positive capacity, one of the two
strategies; a finite and not empty pool; programs that are sequences of the
API's calls; positive limits and token counts; retry configurations the code
accepts. No bound of the runs is assumed (but `MaxRequests` and `MaxCharges`,
which are arbitrary). `NoCopyNoRerun`, `QuietIsDone`, `OnlyMissedNodesStay` and
the theorems about the engine's refinement have one hypothesis more, `PushedOnce`: no two calls of `Push` in the
clients' programs are for the same node. A node gets a fresh UUID when it is made;
pushing the same one again is a use the code does not defend against.

**The graph** (`GraphProofs`). `Inv` is inductive (`Invariance`). The
properties alone are not: `DependencyOrder` could be lost by any removal that
counts a counter down too far. The strengthening says that a counter is at
least the number of dependencies that still matter (`CountsPending`), where an
edge that got lost (by a late push or a `Clear`) counts as pending as long as
its parent has not finished; that a positive counter belongs to a node still
in the graph and not yet published (`PositiveIsWaiting`), hence reaches zero
once; and that edges agree with dependency lists (`EdgesMatchDeps`). The proof
rests on lemmas about counting positions (`GraphLemmas`) and on the closed form
of the subtree. It yields `TypeCorrect`, `OrderedRelease`, `ReleaseOnce`,
`CountersAgree` and `CancelledStays`. `GraphImplementsTaskOrder` takes the
actions one by one: each moves one node, or the nodes of one cascade or one
`Reset`, to the next stage, and leaves the others in theirs. That each node
of a cascade has a failed or cancelled parent follows from the closed form
(`SubtreeHasParents`: without one the subtree could do without the node).
`Conserved` says what a graph keeps as long as nobody resets it (`Onward`): what was
published is on its way or has its result, what has left has its result or was
cancelled, what waits for nothing is published, and nothing is cancelled that does
not depend on a failed node. From it follows that a wired graph with nothing on
its way is empty (`QuietGraphIsEmpty`: a node in it would have a dependency in it,
that one too, and no graph without cycles goes on so), and that just the
dependents of failed nodes were cancelled (`QuietGraphHasFallen`).

**The engine.** Each theorem is about every graph, pool, set of clients and
programs.

- `EngineTypes`: types and the channels' bounds. A goroutine on its way with a
  node has to hold one (`Holding`).
- `CapacityRespected`: the check and the `Add` are two steps; the strengthening
  is that the room the push listener has seen is still there when it adds,
  because every other step only removes.
- `StoppedEngineRests`: `ShutdownInv` says that each of the channels that `Stop`
  closes in turn is closed only after those the previous one ends have exited,
  and that one `Reset` runs at a time.
- `NoCopyNoRerun`, in three invariants, each resting on the one before it. A
  node comes to the graph once: it is still to be pushed, or in the channel,
  or in the push listener's hand, or added (`FeedInv`). So it is published once:
  what is being sent was not sent before, and a positive counter belongs to a
  node not yet published (`PublishInv`). So the channel takes a node that is
  nowhere else, and each step from there moves it on (`PipelineInv`).
- `EngineFollowsProtocol`: the engine implements `GraphProtocol`, under a
  mapping that takes the protocol's `taken` to be the nodes in the listeners'
  hands, in the queue, in the pool and in workers, or with a result; its
  `settled`, those whose callback has removed them; its `cancelled`, those
  announced and those a worker has still to announce. The invariant is the
  conjunction of all above, of `Inv` of the graph under the mapping, and of
  `CallbackInv`: a result has at most one callback under way, and none if it
  was emitted to nobody. This says that the graph's callers do keep the rules
  under which it was proved correct.
- `EngineImplementsTaskOrder` follows: a node's stage in the engine is its stage
  in the protocol (`SameStage`), and the protocol's steps are `TaskOrder`'s.
  `EngineOrdersNodes` states two of the graph's invariants for the engine.
  `OnlyMissedNodesStay`: of the nodes with a result, only those whose callback is
  under way, or was registered too late, are in the graph. So the case of
  `missed_callback` is the only way in which the engine breaks that promise.
- `SignalsAreCounted`: exactly two steps lose a launchpad signal (`LosesSignal`): one
  of `Start`'s that finds the launchpad full, and a `Reset` that takes the signal of
  a node queued since it emptied the queue. Without them (`NoSignalLost`) every node
  in the queue has one, in the launchpad, in a listener's hands or still to come
  from `Start`; the invariant counts, since a node may be popped on another's signal.
  `RoomForAllLosesNone` gives a case in which neither step is ever taken.
- `MutexHasOneHolder`: what the graph has still to send is sent by the one goroutine
  that holds its mutex.
- `QuietIsDone`: a quiet engine is done and its statistics are right, for programs
  that push a node once and do not reset (`NoReset`; it zeroes the counters), and
  if no signal was lost. Besides the above it rests on: a node is doomed by one
  cascade (`DoomedOnce`), so it counts as failed once; the counters are behind by
  just the node being dispatched, the callbacks about to count and the nodes
  still to be announced (`CountInv`), of which a quiet engine has none; and the
  graph's `Conserved`, which the engine keeps because without a `Reset` its steps
  are `Onward`.

**Budgets** (`TrackerProofs`), for any number of processes, providers, limits and
streams of work, with any calls unanswered. `TrackerTypes`, and `BackendExact`,
which is inductive with the types. `CalmFits` and `LocalFits` are about steps; their
invariant `CalmInv` says of each listener that has read its budget with no
boundary near (`CalmOne`): what it has read is what is left (`Left`), which
is the limit less the charges the backend knew of, whatever the others have
charged since; its tracker's part is what its own process has left; and once it
has decided, its node fits in both. `Left` does not change with another's charge
(`OthersCharge`), because `charged` and `unseen` grow by the same. Away from the
boundaries the code takes the smaller of both sides, so that one invariant yields
both theorems. `OverchargeBounded` is about the boundaries: a tracker that has not
noticed the minute has charged one node in it at most, since the next time it
reads its budget it notices; what it forgets then is that one node, and from
there it counts all. The decision between reading and charging is what could
break this (`DecisionInv`): while the backend answers, what it says is left is no
more than what the tracker that notices will find, so that the larger of both
budgets, which the code takes near a boundary, never overrules a spent tracker.
`LocalFits` has to speak of what the process charged, which its tracker may have
forgotten. `EarlyInv` says how much: once the tracker has noticed the minute, the
charges of a process are what the tracker counts and what was charged early, and
that is one node's work at most, because the listener looks at its tracker before
it decides on the next.

**The shared backend** (`UnixSocketProofs`), for any number of processes and
managers: `BackendTypes`, `UsageExact`, `CallsExact`, `RepliesExact`. That a call is
obeyed at most once needs to know what is on the wire: a client that has yet to
send has nothing there, an unanswered command is on a connection whose other end is
open (or its process has gone), so a read fails only when the command was dropped,
and what is still on the wire as a request has not been obeyed. Usage needs that a
manager that has not looked at the clock in a minute has recorded nothing in it.

**Requests** (`RequestsProofs`), for every configuration of retries, width of a
duration and set of tasks: `RequestTypes`; `CancellationStops`: an attempt
that is about to send although one has sent since the cancellation comes from a wait
no longer than `SelectLag` (`LateInv`), which `LongDelays` rules out for a backoff
that is longer, with a longer cap, and fits a duration; hence `CancelledOnce`, one
request at most, if the configuration's waits all are so; `StatusesTruthful`, where a status that was
dropped leaves the channel telling of an earlier one only; `ResultsComplete`, where
the builder's results and the tasks still under way are all its tasks, each in one
of both; and `FailuresAreSpent`, for which both levels of retries are counted
together: the attempts of the client's current call and of its finished ones. It is
about answers without doubt; a doubtful one is treated as a failure by the plain
call and returned as an answer when nothing is left to try.
`AnswersAreOneAttempts`: at every moment what a call has gathered is what the chunks of
its attempt carried, in their order (`Gathered`), so a new attempt starts with nothing.

**The heap** (`PriorityQueueProofs`). `HeapImplementsPriorityOrder`, for any items and
priorities, either order, and a queue of any length. `Up` and `Down` are the rounds of a
step, `Rise` or `Sink`, on an array and a position in it. While an entry rises only it may
go before its parent (`Rising`), while one sinks only its children may go before it
(`Sinking`); a round keeps this and swaps two entries, or changes nothing, in which case
the array is a heap. That the rounds come to this point is proved with the
least-element principle of `WellFoundedInduction`, which stands in for induction: the
rounds exist (`LoopExists`), and each brings the position nearer to an end of the
array (`LoopEnds`). The same principle shows that no entry goes before the root.

Only model-checked:

- everything under fairness, because the prover has no rule for `ENABLED`;
- the recursion of `SubtreeRemoval` (`ClosedFormIsRecursion`): recursive operators are
  outside the prover's reach.

Every other property of the passing runs is stated by a theorem. Two of these
theorems have a hypothesis that the runs satisfy but not every program does:
`NoSignalLost`, which holds in `live` and in `diamond` since their queues are never
longer than the launchpad, and `NoReset`, since neither run calls `Reset`.

## Left out, and the plan

Not modelled, for good: HTTP, JSON and the request fields of the groq client,
loggers, the token counter (an input of the models), events, test hooks, the busy
counters of the pool, the tracker's history and totals, which nothing in the engine
reads; and calls after a client of the shared backend was closed (nothing in `src/`
closes one; the connection would stay in it, and the next call would fail to write
and dial again, whereas `Close` ends the client in the model). The engine's model, the budgets' and the requests' are not composed into one:
each treats what the others do as a delay or an outcome, which every behaviour of
them is.

What is left, in this order:

1. `ClosedFormIsRecursion`: the cascade as rounds of a step, like the heap's loops,
   and the least-element principle over them.
