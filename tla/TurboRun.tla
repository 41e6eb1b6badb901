------------------------------ MODULE TurboRun -------------------------------
(***************************************************************************)
(* The engine of turbo_run/: the callers of TurboRun's methods, its three  *)
(* listener goroutines and its workers, over the dependency graph.         *)
(*                                                                         *)
(*   Push -> pushChan -> push listener -> graph -> readyNodesChan          *)
(*     -> ready listener -> priorityQueue and a launchpad signal           *)
(*     -> launchpad listener -> pool -> worker -> result, callback         *)
(*     -> graph (removal, newly ready children) and graphSpaceNotify       *)
(*                                                                         *)
(* A goroutine's step is what it does between two points where another may *)
(* run in between: a channel operation, a mutex, or the read of state that *)
(* others change.  The rate limit is the launcher's delay before it        *)
(* dispatches; events, logs and the two goroutines that only produce them  *)
(* (minute timer, worker state listener) are left out.                     *)
(***************************************************************************)
EXTENDS DependencyGraph

CONSTANTS
    Worker,    \* the workers of the pool
    Client,    \* goroutines that call TurboRun's methods
    Program,   \* Program[c]: the calls c makes, one after another
    Strategy,  \* failureHandlingStrategy
    Priority,  \* GetEstimatedTokens, which orders the priority queue
    MayFail,   \* nodes whose work function may return an error
    Panics,    \* nodes whose work function panics
    NoNode

ASSUME WorkerAssumption == IsFiniteSet(Worker) /\ Worker # {}
ASSUME StrategyAssumption == Strategy \in {"propagate", "isolate"}
ASSUME PriorityAssumption == Priority \in [Node -> Nat]
ASSUME WorkAssumption == MayFail \subseteq Node /\ Panics \subseteq Node
ASSUME NoNodeAssumption == NoNode \notin Node

\* A call of one of TurboRun's methods, with the node it is for.
Call == ({"push", "wait"} \X Node) \cup {<<m>> : m \in {"start", "pause", "stats", "reset", "stop"}}

ASSUME ProgramAssumption == Program \in [Client -> Seq(Call)]

VARIABLES
    pushChan, graphSpaceNotify, priorityQueue, launchpad, pool,
    paused, muHeld,         \* muHeld: a Reset holds TurboRun.mu across steps
    launchedCount, completedCount, failedCount,
    registered,             \* nodes with their result callback added
    resultChan,             \* nodes with a result nobody has waited for yet
    outcome,                \* the error part of each node's result
    cancelled,              \* nodes announced cancelled with a failed parent
    resetCancelled,         \* nodes announced cancelled by Reset
    missed,                 \* history: results emitted to no callback
    pushListener, readyListener, launcher, worker, client,
    poolQuit, quit, pushClosed, crashed

queues   == <<pushChan, graphSpaceNotify, priorityQueue, launchpad, pool>>
counters == <<launchedCount, completedCount, failedCount>>
results  == <<registered, resultChan, outcome, cancelled, resetCancelled, missed>>
closing  == <<poolQuit, quit, pushClosed, crashed>>
vars     == <<graphVars, queues, paused, muHeld, counters, results, closing,
              pushListener, readyListener, launcher, worker, client>>

Outcome == {"none", "ok", "err"}

\* Where a goroutine is and the node it holds there.
At(pc, n) == [pc |-> pc, node |-> n]
Idle      == At("idle", NoNode)
Exited    == At("exited", NoNode)
Points(pcs) == [pc : pcs, node : Node \cup {NoNode}]

PoolSize == Cardinality(Worker)

\* TurboRun.mu can be locked: no Reset and no GetStats holds it.
MuFree == ~muHeld /\ \A c \in Client : client[c].pc # "stats"

TypeOK ==
    /\ GraphTypeOK
    /\ pushChan \in Seq(Node) /\ Len(pushChan) <= MaxGraphSize
    /\ pool \in Seq(Node) /\ Len(pool) <= 2 * PoolSize
    /\ graphSpaceNotify \in BOOLEAN
    /\ priorityQueue \in SUBSET Node
    /\ launchpad \in 0 .. PoolSize
    /\ paused \in BOOLEAN /\ muHeld \in BOOLEAN
    /\ launchedCount \in Nat /\ completedCount \in Nat /\ failedCount \in Nat
    /\ {registered, resultChan, cancelled, resetCancelled, missed} \subseteq SUBSET Node
    /\ outcome \in [Node -> Outcome]
    /\ pushListener \in Points({"idle", "check", "full", "add", "emit", "exited"})
    /\ readyListener \in Points({"idle", "enqueue", "signal", "exited"})
    /\ launcher \in Points({"idle", "paused", "size", "pop", "dispatch", "register", "count", "exited"})
    /\ worker \in [Worker -> [pc : {"idle", "run", "count", "remove", "emit", "cancel", "notify", "exited"},
                              node : Node \cup {NoNode}, doomed : SUBSET Node]]
    /\ client \in [Client -> [pc : {"idle", "signal", "stats", "clear", "size", "pop", "launchpad", "pushes",
                                    "workers", "loops"},
                              call : Nat, left : Nat, removed : SUBSET Node]]
    /\ {poolQuit, quit, pushClosed, crashed} \subseteq BOOLEAN

Init ==
    /\ GraphInit
    /\ pushChan = <<>> /\ pool = <<>> /\ priorityQueue = {} /\ launchpad = 0
    /\ graphSpaceNotify = FALSE
    /\ paused = TRUE /\ muHeld = FALSE
    /\ launchedCount = 0 /\ completedCount = 0 /\ failedCount = 0
    /\ registered = {} /\ resultChan = {} /\ cancelled = {} /\ resetCancelled = {} /\ missed = {}
    /\ outcome = [n \in Node |-> "none"]
    /\ pushListener = Idle /\ readyListener = Idle /\ launcher = Idle
    /\ worker = [w \in Worker |-> [pc |-> "idle", node |-> NoNode, doomed |-> {}]]
    /\ client = [c \in Client |-> [pc |-> "idle", call |-> 1, left |-> 0, removed |-> {}]]
    /\ poolQuit = FALSE /\ quit = FALSE /\ pushClosed = FALSE /\ crashed = FALSE

-----------------------------------------------------------------------------
(* listenForWorkNodePushRequests *)

PushReceive ==
    /\ pushListener = Idle
    /\ pushChan # <<>>
    /\ pushListener' = At("check", Head(pushChan))
    /\ pushChan' = Tail(pushChan)
    /\ UNCHANGED <<graphVars, graphSpaceNotify, priorityQueue, launchpad, pool, paused, muHeld,
                   counters, results, closing, readyListener, launcher, worker, client>>

\* tr.graph.Size() takes the graph's mutex, and releases it again.
PushCheck ==
    /\ pushListener.pc = "check"
    /\ MutexFree
    /\ pushListener' = At(IF Size >= MaxGraphSize THEN "full" ELSE "add", pushListener.node)
    /\ UNCHANGED <<graphVars, queues, paused, muHeld, counters, results, closing,
                   readyListener, launcher, worker, client>>

\* (faulty) Takes a wake-up for room.
WokenToAdd ==
    /\ pushListener.pc = "full"
    /\ graphSpaceNotify
    /\ graphSpaceNotify' = FALSE
    /\ pushListener' = At("add", pushListener.node)
    /\ UNCHANGED <<graphVars, pushChan, priorityQueue, launchpad, pool, paused, muHeld,
                   counters, results, closing, readyListener, launcher, worker, client>>

\* The wake-up is only a hint: the size is checked again.
PushWoken ==
    /\ pushListener.pc = "full"
    /\ graphSpaceNotify
    /\ graphSpaceNotify' = FALSE
    /\ pushListener' = At("check", pushListener.node)
    /\ UNCHANGED <<graphVars, pushChan, priorityQueue, launchpad, pool, paused, muHeld,
                   counters, results, closing, readyListener, launcher, worker, client>>

PushAdd ==
    /\ pushListener.pc = "add"
    /\ Add(pushListener.node)
    /\ pushListener' = IF emitting' = {} THEN Idle ELSE At("emit", pushListener.node)
    /\ UNCHANGED <<queues, paused, muHeld, counters, results, closing,
                   readyListener, launcher, worker, client>>

PushEmit ==
    /\ pushListener.pc = "emit"
    /\ EmitReady(pushListener.node)
    /\ pushListener' = Idle
    /\ UNCHANGED <<queues, paused, muHeld, counters, results, closing,
                   readyListener, launcher, worker, client>>

PushQuit ==
    /\ pushListener.pc \in {"idle", "full"}
    /\ quit
    /\ pushListener' = Exited
    /\ UNCHANGED <<graphVars, queues, paused, muHeld, counters, results, closing,
                   readyListener, launcher, worker, client>>

PushListener == PushReceive \/ PushCheck \/ PushWoken \/ PushAdd \/ PushEmit \/ PushQuit

-----------------------------------------------------------------------------
(* listenForGraphReadyNodes *)

ReadyReceive ==
    /\ readyListener = Idle
    /\ \E n \in Node :
          /\ ReceiveReady(n)
          /\ readyListener' = At("enqueue", n)
    /\ UNCHANGED <<queues, paused, muHeld, counters, results, closing,
                   pushListener, launcher, worker, client>>

ReadyEnqueue ==
    /\ readyListener.pc = "enqueue"
    /\ priorityQueue' = priorityQueue \cup {readyListener.node}
    /\ readyListener' = At("signal", NoNode)
    /\ UNCHANGED <<graphVars, pushChan, graphSpaceNotify, launchpad, pool, paused, muHeld,
                   counters, results, closing, pushListener, launcher, worker, client>>

\* The launchpad holds one signal per worker; this send waits for room.
ReadySignal ==
    /\ readyListener.pc = "signal"
    /\ launchpad < PoolSize
    /\ launchpad' = launchpad + 1
    /\ readyListener' = Idle
    /\ UNCHANGED <<graphVars, pushChan, graphSpaceNotify, priorityQueue, pool, paused, muHeld,
                   counters, results, closing, pushListener, launcher, worker, client>>

ReadyQuit ==
    /\ readyListener = Idle
    /\ quit
    /\ readyListener' = Exited
    /\ UNCHANGED <<graphVars, queues, paused, muHeld, counters, results, closing,
                   pushListener, launcher, worker, client>>

ReadyListener == ReadyReceive \/ ReadyEnqueue \/ ReadySignal \/ ReadyQuit

-----------------------------------------------------------------------------
(* listenForLaunchPad *)

LaunchReceive ==
    /\ launcher = Idle
    /\ launchpad > 0
    /\ launchpad' = launchpad - 1
    /\ launcher' = At("paused", NoNode)
    /\ UNCHANGED <<graphVars, pushChan, graphSpaceNotify, priorityQueue, pool, paused, muHeld,
                   counters, results, closing, pushListener, readyListener, worker, client>>

\* A signal received while paused is lost.
LaunchPaused ==
    /\ launcher.pc = "paused"
    /\ ~muHeld
    /\ launcher' = IF paused THEN Idle ELSE At("size", NoNode)
    /\ UNCHANGED <<graphVars, queues, paused, muHeld, counters, results, closing,
                   pushListener, readyListener, worker, client>>

LaunchSize ==
    /\ launcher.pc = "size"
    /\ launcher' = IF priorityQueue = {} THEN Idle ELSE At("pop", NoNode)
    /\ UNCHANGED <<graphVars, queues, paused, muHeld, counters, results, closing,
                   pushListener, readyListener, worker, client>>

IsNext(n) == n \in priorityQueue /\ \A m \in priorityQueue : Priority[m] <= Priority[n]

\* (faulty) Leaves the item it returns.
Peeked(n) == priorityQueue

Popped(n) == priorityQueue \ {n}

LaunchPop ==
    /\ launcher.pc = "pop"
    /\ \E n \in Node :
          /\ IsNext(n)
          /\ priorityQueue' = Popped(n)
          /\ launcher' = At("dispatch", n)
    /\ UNCHANGED <<graphVars, pushChan, graphSpaceNotify, launchpad, pool, paused, muHeld,
                   counters, results, closing, pushListener, readyListener, worker, client>>

\* heap.Pop on an empty heap indexes its slice at -1.
LaunchPopEmpty ==
    /\ launcher.pc = "pop"
    /\ priorityQueue = {}
    /\ crashed' = TRUE
    /\ UNCHANGED <<graphVars, queues, paused, muHeld, counters, results, poolQuit, quit, pushClosed,
                   pushListener, readyListener, launcher, worker, client>>

\* Waits for budget, for as long as it takes, and then for room in the pool.
LaunchDispatch ==
    /\ launcher.pc = "dispatch"
    /\ Len(pool) < 2 * PoolSize
    /\ pool' = Append(pool, launcher.node)
    /\ launcher' = At("register", launcher.node)
    /\ UNCHANGED <<graphVars, pushChan, graphSpaceNotify, priorityQueue, launchpad, paused, muHeld,
                   counters, results, closing, pushListener, readyListener, worker, client>>

LaunchRegister ==
    /\ launcher.pc = "register"
    /\ registered' = registered \cup {launcher.node}
    /\ launcher' = At("count", launcher.node)
    /\ UNCHANGED <<graphVars, queues, paused, muHeld, counters, resultChan, outcome, cancelled,
                   resetCancelled, missed, closing, pushListener, readyListener, worker, client>>

LaunchCount ==
    /\ launcher.pc = "count"
    /\ MuFree
    /\ launchedCount' = launchedCount + 1
    /\ launcher' = Idle
    /\ UNCHANGED <<graphVars, queues, paused, muHeld, completedCount, failedCount, results, closing,
                   pushListener, readyListener, worker, client>>

\* (faulty) No case for quit.
IgnoreQuit == FALSE

LaunchQuit ==
    /\ launcher = Idle
    /\ quit
    /\ launcher' = Exited
    /\ UNCHANGED <<graphVars, queues, paused, muHeld, counters, results, closing,
                   pushListener, readyListener, worker, client>>

LaunchPad ==
    \/ LaunchReceive \/ LaunchPaused \/ LaunchSize \/ LaunchPop \/ LaunchPopEmpty
    \/ LaunchDispatch \/ LaunchRegister \/ LaunchCount \/ LaunchQuit

-----------------------------------------------------------------------------
(* worker, EmitResult and the result callback *)

GoTo(w, pc, n) == worker' = [worker EXCEPT ![w].pc = pc, ![w].node = n]

WorkerTake(w) ==
    /\ worker[w].pc = "idle"
    /\ pool # <<>>
    /\ pool' = Tail(pool)
    /\ GoTo(w, "run", Head(pool))
    /\ UNCHANGED <<graphVars, pushChan, graphSpaceNotify, priorityQueue, launchpad, paused, muHeld,
                   counters, results, closing, pushListener, readyListener, launcher, client>>

WorkerQuit(w) ==
    /\ worker[w].pc = "idle"
    /\ poolQuit
    /\ GoTo(w, "exited", NoNode)
    /\ UNCHANGED <<graphVars, queues, paused, muHeld, counters, results, closing,
                   pushListener, readyListener, launcher, client>>

\* The work function returns and its result is emitted: into the channel,
\* then to the callbacks there are at that moment.
WorkerRun(w) ==
    /\ worker[w].pc = "run"
    /\ worker[w].node \notin Panics
    /\ \E r \in {"ok"} \cup (IF worker[w].node \in MayFail THEN {"err"} ELSE {}) :
          outcome' = [outcome EXCEPT ![worker[w].node] = r]
    /\ resultChan' = resultChan \cup {worker[w].node}
    /\ IF worker[w].node \in registered
       THEN GoTo(w, "count", worker[w].node) /\ UNCHANGED missed
       ELSE GoTo(w, "idle", NoNode) /\ missed' = missed \cup {worker[w].node}
    /\ UNCHANGED <<graphVars, queues, paused, muHeld, counters, registered, cancelled, resetCancelled,
                   closing, pushListener, readyListener, launcher, client>>

\* recover() runs before the work function, and not in a deferred call: it
\* recovers nothing.
WorkerPanic(w) ==
    /\ worker[w].pc = "run"
    /\ worker[w].node \in Panics
    /\ crashed' = TRUE
    /\ UNCHANGED <<graphVars, queues, paused, muHeld, counters, results, poolQuit, quit, pushClosed,
                   pushListener, readyListener, launcher, worker, client>>

CallbackCount(w) ==
    /\ worker[w].pc = "count"
    /\ MuFree
    /\ IF outcome[worker[w].node] = "ok"
       THEN completedCount' = completedCount + 1 /\ UNCHANGED failedCount
       ELSE failedCount' = failedCount + 1 /\ UNCHANGED completedCount
    /\ GoTo(w, "remove", worker[w].node)
    /\ UNCHANGED <<graphVars, queues, paused, muHeld, launchedCount, results, closing,
                   pushListener, readyListener, launcher, client>>

\* (faulty) One strategy for all.
AlwaysCascades(n) == outcome[n] = "err"
NeverCascades(n)  == FALSE

CascadesFrom(n) == outcome[n] = "err" /\ Strategy = "propagate"

\* (faulty) Counts the failed node among its descendants.
RemovedWith(n) == nodes \ nodes'

CancelledWith(n) == (nodes \ nodes') \ {n}

CallbackRemove(w) ==
    LET n == worker[w].node
    IN  /\ worker[w].pc = "remove"
        /\ IF CascadesFrom(n)
           THEN /\ RemoveSubtree(n)
                /\ worker' = [worker EXCEPT ![w].pc = "cancel",
                                            ![w].doomed = CancelledWith(n)]
           ELSE /\ Remove(n)
                /\ GoTo(w, IF emitting' = {} THEN "notify" ELSE "emit", n)
        /\ UNCHANGED <<queues, paused, muHeld, counters, results, closing,
                       pushListener, readyListener, launcher, client>>

CallbackEmit(w) ==
    /\ worker[w].pc = "emit"
    /\ \E m \in Node : EmitReady(m)
    /\ GoTo(w, IF emitting' = {} THEN "notify" ELSE "emit", worker[w].node)
    /\ UNCHANGED <<queues, paused, muHeld, counters, results, closing,
                   pushListener, readyListener, launcher, client>>

\* Each cancelled descendant is announced and counted, in any order.
CallbackCancel(w) ==
    /\ worker[w].pc = "cancel"
    /\ MuFree
    /\ \E m \in worker[w].doomed :
          /\ cancelled' = cancelled \cup {m}
          /\ worker' = [worker EXCEPT ![w].doomed = @ \ {m}]
    /\ failedCount' = failedCount + 1
    /\ UNCHANGED <<graphVars, queues, paused, muHeld, launchedCount, completedCount,
                   registered, resultChan, outcome, resetCancelled, missed, closing,
                   pushListener, readyListener, launcher, client>>

\* (faulty) Returns early when the node failed.
NotifyOnSuccess(w) ==
    /\ \/ worker[w].pc = "notify"
       \/ worker[w].pc = "cancel" /\ worker[w].doomed = {}
    /\ graphSpaceNotify' = (graphSpaceNotify \/ outcome[worker[w].node] = "ok")
    /\ GoTo(w, "idle", NoNode)
    /\ UNCHANGED <<graphVars, pushChan, priorityQueue, launchpad, pool, paused, muHeld,
                   counters, results, closing, pushListener, readyListener, launcher, client>>

\* The last act of the callback: a send that never waits.
CallbackNotify(w) ==
    /\ \/ worker[w].pc = "notify"
       \/ worker[w].pc = "cancel" /\ worker[w].doomed = {}
    /\ graphSpaceNotify' = TRUE
    /\ GoTo(w, "idle", NoNode)
    /\ UNCHANGED <<graphVars, pushChan, priorityQueue, launchpad, pool, paused, muHeld,
                   counters, results, closing, pushListener, readyListener, launcher, client>>

RunWorker(w) ==
    \/ WorkerTake(w) \/ WorkerQuit(w) \/ WorkerRun(w) \/ WorkerPanic(w)
    \/ CallbackCount(w) \/ CallbackRemove(w) \/ CallbackEmit(w) \/ CallbackCancel(w)
    \/ CallbackNotify(w)

-----------------------------------------------------------------------------
(* The methods of TurboRun, one call of the client's program at a time *)

Calls(c, method) ==
    /\ client[c].pc = "idle"
    /\ client[c].call <= Len(Program[c])
    /\ Program[c][client[c].call][1] = method

Argument(c) == Program[c][client[c].call][2]

\* The client's record when its call returns, and while the call goes on.
Returned(c) == [pc |-> "idle", call |-> client[c].call + 1, left |-> 0, removed |-> {}]
Return(c)   == client' = [client EXCEPT ![c] = Returned(c)]
Proceed(c, pc) == client' = [client EXCEPT ![c].pc = pc]

\* (faulty) A channel without a bound.
PushUnbounded(c) ==
    /\ Calls(c, "push")
    /\ pushChan' = Append(pushChan, Argument(c))
    /\ Return(c)
    /\ UNCHANGED <<graphVars, graphSpaceNotify, priorityQueue, launchpad, pool, paused, muHeld,
                   counters, results, closing, pushListener, readyListener, launcher, worker>>

\* Push and PushWithDependencies; sending on a closed channel panics.
Push(c) ==
    /\ Calls(c, "push")
    /\ IF pushClosed
       THEN crashed' = TRUE /\ UNCHANGED <<pushChan, client>>
       ELSE /\ Len(pushChan) < MaxGraphSize
            /\ pushChan' = Append(pushChan, Argument(c))
            /\ Return(c)
            /\ UNCHANGED crashed
    /\ UNCHANGED <<graphVars, graphSpaceNotify, priorityQueue, launchpad, pool, paused, muHeld,
                   counters, results, poolQuit, quit, pushClosed,
                   pushListener, readyListener, launcher, worker>>

WaitFor(c) ==
    /\ Calls(c, "wait")
    /\ Argument(c) \in resultChan
    /\ resultChan' = resultChan \ {Argument(c)}
    /\ Return(c)
    /\ UNCHANGED <<graphVars, queues, paused, muHeld, counters, registered, outcome, cancelled,
                   resetCancelled, missed, closing, pushListener, readyListener, launcher, worker>>

\* (faulty) Forgets the nodes queued while paused.
NoneQueued == 0

QueuedAtStart == Cardinality(priorityQueue)

\* The queue is measured under the mutex and signalled for afterwards.
Start(c) ==
    /\ Calls(c, "start")
    /\ MuFree
    /\ paused' = FALSE
    /\ IF paused
       THEN client' = [client EXCEPT ![c].pc = "signal", ![c].left = QueuedAtStart]
       ELSE Return(c)
    /\ UNCHANGED <<graphVars, queues, muHeld, counters, results, closing,
                   pushListener, readyListener, launcher, worker>>

\* One signal per queued node; one that finds the launchpad full is dropped.
StartSignal(c) ==
    /\ client[c].pc = "signal"
    /\ IF client[c].left = 0
       THEN Return(c) /\ UNCHANGED launchpad
       ELSE /\ client' = [client EXCEPT ![c].left = @ - 1]
            /\ launchpad' = IF launchpad < PoolSize THEN launchpad + 1 ELSE launchpad
    /\ UNCHANGED <<graphVars, pushChan, graphSpaceNotify, priorityQueue, pool, paused, muHeld,
                   counters, results, closing, pushListener, readyListener, launcher, worker>>

Pause(c) ==
    /\ Calls(c, "pause")
    /\ MuFree
    /\ paused' = TRUE
    /\ Return(c)
    /\ UNCHANGED <<graphVars, queues, muHeld, counters, results, closing,
                   pushListener, readyListener, launcher, worker>>

\* GetStats reads under TurboRun.mu, and takes the graph's mutex for its size.
GetStats(c) ==
    /\ Calls(c, "stats")
    /\ ~muHeld
    /\ Proceed(c, "stats")
    /\ UNCHANGED <<graphVars, queues, paused, muHeld, counters, results, closing,
                   pushListener, readyListener, launcher, worker>>

GetStatsDone(c) ==
    /\ client[c].pc = "stats"
    /\ MutexFree
    /\ Return(c)
    /\ UNCHANGED <<graphVars, queues, paused, muHeld, counters, results, closing,
                   pushListener, readyListener, launcher, worker>>

\* Reset holds TurboRun.mu from here to ResetDone.
Reset(c) ==
    /\ Calls(c, "reset")
    /\ MuFree
    /\ muHeld' = TRUE
    /\ Proceed(c, "clear")
    /\ UNCHANGED <<graphVars, queues, paused, counters, results, closing,
                   pushListener, readyListener, launcher, worker>>

ResetClear(c) ==
    /\ client[c].pc = "clear"
    /\ Clear
    /\ client' = [client EXCEPT ![c].pc = "size", ![c].removed = nodes]
    /\ UNCHANGED <<queues, paused, muHeld, counters, results, closing,
                   pushListener, readyListener, launcher, worker>>

ResetSize(c) ==
    /\ client[c].pc = "size"
    /\ Proceed(c, IF priorityQueue = {} THEN "launchpad" ELSE "pop")
    /\ UNCHANGED <<graphVars, queues, paused, muHeld, counters, results, closing,
                   pushListener, readyListener, launcher, worker>>

ResetPop(c) ==
    /\ client[c].pc = "pop"
    /\ \E n \in Node : IsNext(n) /\ priorityQueue' = Popped(n)
    /\ Proceed(c, "size")
    /\ UNCHANGED <<graphVars, pushChan, graphSpaceNotify, launchpad, pool, paused, muHeld,
                   counters, results, closing, pushListener, readyListener, launcher, worker>>

ResetPopEmpty(c) ==
    /\ client[c].pc = "pop"
    /\ priorityQueue = {}
    /\ crashed' = TRUE
    /\ UNCHANGED <<graphVars, queues, paused, muHeld, counters, results, poolQuit, quit, pushClosed,
                   pushListener, readyListener, launcher, worker, client>>

ResetDrainLaunchpad(c) ==
    /\ client[c].pc = "launchpad"
    /\ IF launchpad = 0
       THEN Proceed(c, "pushes") /\ UNCHANGED launchpad
       ELSE launchpad' = launchpad - 1 /\ UNCHANGED client
    /\ UNCHANGED <<graphVars, pushChan, graphSpaceNotify, priorityQueue, pool, paused, muHeld,
                   counters, results, closing, pushListener, readyListener, launcher, worker>>

ResetDrainPush(c) ==
    /\ client[c].pc = "pushes"
    /\ pushChan # <<>>
    /\ pushChan' = Tail(pushChan)
    /\ UNCHANGED <<graphVars, graphSpaceNotify, priorityQueue, launchpad, pool, paused, muHeld,
                   counters, results, closing, pushListener, readyListener, launcher, worker, client>>

\* A closed channel is never empty for a select: after a Stop this loop does
\* not end.
ResetDone(c) ==
    /\ client[c].pc = "pushes"
    /\ pushChan = <<>>
    /\ ~pushClosed
    /\ launchedCount' = 0 /\ completedCount' = 0 /\ failedCount' = 0
    /\ resetCancelled' = resetCancelled \cup client[c].removed
    /\ muHeld' = FALSE
    /\ Return(c)
    /\ UNCHANGED <<graphVars, queues, paused, registered, resultChan, outcome, cancelled, missed,
                   closing, pushListener, readyListener, launcher, worker>>

\* Closing a channel for the second time panics.
Stop(c) ==
    /\ Calls(c, "stop")
    /\ IF poolQuit
       THEN crashed' = TRUE /\ UNCHANGED <<poolQuit, client>>
       ELSE poolQuit' = TRUE /\ Proceed(c, "workers") /\ UNCHANGED crashed
    /\ UNCHANGED <<graphVars, queues, paused, muHeld, counters, results, quit, pushClosed,
                   pushListener, readyListener, launcher, worker>>

\* (faulty) Does not wait.
NobodyAwaited == TRUE

WorkersAwaited == \A w \in Worker : worker[w].pc = "exited"

StopWorkers(c) ==
    /\ client[c].pc = "workers"
    /\ WorkersAwaited
    /\ quit' = TRUE
    /\ Proceed(c, "loops")
    /\ UNCHANGED <<graphVars, queues, paused, muHeld, counters, results, poolQuit, pushClosed, crashed,
                   pushListener, readyListener, launcher, worker>>

StopDone(c) ==
    /\ client[c].pc = "loops"
    /\ {pushListener, readyListener, launcher} = {Exited}
    /\ pushClosed' = TRUE
    /\ Return(c)
    /\ UNCHANGED <<graphVars, queues, paused, muHeld, counters, results, poolQuit, quit, crashed,
                   pushListener, readyListener, launcher, worker>>

RunClient(c) ==
    \/ Push(c) \/ WaitFor(c) \/ Start(c) \/ StartSignal(c) \/ Pause(c)
    \/ GetStats(c) \/ GetStatsDone(c)
    \/ Reset(c) \/ ResetClear(c) \/ ResetSize(c) \/ ResetPop(c) \/ ResetPopEmpty(c)
    \/ ResetDrainLaunchpad(c) \/ ResetDrainPush(c) \/ ResetDone(c)
    \/ Stop(c) \/ StopWorkers(c) \/ StopDone(c)

-----------------------------------------------------------------------------
\* A panic in any goroutine ends the process.
Next ==
    /\ ~crashed
    /\ \/ PushListener \/ ReadyListener \/ LaunchPad
       \/ \E w \in Worker : RunWorker(w)
       \/ \E c \in Client : RunClient(c)

Spec == Init /\ [][Next]_vars

\* The Go scheduler runs every goroutine that can run, requests return, and
\* budget is granted eventually (the next minute's budget covers any node).
Fairness ==
    /\ WF_vars(~crashed /\ PushListener)
    /\ WF_vars(~crashed /\ ReadyListener)
    /\ WF_vars(~crashed /\ LaunchPad)
    /\ \A w \in Worker : WF_vars(~crashed /\ RunWorker(w))
    /\ \A c \in Client : WF_vars(~crashed /\ RunClient(c))

FairSpec == Spec /\ Fairness
=============================================================================
