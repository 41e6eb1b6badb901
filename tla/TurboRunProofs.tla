---------------------------- MODULE TurboRunProofs ----------------------------
(***************************************************************************)
(* Proofs about the engine, for every graph, pool, set of clients and      *)
(* programs.                                                               *)
(*                                                                         *)
(* The capacity of the graph is respected although the check and the Add   *)
(* are separate steps: the push listener is the only one that adds, so the *)
(* room it has seen is still there when it gets to Add.                    *)
(*                                                                         *)
(* Once Stop has returned nothing moves: it has waited for each goroutine  *)
(* before it closes the next channel.                                      *)
(*                                                                         *)
(* There are never two copies of a node under way, and none is executed    *)
(* twice: a node comes to the graph once (FeedInv), the graph publishes it *)
(* once (PublishInv), and from there every step of a listener or a worker  *)
(* moves it from one place to the next (PipelineInv).  A Reset in the      *)
(* middle of this only takes nodes away.                                   *)
(***************************************************************************)
EXTENDS TurboRunProperties, GraphLemmas

-----------------------------------------------------------------------------
(* Types *)

\* A goroutine on its way with a node holds one.
Holding ==
    /\ pushListener.pc \in {"check", "full", "add", "emit"} => pushListener.node \in Node
    /\ readyListener.pc = "enqueue" => readyListener.node \in Node
    /\ launcher.pc \in {"dispatch", "register", "count"} => launcher.node \in Node
    /\ \A w \in Worker : worker[w].pc \notin {"idle", "exited"} => worker[w].node \in Node
    /\ \A c \in Client : client[c].call # 0

TypeInv == TypeOK /\ Holding

\* The pool and the graph have positive sizes, and sets of nodes are finite.
LEMMA Sizes ==
    /\ PoolSize \in Nat \ {0} /\ MaxGraphSize \in Nat \ {0}
    /\ \A S \in SUBSET Node : IsFiniteSet(S) /\ Cardinality(S) \in Nat
<1>1. PoolSize \in Nat /\ PoolSize # 0
  BY WorkerAssumption, FS_CardinalityType, FS_EmptySet DEF PoolSize
<1>2. ASSUME NEW S \in SUBSET Node PROVE IsFiniteSet(S) /\ Cardinality(S) \in Nat
  <2>1. IsFiniteSet(S)
    BY NodeAssumption, FS_Subset
  <2> QED
    BY <2>1, FS_CardinalityType
<1> QED
  BY <1>1, <1>2, MaxGraphSizeAssumption

\* Steps that leave the graph alone keep its types.
LEMMA GraphKept == GraphTypeOK /\ UNCHANGED graphVars => GraphTypeOK'
  BY DEF GraphTypeOK, graphVars

\* Taking from a channel and sending to it.
LEMMA TailTyped ==
    ASSUME NEW S, NEW q \in Seq(S), q # <<>>
    PROVE  /\ Head(q) \in S /\ Tail(q) \in Seq(S) /\ Len(q) \in Nat
           /\ Len(Tail(q)) = Len(q) - 1
  OBVIOUS

\* A send to a channel of S keeps it one.
LEMMA AppendTyped ==
    ASSUME NEW S, NEW q \in Seq(S), NEW x \in S
    PROVE  Append(q, x) \in Seq(S) /\ Len(q) \in Nat /\ Len(Append(q, x)) = Len(q) + 1
  OBVIOUS

\* The push listener keeps the types: it has read what Add needs.
LEMMA PushListenerTyped == ASSUME TypeInv, PushListener PROVE TypeInv'
<1> USE DEF TypeInv, TypeOK, Holding, queues, counters, results, closing, At, Idle, Exited, Points
<1>1. CASE PushReceive
  <2>1. Head(pushChan) \in Node /\ Tail(pushChan) \in Seq(Node) /\ Len(Tail(pushChan)) <= MaxGraphSize
    BY <1>1, TailTyped, Sizes DEF PushReceive
  <2> QED
    BY <1>1, <2>1, GraphKept DEF PushReceive
<1>2. CASE PushCheck
  BY <1>2, GraphKept DEF PushCheck
<1>3. CASE PushWoken
  BY <1>3, GraphKept DEF PushWoken
<1>4. CASE PushAdd
  BY <1>4, AddTyped DEF PushAdd
<1>5. CASE PushEmit
  BY <1>5, EmitReadyTyped DEF PushEmit
<1>6. CASE PushQuit
  BY <1>6, GraphKept DEF PushQuit
<1> QED
  BY <1>1, <1>2, <1>3, <1>4, <1>5, <1>6 DEF PushListener

\* The ready listener keeps the types.
LEMMA ReadyListenerTyped == ASSUME TypeInv, ReadyListener PROVE TypeInv'
<1> USE DEF TypeInv, TypeOK, Holding, queues, counters, results, closing, At, Idle, Exited, Points
<1>1. CASE ReadyReceive
  BY <1>1, ReceiveReadyTyped DEF ReadyReceive
<1>2. CASE ReadyEnqueue
  BY <1>2, GraphKept DEF ReadyEnqueue
<1>3. CASE ReadySignal
  BY <1>3, Sizes, GraphKept DEF ReadySignal
<1>4. CASE ReadyQuit
  BY <1>4, GraphKept DEF ReadyQuit
<1> QED
  BY <1>1, <1>2, <1>3, <1>4 DEF ReadyListener

\* The launchpad listener keeps the types; the pool takes no more than it has room for.
LEMMA LaunchPadTyped == ASSUME TypeInv, LaunchPad PROVE TypeInv'
<1> USE DEF TypeInv, TypeOK, Holding, queues, counters, results, closing, At, Idle, Exited, Points
<1>1. CASE LaunchReceive
  BY <1>1, Sizes, GraphKept DEF LaunchReceive
<1>2. CASE LaunchPaused
  BY <1>2, GraphKept DEF LaunchPaused
<1>3. CASE LaunchSize
  BY <1>3, GraphKept DEF LaunchSize
<1>4. CASE LaunchPop
  BY <1>4, GraphKept DEF LaunchPop, Popped
<1>5. CASE LaunchPopEmpty
  BY <1>5, GraphKept DEF LaunchPopEmpty
<1>6. CASE LaunchDispatch
  <2>1. /\ Append(pool, launcher.node) \in Seq(Node)
        /\ Len(Append(pool, launcher.node)) <= 2 * PoolSize
    BY <1>6, Sizes, AppendTyped DEF LaunchDispatch
  <2> QED
    BY <1>6, <2>1, GraphKept DEF LaunchDispatch
<1>7. CASE LaunchRegister
  BY <1>7, GraphKept DEF LaunchRegister
<1>8. CASE LaunchCount
  BY <1>8, GraphKept DEF LaunchCount
<1>9. CASE LaunchQuit
  BY <1>9, GraphKept DEF LaunchQuit
<1> QED
  BY <1>1, <1>2, <1>3, <1>4, <1>5, <1>6, <1>7, <1>8, <1>9 DEF LaunchPad

\* The three parts of TypeInv: what the workers hold, what the clients hold,
\* and the rest.
WorkersOK ==
    /\ worker \in [Worker -> [pc : {"idle", "run", "count", "remove", "emit", "cancel", "notify", "exited"},
                              node : Node \cup {NoNode}, doomed : SUBSET Node]]
    /\ \A w \in Worker : worker[w].pc \notin {"idle", "exited"} => worker[w].node \in Node

ClientsOK ==
    /\ client \in [Client -> [pc : {"idle", "signal", "stats", "clear", "size", "pop", "launchpad", "pushes",
                                    "workers", "loops"},
                              call : Nat, left : Nat, removed : SUBSET Node]]
    /\ \A c \in Client : client[c].call # 0

QueuesOK ==
    /\ pushChan \in Seq(Node) /\ Len(pushChan) <= MaxGraphSize
    /\ pool \in Seq(Node) /\ Len(pool) <= 2 * PoolSize
    /\ graphSpaceNotify \in BOOLEAN
    /\ priorityQueue \in SUBSET Node
    /\ launchpad \in 0 .. PoolSize

RestOK ==
    /\ paused \in BOOLEAN /\ muHeld \in BOOLEAN
    /\ launchedCount \in Nat /\ completedCount \in Nat /\ failedCount \in Nat
    /\ {registered, resultChan, cancelled, resetCancelled, missed} \subseteq SUBSET Node
    /\ outcome \in [Node -> Outcome]
    /\ {poolQuit, quit, pushClosed, crashed} \subseteq BOOLEAN

ListenersOK ==
    /\ pushListener \in Points({"idle", "check", "full", "add", "emit", "exited"})
    /\ readyListener \in Points({"idle", "enqueue", "signal", "exited"})
    /\ launcher \in Points({"idle", "paused", "size", "pop", "dispatch", "register", "count", "exited"})
    /\ pushListener.pc \in {"check", "full", "add", "emit"} => pushListener.node \in Node
    /\ readyListener.pc = "enqueue" => readyListener.node \in Node
    /\ launcher.pc \in {"dispatch", "register", "count"} => launcher.node \in Node

\* TypeInv is its parts.
LEMMA Parts ==
    /\ TypeInv => GraphTypeOK /\ QueuesOK /\ RestOK /\ ListenersOK /\ WorkersOK /\ ClientsOK
    /\ GraphTypeOK /\ QueuesOK /\ RestOK /\ ListenersOK /\ WorkersOK /\ ClientsOK => TypeInv
  BY DEF TypeInv, TypeOK, Holding, QueuesOK, RestOK, ListenersOK, WorkersOK, ClientsOK

\* And so it is after a step.
LEMMA NextParts ==
    ASSUME GraphTypeOK', QueuesOK', RestOK', ListenersOK', WorkersOK', ClientsOK'
    PROVE  TypeInv'
<1>1. TypeOK'
  BY DEF TypeOK, QueuesOK, RestOK, ListenersOK, WorkersOK, ClientsOK
<1>2. Holding'
  BY DEF Holding, ListenersOK, WorkersOK, ClientsOK
<1> QED
  BY <1>1, <1>2 DEF TypeInv

\* A worker that moves, and one whose cascade changes.
LEMMA WorkerMoves ==
    ASSUME WorkersOK, NEW w \in Worker, NEW n \in Node \cup {NoNode},
           NEW pc \in {"idle", "run", "count", "remove", "emit", "cancel", "notify", "exited"},
           pc \in {"idle", "exited"} \/ n \in Node, GoTo(w, pc, n)
    PROVE  WorkersOK'
  BY DEF WorkersOK, GoTo

\* A worker that has removed a subtree holds a set of nodes to cancel.
LEMMA WorkerCascades ==
    ASSUME WorkersOK, NEW w \in Worker, NEW D \in SUBSET Node, worker[w].node \in Node,
           worker' = [worker EXCEPT ![w].pc = "cancel", ![w].doomed = D]
    PROVE  WorkersOK'
  BY DEF WorkersOK

\* The steps of the workers and of the clients keep the types.
LEMMA WorkerTyped == ASSUME TypeInv, NEW w \in Worker, RunWorker(w) PROVE TypeInv'
<1>0. GraphTypeOK /\ QueuesOK /\ RestOK /\ ListenersOK /\ WorkersOK /\ ClientsOK
  BY Parts
<1> DEFINE n == worker[w].node
<1>n. /\ n \in Node \cup {NoNode} /\ NoNode \in Node \cup {NoNode}
      /\ worker[w].pc \notin {"idle", "exited"} => n \in Node
  BY <1>0 DEF WorkersOK
<1> HIDE DEF n
<1> USE DEF queues, counters, results, closing
<1>1. CASE WorkerTake(w)
  <2>1. Head(pool) \in Node /\ Tail(pool) \in Seq(Node) /\ Len(Tail(pool)) <= 2 * PoolSize
    BY <1>0, <1>1, TailTyped, Sizes DEF WorkerTake, QueuesOK
  <2>2. WorkersOK'
    BY <1>0, <1>1, <2>1, WorkerMoves DEF WorkerTake
  <2>3. QueuesOK'
    BY <1>0, <1>1, <2>1 DEF WorkerTake, QueuesOK
  <2>4. GraphTypeOK' /\ RestOK' /\ ListenersOK' /\ ClientsOK'
    BY <1>0, <1>1, GraphKept DEF WorkerTake, RestOK, ListenersOK, ClientsOK
  <2> QED
    BY <2>2, <2>3, <2>4, NextParts
<1>2. CASE WorkerQuit(w)
  <2>1. WorkersOK'
    BY <1>0, <1>n, <1>2, WorkerMoves DEF WorkerQuit
  <2>2. GraphTypeOK' /\ QueuesOK' /\ RestOK' /\ ListenersOK' /\ ClientsOK'
    BY <1>0, <1>2, GraphKept DEF WorkerQuit, QueuesOK, RestOK, ListenersOK, ClientsOK
  <2> QED
    BY <2>1, <2>2, NextParts
<1>3. CASE WorkerRun(w)
  <2>0. n \in Node
    BY <1>n, <1>3 DEF WorkerRun, n
  <2>1. WorkersOK'
    BY <1>0, <1>n, <2>0, <1>3, WorkerMoves DEF WorkerRun, n
  <2>2. GraphTypeOK' /\ QueuesOK' /\ ListenersOK' /\ ClientsOK'
    BY <1>0, <1>3, GraphKept DEF WorkerRun, QueuesOK, ListenersOK, ClientsOK
  <2>3. RestOK'
    <3>1. outcome' \in [Node -> Outcome]
      BY <1>0, <1>3 DEF WorkerRun, RestOK, Outcome
    <3>2. {registered, resultChan, cancelled, resetCancelled, missed}' \subseteq SUBSET Node
      BY <1>0, <2>0, <1>3 DEF WorkerRun, RestOK, n
    <3> QED
      BY <1>0, <1>3, <3>1, <3>2 DEF WorkerRun, RestOK
  <2> QED
    BY <2>1, <2>2, <2>3, NextParts
<1>4. CASE WorkerPanic(w)
  <2>1. /\ GraphTypeOK' /\ QueuesOK' /\ RestOK' /\ ListenersOK' /\ WorkersOK' /\ ClientsOK'
    BY <1>0, <1>4, GraphKept
       DEF WorkerPanic, QueuesOK, RestOK, ListenersOK, WorkersOK, ClientsOK
  <2> QED
    BY <2>1, NextParts
<1>5. CASE CallbackCount(w)
  <2>0. n \in Node
    BY <1>n, <1>5 DEF CallbackCount, n
  <2>1. WorkersOK'
    BY <1>0, <2>0, <1>5, WorkerMoves DEF CallbackCount, n
  <2>2. GraphTypeOK' /\ QueuesOK' /\ RestOK' /\ ListenersOK' /\ ClientsOK'
    BY <1>0, <1>5, GraphKept DEF CallbackCount, QueuesOK, RestOK, ListenersOK, ClientsOK
  <2> QED
    BY <2>1, <2>2, NextParts
<1>6. CASE CallbackRemove(w)
  <2>0. n \in Node
    BY <1>n, <1>6 DEF CallbackRemove, n
  <2>1. QueuesOK' /\ RestOK' /\ ListenersOK' /\ ClientsOK'
    BY <1>0, <1>6 DEF CallbackRemove, QueuesOK, RestOK, ListenersOK, ClientsOK
  <2>2. CASE CascadesFrom(n)
    <3>1. RemoveSubtree(n) /\ worker' = [worker EXCEPT ![w].pc = "cancel", ![w].doomed = CancelledWith(n)]
      BY <1>6, <2>2 DEF CallbackRemove, n
    <3>2. GraphTypeOK'
      BY <1>0, <3>1, RemoveSubtreeTyped
    <3>3. CancelledWith(n) \in SUBSET Node
      BY <1>0 DEF CancelledWith, GraphTypeOK
    <3>4. WorkersOK'
      BY <1>0, <2>0, <3>1, <3>3, WorkerCascades DEF n
    <3> QED
      BY <2>1, <3>2, <3>4, NextParts
  <2>3. CASE ~CascadesFrom(n)
    <3>1. Remove(n) /\ GoTo(w, IF emitting' = {} THEN "notify" ELSE "emit", n)
      BY <1>6, <2>3 DEF CallbackRemove, n
    <3>2. GraphTypeOK'
      BY <1>0, <2>0, <3>1, RemoveTyped
    <3>3. WorkersOK'
      BY <1>0, <2>0, <3>1, WorkerMoves
    <3> QED
      BY <2>1, <3>2, <3>3, NextParts
  <2> QED
    BY <2>2, <2>3
<1>7. CASE CallbackEmit(w)
  <2>0. n \in Node
    BY <1>n, <1>7 DEF CallbackEmit, n
  <2>1. WorkersOK'
    BY <1>0, <2>0, <1>7, WorkerMoves DEF CallbackEmit, n
  <2>2. GraphTypeOK'
    BY <1>0, <1>7, EmitReadyTyped DEF CallbackEmit
  <2>3. QueuesOK' /\ RestOK' /\ ListenersOK' /\ ClientsOK'
    BY <1>0, <1>7 DEF CallbackEmit, QueuesOK, RestOK, ListenersOK, ClientsOK
  <2> QED
    BY <2>1, <2>2, <2>3, NextParts
<1>8. CASE CallbackCancel(w)
  <2>1. WorkersOK'
    BY <1>0, <1>8 DEF CallbackCancel, WorkersOK
  <2>2. GraphTypeOK' /\ QueuesOK' /\ ListenersOK' /\ ClientsOK'
    BY <1>0, <1>8, GraphKept DEF CallbackCancel, QueuesOK, ListenersOK, ClientsOK
  <2>3. cancelled' \in SUBSET Node
    BY <1>0, <1>8 DEF CallbackCancel, RestOK, WorkersOK
  <2>4. RestOK'
    BY <1>0, <1>8, <2>3 DEF CallbackCancel, RestOK
  <2> QED
    BY <2>1, <2>2, <2>4, NextParts
<1>9. CASE CallbackNotify(w)
  <2>1. WorkersOK'
    BY <1>0, <1>n, <1>9, WorkerMoves DEF CallbackNotify
  <2>2. GraphTypeOK' /\ QueuesOK' /\ RestOK' /\ ListenersOK' /\ ClientsOK'
    BY <1>0, <1>9, GraphKept DEF CallbackNotify, QueuesOK, RestOK, ListenersOK, ClientsOK
  <2> QED
    BY <2>1, <2>2, NextParts
<1> QED
  BY <1>1, <1>2, <1>3, <1>4, <1>5, <1>6, <1>7, <1>8, <1>9 DEF RunWorker

\* A client whose call returns, goes on, or changes what it keeps.
LEMMA ClientMoves ==
    ASSUME ClientsOK, NEW c \in Client
    PROVE  /\ Return(c) => ClientsOK'
           /\ \A pc \in {"idle", "signal", "stats", "clear", "size", "pop", "launchpad", "pushes",
                         "workers", "loops"} : Proceed(c, pc) => ClientsOK'
<1>1. ASSUME Return(c) PROVE ClientsOK'
  BY <1>1 DEF ClientsOK, Return, Returned
<1>2. ASSUME NEW pc \in {"idle", "signal", "stats", "clear", "size", "pop", "launchpad", "pushes",
                         "workers", "loops"}, Proceed(c, pc)
      PROVE  ClientsOK'
  BY <1>2 DEF ClientsOK, Proceed
<1> QED
  BY <1>1, <1>2

\* The node a client pushes, or waits for.
LEMMA ArgumentTyped ==
    ASSUME ClientsOK, NEW c \in Client, Calls(c, "push") \/ Calls(c, "wait")
    PROVE  Argument(c) \in Node
<1>1. Program[c] \in Seq(Call) /\ client[c].call \in 1 .. Len(Program[c])
  BY ProgramAssumption DEF ClientsOK, Calls
<1>2. Program[c][client[c].call] \in Call
  BY <1>1
<1>3. Program[c][client[c].call][1] \in {"push", "wait"}
  BY DEF Calls
<1> QED
  BY <1>2, <1>3 DEF Call, Argument

\* A caller keeps the types, whichever method it is in.
LEMMA ClientTyped == ASSUME TypeInv, NEW c \in Client, RunClient(c) PROVE TypeInv'
<1>0. GraphTypeOK /\ QueuesOK /\ RestOK /\ ListenersOK /\ WorkersOK /\ ClientsOK
  BY Parts
<1> USE DEF queues, counters, results, closing
<1>1. CASE Push(c)
  <2>1. Argument(c) \in Node
    BY <1>0, <1>1, ArgumentTyped DEF Push
  <2>2. QueuesOK'
    <3>1. CASE pushClosed
      BY <1>0, <1>1, <3>1 DEF Push, QueuesOK
    <3>2. CASE ~pushClosed
      <4>1. /\ Append(pushChan, Argument(c)) \in Seq(Node)
            /\ Len(Append(pushChan, Argument(c))) <= MaxGraphSize
        BY <1>0, <1>1, <2>1, <3>2, Sizes, AppendTyped DEF Push, QueuesOK
      <4> QED
        BY <1>0, <1>1, <3>2, <4>1 DEF Push, QueuesOK
    <3> QED
      BY <3>1, <3>2
  <2>3. ClientsOK'
    BY <1>0, <1>1, ClientMoves DEF Push, ClientsOK
  <2>4. GraphTypeOK' /\ RestOK' /\ ListenersOK' /\ WorkersOK'
    BY <1>0, <1>1, GraphKept DEF Push, RestOK, ListenersOK, WorkersOK
  <2> QED
    BY <2>2, <2>3, <2>4, NextParts
<1>2. CASE WaitFor(c)
  <2>1. ClientsOK'
    BY <1>0, <1>2, ClientMoves DEF WaitFor
  <2>2. GraphTypeOK' /\ QueuesOK' /\ RestOK' /\ ListenersOK' /\ WorkersOK'
    BY <1>0, <1>2, GraphKept DEF WaitFor, QueuesOK, RestOK, ListenersOK, WorkersOK
  <2> QED
    BY <2>1, <2>2, NextParts
<1>3. CASE Start(c)
  <2>1. ClientsOK'
    <3>1. CASE paused
      <4>1. QueuedAtStart \in Nat
        BY <1>0, Sizes DEF QueuedAtStart, QueuesOK
      <4> QED
        BY <1>0, <1>3, <3>1, <4>1 DEF Start, ClientsOK
    <3>2. CASE ~paused
      BY <1>0, <1>3, <3>2, ClientMoves DEF Start
    <3> QED
      BY <3>1, <3>2
  <2>2. GraphTypeOK' /\ QueuesOK' /\ RestOK' /\ ListenersOK' /\ WorkersOK'
    BY <1>0, <1>3, GraphKept DEF Start, QueuesOK, RestOK, ListenersOK, WorkersOK
  <2> QED
    BY <2>1, <2>2, NextParts
<1>4. CASE StartSignal(c)
  <2>1. ClientsOK'
    <3>1. CASE client[c].left = 0
      BY <1>0, <1>4, <3>1, ClientMoves DEF StartSignal
    <3>2. CASE client[c].left # 0
      BY <1>0, <1>4, <3>2 DEF StartSignal, ClientsOK
    <3> QED
      BY <3>1, <3>2
  <2>2. QueuesOK'
    BY <1>0, <1>4, Sizes DEF StartSignal, QueuesOK
  <2>3. GraphTypeOK' /\ RestOK' /\ ListenersOK' /\ WorkersOK'
    BY <1>0, <1>4, GraphKept DEF StartSignal, RestOK, ListenersOK, WorkersOK
  <2> QED
    BY <2>1, <2>2, <2>3, NextParts
<1>5. CASE Pause(c) \/ GetStats(c) \/ GetStatsDone(c) \/ Reset(c) \/ ResetSize(c)
  <2>1. ClientsOK'
    BY <1>0, <1>5, ClientMoves DEF Pause, GetStats, GetStatsDone, Reset, ResetSize
  <2>2. GraphTypeOK' /\ QueuesOK' /\ RestOK' /\ ListenersOK' /\ WorkersOK'
    BY <1>0, <1>5, GraphKept
       DEF Pause, GetStats, GetStatsDone, Reset, ResetSize, QueuesOK, RestOK, ListenersOK, WorkersOK
  <2> QED
    BY <2>1, <2>2, NextParts
<1>6. CASE ResetClear(c)
  <2>1. ClientsOK'
    BY <1>0, <1>6 DEF ResetClear, ClientsOK, GraphTypeOK
  <2>2. GraphTypeOK'
    BY <1>0, <1>6, ClearTyped DEF ResetClear
  <2>3. QueuesOK' /\ RestOK' /\ ListenersOK' /\ WorkersOK'
    BY <1>0, <1>6 DEF ResetClear, QueuesOK, RestOK, ListenersOK, WorkersOK
  <2> QED
    BY <2>1, <2>2, <2>3, NextParts
<1>7. CASE ResetPop(c)
  <2>1. ClientsOK'
    BY <1>0, <1>7, ClientMoves DEF ResetPop
  <2>2. GraphTypeOK' /\ QueuesOK' /\ RestOK' /\ ListenersOK' /\ WorkersOK'
    BY <1>0, <1>7, GraphKept DEF ResetPop, Popped, QueuesOK, RestOK, ListenersOK, WorkersOK
  <2> QED
    BY <2>1, <2>2, NextParts
<1>8. CASE ResetPopEmpty(c)
  <2>1. /\ GraphTypeOK' /\ QueuesOK' /\ RestOK' /\ ListenersOK' /\ WorkersOK' /\ ClientsOK'
    BY <1>0, <1>8, GraphKept
       DEF ResetPopEmpty, QueuesOK, RestOK, ListenersOK, WorkersOK, ClientsOK
  <2> QED
    BY <2>1, NextParts
<1>9. CASE ResetDrainLaunchpad(c)
  <2>1. ClientsOK'
    BY <1>0, <1>9, ClientMoves DEF ResetDrainLaunchpad, ClientsOK
  <2>2. QueuesOK'
    BY <1>0, <1>9, Sizes DEF ResetDrainLaunchpad, QueuesOK
  <2>3. GraphTypeOK' /\ RestOK' /\ ListenersOK' /\ WorkersOK'
    BY <1>0, <1>9, GraphKept DEF ResetDrainLaunchpad, RestOK, ListenersOK, WorkersOK
  <2> QED
    BY <2>1, <2>2, <2>3, NextParts
<1>10. CASE ResetDrainPush(c)
  <2>1. Tail(pushChan) \in Seq(Node) /\ Len(Tail(pushChan)) <= MaxGraphSize
    BY <1>0, <1>10, TailTyped, Sizes DEF ResetDrainPush, QueuesOK
  <2>2. QueuesOK'
    BY <1>0, <1>10, <2>1 DEF ResetDrainPush, QueuesOK
  <2>3. GraphTypeOK' /\ RestOK' /\ ListenersOK' /\ WorkersOK' /\ ClientsOK'
    BY <1>0, <1>10, GraphKept DEF ResetDrainPush, RestOK, ListenersOK, WorkersOK, ClientsOK
  <2> QED
    BY <2>2, <2>3, NextParts
<1>11. CASE ResetDone(c)
  <2>1. ClientsOK'
    BY <1>0, <1>11, ClientMoves DEF ResetDone
  <2>2. resetCancelled' \in SUBSET Node
    BY <1>0, <1>11 DEF ResetDone, RestOK, ClientsOK
  <2>3. GraphTypeOK' /\ QueuesOK' /\ ListenersOK' /\ WorkersOK'
    BY <1>0, <1>11, GraphKept DEF ResetDone, QueuesOK, ListenersOK, WorkersOK
  <2>4. RestOK'
    BY <1>0, <1>11, <2>2 DEF ResetDone, RestOK
  <2> QED
    BY <2>1, <2>3, <2>4, NextParts
<1>12. CASE Stop(c) \/ StopWorkers(c) \/ StopDone(c)
  <2>1. ClientsOK'
    BY <1>0, <1>12, ClientMoves DEF Stop, StopWorkers, StopDone, ClientsOK
  <2>2. GraphTypeOK' /\ QueuesOK' /\ RestOK' /\ ListenersOK' /\ WorkersOK'
    BY <1>0, <1>12, GraphKept
       DEF Stop, StopWorkers, StopDone, QueuesOK, RestOK, ListenersOK, WorkersOK
  <2> QED
    BY <2>1, <2>2, NextParts
<1> QED
  BY <1>1, <1>2, <1>3, <1>4, <1>5, <1>6, <1>7, <1>8, <1>9, <1>10, <1>11, <1>12 DEF RunClient

\* The three kinds of step together.
LEMMA TypesKept == TypeInv /\ [Next]_vars => TypeInv'
<1> SUFFICES ASSUME TypeInv, [Next]_vars PROVE TypeInv'
  OBVIOUS
<1>1. CASE PushListener \/ ReadyListener \/ LaunchPad
  BY <1>1, PushListenerTyped, ReadyListenerTyped, LaunchPadTyped
<1>2. ASSUME NEW w \in Worker, RunWorker(w) PROVE TypeInv'
  BY <1>2, WorkerTyped
<1>3. ASSUME NEW c \in Client, RunClient(c) PROVE TypeInv'
  BY <1>3, ClientTyped
<1>4. CASE UNCHANGED vars
  <2>1. GraphTypeOK /\ QueuesOK /\ RestOK /\ ListenersOK /\ WorkersOK /\ ClientsOK
    BY Parts
  <2>2. /\ GraphTypeOK' /\ QueuesOK' /\ RestOK' /\ ListenersOK' /\ WorkersOK' /\ ClientsOK'
    BY <2>1, <1>4, GraphKept
       DEF vars, queues, counters, results, closing, QueuesOK, RestOK, ListenersOK, WorkersOK,
           ClientsOK
  <2> QED
    BY <2>2, NextParts
<1> QED
  BY <1>1, <1>2, <1>3, <1>4 DEF Next

\* The initial state is typed.
LEMMA InitTyped == Init => TypeInv
<1> SUFFICES ASSUME Init PROVE TypeInv
  OBVIOUS
<1>1. GraphTypeOK
  BY GraphInitTyped DEF Init
<1>2. QueuesOK /\ RestOK
  <2>1. QueuesOK
    <3>1. 0 <= MaxGraphSize /\ 0 <= 2 * PoolSize /\ 0 \in 0 .. PoolSize
      BY Sizes
    <3>2. <<>> \in Seq(Node) /\ Len(<<>>) = 0
      OBVIOUS
    <3> QED
      BY <3>1, <3>2 DEF Init, QueuesOK
  <2>2. RestOK
    BY DEF Init, RestOK, Outcome
  <2> QED
    BY <2>1, <2>2
<1>3. ListenersOK
  BY DEF Init, ListenersOK, Idle, At, Points
<1>4. WorkersOK /\ ClientsOK
  BY DEF Init, WorkersOK, ClientsOK
<1> QED
  BY <1>1, <1>2, <1>3, <1>4, Parts

\* Every variable of the engine stays in its type: in particular the three
\* channels never hold more than their buffers, the launchpad no more signals
\* than there are workers, and no goroutine goes on with a node it lacks.
THEOREM EngineTypes == Spec => []TypeOK
<1>1. TypeInv => TypeOK
  BY DEF TypeInv
<1> QED
  BY <1>1, InitTyped, TypesKept, PTL DEF Spec

-----------------------------------------------------------------------------
(* Capacity *)

\* The room the push listener has seen.
RoomSeen == pushListener.pc = "add" => Size < MaxGraphSize

CapacityInv == IsFiniteSet(nodes) /\ GraphBounded /\ RoomSeen

\* A step that adds no node, and does not take the push listener to its Add,
\* keeps the capacity.
LEMMA NothingAdded ==
    ASSUME CapacityInv, nodes' \subseteq nodes,
           pushListener' = pushListener \/ pushListener'.pc # "add"
    PROVE  CapacityInv'
<1>1. IsFiniteSet(nodes) /\ Cardinality(nodes) \in Nat
  BY FS_CardinalityType DEF CapacityInv
<1>2. /\ IsFiniteSet(nodes') /\ Cardinality(nodes') <= Cardinality(nodes)
      /\ Cardinality(nodes') \in Nat
  BY <1>1, FS_Subset, FS_CardinalityType
<1>3. GraphBounded'
  BY <1>1, <1>2, MaxGraphSizeAssumption DEF CapacityInv, GraphBounded, Size
<1>4. RoomSeen'
  BY <1>1, <1>2, MaxGraphSizeAssumption DEF CapacityInv, RoomSeen, Size
<1> QED
  BY <1>2, <1>3, <1>4 DEF CapacityInv

\* The push listener: the check makes room known, the Add uses it up.
LEMMA PushListenerCapacity == ASSUME CapacityInv, PushListener PROVE CapacityInv'
<1>1. CASE PushCheck
  <2>1. nodes' = nodes /\ (pushListener'.pc = "add" => Size < MaxGraphSize)
    BY <1>1, FS_CardinalityType, MaxGraphSizeAssumption
       DEF PushCheck, At, graphVars, CapacityInv, Size
  <2> QED
    BY <2>1 DEF CapacityInv, GraphBounded, RoomSeen, Size
<1>2. CASE PushAdd
  <2>1. /\ nodes' = nodes \cup {pushListener.node} /\ pushListener'.pc # "add"
        /\ Size < MaxGraphSize
    BY <1>2 DEF PushAdd, Add, At, Idle, CapacityInv, RoomSeen
  <2>2. IsFiniteSet(nodes) /\ Cardinality(nodes) \in Nat
    BY FS_CardinalityType DEF CapacityInv
  <2>3. IsFiniteSet(nodes \cup {pushListener.node})
    BY <2>2, FS_AddElement
  <2>4. \/ Cardinality(nodes \cup {pushListener.node}) = Cardinality(nodes)
        \/ Cardinality(nodes \cup {pushListener.node}) = Cardinality(nodes) + 1
    BY <2>2, FS_AddElement
  <2>5. IsFiniteSet(nodes') /\ Cardinality(nodes') <= Cardinality(nodes) + 1
        /\ Cardinality(nodes') \in Nat
    BY <2>1, <2>2, <2>3, <2>4
  <2> QED
    BY <2>1, <2>2, <2>5, MaxGraphSizeAssumption DEF CapacityInv, GraphBounded, RoomSeen, Size
<1>3. CASE PushReceive \/ PushWoken \/ PushEmit \/ PushQuit
  <2>1. nodes' = nodes /\ pushListener'.pc # "add"
    BY <1>3 DEF PushReceive, PushWoken, PushEmit, PushQuit, EmitReady, At, Idle, Exited, graphVars
  <2> QED
    BY <2>1, NothingAdded
<1> QED
  BY <1>1, <1>2, <1>3 DEF PushListener

\* The other two listeners leave the graph's nodes alone.
LEMMA ListenersCapacity ==
    ASSUME CapacityInv, ReadyListener \/ LaunchPad
    PROVE  CapacityInv'
<1>1. nodes' = nodes /\ pushListener' = pushListener
  <2>1. CASE ReadyListener
    BY <2>1 DEF ReadyListener, ReadyReceive, ReadyEnqueue, ReadySignal, ReadyQuit, ReceiveReady,
                graphVars
  <2>2. CASE LaunchPad
    BY <2>2 DEF LaunchPad, LaunchReceive, LaunchPaused, LaunchSize, LaunchPop, LaunchPopEmpty,
                LaunchDispatch, LaunchRegister, LaunchCount, LaunchQuit, graphVars
  <2> QED
    BY <2>1, <2>2
<1> QED
  BY <1>1, NothingAdded

\* A worker's callback only removes.
LEMMA WorkerCapacity ==
    ASSUME CapacityInv, NEW w \in Worker, RunWorker(w)
    PROVE  CapacityInv'
<1>1. nodes' \subseteq nodes /\ pushListener' = pushListener
  <2>1. CASE CallbackRemove(w)
    BY <2>1 DEF CallbackRemove, Remove, RemoveSubtree
  <2>2. CASE CallbackEmit(w)
    BY <2>2 DEF CallbackEmit, EmitReady
  <2>3. CASE \/ WorkerTake(w) \/ WorkerQuit(w) \/ WorkerRun(w) \/ WorkerPanic(w)
             \/ CallbackCount(w) \/ CallbackCancel(w) \/ CallbackNotify(w)
    BY <2>3 DEF WorkerTake, WorkerQuit, WorkerRun, WorkerPanic, CallbackCount, CallbackCancel,
                CallbackNotify, graphVars
  <2> QED
    BY <2>1, <2>2, <2>3 DEF RunWorker
<1> QED
  BY <1>1, NothingAdded

\* A client's call leaves the graph alone, or clears it.
LEMMA ClientCapacity ==
    ASSUME CapacityInv, NEW c \in Client, RunClient(c)
    PROVE  CapacityInv'
<1>1. nodes' \subseteq nodes /\ pushListener' = pushListener
  <2>1. CASE ResetClear(c)
    BY <2>1 DEF ResetClear, Clear
  <2>2. CASE Push(c) \/ WaitFor(c) \/ Start(c) \/ StartSignal(c) \/ Pause(c)
    BY <2>2 DEF Push, WaitFor, Start, StartSignal, Pause, graphVars
  <2>3. CASE \/ Reset(c) \/ ResetSize(c) \/ ResetPop(c) \/ ResetPopEmpty(c)
             \/ ResetDrainLaunchpad(c) \/ ResetDrainPush(c) \/ ResetDone(c)
    BY <2>3 DEF Reset, ResetSize, ResetPop, ResetPopEmpty, ResetDrainLaunchpad, ResetDrainPush,
                ResetDone, graphVars
  <2>4. CASE GetStats(c) \/ GetStatsDone(c)
    BY <2>4 DEF GetStats, GetStatsDone, graphVars
  <2>5. CASE Stop(c) \/ StopWorkers(c) \/ StopDone(c)
    BY <2>5 DEF Stop, StopWorkers, StopDone, graphVars
  <2> QED
    BY <2>1, <2>2, <2>3, <2>4, <2>5 DEF RunClient
<1> QED
  BY <1>1, NothingAdded

\* Every step keeps the capacity.
LEMMA CapacityKept == CapacityInv /\ [Next]_vars => CapacityInv'
<1> SUFFICES ASSUME CapacityInv, [Next]_vars PROVE CapacityInv'
  OBVIOUS
<1>1. CASE PushListener
  BY <1>1, PushListenerCapacity
<1>2. CASE ReadyListener \/ LaunchPad
  BY <1>2, ListenersCapacity
<1>3. ASSUME NEW w \in Worker, RunWorker(w) PROVE CapacityInv'
  BY <1>3, WorkerCapacity
<1>4. ASSUME NEW c \in Client, RunClient(c) PROVE CapacityInv'
  BY <1>4, ClientCapacity
<1>5. CASE UNCHANGED vars
  BY <1>5, NothingAdded DEF vars, graphVars
<1> QED
  BY <1>1, <1>2, <1>3, <1>4, <1>5 DEF Next

\* The empty graph has room.
LEMMA RoomAtFirst == Init => CapacityInv
  BY FS_EmptySet, MaxGraphSizeAssumption
     DEF Init, GraphInit, CapacityInv, GraphBounded, RoomSeen, Size, Idle, At

\* The graph of the engine never holds more nodes than MaxGraphSize,
\* whatever is pushed, removed, reset or stopped meanwhile.
THEOREM CapacityRespected == Spec => []GraphBounded
<1>1. CapacityInv => GraphBounded
  BY DEF CapacityInv
<1> QED
  BY <1>1, RoomAtFirst, CapacityKept, PTL DEF Spec

-----------------------------------------------------------------------------
(* Shutdown *)

\* In a Reset, which holds TurboRun.mu.
Resetting(c) == client[c].pc \in {"clear", "size", "pop", "launchpad", "pushes"}

\* Stop closes poolQuit, quit and pushChan in this order, and waits for those
\* each one ends before it closes the next; one Reset runs at a time.
ShutdownInv ==
    /\ pushClosed => quit /\ pushListener = Exited /\ readyListener = Exited /\ launcher = Exited
    /\ quit => WorkersAwaited
    /\ \A c \in Client : client[c].pc = "loops" => quit
    /\ \A c \in Client : Resetting(c) => muHeld
    /\ \A c, d \in Client : Resetting(c) /\ Resetting(d) => c = d

\* What the listeners' and the workers' steps leave alone, and that what has
\* exited makes none.
LEMMA ListenersFrame ==
    ASSUME TypeInv, PushListener \/ ReadyListener \/ LaunchPad
    PROVE  /\ UNCHANGED <<muHeld, poolQuit, quit, pushClosed, worker, client>>
           /\ ~(pushListener = Exited /\ readyListener = Exited /\ launcher = Exited)
<1>1. CASE PushListener
  BY <1>1 DEF PushListener, PushReceive, PushCheck, PushWoken, PushAdd, PushEmit, PushQuit, Exited,
              Idle, At, closing
<1>2. CASE ReadyListener
  BY <1>2 DEF ReadyListener, ReadyReceive, ReadyEnqueue, ReadySignal, ReadyQuit, Exited, Idle, At,
              closing
<1>3. CASE LaunchPad
  BY <1>3 DEF LaunchPad, LaunchReceive, LaunchPaused, LaunchSize, LaunchPop, LaunchPopEmpty,
              LaunchDispatch, LaunchRegister, LaunchCount, LaunchQuit, Exited, Idle, At, closing
<1> QED
  BY <1>1, <1>2, <1>3

\* A worker does not touch the flags of the shutdown, nor other goroutines, and takes no
\* step once the pool has waited for it.
LEMMA WorkerFrame ==
    ASSUME NEW w \in Worker, RunWorker(w)
    PROVE  /\ UNCHANGED <<muHeld, poolQuit, quit, pushClosed, client,
                          pushListener, readyListener, launcher>>
           /\ ~WorkersAwaited
<1>1. CASE WorkerTake(w) \/ WorkerQuit(w) \/ WorkerRun(w) \/ WorkerPanic(w)
  BY <1>1 DEF WorkerTake, WorkerQuit, WorkerRun, WorkerPanic, WorkersAwaited, closing
<1>2. CASE CallbackCount(w) \/ CallbackRemove(w) \/ CallbackEmit(w)
  BY <1>2 DEF CallbackCount, CallbackRemove, CallbackEmit, WorkersAwaited, closing
<1>3. CASE CallbackCancel(w) \/ CallbackNotify(w)
  BY <1>3 DEF CallbackCancel, CallbackNotify, WorkersAwaited, closing
<1> QED
  BY <1>1, <1>2, <1>3 DEF RunWorker

\* How the steps of a client's calls change where it is, the mutex and the
\* channels that are closed.
LEMMA ClientShutdown ==
    ASSUME TypeInv, ShutdownInv, NEW c \in Client, RunClient(c)
    PROVE  ShutdownInv'
<1>0. ClientsOK
  BY Parts
<1>1. UNCHANGED <<pushListener, readyListener, launcher, worker>>
  BY DEF RunClient, Push, WaitFor, Start, StartSignal, Pause, GetStats, GetStatsDone, Reset,
         ResetClear, ResetSize, ResetPop, ResetPopEmpty, ResetDrainLaunchpad, ResetDrainPush,
         ResetDone, Stop, StopWorkers, StopDone
<1>2. WorkersAwaited' = WorkersAwaited
  BY <1>1 DEF WorkersAwaited
<1>3. \A d \in Client \ {c} : client'[d] = client[d]
  BY <1>0 DEF ClientsOK, RunClient, Push, WaitFor, Start, StartSignal, Pause, GetStats, GetStatsDone,
              Reset, ResetClear, ResetSize, ResetPop, ResetPopEmpty, ResetDrainLaunchpad,
              ResetDrainPush, ResetDone, Stop, StopWorkers, StopDone, Return, Proceed
<1> DEFINE Elsewhere(pc) == pc \notin {"loops", "clear", "size", "pop", "launchpad", "pushes"}
<1>4. CASE /\ UNCHANGED <<muHeld, quit, pushClosed>>
           /\ Elsewhere(client'[c].pc) \/ client'[c].pc = client[c].pc
  BY <1>1, <1>2, <1>3, <1>4 DEF ShutdownInv, Resetting
<1>5. CASE /\ UNCHANGED <<muHeld, quit, pushClosed>>
           /\ Resetting(c) /\ client'[c].pc # "loops"
  BY <1>1, <1>2, <1>3, <1>5 DEF ShutdownInv, Resetting
<1>6. CASE Push(c) \/ WaitFor(c) \/ Start(c) \/ StartSignal(c) \/ Pause(c)
  <2>1. UNCHANGED <<muHeld, quit, pushClosed>>
    BY <1>6 DEF Push, WaitFor, Start, StartSignal, Pause, closing
  <2>2. Elsewhere(client'[c].pc) \/ client'[c].pc = client[c].pc
    BY <1>0, <1>6 DEF ClientsOK, Push, WaitFor, Start, StartSignal, Pause, Return, Returned
  <2> QED
    BY <1>4, <2>1, <2>2
<1>7. CASE GetStats(c) \/ GetStatsDone(c) \/ Stop(c)
  <2>1. UNCHANGED <<muHeld, quit, pushClosed>>
    BY <1>7 DEF GetStats, GetStatsDone, Stop, closing
  <2>2. Elsewhere(client'[c].pc) \/ client'[c].pc = client[c].pc
    BY <1>0, <1>7 DEF ClientsOK, GetStats, GetStatsDone, Stop, Return, Returned, Proceed
  <2> QED
    BY <1>4, <2>1, <2>2
<1>8. CASE Reset(c)
  <2>1. muHeld' /\ ~muHeld /\ UNCHANGED <<quit, pushClosed>> /\ client'[c].pc = "clear"
    BY <1>0, <1>8 DEF ClientsOK, Reset, MuFree, Proceed, closing
  <2>2. \A d \in Client \ {c} : ~Resetting(d)'
    BY <1>3, <2>1 DEF ShutdownInv, Resetting
  <2> QED
    BY <1>1, <1>2, <1>3, <2>1, <2>2 DEF ShutdownInv, Resetting
<1>9. CASE \/ ResetClear(c) \/ ResetSize(c) \/ ResetPop(c) \/ ResetPopEmpty(c)
           \/ ResetDrainLaunchpad(c) \/ ResetDrainPush(c)
  <2>1. UNCHANGED <<muHeld, quit, pushClosed>> /\ Resetting(c)
    BY <1>9 DEF ResetClear, ResetSize, ResetPop, ResetPopEmpty, ResetDrainLaunchpad, ResetDrainPush,
                Resetting, closing
  <2>2. client'[c].pc # "loops"
    BY <1>0, <1>9 DEF ClientsOK, ResetClear, ResetSize, ResetPop, ResetPopEmpty,
                      ResetDrainLaunchpad, ResetDrainPush, Proceed
  <2> QED
    BY <1>5, <2>1, <2>2
<1>10. CASE ResetDone(c)
  <2>1. /\ Resetting(c) /\ client'[c].pc = "idle" /\ UNCHANGED <<quit, pushClosed>>
    BY <1>0, <1>10 DEF ClientsOK, ResetDone, Return, Returned, Resetting, closing
  <2>2. \A d \in Client : ~Resetting(d)'
    BY <1>3, <2>1 DEF ShutdownInv, Resetting
  <2> QED
    BY <1>1, <1>2, <1>3, <2>1, <2>2 DEF ShutdownInv
<1>11. CASE StopWorkers(c)
  <2>1. /\ WorkersAwaited /\ quit' /\ client'[c].pc = "loops" /\ UNCHANGED <<muHeld, pushClosed>>
    BY <1>0, <1>11 DEF ClientsOK, StopWorkers, Proceed
  <2> QED
    BY <1>1, <1>2, <1>3, <2>1 DEF ShutdownInv, Resetting
<1>12. CASE StopDone(c)
  <2>1. /\ client[c].pc = "loops" /\ client'[c].pc = "idle" /\ UNCHANGED <<muHeld, quit>>
        /\ pushListener = Exited /\ readyListener = Exited /\ launcher = Exited
    BY <1>0, <1>12 DEF ClientsOK, StopDone, Return, Returned
  <2> QED
    BY <1>1, <1>2, <1>3, <2>1 DEF ShutdownInv, Resetting
<1> QED
  BY <1>6, <1>7, <1>8, <1>9, <1>10, <1>11, <1>12 DEF RunClient

\* Every step keeps the shutdown invariant.
LEMMA ShutdownKept == TypeInv /\ ShutdownInv /\ [Next]_vars => ShutdownInv'
<1> SUFFICES ASSUME TypeInv, ShutdownInv, [Next]_vars PROVE ShutdownInv'
  OBVIOUS
<1>1. CASE PushListener \/ ReadyListener \/ LaunchPad
  BY <1>1, ListenersFrame DEF ShutdownInv, Resetting, WorkersAwaited
<1>2. ASSUME NEW w \in Worker, RunWorker(w) PROVE ShutdownInv'
  BY <1>2, WorkerFrame DEF ShutdownInv, Resetting
<1>3. ASSUME NEW c \in Client, RunClient(c) PROVE ShutdownInv'
  BY <1>3, ClientShutdown
<1>4. CASE UNCHANGED vars
  BY <1>4 DEF ShutdownInv, Resetting, WorkersAwaited, vars, closing
<1> QED
  BY <1>1, <1>2, <1>3, <1>4 DEF Next

\* What a Push, a WaitFor or any other call changes of a stopped engine is
\* nothing that the engine works on.
LEMMA StoppedStays ==
    ASSUME TypeInv, ShutdownInv, pushClosed, ~muHeld, [Next]_vars
    PROVE  UNCHANGED <<graphVars, priorityQueue, pool, counters, outcome,
                       pushListener, readyListener, launcher, worker>>
<1>1. ~(PushListener \/ ReadyListener \/ LaunchPad)
  BY ListenersFrame DEF ShutdownInv
<1>2. \A w \in Worker : ~RunWorker(w)
  BY WorkerFrame DEF ShutdownInv
<1>3. ASSUME NEW c \in Client, RunClient(c)
      PROVE  UNCHANGED <<graphVars, priorityQueue, pool, counters, outcome,
                         pushListener, readyListener, launcher, worker>>
  <2>1. ~Resetting(c)
    BY DEF ShutdownInv
  <2>2. CASE Push(c) \/ WaitFor(c) \/ Start(c) \/ StartSignal(c) \/ Pause(c) \/ GetStats(c)
    BY <2>2 DEF Push, WaitFor, Start, StartSignal, Pause, GetStats, queues, results
  <2>3. CASE GetStatsDone(c) \/ Reset(c) \/ Stop(c) \/ StopWorkers(c) \/ StopDone(c)
    BY <2>3 DEF GetStatsDone, Reset, Stop, StopWorkers, StopDone, queues, results
  <2>4. ~(\/ ResetClear(c) \/ ResetSize(c) \/ ResetPop(c) \/ ResetPopEmpty(c)
          \/ ResetDrainLaunchpad(c) \/ ResetDrainPush(c) \/ ResetDone(c))
    BY <2>1 DEF Resetting, ResetClear, ResetSize, ResetPop, ResetPopEmpty, ResetDrainLaunchpad,
                ResetDrainPush, ResetDone
  <2> QED
    BY <1>3, <2>2, <2>3, <2>4 DEF RunClient
<1>4. CASE UNCHANGED vars
  BY <1>4 DEF vars, queues, results
<1> QED
  BY <1>1, <1>2, <1>3, <1>4 DEF Next

\* Once Stop has returned nothing moves any more, except in a Reset: the
\* three listeners and all workers have exited, for any pool, any programs of
\* the clients and however many of them call Stop and Reset.
THEOREM StoppedEngineRests == Spec => NothingAfterStop
<1>1. Init => ShutdownInv
  BY DEF Init, ShutdownInv, Resetting
<1>2. /\ TypeInv /\ ShutdownInv /\ [Next]_vars =>
           [pushClosed /\ ~muHeld => UNCHANGED <<graphVars, priorityQueue, pool, counters, outcome,
                                        pushListener, readyListener, launcher, worker>>]_vars
  BY StoppedStays
<1> QED
  BY <1>1, <1>2, InitTyped, TypesKept, ShutdownKept, PTL DEF Spec, NothingAfterStop

-----------------------------------------------------------------------------
(* Copies *)

\* A caller pushes a node once: a node gets a fresh UUID when it is made.
PushedOnce ==
    \A c, d \in Client : \A i \in DOMAIN Program[c], j \in DOMAIN Program[d] :
        /\ Program[c][i][1] = "push" /\ Program[d][j][1] = "push"
        /\ Program[c][i][2] = Program[d][j][2]
        => c = d /\ i = j

Distinct(q) == \A i, j \in DOMAIN q : q[i] = q[j] => i = j
Holds(q, n) == \E i \in DOMAIN q : q[i] = n

-----------------------------------------------------------------------------
(* The way into the graph *)

\* A call that pushes n is still to come, and the push listener has n and has
\* not added it.
ToPush(n) ==
    \E c \in Client : \E i \in DOMAIN Program[c] :
        i >= client[c].call /\ Program[c][i][1] = "push" /\ Program[c][i][2] = n
InPush(n) == Holds(pushChan, n)
InHand(n) == pushListener.pc \in {"check", "full", "add"} /\ pushListener.node = n

\* A node comes to the graph once.
FeedInv ==
    /\ Distinct(pushChan)
    /\ \A n \in Node :
          /\ ToPush(n) => ~InPush(n) /\ ~InHand(n) /\ n \notin added
          /\ InPush(n) => ~InHand(n) /\ n \notin added
          /\ InHand(n) => n \notin added

-----------------------------------------------------------------------------
(* Publication *)

\* A node with a dependency to wait for has not been published, and no node
\* is published for the second time.
PublishInv ==
    /\ emitting \cup released \subseteq added
    /\ emitting \cap released = {}
    /\ \A n \in Node : indegree[n] > 0 => n \in added /\ n \notin emitting /\ n \notin released

-----------------------------------------------------------------------------
(* The pipeline *)

InReady(n)    == Holds(readyNodesChan, n)
AtEnqueue(n)  == readyListener.pc = "enqueue" /\ readyListener.node = n
AtDispatch(n) == launcher.pc = "dispatch" /\ launcher.node = n
InPool(n)     == Holds(pool, n)
Runs(w, n)    == worker[w].pc = "run" /\ worker[w].node = n
AtWork(n)     == \E w \in Worker : Runs(w, n)
HasResult(n)  == outcome[n] # "none"

\* A published node is in one place, or has its result.
PipelineInv ==
    /\ Distinct(readyNodesChan) /\ Distinct(pool)
    /\ \A n \in Node : \A x, y \in Worker : Runs(x, n) /\ Runs(y, n) => x = y
    /\ \A n \in Node :
          /\ n \notin released => ~(\/ InReady(n) \/ AtEnqueue(n) \/ n \in priorityQueue
                                    \/ AtDispatch(n) \/ InPool(n) \/ AtWork(n) \/ HasResult(n))
          /\ InReady(n) => ~(\/ AtEnqueue(n) \/ n \in priorityQueue \/ AtDispatch(n)
                                           \/ InPool(n) \/ AtWork(n) \/ HasResult(n))
          /\ AtEnqueue(n) => ~(\/ n \in priorityQueue \/ AtDispatch(n) \/ InPool(n)
                               \/ AtWork(n) \/ HasResult(n))
          /\ n \in priorityQueue => ~(AtDispatch(n) \/ InPool(n) \/ AtWork(n) \/ HasResult(n))
          /\ AtDispatch(n) => ~(InPool(n) \/ AtWork(n) \/ HasResult(n))
          /\ InPool(n) => ~(AtWork(n) \/ HasResult(n))
          /\ AtWork(n) => ~HasResult(n)

-----------------------------------------------------------------------------
(* Channels *)

\* Receiving from a channel takes one node off it, sending adds one.
LEMMA Received ==
    ASSUME NEW S, NEW q \in Seq(S), q # <<>>, Distinct(q)
    PROVE  /\ Head(q) \in S /\ Distinct(Tail(q)) /\ Holds(q, Head(q))
           /\ \A n : Holds(Tail(q), n) <=> Holds(q, n) /\ n # Head(q)
<1>1. /\ Len(q) \in Nat \ {0} /\ DOMAIN q = 1 .. Len(q) /\ Head(q) = q[1]
      /\ DOMAIN Tail(q) = 1 .. Len(q) - 1
      /\ \A i \in 1 .. Len(q) - 1 : Tail(q)[i] = q[i + 1]
  OBVIOUS
<1>2. Distinct(Tail(q))
  BY <1>1 DEF Distinct
<1>3. Holds(q, Head(q))
  BY <1>1 DEF Holds
<1>4. ASSUME NEW n, Holds(Tail(q), n) PROVE Holds(q, n) /\ n # Head(q)
  <2>1. PICK i \in 1 .. Len(q) - 1 : q[i + 1] = n
    BY <1>1, <1>4 DEF Holds
  <2>2. i + 1 \in DOMAIN q /\ 1 \in DOMAIN q /\ i + 1 # 1
    BY <1>1
  <2> QED
    BY <1>1, <2>1, <2>2 DEF Holds, Distinct
<1>5. ASSUME NEW n, Holds(q, n), n # Head(q) PROVE Holds(Tail(q), n)
  <2>1. PICK i \in 1 .. Len(q) : q[i] = n
    BY <1>1, <1>5 DEF Holds
  <2>2. i - 1 \in 1 .. Len(q) - 1 /\ Tail(q)[i - 1] = q[i - 1 + 1] /\ i - 1 + 1 = i
    BY <1>1, <1>5, <2>1
  <2> QED
    BY <1>1, <2>1, <2>2 DEF Holds
<1> QED
  BY <1>1, <1>2, <1>3, <1>4, <1>5

\* A channel that is sent a node it does not hold holds it once.
LEMMA Sent ==
    ASSUME NEW S, NEW q \in Seq(S), NEW x \in S, Distinct(q), ~Holds(q, x)
    PROVE  /\ Distinct(Append(q, x))
           /\ \A n : Holds(Append(q, x), n) <=> Holds(q, n) \/ n = x
<1>1. /\ Len(q) \in Nat /\ DOMAIN q = 1 .. Len(q) /\ DOMAIN Append(q, x) = 1 .. Len(q) + 1
      /\ \A i \in 1 .. Len(q) : Append(q, x)[i] = q[i]
      /\ Append(q, x)[Len(q) + 1] = x
  OBVIOUS
<1>2. Distinct(Append(q, x))
  BY <1>1 DEF Distinct, Holds
<1>3. ASSUME NEW n PROVE Holds(Append(q, x), n) <=> Holds(q, n) \/ n = x
  BY <1>1 DEF Holds
<1> QED
  BY <1>2, <1>3

\* An empty channel holds nothing.
LEMMA NothingHeld == Distinct(<<>>) /\ \A n : ~Holds(<<>>, n)
  BY DEF Distinct, Holds

-----------------------------------------------------------------------------
(* The graph publishes a node once *)

\* A node that has never been added is published for the first time.
LEMMA AddPublishes ==
    ASSUME GraphTypeOK, PublishInv, NEW n \in Node, n \notin added, Add(n)
    PROVE  PublishInv'
<1>1. /\ Len(Deps[n]) > 0 => Deps[n] # <<>>
      /\ emitting' \subseteq {n} /\ (Deps[n] # <<>> => emitting' = {})
  BY DEF Add
<1>2. /\ indegree'[n] > 0 => emitting' = {}
      /\ \A c \in Node \ {n} : indegree'[c] = indegree[c]
  BY <1>1 DEF Add, DependencyCount, GraphTypeOK
<1> QED
  BY <1>1, <1>2 DEF Add, PublishInv

\* A removal publishes children that were waiting, so had not been published.
LEMMA RemovePublishes ==
    ASSUME GraphTypeOK, PublishInv, NEW n \in Node, Remove(n)
    PROVE  PublishInv'
<1>1. ASSUME NEW c \in Node
      PROVE  /\ indegree'[c] > 0 => indegree[c] > 0
             /\ c \in Freed(n) => ~(indegree'[c] > 0)
  <2>1. PositionsOf({n}, c) = Positions(n, c)
    BY DEF PositionsOf, Positions
  <2>2. /\ Cardinality(Positions(n, c)) \in Nat /\ IndegreeWithout({n}) \in [Node -> Int]
        /\ c = n => IndegreeWithout({n})[c] <= 0
        /\ c # n => IndegreeWithout({n})[c] = indegree[c] - Cardinality(Positions(n, c))
    BY <2>1, CountersTyped
  <2>3. indegree[c] \in Int /\ IndegreeWithout({n})[c] \in Int
    BY <2>2 DEF GraphTypeOK
  <2>4. indegree' = IndegreeWithout({n})
    BY DEF Remove
  <2>5. c \in Freed(n) => c # n /\ indegree[c] <= Cardinality(Positions(n, c))
    BY <2>2, <2>3 DEF Freed
  <2> QED
    BY <2>2, <2>3, <2>4, <2>5
<1>2. \A c \in Freed(n) : c \in Node /\ indegree[c] > 0
  BY CountersTyped DEF Freed, GraphTypeOK
<1> QED
  BY <1>1, <1>2 DEF Remove, PublishInv

\* A cascade publishes nothing.
LEMMA RemoveSubtreePublishes ==
    ASSUME GraphTypeOK, PublishInv, NEW n, RemoveSubtree(n)
    PROVE  PublishInv'
<1>1. PICK D :
          /\ indegree' = IndegreeWithout(D)
          /\ UNCHANGED <<emitting, added, released>>
  BY Zenon DEF RemoveSubtree
<1>2. ASSUME NEW c \in Node PROVE indegree'[c] > 0 => indegree[c] > 0
  <2>1. indegree[c] \in Int
    BY DEF GraphTypeOK
  <2> QED
    BY <1>1, <2>1, CountersTyped
<1> QED
  BY <1>1, <1>2 DEF PublishInv

\* Nor does a reset.
LEMMA ClearPublishes == ASSUME PublishInv, Clear PROVE PublishInv'
  BY DEF PublishInv, Clear

\* What is sent has been published by its removal, and not been sent before.
LEMMA EmitPublishes ==
    ASSUME PublishInv, NEW n \in Node, EmitReady(n)
    PROVE  PublishInv' /\ n \notin released
  BY DEF PublishInv, EmitReady

\* What is received leaves the channel.
LEMMA ReceivePublishes == ASSUME PublishInv, NEW n, ReceiveReady(n) PROVE PublishInv'
  BY DEF PublishInv, ReceiveReady

\* Steps that leave the graph alone publish nothing.
LEMMA PublicationKept == PublishInv /\ UNCHANGED graphVars => PublishInv'
  BY DEF PublishInv, graphVars

\* Only the push listener adds, and what it adds is new.
LEMMA PublicationInEngine ==
    ASSUME TypeInv, FeedInv, PublishInv, [Next]_vars
    PROVE  PublishInv'
<1>0. GraphTypeOK /\ ListenersOK /\ WorkersOK
  BY Parts
<1>1. CASE PushListener
  <2>1. CASE PushAdd
    <3>1. pushListener.node \in Node /\ pushListener.node \notin added
      BY <1>0, <2>1 DEF ListenersOK, PushAdd, FeedInv, InHand
    <3> QED
      BY <1>0, <2>1, <3>1, AddPublishes DEF PushAdd
  <2>2. CASE PushEmit
    BY <1>0, <2>2, EmitPublishes DEF ListenersOK, PushEmit
  <2>3. CASE PushReceive \/ PushCheck \/ PushWoken \/ PushQuit
    BY <2>3, PublicationKept DEF PushReceive, PushCheck, PushWoken, PushQuit
  <2> QED
    BY <1>1, <2>1, <2>2, <2>3 DEF PushListener
<1>2. CASE ReadyListener
  <2>1. CASE ReadyReceive
    BY <2>1, ReceivePublishes DEF ReadyReceive
  <2>2. CASE ReadyEnqueue \/ ReadySignal \/ ReadyQuit
    BY <2>2, PublicationKept DEF ReadyEnqueue, ReadySignal, ReadyQuit
  <2> QED
    BY <1>2, <2>1, <2>2 DEF ReadyListener
<1>3. CASE LaunchPad
  BY <1>3, PublicationKept
     DEF LaunchPad, LaunchReceive, LaunchPaused, LaunchSize, LaunchPop, LaunchPopEmpty,
         LaunchDispatch, LaunchRegister, LaunchCount, LaunchQuit
<1>4. ASSUME NEW w \in Worker, RunWorker(w) PROVE PublishInv'
  <2>1. CASE CallbackRemove(w)
    <3>1. worker[w].node \in Node
      BY <1>0, <2>1 DEF CallbackRemove, WorkersOK
    <3>2. RemoveSubtree(worker[w].node) \/ Remove(worker[w].node)
      BY <2>1 DEF CallbackRemove
    <3> QED
      BY <1>0, <3>1, <3>2, RemovePublishes, RemoveSubtreePublishes
  <2>2. CASE CallbackEmit(w)
    BY <2>2, EmitPublishes DEF CallbackEmit
  <2>3. CASE \/ WorkerTake(w) \/ WorkerQuit(w) \/ WorkerRun(w) \/ WorkerPanic(w)
             \/ CallbackCount(w) \/ CallbackCancel(w) \/ CallbackNotify(w)
    BY <2>3, PublicationKept
       DEF WorkerTake, WorkerQuit, WorkerRun, WorkerPanic, CallbackCount, CallbackCancel,
           CallbackNotify
  <2> QED
    BY <1>4, <2>1, <2>2, <2>3 DEF RunWorker
<1>5. ASSUME NEW c \in Client, RunClient(c) PROVE PublishInv'
  <2>1. CASE ResetClear(c)
    BY <2>1, ClearPublishes DEF ResetClear
  <2>2. CASE \/ Push(c) \/ WaitFor(c) \/ Start(c) \/ StartSignal(c) \/ Pause(c)
             \/ GetStats(c) \/ GetStatsDone(c)
    BY <2>2, PublicationKept DEF Push, WaitFor, Start, StartSignal, Pause, GetStats, GetStatsDone
  <2>3. CASE \/ Reset(c) \/ ResetSize(c) \/ ResetPop(c) \/ ResetPopEmpty(c)
             \/ ResetDrainLaunchpad(c) \/ ResetDrainPush(c) \/ ResetDone(c)
    BY <2>3, PublicationKept
       DEF Reset, ResetSize, ResetPop, ResetPopEmpty, ResetDrainLaunchpad, ResetDrainPush, ResetDone
  <2>4. CASE Stop(c) \/ StopWorkers(c) \/ StopDone(c)
    BY <2>4, PublicationKept DEF Stop, StopWorkers, StopDone
  <2> QED
    BY <1>5, <2>1, <2>2, <2>3, <2>4 DEF RunClient
<1>6. CASE UNCHANGED vars
  BY <1>6, PublicationKept DEF vars
<1> QED
  BY <1>1, <1>2, <1>3, <1>4, <1>5, <1>6 DEF Next

-----------------------------------------------------------------------------
(* A node comes to the graph once *)

\* A step after which no node is at a point where it was not before.
LEMMA FeedShrinks ==
    ASSUME FeedInv, Distinct(pushChan)', added' = added,
           \A n \in Node : /\ ToPush(n)' => ToPush(n)
                           /\ InPush(n)' => InPush(n)
                           /\ InHand(n)' => InHand(n)
    PROVE  FeedInv'
  BY DEF FeedInv

\* A client never goes back to an earlier call.
LEMMA CallsGoOn ==
    ASSUME ClientsOK, NEW n \in Node, ToPush(n)',
           \A c \in Client : client'[c].call = client[c].call \/ client'[c].call = client[c].call + 1
    PROVE  ToPush(n)
<1>0. PICK c \in Client : \E i \in DOMAIN Program[c] :
          i >= client'[c].call /\ Program[c][i][1] = "push" /\ Program[c][i][2] = n
  BY DEF ToPush
<1>1. PICK i \in DOMAIN Program[c] :
          i >= client'[c].call /\ Program[c][i][1] = "push" /\ Program[c][i][2] = n
  BY <1>0
<1>2. i \in Nat /\ client[c].call \in Nat
  BY ProgramAssumption DEF ClientsOK
<1>3. i >= client[c].call
  BY <1>1, <1>2
<1> QED
  BY <1>1, <1>3 DEF ToPush

\* A request that the push listener holds is in no channel, and then added.
LEMMA PushListenerFeeds == ASSUME TypeInv, FeedInv, PushListener PROVE FeedInv'
<1>0. /\ QueuesOK /\ ListenersOK
      /\ client' = client
  BY Parts, ListenersFrame
<1>a. \A n : ToPush(n)' = ToPush(n)
  BY <1>0 DEF ToPush
<1>1. CASE PushReceive
  <2> DEFINE m == Head(pushChan)
  <2>1. /\ pushChan \in Seq(Node) /\ pushChan # <<>> /\ Distinct(pushChan)
        /\ pushChan' = Tail(pushChan) /\ added' = added
        /\ pushListener'.pc = "check" /\ pushListener'.node = m
    BY <1>0, <1>1 DEF PushReceive, QueuesOK, FeedInv, At, graphVars
  <2>2. /\ Distinct(pushChan)' /\ InPush(m)
        /\ \A n : InPush(n)' <=> InPush(n) /\ n # m
    BY <2>1, Received DEF InPush
  <2>3. \A n : InHand(n)' <=> n = m
    BY <2>1 DEF InHand
  <2> QED
    BY <1>a, <2>1, <2>2, <2>3 DEF FeedInv
<1>2. CASE PushAdd
  <2> DEFINE m == pushListener.node
  <2>1. /\ pushChan' = pushChan /\ added' = added \cup {m} /\ pushListener'.pc \in {"idle", "emit"}
        /\ InHand(m) /\ m \in Node
    BY <1>0, <1>2 DEF PushAdd, Add, Idle, At, InHand, queues, ListenersOK
  <2>2. /\ \A n : InPush(n)' = InPush(n) /\ ~InHand(n)'
        /\ Distinct(pushChan)' = Distinct(pushChan)
    BY <2>1 DEF InPush, InHand
  <2> QED
    BY <1>a, <2>1, <2>2 DEF FeedInv
<1>3. CASE PushCheck \/ PushWoken \/ PushEmit \/ PushQuit
  <2>1. /\ pushChan' = pushChan /\ added' = added
        /\ \/ pushListener'.pc \in {"idle", "exited"}
           \/ pushListener.pc \in {"check", "full"} /\ pushListener'.node = pushListener.node
    BY <1>3 DEF PushCheck, PushWoken, PushEmit, EmitReady, PushQuit, Idle, Exited, At, queues,
                graphVars
  <2>2. \A n : InPush(n)' = InPush(n) /\ (InHand(n)' => InHand(n))
    BY <2>1 DEF InPush, InHand
  <2>3. Distinct(pushChan)'
    BY <2>1 DEF FeedInv
  <2> QED
    BY <1>a, <2>1, <2>2, <2>3, FeedShrinks
<1> QED
  BY <1>1, <1>2, <1>3 DEF PushListener

\* A caller pushes a node that no program has pushed before.
LEMMA ClientFeeds ==
    ASSUME PushedOnce, TypeInv, FeedInv, NEW c \in Client, RunClient(c)
    PROVE  FeedInv'
<1>0. ClientsOK /\ QueuesOK
  BY Parts
<1>1. pushListener' = pushListener /\ added' = added
  BY DEF RunClient, Push, WaitFor, Start, StartSignal, Pause, GetStats, GetStatsDone, Reset,
         ResetClear, Clear, ResetSize, ResetPop, ResetPopEmpty, ResetDrainLaunchpad, ResetDrainPush,
         ResetDone, Stop, StopWorkers, StopDone, graphVars
<1>2. \A n : InHand(n)' = InHand(n)
  BY <1>1 DEF InHand
<1>3. CASE Push(c) /\ ~pushClosed
  <2> DEFINE i == client[c].call
  <2>0. Calls(c, "push")
    BY <1>3 DEF Push
  <2>1. PICK m \in Node : m = Argument(c)
    BY <1>0, <2>0, ArgumentTyped
  <2>2. /\ i \in DOMAIN Program[c] /\ i \in Nat
        /\ Program[c][i][1] = "push" /\ Program[c][i][2] = m
    BY <1>0, <2>0, <2>1, ProgramAssumption DEF ClientsOK, Calls, Argument
  <2>3. ToPush(m)
    BY <2>2 DEF ToPush
  <2>4. /\ client'[c].call = i + 1
        /\ \A d \in Client \ {c} : client'[d] = client[d]
    BY <1>0, <1>3 DEF Push, ClientsOK, Return, Returned
  <2>5. ~ToPush(m)'
    <3>1. SUFFICES ASSUME ToPush(m)' PROVE FALSE
      OBVIOUS
    <3>2. PICK d \in Client : \E j \in DOMAIN Program[d] :
              j >= client'[d].call /\ Program[d][j][1] = "push" /\ Program[d][j][2] = m
      BY <3>1 DEF ToPush
    <3>3. PICK j \in DOMAIN Program[d] :
              j >= client'[d].call /\ Program[d][j][1] = "push" /\ Program[d][j][2] = m
      BY <3>2
    <3>4. d = c /\ j = i
      BY <2>2, <3>3 DEF PushedOnce
    <3> QED
      BY <2>2, <2>4, <3>3, <3>4
  <2>6. \A n \in Node : ToPush(n)' => ToPush(n)
    BY <1>0, <2>4, CallsGoOn
  <2>7. /\ Distinct(pushChan)'
        /\ \A n : InPush(n)' <=> InPush(n) \/ n = m
    <3>1. ~InPush(m) /\ Distinct(pushChan) /\ pushChan \in Seq(Node)
      BY <1>0, <2>1, <2>3 DEF FeedInv, QueuesOK
    <3>2. pushChan' = Append(pushChan, m)
      BY <1>3, <2>1 DEF Push
    <3> QED
      BY <2>1, <3>1, <3>2, Sent DEF InPush
  <2>8. ~InPush(m) /\ ~InHand(m) /\ m \notin added
    BY <2>1, <2>3 DEF FeedInv
  <2>9. ASSUME NEW n \in Node
        PROVE  /\ ToPush(n)' => ~InPush(n)' /\ ~InHand(n)' /\ n \notin added'
               /\ InPush(n)' => ~InHand(n)' /\ n \notin added'
               /\ InHand(n)' => n \notin added'
    <3>1. CASE n = m
      BY <1>1, <1>2, <2>5, <2>8, <3>1
    <3>2. CASE n # m
      BY <1>1, <1>2, <2>6, <2>7, <3>2 DEF FeedInv
    <3> QED
      BY <3>1, <3>2
  <2> QED
    BY <2>7, <2>9 DEF FeedInv
<1>4. CASE ResetDrainPush(c)
  <2>1. /\ pushChan \in Seq(Node) /\ pushChan # <<>> /\ Distinct(pushChan)
        /\ pushChan' = Tail(pushChan) /\ client' = client
    BY <1>0, <1>4 DEF ResetDrainPush, QueuesOK, FeedInv
  <2>2. Distinct(pushChan)' /\ \A n : InPush(n)' => InPush(n)
    BY <2>1, Received DEF InPush
  <2>3. \A n : ToPush(n)' = ToPush(n)
    BY <2>1 DEF ToPush
  <2> QED
    BY <1>1, <1>2, <2>2, <2>3, FeedShrinks
<1>5. CASE ~ResetDrainPush(c) /\ (Push(c) => pushClosed)
  <2>1. pushChan' = pushChan
    BY <1>5 DEF RunClient, Push, WaitFor, Start, StartSignal, Pause, GetStats, GetStatsDone, Reset,
                ResetClear, ResetSize, ResetPop, ResetPopEmpty, ResetDrainLaunchpad,
                ResetDone, Stop, StopWorkers, StopDone, queues
  <2>2. \A d \in Client : client'[d].call = client[d].call \/ client'[d].call = client[d].call + 1
    <3>1. CASE Return(c)
      BY <1>0, <3>1 DEF ClientsOK, Return, Returned
    <3>2. CASE client' = client
      BY <3>2
    <3>3. ASSUME NEW pc, Proceed(c, pc) PROVE \A d \in Client : client'[d].call = client[d].call
      BY <1>0, <3>3 DEF ClientsOK, Proceed
    <3>4. CASE Start(c) \/ StartSignal(c) \/ ResetClear(c)
      BY <1>0, <3>1, <3>4 DEF ClientsOK, Start, StartSignal, ResetClear
    <3>5. CASE Push(c) \/ WaitFor(c) \/ Pause(c) \/ GetStatsDone(c) \/ ResetDone(c) \/ StopDone(c)
      BY <3>1, <3>2, <3>5 DEF Push, WaitFor, Pause, GetStatsDone, ResetDone, StopDone
    <3>6. CASE \/ GetStats(c) \/ Reset(c) \/ ResetSize(c) \/ ResetPop(c) \/ ResetDrainLaunchpad(c)
               \/ Stop(c) \/ StopWorkers(c)
      BY <3>2, <3>3, <3>6
         DEF GetStats, Reset, ResetSize, ResetPop, ResetDrainLaunchpad, Stop, StopWorkers
    <3>7. CASE ResetPopEmpty(c)
      BY <3>2, <3>7 DEF ResetPopEmpty
    <3> QED
      BY <1>5, <3>4, <3>5, <3>6, <3>7 DEF RunClient
  <2>3. \A n \in Node : ToPush(n)' => ToPush(n)
    BY <1>0, <2>2, CallsGoOn
  <2>4. Distinct(pushChan)' /\ \A n : InPush(n)' = InPush(n)
    BY <2>1 DEF FeedInv, InPush
  <2> QED
    BY <1>1, <1>2, <2>3, <2>4, FeedShrinks
<1> QED
  BY <1>3, <1>4, <1>5

\* Every step keeps what is known of pushes.
LEMMA FeedKept ==
    ASSUME PushedOnce, TypeInv, FeedInv, [Next]_vars
    PROVE  FeedInv'
<1>1. ASSUME pushChan' = pushChan, client' = client, added' = added, pushListener' = pushListener
      PROVE  FeedInv'
  <2>1. \A n : ToPush(n)' = ToPush(n) /\ InPush(n)' = InPush(n) /\ InHand(n)' = InHand(n)
    BY <1>1 DEF ToPush, InPush, InHand
  <2> QED
    BY <1>1, <2>1 DEF FeedInv
<1>2. CASE PushListener
  BY <1>2, PushListenerFeeds
<1>3. CASE ReadyListener
  BY <1>1, <1>3 DEF ReadyListener, ReadyReceive, ReceiveReady, ReadyEnqueue, ReadySignal, ReadyQuit,
                    queues, graphVars
<1>4. CASE LaunchPad
  BY <1>1, <1>4 DEF LaunchPad, LaunchReceive, LaunchPaused, LaunchSize, LaunchPop, LaunchPopEmpty,
                    LaunchDispatch, LaunchRegister, LaunchCount, LaunchQuit, queues, graphVars
<1>5. ASSUME NEW w \in Worker, RunWorker(w) PROVE FeedInv'
  <2>1. pushChan' = pushChan /\ client' = client /\ added' = added /\ pushListener' = pushListener
    BY <1>5 DEF RunWorker, WorkerTake, WorkerQuit, WorkerRun, WorkerPanic, CallbackCount,
                CallbackRemove, Remove, RemoveSubtree, CallbackEmit, EmitReady, CallbackCancel,
                CallbackNotify, queues, graphVars
  <2> QED
    BY <1>1, <2>1
<1>6. ASSUME NEW c \in Client, RunClient(c) PROVE FeedInv'
  BY <1>6, ClientFeeds
<1>7. CASE UNCHANGED vars
  BY <1>1, <1>7 DEF vars, queues, graphVars
<1> QED
  BY <1>2, <1>3, <1>4, <1>5, <1>6, <1>7 DEF Next

-----------------------------------------------------------------------------
(* A published node is in one place *)

\* The places whose state a step leaves alone hold what they held.
LEMMA SamePlaces ==
    /\ readyNodesChan' = readyNodesChan =>
          Distinct(readyNodesChan)' = Distinct(readyNodesChan) /\ \A n : InReady(n)' = InReady(n)
    /\ pool' = pool => Distinct(pool)' = Distinct(pool) /\ \A n : InPool(n)' = InPool(n)
    /\ readyListener' = readyListener => \A n : AtEnqueue(n)' = AtEnqueue(n)
    /\ launcher' = launcher => \A n : AtDispatch(n)' = AtDispatch(n)
    /\ worker' = worker => \A n : AtWork(n)' = AtWork(n) /\ \A w : Runs(w, n)' = Runs(w, n)
    /\ outcome' = outcome => \A n : HasResult(n)' = HasResult(n)
  BY DEF InReady, InPool, AtEnqueue, AtDispatch, AtWork, Runs, HasResult

\* A step after which no node is in a place where it was not before.
LEMMA PlacesShrink ==
    ASSUME PipelineInv, released' = released, outcome' = outcome,
           Distinct(readyNodesChan)', Distinct(pool)',
           \A n \in Node : /\ InReady(n)' => InReady(n)
                           /\ AtEnqueue(n)' => AtEnqueue(n)
                           /\ n \in priorityQueue' => n \in priorityQueue
                           /\ AtDispatch(n)' => AtDispatch(n)
                           /\ InPool(n)' => InPool(n)
                           /\ \A w \in Worker : Runs(w, n)' => Runs(w, n)
    PROVE  PipelineInv'
<1>1. \A n \in Node : (AtWork(n)' => AtWork(n)) /\ HasResult(n)' = HasResult(n)
  BY DEF AtWork, HasResult
<1> QED
  BY <1>1 DEF PipelineInv

\* What a step of one worker changes: it moves on, and the others stay.
LEMMA WorkerMoved ==
    ASSUME WorkersOK, NEW w \in Worker, NEW pc, NEW m, pc # "run", GoTo(w, pc, m)
    PROVE  \A n : /\ \A x \in Worker : Runs(x, n)' <=> Runs(x, n) /\ x # w
                  /\ AtWork(n)' => AtWork(n)
<1>1. \A x \in Worker : x # w => worker'[x] = worker[x]
  BY DEF GoTo, WorkersOK
<1>2. worker'[w].pc = pc
  BY DEF GoTo, WorkersOK
<1> QED
  BY <1>1, <1>2 DEF Runs, AtWork

\* The graph's channel takes a node that was not published before.
LEMMA EmitMoves ==
    ASSUME GraphTypeOK, PipelineInv, NEW m \in Node, m \notin released, EmitReady(m),
           UNCHANGED <<priorityQueue, pool, outcome, readyListener, launcher>>,
           \A n : \A w \in Worker : Runs(w, n)' <=> Runs(w, n)
    PROVE  PipelineInv'
<1>1. /\ readyNodesChan' = Append(readyNodesChan, m) /\ released' = released \cup {m}
      /\ readyNodesChan \in Seq(Node) /\ Distinct(readyNodesChan) /\ ~InReady(m)
  BY DEF EmitReady, GraphTypeOK, PipelineInv
<1>2. /\ Distinct(readyNodesChan)'
      /\ \A n : InReady(n)' <=> InReady(n) \/ n = m
  BY <1>1, Sent DEF InReady
<1>3. /\ Distinct(pool)' = Distinct(pool)
      /\ \A n : /\ AtEnqueue(n)' = AtEnqueue(n) /\ AtDispatch(n)' = AtDispatch(n)
                /\ InPool(n)' = InPool(n) /\ HasResult(n)' = HasResult(n)
                /\ AtWork(n)' <=> AtWork(n)
  BY SamePlaces DEF AtWork
<1> QED
  BY <1>1, <1>2, <1>3 DEF PipelineInv

\* A node goes from the ready channel to the queue, by way of the listener.
LEMMA ReadyListenerMoves == ASSUME TypeInv, PipelineInv, ReadyListener PROVE PipelineInv'
<1>0. GraphTypeOK /\ ListenersOK
  BY Parts
<1>1. CASE ReadyReceive
  <2>1. PICK m \in Node : ReceiveReady(m) /\ readyListener' = At("enqueue", m)
    BY <1>1 DEF ReadyReceive
  <2>2. /\ readyNodesChan \in Seq(Node) /\ readyNodesChan # <<>> /\ m = Head(readyNodesChan)
        /\ readyNodesChan' = Tail(readyNodesChan) /\ released' = released
        /\ Distinct(readyNodesChan) /\ readyListener.pc = "idle"
    BY <1>0, <1>1, <2>1 DEF ReadyReceive, ReceiveReady, GraphTypeOK, PipelineInv, Idle, At
  <2>3. /\ Distinct(readyNodesChan)' /\ InReady(m)
        /\ \A n : InReady(n)' <=> InReady(n) /\ n # m
    BY <2>2, Received DEF InReady
  <2>4. \A n : (AtEnqueue(n)' <=> n = m) /\ ~AtEnqueue(n)
    BY <2>1, <2>2 DEF AtEnqueue, At
  <2>5. /\ UNCHANGED <<priorityQueue, released>>
        /\ Distinct(pool)' = Distinct(pool)
        /\ \A n : /\ AtDispatch(n)' = AtDispatch(n) /\ InPool(n)' = InPool(n)
                  /\ HasResult(n)' = HasResult(n) /\ AtWork(n)' = AtWork(n)
                  /\ \A w : Runs(w, n)' = Runs(w, n)
    BY <1>1, <2>2, SamePlaces DEF ReadyReceive, queues, results
  <2> QED
    BY <2>3, <2>4, <2>5 DEF PipelineInv
<1>2. CASE ReadyEnqueue
  <2>1. PICK m \in Node : m = readyListener.node
    BY <1>0, <1>2 DEF ReadyEnqueue, ListenersOK
  <2>2. /\ AtEnqueue(m) /\ \A n : ~AtEnqueue(n)' /\ (AtEnqueue(n) => n = m)
        /\ priorityQueue' = priorityQueue \cup {m}
    BY <1>2, <2>1 DEF ReadyEnqueue, AtEnqueue, At
  <2>3. /\ released' = released
        /\ Distinct(pool)' = Distinct(pool) /\ Distinct(readyNodesChan)' = Distinct(readyNodesChan)
        /\ \A n : /\ InReady(n)' = InReady(n) /\ AtDispatch(n)' = AtDispatch(n)
                  /\ InPool(n)' = InPool(n) /\ HasResult(n)' = HasResult(n)
                  /\ AtWork(n)' = AtWork(n) /\ \A w : Runs(w, n)' = Runs(w, n)
    BY <1>2, SamePlaces DEF ReadyEnqueue, queues, results, graphVars
  <2> QED
    BY <2>2, <2>3 DEF PipelineInv
<1>3. CASE ReadySignal \/ ReadyQuit
  <2>1. /\ UNCHANGED <<priorityQueue, released, outcome, readyNodesChan, pool, launcher, worker>>
        /\ readyListener'.pc \in {"idle", "exited"}
    BY <1>3 DEF ReadySignal, ReadyQuit, queues, results, graphVars, Idle, Exited, At
  <2>2. \A n : ~AtEnqueue(n)'
    BY <2>1 DEF AtEnqueue
  <2>3. Distinct(readyNodesChan) /\ Distinct(pool)
    BY DEF PipelineInv
  <2> QED
    BY <2>1, <2>2, <2>3, SamePlaces, PlacesShrink
<1> QED
  BY <1>1, <1>2, <1>3 DEF ReadyListener

\* A node goes from the queue to the pool, by way of the listener.
LEMMA LaunchPadMoves == ASSUME TypeInv, PipelineInv, LaunchPad PROVE PipelineInv'
<1>0. QueuesOK /\ ListenersOK
  BY Parts
<1>1. CASE LaunchPop
  <2>1. PICK m \in Node : /\ m \in priorityQueue /\ priorityQueue' = priorityQueue \ {m}
                          /\ launcher' = At("dispatch", m)
    BY <1>1 DEF LaunchPop, IsNext, Popped
  <2>2. \A n : (AtDispatch(n)' <=> n = m) /\ ~AtDispatch(n)
    BY <1>1, <2>1 DEF LaunchPop, AtDispatch, At
  <2>3. /\ released' = released
        /\ Distinct(pool)' = Distinct(pool) /\ Distinct(readyNodesChan)' = Distinct(readyNodesChan)
        /\ \A n : /\ InReady(n)' = InReady(n) /\ AtEnqueue(n)' = AtEnqueue(n)
                  /\ InPool(n)' = InPool(n) /\ HasResult(n)' = HasResult(n)
                  /\ AtWork(n)' = AtWork(n) /\ \A w : Runs(w, n)' = Runs(w, n)
    BY <1>1, SamePlaces DEF LaunchPop, results, graphVars
  <2> QED
    BY <2>1, <2>2, <2>3 DEF PipelineInv
<1>2. CASE LaunchDispatch
  <2>1. PICK m \in Node : m = launcher.node
    BY <1>0, <1>2 DEF LaunchDispatch, ListenersOK
  <2>2. /\ AtDispatch(m) /\ \A n : ~AtDispatch(n)' /\ (AtDispatch(n) => n = m)
        /\ pool' = Append(pool, m) /\ pool \in Seq(Node) /\ Distinct(pool)
    BY <1>0, <1>2, <2>1 DEF LaunchDispatch, AtDispatch, At, QueuesOK, PipelineInv
  <2>3. ~InPool(m)
    BY <2>1, <2>2 DEF PipelineInv
  <2>4. Distinct(pool)' /\ \A n : InPool(n)' <=> InPool(n) \/ n = m
    BY <2>2, <2>3, Sent DEF InPool
  <2>5. /\ UNCHANGED <<released, priorityQueue>>
        /\ Distinct(readyNodesChan)' = Distinct(readyNodesChan)
        /\ \A n : /\ InReady(n)' = InReady(n) /\ AtEnqueue(n)' = AtEnqueue(n)
                  /\ HasResult(n)' = HasResult(n)
                  /\ AtWork(n)' = AtWork(n) /\ \A w : Runs(w, n)' = Runs(w, n)
    BY <1>2, SamePlaces DEF LaunchDispatch, results, graphVars
  <2> QED
    BY <2>2, <2>4, <2>5 DEF PipelineInv
<1>3. CASE \/ LaunchReceive \/ LaunchPaused \/ LaunchSize \/ LaunchPopEmpty \/ LaunchRegister
           \/ LaunchCount \/ LaunchQuit
  <2>1. /\ UNCHANGED <<priorityQueue, released, outcome, readyNodesChan, pool, readyListener, worker>>
        /\ launcher'.pc # "dispatch"
    BY <1>3 DEF LaunchReceive, LaunchPaused, LaunchSize, LaunchPopEmpty, LaunchRegister, LaunchCount,
                LaunchQuit, queues, results, graphVars, Idle, Exited, At
  <2>2. \A n : ~AtDispatch(n)'
    BY <2>1 DEF AtDispatch
  <2>3. Distinct(readyNodesChan) /\ Distinct(pool)
    BY DEF PipelineInv
  <2> QED
    BY <2>1, <2>2, <2>3, SamePlaces, PlacesShrink
<1> QED
  BY <1>1, <1>2, <1>3 DEF LaunchPad

\* A worker takes its node out of the pool's channel.
LEMMA WorkerTakes ==
    ASSUME TypeInv, PipelineInv, NEW w \in Worker, WorkerTake(w)
    PROVE  PipelineInv'
<1>0. QueuesOK /\ WorkersOK
  BY Parts
<1>1. pool # <<>> /\ pool' = Tail(pool) /\ pool \in Seq(Node) /\ Distinct(pool)
  BY <1>0 DEF WorkerTake, QueuesOK, PipelineInv
<1>2. PICK m \in Node : m = Head(pool)
  BY <1>1, Received
<1>3. /\ Distinct(pool)' /\ InPool(m)
      /\ \A n : InPool(n)' <=> InPool(n) /\ n # m
  BY <1>1, <1>2, Received DEF InPool
<1>4. \A n : \A x \in Worker : Runs(x, n)' <=> Runs(x, n) \/ (x = w /\ n = m)
  <2>1. /\ \A x \in Worker : x # w => worker'[x] = worker[x]
        /\ worker'[w].pc = "run" /\ worker'[w].node = m /\ worker[w].pc = "idle"
    BY <1>0, <1>2 DEF WorkerTake, GoTo, WorkersOK
  <2> QED
    BY <2>1 DEF Runs
<1>5. \A n : AtWork(n)' <=> AtWork(n) \/ n = m
  BY <1>4 DEF AtWork
<1>6. /\ UNCHANGED <<released, priorityQueue>>
      /\ Distinct(readyNodesChan)' = Distinct(readyNodesChan)
      /\ \A n : /\ InReady(n)' = InReady(n) /\ AtEnqueue(n)' = AtEnqueue(n)
                /\ AtDispatch(n)' = AtDispatch(n) /\ HasResult(n)' = HasResult(n)
  BY SamePlaces DEF WorkerTake, results, graphVars
<1>7. \A n \in Node : \A x, y \in Worker : (Runs(x, n) /\ Runs(y, n))' => x = y
  <2> SUFFICES ASSUME NEW n \in Node, NEW x \in Worker, NEW y \in Worker, Runs(x, n)', Runs(y, n)'
               PROVE  x = y
    OBVIOUS
  <2>1. CASE n = m
    <3>1. \A z \in Worker : ~Runs(z, n)
      BY <1>3, <2>1 DEF PipelineInv, AtWork
    <3> QED
      BY <1>4, <3>1
  <2>2. CASE n # m
    BY <1>4, <2>2 DEF PipelineInv
  <2> QED
    BY <2>1, <2>2
<1> QED
  BY <1>3, <1>5, <1>6, <1>7 DEF PipelineInv

\* A node that has finished was with one worker, and nowhere else.
LEMMA WorkerFinishes ==
    ASSUME TypeInv, PipelineInv, NEW w \in Worker, WorkerRun(w)
    PROVE  PipelineInv'
<1>0. WorkersOK /\ RestOK
  BY Parts
<1>1. PICK m \in Node : m = worker[w].node
  BY <1>0 DEF WorkerRun, WorkersOK
<1>2. Runs(w, m) /\ AtWork(m)
  BY <1>1 DEF WorkerRun, Runs, AtWork
<1>3. \A n : HasResult(n)' <=> HasResult(n) \/ n = m
  BY <1>0, <1>1 DEF WorkerRun, HasResult, RestOK
<1>4. \A n : \A x \in Worker : Runs(x, n)' <=> Runs(x, n) /\ x # w
  BY <1>0, WorkerMoved DEF WorkerRun
<1>5. \A n \in Node : AtWork(n)' => AtWork(n) /\ n # m
  BY <1>2, <1>4 DEF AtWork, PipelineInv
<1>6. /\ UNCHANGED <<released, priorityQueue>>
      /\ Distinct(readyNodesChan)' = Distinct(readyNodesChan) /\ Distinct(pool)' = Distinct(pool)
      /\ \A n : /\ InReady(n)' = InReady(n) /\ AtEnqueue(n)' = AtEnqueue(n)
                /\ AtDispatch(n)' = AtDispatch(n) /\ InPool(n)' = InPool(n)
  BY SamePlaces DEF WorkerRun, graphVars, queues
<1>7. \A n \in Node : \A x, y \in Worker : (Runs(x, n) /\ Runs(y, n))' => x = y
  BY <1>4 DEF PipelineInv
<1> QED
  BY <1>2, <1>3, <1>5, <1>6, <1>7 DEF PipelineInv

\* Every step of a worker keeps its node in one place.
LEMMA WorkerMovesNodes ==
    ASSUME TypeInv, PublishInv, PipelineInv, NEW w \in Worker, RunWorker(w)
    PROVE  PipelineInv'
<1>0. WorkersOK /\ GraphTypeOK
  BY Parts
<1>1. CASE WorkerTake(w)
  BY <1>1, WorkerTakes
<1>2. CASE WorkerRun(w)
  BY <1>2, WorkerFinishes
<1>3. CASE CallbackEmit(w)
  <2>1. PICK m \in Node : EmitReady(m)
    BY <1>3 DEF CallbackEmit
  <2>2. m \notin released
    BY <2>1, EmitPublishes
  <2>3. \A n : \A x \in Worker : Runs(x, n)' <=> Runs(x, n)
    <3>1. \A n : \A x \in Worker : Runs(x, n)' <=> Runs(x, n) /\ x # w
      BY <1>0, <1>3, WorkerMoved DEF CallbackEmit
    <3>2. \A n : ~Runs(w, n)
      BY <1>3 DEF CallbackEmit, Runs
    <3> QED
      BY <3>1, <3>2
  <2> QED
    BY <1>0, <1>3, <2>1, <2>2, <2>3, EmitMoves DEF CallbackEmit, queues, results
<1>4. CASE \/ WorkerQuit(w) \/ WorkerPanic(w) \/ CallbackCount(w) \/ CallbackRemove(w)
           \/ CallbackCancel(w) \/ CallbackNotify(w)
  <2>1. UNCHANGED <<priorityQueue, released, outcome, readyNodesChan, pool, readyListener, launcher>>
    BY <1>4 DEF WorkerQuit, WorkerPanic, CallbackCount, CallbackRemove, Remove, RemoveSubtree,
                CallbackCancel, CallbackNotify, queues, results, graphVars
  <2>2. \A x \in Worker : worker'[x] = worker[x] \/ worker'[x].pc # "run"
    BY <1>0, <1>4 DEF WorkerQuit, WorkerPanic, CallbackCount, CallbackRemove, CallbackCancel,
                      CallbackNotify, GoTo, WorkersOK
  <2>3. \A n : \A x \in Worker : Runs(x, n)' => Runs(x, n)
    BY <2>2 DEF Runs
  <2>4. Distinct(readyNodesChan) /\ Distinct(pool)
    BY DEF PipelineInv
  <2> QED
    BY <2>1, <2>3, <2>4, SamePlaces, PlacesShrink
<1> QED
  BY <1>1, <1>2, <1>3, <1>4 DEF RunWorker

\* Clients only take nodes away.
LEMMA ClientMovesNodes ==
    ASSUME TypeInv, PipelineInv, NEW c \in Client, RunClient(c)
    PROVE  PipelineInv'
<1>1. /\ UNCHANGED <<released, outcome, pool, readyListener, launcher, worker>>
      /\ priorityQueue' \subseteq priorityQueue
      /\ readyNodesChan' = readyNodesChan \/ readyNodesChan' = <<>>
  <2>1. CASE ResetClear(c)
    BY <2>1 DEF ResetClear, Clear, queues, results
  <2>2. CASE ResetPop(c)
    BY <2>2 DEF ResetPop, Popped, results, graphVars
  <2>3. CASE ~ResetClear(c) /\ ~ResetPop(c)
    BY <2>3 DEF RunClient, Push, WaitFor, Start, StartSignal, Pause, GetStats, GetStatsDone, Reset,
                ResetSize, ResetPopEmpty, ResetDrainLaunchpad, ResetDrainPush, ResetDone, Stop,
                StopWorkers, StopDone, queues, results, graphVars
  <2> QED
    BY <2>1, <2>2, <2>3
<1>2. Distinct(readyNodesChan)' /\ \A n : InReady(n)' => InReady(n)
  BY <1>1, NothingHeld DEF PipelineInv, InReady
<1>3. Distinct(pool)
  BY DEF PipelineInv
<1> QED
  BY <1>1, <1>2, <1>3, SamePlaces, PlacesShrink

\* Every step of the engine keeps each node in one place.
LEMMA PipelineKept ==
    ASSUME TypeInv, PublishInv, PipelineInv, [Next]_vars
    PROVE  PipelineInv'
<1>0. GraphTypeOK /\ ListenersOK /\ Distinct(readyNodesChan) /\ Distinct(pool)
  BY Parts DEF PipelineInv
<1>1. ASSUME UNCHANGED <<priorityQueue, released, outcome, readyNodesChan, pool, readyListener,
                         launcher, worker>>
      PROVE  PipelineInv'
  BY <1>0, <1>1, SamePlaces, PlacesShrink
<1>2. CASE PushListener
  <2>1. CASE PushEmit
    <3>1. pushListener.node \in Node
      BY <1>0, <2>1 DEF PushEmit, ListenersOK
    <3>2. pushListener.node \notin released
      BY <2>1, <3>1, EmitPublishes DEF PushEmit
    <3> QED
      BY <1>0, <2>1, <3>1, <3>2, EmitMoves, SamePlaces DEF PushEmit, queues, results
  <2>2. CASE PushReceive \/ PushCheck \/ PushWoken \/ PushAdd \/ PushQuit
    BY <1>1, <2>2 DEF PushReceive, PushCheck, PushWoken, PushAdd, Add, PushQuit, queues, results,
                      graphVars
  <2> QED
    BY <1>2, <2>1, <2>2 DEF PushListener
<1>3. CASE ReadyListener
  BY <1>3, ReadyListenerMoves
<1>4. CASE LaunchPad
  BY <1>4, LaunchPadMoves
<1>5. ASSUME NEW w \in Worker, RunWorker(w) PROVE PipelineInv'
  BY <1>5, WorkerMovesNodes
<1>6. ASSUME NEW c \in Client, RunClient(c) PROVE PipelineInv'
  BY <1>6, ClientMovesNodes
<1>7. CASE UNCHANGED vars
  BY <1>1, <1>7 DEF vars, queues, results, graphVars
<1> QED
  BY <1>2, <1>3, <1>4, <1>5, <1>6, <1>7 DEF Next

-----------------------------------------------------------------------------
(* One copy *)

\* Where a copy is, its place holds the node.
LEMMA CopyPlaces ==
    ASSUME NEW n \in Node, NEW z \in Copies(n)
    PROVE  \/ \E i \in DOMAIN readyNodesChan : z = <<"readyNodesChan", i>> /\ readyNodesChan[i] = n
           \/ \E i \in DOMAIN pool : z = <<"pool", i>> /\ pool[i] = n
           \/ z = <<"priorityQueue", 0>> /\ n \in priorityQueue
           \/ z = <<"readyListener", 0>> /\ AtEnqueue(n)
           \/ z = <<"launcher", 0>> /\ AtDispatch(n)
           \/ \E w \in Worker : z = <<"worker", w>> /\ Runs(w, n)
  BY DEF Copies, AtEnqueue, AtDispatch, Runs, At

\* A node in one place is one copy.
LEMMA PipelineMeansOneCopy == PipelineInv => OneCopyEach
<1> SUFFICES ASSUME PipelineInv, NEW n \in Node
             PROVE  Cardinality(Copies(n)) + (IF outcome[n] = "none" THEN 0 ELSE 1) <= 1
  BY DEF OneCopyEach
<1>1. ASSUME NEW y \in Copies(n), NEW z \in Copies(n)
      PROVE  y = z
  <2>1. CASE InReady(n)
    <3>1. /\ \E i \in DOMAIN readyNodesChan : y = <<"readyNodesChan", i>> /\ readyNodesChan[i] = n
          /\ \E i \in DOMAIN readyNodesChan : z = <<"readyNodesChan", i>> /\ readyNodesChan[i] = n
      BY <2>1, CopyPlaces DEF PipelineInv, AtWork, InPool, Holds
    <3> QED
      BY <3>1 DEF PipelineInv, Distinct
  <2>2. CASE InPool(n)
    <3>1. /\ \E i \in DOMAIN pool : y = <<"pool", i>> /\ pool[i] = n
          /\ \E i \in DOMAIN pool : z = <<"pool", i>> /\ pool[i] = n
      BY <2>2, CopyPlaces DEF PipelineInv, AtWork, InReady, Holds
    <3> QED
      BY <3>1 DEF PipelineInv, Distinct
  <2>3. CASE AtWork(n)
    <3>1. /\ \E w \in Worker : y = <<"worker", w>> /\ Runs(w, n)
          /\ \E w \in Worker : z = <<"worker", w>> /\ Runs(w, n)
      BY <2>3, CopyPlaces DEF PipelineInv, InPool, InReady, Holds
    <3> QED
      BY <3>1 DEF PipelineInv
  <2>4. CASE ~InReady(n) /\ ~InPool(n) /\ ~AtWork(n)
    <3>1. /\ \/ y = <<"priorityQueue", 0>> /\ n \in priorityQueue
             \/ y = <<"readyListener", 0>> /\ AtEnqueue(n)
             \/ y = <<"launcher", 0>> /\ AtDispatch(n)
          /\ \/ z = <<"priorityQueue", 0>> /\ n \in priorityQueue
             \/ z = <<"readyListener", 0>> /\ AtEnqueue(n)
             \/ z = <<"launcher", 0>> /\ AtDispatch(n)
      BY <2>4, CopyPlaces DEF AtWork, InPool, InReady, Holds
    <3> QED
      BY <3>1 DEF PipelineInv
  <2> QED
    BY <2>1, <2>2, <2>3, <2>4
<1>2. ASSUME NEW z \in Copies(n) PROVE outcome[n] = "none"
  BY CopyPlaces DEF PipelineInv, HasResult, AtWork, InPool, InReady, Holds
<1>3. CASE Copies(n) = {}
  BY <1>3, FS_EmptySet
<1>4. CASE Copies(n) # {}
  <2>1. PICK z : Copies(n) = {z}
    BY <1>1, <1>4
  <2>2. Cardinality(Copies(n)) = 1
    BY <2>1, FS_Singleton
  <2> QED
    BY <1>2, <2>1, <2>2
<1> QED
  BY <1>3, <1>4

\* At first nothing has been pushed, published or queued.
LEMMA NothingUnderWay == Init => FeedInv /\ PublishInv /\ PipelineInv
<1> SUFFICES ASSUME Init PROVE FeedInv /\ PublishInv /\ PipelineInv
  OBVIOUS
<1>1. FeedInv
  BY NothingHeld DEF Init, GraphInit, FeedInv, InPush, InHand, Idle, At
<1>2. PublishInv
  BY DEF Init, GraphInit, PublishInv
<1>3. PipelineInv
  BY NothingHeld DEF Init, GraphInit, PipelineInv, InReady, InPool, AtEnqueue, AtDispatch, AtWork,
                     Runs, HasResult, Idle, At
<1> QED
  BY <1>1, <1>2, <1>3

\* When no node is pushed twice, a published node is in one place of the
\* pipeline or has its result, and never both: whatever the graph, the pool,
\* the clients' programs, and the Resets, Pauses and Stops among them, the
\* engine neither duplicates a node nor executes one again.
THEOREM NoCopyNoRerun ==
    ASSUME PushedOnce
    PROVE  Spec => []OneCopyEach
<1>1. /\ TypeInv /\ FeedInv /\ PublishInv /\ PipelineInv /\ [Next]_vars =>
            FeedInv' /\ PublishInv' /\ PipelineInv'
  BY FeedKept, PublicationInEngine, PipelineKept
<1> QED
  BY <1>1, InitTyped, TypesKept, NothingUnderWay, PipelineMeansOneCopy, PTL DEF Spec
=============================================================================
