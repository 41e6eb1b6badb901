--------------------------- MODULE EngineRefinement ---------------------------
(***************************************************************************)
(* The engine does to its graph what GraphProtocol does, and so what       *)
(* TaskOrder promises.  Each step of a listener, a worker or a client is   *)
(* one step of the protocol or invisible to it: the protocol's "taken" are *)
(* the nodes on the way from the ready listener to their results, its      *)
(* "settled" the nodes whose result callback has removed them, and its     *)
(* "cancelled" the descendants announced or about to be.                   *)
(*                                                                         *)
(* When the engine has nothing left to do, nobody is forgotten and its     *)
(* statistics are right: for programs that push a node once and do not     *)
(* call Reset, whatever is paused and stopped meanwhile.  Four things make *)
(* it so: every queued node has a signal of its own (SignalInv), the       *)
(* graph's mutex has one holder, which sends what it has to send           *)
(* (MutexInv), a node is cancelled by one cascade (DoomedOnce), and the    *)
(* counters are behind by just what is on its way to them (CountInv).  The *)
(* graph's part is Conserved, of GraphProofs.                              *)
(***************************************************************************)
EXTENDS TurboRunProofs

\* The ready listener has received n, and no Reset has popped it.
Held(n) ==
    \/ AtEnqueue(n) \/ n \in priorityQueue \/ AtDispatch(n) \/ InPool(n) \/ AtWork(n)
    \/ HasResult(n)

\* The result callback of n runs and has not got to the graph.
Callback(w, n) == worker[w].pc \in {"count", "remove"} /\ worker[w].node = n

\* The result callback of n has removed it from the graph.
Settled(n) == HasResult(n) /\ n \notin missed /\ \A w \in Worker : ~Callback(w, n)

TakenNodes     == {n \in Node : Held(n)}
SettledNodes   == {n \in Node : Settled(n)}
CancelledNodes == cancelled \cup Doomed

Graph == INSTANCE GraphProofs WITH
    taken <- TakenNodes, settled <- SettledNodes, cancelled <- CancelledNodes

-----------------------------------------------------------------------------
(* The protocol's operations on the graph are the engine's *)

\* Both modules count and know finite sets in the same way.
LEMMA SameCounts == \A S : /\ Graph!Cardinality(S) = Cardinality(S)
                           /\ Graph!IsFiniteSet(S) <=> IsFiniteSet(S)
  BY DEF Graph!Cardinality, Cardinality, Graph!IsFiniteSet, IsFiniteSet

\* Adding a node.
LEMMA SameAdd == \A n : Graph!Add(n) <=> Add(n)
  BY DEF Graph!Add, Graph!MutexFree, Graph!ChildrenWith, Graph!DependencyCount, Graph!Edges,
         Add, MutexFree, ChildrenWith, DependencyCount, Edges

\* Removing a node.
LEMMA SameRemove == \A n : Graph!Remove(n) <=> Remove(n)
  BY SameCounts
     DEF Graph!Remove, Graph!MutexFree, Graph!IndegreeWithout, Graph!PositionsOf, Graph!Positions,
         Graph!Freed, Remove, MutexFree, IndegreeWithout, PositionsOf, Positions, Freed

\* Removing a node with its descendants.
LEMMA SameRemoveSubtree == \A n : Graph!RemoveSubtree(n) <=> RemoveSubtree(n)
  BY SameCounts
     DEF Graph!RemoveSubtree, Graph!MutexFree, Graph!IndegreeWithout, Graph!PositionsOf,
         Graph!Positions, Graph!Subtree, Graph!ClosedUnderChildren,
         RemoveSubtree, MutexFree, IndegreeWithout, PositionsOf, Positions, Subtree,
         ClosedUnderChildren

\* Sending, receiving and clearing.
LEMMA SameChannel ==
    /\ \A n : Graph!EmitReady(n) <=> EmitReady(n)
    /\ \A n : Graph!ReceiveReady(n) <=> ReceiveReady(n)
    /\ Graph!Clear <=> Clear
  BY DEF Graph!EmitReady, Graph!ReadyCap, Graph!ReceiveReady, Graph!Clear, Graph!MutexFree,
         EmitReady, ReadyCap, ReceiveReady, Clear, MutexFree

\* What is proved of the protocol holds of the engine's graph.
LEMMA GraphInvKept == Graph!Inv /\ [Graph!Next]_(Graph!vars) => Graph!Inv'
  BY Graph!NextInv, SameCounts, NodeAssumption, DepsAssumption, AcyclicAssumption,
     MaxGraphSizeAssumption, StrategyAssumption

\* Its steps without a Reset are steps of it, and lose nothing.
LEMMA GraphOnward ==
    /\ Graph!Onward => Graph!Next
    /\ Graph!Inv /\ Graph!Conserved /\ [Graph!Onward]_(Graph!vars) => Graph!Conserved'
  BY Graph!OnwardIsNext, Graph!OnwardConserves, SameCounts, NodeAssumption, DepsAssumption,
     AcyclicAssumption, MaxGraphSizeAssumption, StrategyAssumption

\* And each of its steps is a step of TaskOrder.
LEMMA GraphStepRefines ==
    Graph!Inv /\ [Graph!Next]_(Graph!vars) => [Graph!Order!Next]_(Graph!Stages)
  BY Graph!StepRefines, SameCounts, NodeAssumption, DepsAssumption, AcyclicAssumption,
     MaxGraphSizeAssumption, StrategyAssumption

-----------------------------------------------------------------------------
(* Callbacks *)

\* A result is emitted once, to the callbacks there are then, and its
\* callback removes its node once; only a cascade leaves nodes to cancel.
CallbackInv ==
    /\ \A n \in missed : HasResult(n)
    /\ \A n \in Node : \A w \in Worker :
          Callback(w, n) => /\ HasResult(n) /\ n \notin missed
                            /\ \A x \in Worker : Callback(x, n) => x = w
    /\ \A w \in Worker : worker[w].pc # "cancel" => worker[w].doomed = {}

\* A step in which no callback starts keeps this.
LEMMA CallbacksShrink ==
    ASSUME CallbackInv, missed' = missed, outcome' = outcome,
           \A n \in Node : \A w \in Worker : Callback(w, n)' => Callback(w, n),
           \A w \in Worker : worker'[w].pc # "cancel" => worker'[w].doomed = {}
    PROVE  CallbackInv'
<1>1. \A n : HasResult(n)' = HasResult(n)
  BY DEF HasResult
<1> QED
  BY <1>1 DEF CallbackInv

\* A step of one worker leaves the others where they are.
LEMMA OneWorker ==
    ASSUME WorkersOK, NEW w \in Worker, NEW pc, NEW m, GoTo(w, pc, m)
    PROVE  /\ worker'[w].pc = pc /\ worker'[w].node = m /\ worker'[w].doomed = worker[w].doomed
           /\ \A x \in Worker \ {w} : worker'[x] = worker[x]
  BY DEF GoTo, WorkersOK

\* Every step of the engine keeps what is known of callbacks.
LEMMA CallbacksKept ==
    ASSUME TypeInv, PipelineInv, CallbackInv, [Next]_vars
    PROVE  CallbackInv'
<1>0. WorkersOK /\ RestOK
  BY Parts
<1>1. ASSUME UNCHANGED <<missed, outcome, worker>> PROVE CallbackInv'
  BY <1>1, CallbacksShrink DEF Callback, CallbackInv
<1>2. CASE PushListener
  BY <1>1, <1>2 DEF PushListener, PushReceive, PushCheck, PushWoken, PushAdd, PushEmit, PushQuit,
                    results
<1>3. CASE ReadyListener
  BY <1>1, <1>3 DEF ReadyListener, ReadyReceive, ReadyEnqueue, ReadySignal, ReadyQuit, results
<1>4. CASE LaunchPad
  BY <1>1, <1>4 DEF LaunchPad, LaunchReceive, LaunchPaused, LaunchSize, LaunchPop, LaunchPopEmpty,
                    LaunchDispatch, LaunchRegister, LaunchCount, LaunchQuit, results
<1>5. ASSUME NEW c \in Client, RunClient(c) PROVE CallbackInv'
  BY <1>1, <1>5 DEF RunClient, Push, WaitFor, Start, StartSignal, Pause, GetStats, GetStatsDone,
                    Reset, ResetClear, ResetSize, ResetPop, ResetPopEmpty, ResetDrainLaunchpad,
                    ResetDrainPush, ResetDone, Stop, StopWorkers, StopDone, results
<1>6. ASSUME NEW w \in Worker, RunWorker(w) PROVE CallbackInv'
  <2>1. CASE WorkerRun(w)
    <3>1. PICK m \in Node : m = worker[w].node
      BY <1>0, <2>1 DEF WorkerRun, WorkersOK
    <3>2. AtWork(m) /\ ~HasResult(m)
      BY <2>1, <3>1 DEF WorkerRun, AtWork, Runs, PipelineInv
    <3>3. \A n : HasResult(n)' <=> HasResult(n) \/ n = m
      BY <1>0, <2>1, <3>1 DEF WorkerRun, HasResult, RestOK
    <3>4. /\ \A x \in Worker \ {w} : worker'[x] = worker[x]
          /\ worker'[w].doomed = worker[w].doomed
          /\ \/ worker'[w].pc = "count" /\ worker'[w].node = m /\ missed' = missed
             \/ worker'[w].pc = "idle" /\ missed' = missed \cup {m}
          /\ worker[w].pc = "run"
      BY <1>0, <2>1, <3>1, OneWorker DEF WorkerRun
    <3>5. \A x \in Worker : ~Callback(x, m)
      BY <3>2 DEF CallbackInv
    <3>6. m \notin missed
      BY <3>2 DEF CallbackInv
    <3>7. \A n \in Node : \A x \in Worker :
              Callback(x, n)' => Callback(x, n) \/ (x = w /\ n = m /\ missed' = missed)
      BY <3>4 DEF Callback
    <3>8. ASSUME NEW n \in Node, NEW x \in Worker, Callback(x, n)'
          PROVE  /\ HasResult(n)' /\ n \notin missed'
                 /\ \A y \in Worker : Callback(y, n)' => y = x
      <4>1. CASE n = m
        BY <3>3, <3>5, <3>6, <3>7, <3>8, <4>1
      <4>2. CASE n # m
        BY <3>3, <3>4, <3>7, <3>8, <4>2 DEF CallbackInv
      <4> QED
        BY <4>1, <4>2
    <3>9. /\ \A n \in missed' : HasResult(n)'
          /\ \A x \in Worker : worker'[x].pc # "cancel" => worker'[x].doomed = {}
      BY <3>3, <3>4 DEF CallbackInv
    <3> QED
      BY <3>8, <3>9 DEF CallbackInv
  <2>2. CASE CallbackCount(w)
    <3>1. /\ \A x \in Worker : /\ Callback(x, worker[w].node)' => Callback(x, worker[w].node)
                               /\ \A n : Callback(x, n)' => Callback(x, n)
          /\ \A x \in Worker : worker'[x].pc # "cancel" => worker'[x].doomed = {}
      BY <1>0, <2>2, OneWorker DEF CallbackCount, Callback, CallbackInv
    <3> QED
      BY <2>2, <3>1, CallbacksShrink DEF CallbackCount, results
  <2>3. CASE CallbackRemove(w)
    <3>1. /\ \A x \in Worker \ {w} : worker'[x] = worker[x]
          /\ worker'[w].pc \in {"cancel", "notify", "emit"}
          /\ worker'[w].pc # "cancel" => worker'[w].doomed = worker[w].doomed
          /\ worker[w].pc = "remove"
      BY <1>0, <2>3, OneWorker DEF CallbackRemove, WorkersOK
    <3>2. /\ \A x \in Worker : \A n : Callback(x, n)' => Callback(x, n)
          /\ \A x \in Worker : worker'[x].pc # "cancel" => worker'[x].doomed = {}
      BY <3>1 DEF Callback, CallbackInv
    <3> QED
      BY <2>3, <3>2, CallbacksShrink DEF CallbackRemove, results
  <2>4. CASE CallbackCancel(w)
    <3>1. /\ \A x \in Worker \ {w} : worker'[x] = worker[x]
          /\ worker'[w].pc = "cancel" /\ worker[w].pc = "cancel"
      BY <1>0, <2>4 DEF CallbackCancel, WorkersOK
    <3>2. /\ \A x \in Worker : \A n : Callback(x, n)' => Callback(x, n)
          /\ \A x \in Worker : worker'[x].pc # "cancel" => worker'[x].doomed = {}
      BY <3>1 DEF Callback, CallbackInv
    <3> QED
      BY <2>4, <3>2, CallbacksShrink DEF CallbackCancel
  <2>5. CASE WorkerTake(w) \/ WorkerQuit(w) \/ CallbackEmit(w) \/ CallbackNotify(w)
    <3>1. /\ \A x \in Worker \ {w} : worker'[x] = worker[x]
          /\ worker'[w].pc \in {"run", "exited", "notify", "emit", "idle"}
          /\ worker'[w].doomed = worker[w].doomed
          /\ worker[w].pc # "cancel" \/ worker[w].doomed = {}
      BY <1>0, <2>5, OneWorker DEF WorkerTake, WorkerQuit, CallbackEmit, CallbackNotify
    <3>2. /\ \A x \in Worker : \A n : Callback(x, n)' => Callback(x, n)
          /\ \A x \in Worker : worker'[x].pc # "cancel" => worker'[x].doomed = {}
      BY <3>1 DEF Callback, CallbackInv
    <3> QED
      BY <2>5, <3>2, CallbacksShrink
         DEF WorkerTake, WorkerQuit, CallbackEmit, CallbackNotify, results
  <2>6. CASE WorkerPanic(w)
    BY <1>1, <2>6 DEF WorkerPanic, results
  <2> QED
    BY <1>6, <2>1, <2>2, <2>3, <2>4, <2>5, <2>6 DEF RunWorker
<1>7. CASE UNCHANGED vars
  BY <1>1, <1>7 DEF vars, results
<1> QED
  BY <1>2, <1>3, <1>4, <1>5, <1>6, <1>7 DEF Next

-----------------------------------------------------------------------------
(* Each step of the engine is one of the protocol, or invisible to it *)

EngineInv ==
    /\ TypeInv /\ CapacityInv /\ FeedInv /\ PublishInv /\ PipelineInv /\ CallbackInv
    /\ Graph!Inv

\* A step that leaves the workers, the queue, the pool and the listeners
\* between them alone takes, settles and cancels nothing.
LEMMA MarksKept ==
    ASSUME UNCHANGED <<priorityQueue, pool, readyListener, launcher, worker, outcome, missed,
                       cancelled>>
    PROVE  UNCHANGED <<TakenNodes, SettledNodes, CancelledNodes>>
  BY DEF TakenNodes, Held, AtEnqueue, AtDispatch, InPool, AtWork, Runs, HasResult, SettledNodes,
         Settled, Callback, CancelledNodes, Doomed

\* Nor does one that only moves nodes on towards their results.
LEMMA SettledKept ==
    ASSUME UNCHANGED <<worker, outcome, missed, cancelled>>
    PROVE  UNCHANGED <<SettledNodes, CancelledNodes>>
  BY DEF SettledNodes, Settled, HasResult, Callback, CancelledNodes, Doomed

\* What the protocol does not see.
LEMMA Invisible ==
    ASSUME UNCHANGED graphVars, UNCHANGED <<TakenNodes, outcome, SettledNodes, CancelledNodes>>
    PROVE  UNCHANGED Graph!vars
  BY DEF graphVars, Graph!vars, Graph!graphVars

\* The push listener submits a node that is new, and sees room for it.
LEMMA PushListenerMaps == ASSUME EngineInv, PushListener PROVE [Graph!Onward]_(Graph!vars)
<1>0. ListenersOK
  BY Parts DEF EngineInv
<1>1. /\ UNCHANGED <<TakenNodes, SettledNodes, CancelledNodes>>
      /\ outcome' = outcome
  <2>1. UNCHANGED <<priorityQueue, pool, readyListener, launcher, worker, outcome, missed, cancelled>>
    BY DEF PushListener, PushReceive, PushCheck, PushWoken, PushAdd, PushEmit, PushQuit, queues,
           results
  <2> QED
    BY <2>1, MarksKept
<1>2. CASE PushAdd
  <2>1. PICK n \in Node : n = pushListener.node
    BY <1>0, <1>2 DEF PushAdd, ListenersOK
  <2>2. n \notin added /\ Size < MaxGraphSize
    BY <1>2, <2>1 DEF PushAdd, EngineInv, FeedInv, InHand, CapacityInv, RoomSeen
  <2>3. Graph!Submit(n)
    BY <1>1, <1>2, <2>1, <2>2, SameAdd, SameCounts DEF PushAdd, Graph!Submit, Graph!Size, Size
  <2> QED
    BY <2>3 DEF Graph!Onward
<1>3. CASE PushEmit
  <2>1. PICK n \in Node : n = pushListener.node
    BY <1>0, <1>3 DEF PushEmit, ListenersOK
  <2>2. Graph!Emit(n)
    BY <1>1, <1>3, <2>1, SameChannel DEF PushEmit, Graph!Emit
  <2> QED
    BY <2>2 DEF Graph!Onward
<1>4. CASE PushReceive \/ PushCheck \/ PushWoken \/ PushQuit
  BY <1>1, <1>4, Invisible DEF PushReceive, PushCheck, PushWoken, PushQuit
<1> QED
  BY <1>2, <1>3, <1>4 DEF PushListener

\* The ready listener takes nodes and queues them.
LEMMA ReadyListenerMaps == ASSUME EngineInv, ReadyListener PROVE [Graph!Onward]_(Graph!vars)
<1>1. /\ UNCHANGED <<pool, launcher, worker, outcome>>
      /\ UNCHANGED <<SettledNodes, CancelledNodes>>
  <2>1. UNCHANGED <<pool, launcher, worker, outcome, missed, cancelled>>
    BY DEF ReadyListener, ReadyReceive, ReadyEnqueue, ReadySignal, ReadyQuit, queues, results
  <2> QED
    BY <2>1, SettledKept
<1>2. \A n : /\ InPool(n)' = InPool(n) /\ AtDispatch(n)' = AtDispatch(n)
             /\ AtWork(n)' = AtWork(n) /\ HasResult(n)' = HasResult(n)
  BY <1>1, SamePlaces
<1>3. CASE ReadyReceive
  <2>1. PICK n \in Node : ReceiveReady(n) /\ readyListener' = At("enqueue", n)
    BY <1>3 DEF ReadyReceive
  <2>2. \A m : ~AtEnqueue(m) /\ (AtEnqueue(m)' <=> m = n)
    BY <1>3, <2>1 DEF ReadyReceive, AtEnqueue, Idle, At
  <2>3. priorityQueue' = priorityQueue
    BY <1>3 DEF ReadyReceive, queues
  <2>4. TakenNodes' = TakenNodes \cup {n}
    BY <1>2, <2>2, <2>3 DEF TakenNodes, Held
  <2>5. Graph!Take(n)
    BY <1>1, <2>1, <2>4, SameChannel DEF Graph!Take
  <2> QED
    BY <2>5 DEF Graph!Onward
<1>4. CASE ReadyEnqueue
  <2>1. \A n : ~AtEnqueue(n)' /\ (AtEnqueue(n) <=> n = readyListener.node)
    BY <1>4 DEF ReadyEnqueue, AtEnqueue, At
  <2>2. priorityQueue' = priorityQueue \cup {readyListener.node}
    BY <1>4 DEF ReadyEnqueue
  <2>3. TakenNodes' = TakenNodes
    BY <1>2, <2>1, <2>2 DEF TakenNodes, Held
  <2> QED
    BY <1>1, <1>4, <2>3, Invisible DEF ReadyEnqueue
<1>5. CASE ReadySignal \/ ReadyQuit
  <2>1. \A n : ~AtEnqueue(n) /\ ~AtEnqueue(n)'
    BY <1>5 DEF ReadySignal, ReadyQuit, AtEnqueue, Idle, Exited, At
  <2>2. priorityQueue' = priorityQueue
    BY <1>5 DEF ReadySignal, ReadyQuit, queues
  <2>3. TakenNodes' = TakenNodes
    BY <1>2, <2>1, <2>2 DEF TakenNodes, Held
  <2> QED
    BY <1>1, <1>5, <2>3, Invisible DEF ReadySignal, ReadyQuit
<1> QED
  BY <1>3, <1>4, <1>5 DEF ReadyListener

\* The launchpad listener moves taken nodes from the queue to the pool.
LEMMA LaunchPadMaps == ASSUME EngineInv, LaunchPad PROVE [Graph!Onward]_(Graph!vars)
<1>0. QueuesOK /\ ListenersOK
  BY Parts DEF EngineInv
<1>1. /\ UNCHANGED graphVars
      /\ UNCHANGED <<readyListener, worker, outcome>>
      /\ UNCHANGED <<SettledNodes, CancelledNodes>>
  <2>1. UNCHANGED graphVars /\ UNCHANGED <<readyListener, worker, outcome, missed, cancelled>>
    BY DEF LaunchPad, LaunchReceive, LaunchPaused, LaunchSize, LaunchPop, LaunchPopEmpty,
           LaunchDispatch, LaunchRegister, LaunchCount, LaunchQuit, results
  <2> QED
    BY <2>1, SettledKept
<1>2. \A n : /\ AtEnqueue(n)' = AtEnqueue(n)
             /\ AtWork(n)' = AtWork(n) /\ HasResult(n)' = HasResult(n)
  BY <1>1, SamePlaces
<1>3. TakenNodes' = TakenNodes
  <2>1. CASE LaunchPop
    <3>1. PICK m \in Node : /\ m \in priorityQueue /\ priorityQueue' = priorityQueue \ {m}
                            /\ launcher' = At("dispatch", m)
      BY <2>1 DEF LaunchPop, IsNext, Popped
    <3>2. \A n : (AtDispatch(n)' <=> n = m) /\ ~AtDispatch(n)
      BY <2>1, <3>1 DEF LaunchPop, AtDispatch, At
    <3>3. \A n : InPool(n)' = InPool(n)
      BY <2>1, SamePlaces DEF LaunchPop
    <3> QED
      BY <1>2, <3>1, <3>2, <3>3 DEF TakenNodes, Held
  <2>2. CASE LaunchDispatch
    <3>1. PICK m \in Node : m = launcher.node
      BY <1>0, <2>2 DEF LaunchDispatch, ListenersOK
    <3>2. /\ AtDispatch(m) /\ \A n : ~AtDispatch(n)' /\ (AtDispatch(n) <=> n = m)
          /\ pool' = Append(pool, m) /\ pool \in Seq(Node) /\ Distinct(pool)
          /\ priorityQueue' = priorityQueue
      BY <1>0, <2>2, <3>1 DEF LaunchDispatch, AtDispatch, At, QueuesOK, EngineInv, PipelineInv
    <3>3. ~InPool(m)
      BY <3>1, <3>2 DEF EngineInv, PipelineInv
    <3>4. \A n : InPool(n)' <=> InPool(n) \/ n = m
      BY <3>2, <3>3, Sent DEF InPool
    <3> QED
      BY <1>2, <3>2, <3>4 DEF TakenNodes, Held
  <2>3. CASE \/ LaunchReceive \/ LaunchPaused \/ LaunchSize \/ LaunchPopEmpty \/ LaunchRegister
             \/ LaunchCount \/ LaunchQuit
    <3>1. /\ UNCHANGED <<priorityQueue, pool>>
          /\ \A n : AtDispatch(n)' = AtDispatch(n)
      BY <2>3 DEF LaunchReceive, LaunchPaused, LaunchSize, LaunchPopEmpty, LaunchRegister,
                  LaunchCount, LaunchQuit, queues, AtDispatch, Idle, Exited, At
    <3>2. \A n : InPool(n)' = InPool(n)
      BY <3>1, SamePlaces
    <3> QED
      BY <1>2, <3>1, <3>2 DEF TakenNodes, Held
  <2> QED
    BY <2>1, <2>2, <2>3 DEF LaunchPad
<1> QED
  BY <1>1, <1>3, Invisible

\* A worker that has not come to a callback's removal, or is past it, keeps
\* its nodes settled or not; and what is taken depends on who runs.
LEMMA WorkerMarks ==
    ASSUME UNCHANGED <<priorityQueue, readyListener, launcher, pool, outcome, missed>>
    PROVE  /\ (\A n \in Node : AtWork(n)' <=> AtWork(n)) => TakenNodes' = TakenNodes
           /\ (\A n \in Node : \A x \in Worker : Callback(x, n)' <=> Callback(x, n))
                 => SettledNodes' = SettledNodes
<1>1. \A n : /\ AtEnqueue(n)' = AtEnqueue(n) /\ AtDispatch(n)' = AtDispatch(n)
             /\ InPool(n)' = InPool(n) /\ HasResult(n)' = HasResult(n)
  BY SamePlaces
<1> QED
  BY <1>1 DEF TakenNodes, Held, SettledNodes, Settled

\* A worker takes a node from the pool.
LEMMA WorkerTakeMaps ==
    ASSUME EngineInv, NEW w \in Worker, WorkerTake(w)
    PROVE  [Graph!Onward]_(Graph!vars)
<1>0. QueuesOK /\ WorkersOK
  BY Parts DEF EngineInv
<1>1. pool # <<>> /\ pool' = Tail(pool) /\ pool \in Seq(Node) /\ Distinct(pool)
  BY <1>0 DEF WorkerTake, QueuesOK, EngineInv, PipelineInv
<1>2. PICK m \in Node : m = Head(pool)
  BY <1>1, Received
<1>3. InPool(m) /\ \A n : InPool(n)' <=> InPool(n) /\ n # m
  BY <1>1, <1>2, Received DEF InPool
<1>4. /\ \A x \in Worker \ {w} : worker'[x] = worker[x]
      /\ worker'[w].pc = "run" /\ worker'[w].node = m /\ worker'[w].doomed = worker[w].doomed
      /\ worker[w].pc = "idle"
  BY <1>0, <1>2, OneWorker DEF WorkerTake
<1>5. \A n : AtWork(n)' <=> AtWork(n) \/ n = m
  BY <1>4 DEF AtWork, Runs
<1>6. /\ priorityQueue' = priorityQueue /\ outcome' = outcome
      /\ \A n : /\ AtEnqueue(n)' = AtEnqueue(n) /\ AtDispatch(n)' = AtDispatch(n)
                /\ HasResult(n)' = HasResult(n)
  BY SamePlaces DEF WorkerTake, results
<1>7. TakenNodes' = TakenNodes
  BY <1>3, <1>5, <1>6 DEF TakenNodes, Held
<1>8. SettledNodes' = SettledNodes
  <2>1. \A n : \A x \in Worker : Callback(x, n)' <=> Callback(x, n)
    BY <1>4 DEF Callback
  <2>2. missed' = missed
    BY DEF WorkerTake, results
  <2> QED
    BY <1>6, <2>1, <2>2 DEF SettledNodes, Settled
<1>9. CancelledNodes' = CancelledNodes
  <2>1. \A x \in Worker : worker'[x].doomed = worker[x].doomed
    BY <1>4
  <2> QED
    BY <2>1 DEF WorkerTake, results, CancelledNodes, Doomed
<1> QED
  BY <1>6, <1>7, <1>8, <1>9, Invisible DEF WorkerTake

\* A worker finishes a node that has no result yet; the callback, if there is
\* one, is still to come.
LEMMA WorkerRunMaps ==
    ASSUME EngineInv, NEW w \in Worker, WorkerRun(w)
    PROVE  [Graph!Onward]_(Graph!vars)
<1>0. WorkersOK /\ RestOK
  BY Parts DEF EngineInv
<1>1. PICK m \in Node : m = worker[w].node
  BY <1>0 DEF WorkerRun, WorkersOK
<1>2. AtWork(m) /\ ~HasResult(m)
  BY <1>1 DEF WorkerRun, AtWork, Runs, EngineInv, PipelineInv
<1>3. \A n : HasResult(n)' <=> HasResult(n) \/ n = m
  BY <1>0, <1>1 DEF WorkerRun, HasResult, RestOK
<1>4. /\ \A x \in Worker \ {w} : worker'[x] = worker[x]
      /\ worker'[w].doomed = worker[w].doomed
      /\ \/ worker'[w].pc = "count" /\ worker'[w].node = m /\ missed' = missed
         \/ worker'[w].pc = "idle" /\ missed' = missed \cup {m}
      /\ worker[w].pc = "run" /\ worker[w].node = m
  BY <1>0, <1>1, OneWorker DEF WorkerRun
<1>5. \A n : AtWork(n) <=> AtWork(n)' \/ n = m
  <2>1. \A n : \A x \in Worker : Runs(x, n)' <=> Runs(x, n) /\ x # w
    BY <1>4 DEF Runs
  <2>2. \A n : Runs(w, n) <=> n = m
    BY <1>4 DEF Runs
  <2> QED
    BY <2>1, <2>2 DEF AtWork
<1>6. TakenNodes' = TakenNodes
  <2>1. /\ priorityQueue' = priorityQueue
        /\ \A n : /\ AtEnqueue(n)' = AtEnqueue(n) /\ AtDispatch(n)' = AtDispatch(n)
                  /\ InPool(n)' = InPool(n)
    BY SamePlaces DEF WorkerRun, queues
  <2> QED
    BY <1>3, <1>5, <2>1 DEF TakenNodes, Held
<1>7. SettledNodes' = SettledNodes
  <2>1. ASSUME NEW n \in Node, n # m
        PROVE  Settled(n)' <=> Settled(n)
    <3>1. \A x \in Worker : Callback(x, n)' <=> Callback(x, n)
      BY <1>4, <2>1 DEF Callback
    <3> QED
      BY <1>3, <1>4, <2>1, <3>1 DEF Settled
  <2>2. ~Settled(m)
    BY <1>2 DEF Settled
  <2>3. ~Settled(m)'
    BY <1>4 DEF Settled, Callback
  <2> QED
    BY <2>1, <2>2, <2>3 DEF SettledNodes
<1>8. CancelledNodes' = CancelledNodes
  <2>1. \A x \in Worker : worker'[x].doomed = worker[x].doomed
    BY <1>4
  <2> QED
    BY <2>1 DEF WorkerRun, CancelledNodes, Doomed
<1>9. Graph!Finish(m)
  <2>1. m \in TakenNodes /\ outcome[m] = "none"
    BY <1>2 DEF TakenNodes, Held, HasResult
  <2>2. \E r \in Graph!Outcome \ {"none"} : outcome' = [outcome EXCEPT ![m] = r]
    BY <1>1 DEF WorkerRun, Graph!Outcome
  <2> QED
    BY <1>6, <1>7, <1>8, <2>1, <2>2 DEF WorkerRun, Graph!Finish, graphVars, Graph!graphVars
<1> QED
  BY <1>9 DEF Graph!Onward

\* The callback of a node that has not been settled removes it.
LEMMA CallbackRemoveMaps ==
    ASSUME EngineInv, NEW w \in Worker, CallbackRemove(w)
    PROVE  [Graph!Onward]_(Graph!vars)
<1>0. WorkersOK
  BY Parts DEF EngineInv
<1>1. PICK n \in Node : n = worker[w].node
  BY <1>0 DEF CallbackRemove, WorkersOK
<1>2. /\ \A x \in Worker \ {w} : worker'[x] = worker[x]
      /\ worker'[w].pc \in {"cancel", "notify", "emit"}
      /\ worker[w].pc = "remove" /\ worker[w].doomed = {}
      /\ worker'[w].doomed = IF CascadesFrom(n) THEN CancelledWith(n) ELSE {}
  <2>1. worker[w].pc = "remove" /\ worker[w].doomed = {}
    BY DEF CallbackRemove, EngineInv, CallbackInv
  <2>2. CASE CascadesFrom(n)
    <3>1. worker' = [worker EXCEPT ![w].pc = "cancel", ![w].doomed = CancelledWith(n)]
      BY <1>1, <2>2 DEF CallbackRemove
    <3> QED
      BY <1>0, <2>1, <2>2, <3>1 DEF WorkersOK
  <2>3. CASE ~CascadesFrom(n)
    <3>1. \E pc \in {"notify", "emit"} : GoTo(w, pc, n)
      BY <1>1, <2>3 DEF CallbackRemove
    <3> QED
      BY <1>0, <2>1, <2>3, <3>1, OneWorker
  <2> QED
    BY <2>2, <2>3
<1>3. HasResult(n) /\ n \notin missed /\ \A x \in Worker : Callback(x, n) => x = w
  BY <1>1, <1>2 DEF Callback, EngineInv, CallbackInv
<1>4. UNCHANGED <<outcome, missed, cancelled, priorityQueue, pool, readyListener, launcher>>
  BY DEF CallbackRemove, results, queues
<1>5. TakenNodes' = TakenNodes
  <2>1. \A m : AtWork(m)' <=> AtWork(m)
    BY <1>2 DEF AtWork, Runs
  <2> QED
    BY <1>4, <2>1, WorkerMarks
<1>6. SettledNodes' = SettledNodes \cup {n} /\ n \notin SettledNodes
  <2>1. \A m \in Node : \A x \in Worker : Callback(x, m)' <=> Callback(x, m) /\ x # w
    BY <1>2 DEF Callback
  <2>2. \A m \in Node : Callback(w, m) <=> m = n
    BY <1>1, <1>2 DEF Callback
  <2>3. \A m : HasResult(m)' = HasResult(m)
    BY <1>4 DEF HasResult
  <2>4. ASSUME NEW m \in Node PROVE Settled(m)' <=> Settled(m) \/ m = n
    <3>1. CASE m = n
      BY <1>3, <1>4, <2>1, <2>3, <3>1 DEF Settled
    <3>2. CASE m # n
      BY <1>4, <2>1, <2>2, <2>3, <3>2 DEF Settled
    <3> QED
      BY <3>1, <3>2
  <2>5. ~Settled(n)
    BY <2>2 DEF Settled
  <2> QED
    BY <2>4, <2>5 DEF SettledNodes
<1>7. CancelledNodes' = CancelledNodes \cup worker'[w].doomed
  BY <1>2, <1>4 DEF CancelledNodes, Doomed
<1>8. Graph!CascadesFrom(n) <=> CascadesFrom(n)
  BY DEF Graph!CascadesFrom, CascadesFrom
<1>9. Graph!Settle(n)
  <2>1. CASE CascadesFrom(n)
    <3>1. RemoveSubtree(n)
      BY <1>1, <2>1 DEF CallbackRemove
    <3>2. CancelledNodes' = CancelledNodes \cup ((nodes \ nodes') \ {n})
      BY <1>2, <1>7, <2>1 DEF CancelledWith
    <3> QED
      BY <1>3, <1>4, <1>5, <1>6, <1>8, <2>1, <3>1, <3>2, SameRemoveSubtree
         DEF Graph!Settle, HasResult
  <2>2. CASE ~CascadesFrom(n)
    <3>1. Remove(n)
      BY <1>1, <2>2 DEF CallbackRemove
    <3>2. CancelledNodes' = CancelledNodes
      BY <1>2, <1>7, <2>2
    <3> QED
      BY <1>3, <1>4, <1>5, <1>6, <1>8, <2>2, <3>1, <3>2, SameRemove DEF Graph!Settle, HasResult
  <2> QED
    BY <2>1, <2>2
<1> QED
  BY <1>9 DEF Graph!Onward

\* Announcing a node that is to be cancelled changes nothing in the graph.
LEMMA CallbackCancelMaps ==
    ASSUME EngineInv, NEW w \in Worker, CallbackCancel(w)
    PROVE  [Graph!Onward]_(Graph!vars)
<1>0. WorkersOK
  BY Parts DEF EngineInv
<1>1. PICK m \in worker[w].doomed :
          /\ cancelled' = cancelled \cup {m}
          /\ worker' = [worker EXCEPT ![w].doomed = @ \ {m}]
  BY DEF CallbackCancel
<1>2. /\ \A x \in Worker \ {w} : worker'[x] = worker[x]
      /\ worker'[w].pc = worker[w].pc /\ worker'[w].node = worker[w].node
      /\ worker'[w].doomed = worker[w].doomed \ {m}
  BY <1>0, <1>1 DEF WorkersOK
<1>3. CancelledNodes' = CancelledNodes
  BY <1>1, <1>2 DEF CancelledNodes, Doomed
<1>4. \A n : \A x \in Worker : (Callback(x, n)' <=> Callback(x, n)) /\ (Runs(x, n)' <=> Runs(x, n))
  BY <1>2 DEF Callback, Runs
<1>5. TakenNodes' = TakenNodes /\ SettledNodes' = SettledNodes
  BY <1>4, WorkerMarks DEF CallbackCancel, queues, AtWork
<1> QED
  BY <1>3, <1>5, Invisible DEF CallbackCancel

\* Every step of a worker.
LEMMA WorkerMaps ==
    ASSUME EngineInv, NEW w \in Worker, RunWorker(w)
    PROVE  [Graph!Onward]_(Graph!vars)
<1>0. WorkersOK
  BY Parts DEF EngineInv
<1>1. CASE WorkerTake(w)
  BY <1>1, WorkerTakeMaps
<1>2. CASE WorkerRun(w)
  BY <1>2, WorkerRunMaps
<1>3. CASE CallbackRemove(w)
  BY <1>3, CallbackRemoveMaps
<1>4. CASE CallbackCancel(w)
  BY <1>4, CallbackCancelMaps
<1>5. CASE WorkerPanic(w)
  BY <1>5, MarksKept, Invisible DEF WorkerPanic, queues, results
<1>6. CASE WorkerQuit(w) \/ CallbackCount(w) \/ CallbackEmit(w) \/ CallbackNotify(w)
  <2>1. /\ \A x \in Worker \ {w} : worker'[x] = worker[x]
        /\ worker'[w].doomed = worker[w].doomed
        /\ worker[w].pc # "run" /\ worker'[w].pc # "run"
        /\ \/ /\ worker[w].pc \notin {"count", "remove"}
              /\ worker'[w].pc \notin {"count", "remove"}
           \/ /\ worker[w].pc = "count" /\ worker'[w].pc = "remove"
              /\ worker'[w].node = worker[w].node
    BY <1>0, <1>6, OneWorker DEF WorkerQuit, CallbackCount, CallbackEmit, CallbackNotify
  <2>2. /\ UNCHANGED <<priorityQueue, pool, readyListener, launcher, outcome, missed, cancelled>>
    BY <1>6 DEF WorkerQuit, CallbackCount, CallbackEmit, CallbackNotify, queues, results
  <2>3. \A n : \A x \in Worker : (Callback(x, n)' <=> Callback(x, n)) /\ (Runs(x, n)' <=> Runs(x, n))
    BY <2>1 DEF Callback, Runs
  <2>4. TakenNodes' = TakenNodes /\ SettledNodes' = SettledNodes
    BY <2>2, <2>3, WorkerMarks DEF AtWork
  <2>5. CancelledNodes' = CancelledNodes
    <3>1. \A x \in Worker : worker'[x].doomed = worker[x].doomed
      BY <2>1
    <3> QED
      BY <2>2, <3>1 DEF CancelledNodes, Doomed
  <2>6. CASE CallbackEmit(w)
    <3>1. PICK m \in Node : EmitReady(m)
      BY <2>6 DEF CallbackEmit
    <3>2. Graph!Emit(m)
      BY <2>2, <2>4, <2>5, <3>1, SameChannel DEF Graph!Emit
    <3> QED
      BY <3>2 DEF Graph!Onward
  <2>7. CASE WorkerQuit(w) \/ CallbackCount(w) \/ CallbackNotify(w)
    BY <2>2, <2>4, <2>5, <2>7, Invisible DEF WorkerQuit, CallbackCount, CallbackNotify
  <2> QED
    BY <1>6, <2>6, <2>7
<1> QED
  BY <1>1, <1>2, <1>3, <1>4, <1>5, <1>6 DEF RunWorker

\* Of a client's steps the graph sees two: a Reset clears it, and loses the
\* nodes it pops.
LEMMA ClientMaps ==
    ASSUME EngineInv, NEW c \in Client, RunClient(c)
    PROVE  /\ ~Resetting(c) => UNCHANGED Graph!vars
           /\ [Graph!Next]_(Graph!vars)
<1>1. UNCHANGED <<pool, readyListener, launcher, worker, outcome, missed, cancelled>>
  BY DEF RunClient, Push, WaitFor, Start, StartSignal, Pause, GetStats, GetStatsDone, Reset,
         ResetClear, ResetSize, ResetPop, ResetPopEmpty, ResetDrainLaunchpad, ResetDrainPush,
         ResetDone, Stop, StopWorkers, StopDone, queues, results
<1>2. CASE ResetPop(c)
  <2>1. PICK n \in Node : n \in priorityQueue /\ priorityQueue' = priorityQueue \ {n}
    BY <1>2 DEF ResetPop, IsNext, Popped
  <2>2. ~(AtEnqueue(n) \/ AtDispatch(n) \/ InPool(n) \/ AtWork(n) \/ HasResult(n))
    BY <2>1 DEF EngineInv, PipelineInv
  <2>3. \A m : /\ AtEnqueue(m)' = AtEnqueue(m) /\ AtDispatch(m)' = AtDispatch(m)
               /\ InPool(m)' = InPool(m) /\ AtWork(m)' = AtWork(m)
               /\ HasResult(m)' = HasResult(m)
    BY <1>1, SamePlaces
  <2>4. TakenNodes' = TakenNodes \ {n} /\ n \in TakenNodes
    BY <2>1, <2>2, <2>3 DEF TakenNodes, Held
  <2>5. outcome[n] = "none"
    BY <2>2 DEF HasResult
  <2>6. UNCHANGED <<SettledNodes, CancelledNodes>>
    BY <1>1, SettledKept
  <2>7. Graph!Lose(n)
    BY <1>1, <1>2, <2>4, <2>5, <2>6 DEF ResetPop, Graph!Lose, graphVars, Graph!graphVars
  <2> QED
    BY <1>2, <2>7 DEF Graph!Next, ResetPop, Resetting
<1>3. ASSUME ~ResetPop(c) PROVE UNCHANGED <<TakenNodes, SettledNodes, CancelledNodes>>
  <2>1. priorityQueue' = priorityQueue
    BY <1>3 DEF RunClient, Push, WaitFor, Start, StartSignal, Pause, GetStats, GetStatsDone, Reset,
                ResetClear, ResetSize, ResetPopEmpty, ResetDrainLaunchpad, ResetDrainPush,
                ResetDone, Stop, StopWorkers, StopDone, queues
  <2> QED
    BY <1>1, <2>1, MarksKept
<1>4. CASE ResetClear(c)
  <2>1. UNCHANGED <<TakenNodes, SettledNodes, CancelledNodes>>
    BY <1>3, <1>4 DEF ResetClear, ResetPop
  <2>2. Graph!ResetGraph
    BY <1>1, <1>4, <2>1, SameChannel DEF ResetClear, Graph!ResetGraph
  <2> QED
    BY <1>4, <2>2 DEF Graph!Next, ResetClear, Resetting
<1>5. CASE ~ResetPop(c) /\ ~ResetClear(c)
  <2>1. UNCHANGED graphVars
    BY <1>5 DEF RunClient, Push, WaitFor, Start, StartSignal, Pause, GetStats, GetStatsDone,
                Reset, ResetSize, ResetPopEmpty, ResetDrainLaunchpad, ResetDrainPush,
                ResetDone, Stop, StopWorkers, StopDone
  <2> QED
    BY <1>1, <1>3, <1>5, <2>1, Invisible
<1> QED
  BY <1>2, <1>4, <1>5

\* In no call of Reset.
ResetFree == \A c \in Client : ~Resetting(c)

\* Every step of the engine.
LEMMA StepMaps ==
    EngineInv /\ [Next]_vars => /\ [Graph!Next]_(Graph!vars)
                                /\ ResetFree => [Graph!Onward]_(Graph!vars)
<1> SUFFICES ASSUME EngineInv, [Next]_vars
             PROVE  /\ [Graph!Next]_(Graph!vars)
                    /\ ResetFree => [Graph!Onward]_(Graph!vars)
  OBVIOUS
<1>1. CASE UNCHANGED vars
  BY <1>1, MarksKept, Invisible DEF vars, queues, results
<1>2. CASE PushListener \/ ReadyListener \/ LaunchPad \/ \E w \in Worker : RunWorker(w)
  BY <1>2, PushListenerMaps, ReadyListenerMaps, LaunchPadMaps, WorkerMaps, GraphOnward
<1>3. ASSUME NEW c \in Client, RunClient(c)
      PROVE  /\ [Graph!Next]_(Graph!vars)
             /\ ResetFree => [Graph!Onward]_(Graph!vars)
  BY <1>3, ClientMaps DEF ResetFree
<1> QED
  BY <1>1, <1>2, <1>3 DEF Next

-----------------------------------------------------------------------------
(* The engine is a graph under its callers' rules *)

\* At first the graph is empty and nobody works.
LEMMA EngineStarts == Init => EngineInv /\ Graph!Init
<1> SUFFICES ASSUME Init PROVE EngineInv /\ Graph!Init
  OBVIOUS
<1>1. TypeInv /\ CapacityInv /\ FeedInv /\ PublishInv /\ PipelineInv
  BY InitTyped, RoomAtFirst, NothingUnderWay
<1>2. CallbackInv
  BY DEF Init, CallbackInv, Callback
<1>3. /\ TakenNodes = {} /\ SettledNodes = {} /\ CancelledNodes = {}
  BY NothingHeld DEF Init, TakenNodes, Held, AtEnqueue, AtDispatch, InPool, AtWork, Runs, HasResult,
                     SettledNodes, Settled, CancelledNodes, Doomed, Idle, At
<1>4. Graph!Init
  BY <1>3 DEF Init, GraphInit, Graph!Init, Graph!GraphInit
<1>5. Graph!Inv
  BY <1>4, Graph!InitInv, SameCounts, NodeAssumption, DepsAssumption, AcyclicAssumption,
     MaxGraphSizeAssumption, StrategyAssumption
<1> QED
  BY <1>1, <1>2, <1>4, <1>5 DEF EngineInv

\* And every step keeps all that is known, when no node is pushed twice.
LEMMA EngineInvKept == ASSUME PushedOnce PROVE EngineInv /\ [Next]_vars => EngineInv'
  BY TypesKept, CapacityKept, FeedKept, PublicationInEngine, PipelineKept, CallbacksKept, StepMaps,
     GraphInvKept DEF EngineInv

\* The invariant holds throughout.
LEMMA EngineInvariance == ASSUME PushedOnce PROVE Spec => []EngineInv
  BY EngineStarts, EngineInvKept, PTL DEF Spec

\* Whatever its goroutines' interleaving, the engine uses its graph by the
\* rules GraphProtocol states: it submits each node once and with room for it,
\* finishes only what it has taken, and settles each result once.
THEOREM EngineFollowsProtocol ==
    ASSUME PushedOnce
    PROVE  Spec => Graph!Spec
<1> QED
  BY EngineStarts, StepMaps, EngineInvariance, PTL DEF Spec, Graph!Spec

\* So a node is published only after each of its dependencies has finished
\* the way the strategy asks, and one cancelled with an ancestor never is.
THEOREM EngineOrdersNodes ==
    ASSUME PushedOnce
    PROVE  Spec => [](Graph!DependencyOrder /\ Graph!CancelledNeverRuns)
<1>1. EngineInv => Graph!DependencyOrder /\ Graph!CancelledNeverRuns
  BY DEF EngineInv, Graph!Inv
<1> QED
  BY <1>1, EngineInvariance, PTL

\* A node with a result stays in the graph only while its callback is under
\* way, or if its result was emitted before the launchpad listener had
\* registered a callback: whatever else is removed, cancelled, paused or reset
\* meanwhile, every other one has been removed.
THEOREM OnlyMissedNodesStay ==
    ASSUME PushedOnce
    PROVE  Spec => [](\A n \in nodes :
                          outcome[n] # "none" =>
                              n \in missed \/ \E w \in Worker : Callback(w, n))
<1>1. EngineInv => \A n \in nodes :
                       outcome[n] # "none" => n \in missed \/ \E w \in Worker : Callback(w, n)
  BY DEF EngineInv, Graph!Inv, Graph!Histories, Graph!TypeOK, Graph!GraphTypeOK, SettledNodes,
         Settled, HasResult
<1> QED
  BY <1>1, EngineInvariance, PTL

-----------------------------------------------------------------------------
(* The refinement of TaskOrder *)

\* A node has a copy under way when it is in the channel, or in one of the
\* places after it.
LEMMA CopiesMeanPlaces ==
    ASSUME TypeInv, NEW n \in Node
    PROVE  Copies(n) # {} <=>
              \/ InReady(n) \/ AtEnqueue(n) \/ n \in priorityQueue \/ AtDispatch(n) \/ InPool(n)
              \/ AtWork(n)
<1>0. ListenersOK
  BY Parts
<1>1. ASSUME InReady(n) PROVE Copies(n) # {}
  BY <1>1 DEF Copies, InReady, Holds
<1>2. ASSUME InPool(n) PROVE Copies(n) # {}
  BY <1>2 DEF Copies, InPool, Holds
<1>3. ASSUME n \in priorityQueue PROVE Copies(n) # {}
  BY <1>3 DEF Copies
<1>4. ASSUME AtEnqueue(n) PROVE Copies(n) # {}
  <2>1. readyListener = At("enqueue", n)
    BY <1>0, <1>4 DEF ListenersOK, Points, AtEnqueue, At
  <2> QED
    BY <2>1 DEF Copies
<1>5. ASSUME AtDispatch(n) PROVE Copies(n) # {}
  <2>1. launcher = At("dispatch", n)
    BY <1>0, <1>5 DEF ListenersOK, Points, AtDispatch, At
  <2> QED
    BY <2>1 DEF Copies
<1>6. ASSUME AtWork(n) PROVE Copies(n) # {}
  BY <1>6 DEF Copies, AtWork, Runs
<1>7. ASSUME NEW z \in Copies(n)
      PROVE  \/ InReady(n) \/ AtEnqueue(n) \/ n \in priorityQueue \/ AtDispatch(n) \/ InPool(n)
             \/ AtWork(n)
  BY CopyPlaces DEF InReady, InPool, Holds, AtWork
<1> QED
  BY <1>1, <1>2, <1>3, <1>4, <1>5, <1>6, <1>7

\* A node's stage is the one it has in the protocol.
LEMMA SameStage == ASSUME EngineInv, NEW n \in Node PROVE StageOf(n) = Graph!StageOf(n)
<1>1. outcome[n] \in {"none", "ok", "err"}
  BY Parts DEF EngineInv, RestOK, Outcome
<1>2. ASSUME outcome[n] = "none" PROVE Copies(n) # {} <=> Graph!InPipeline(n)
  BY <1>2, CopiesMeanPlaces
     DEF EngineInv, Graph!InPipeline, InReady, Holds, TakenNodes, Held, HasResult
<1> QED
  BY <1>1, <1>2 DEF StageOf, Graph!StageOf, CancelledNodes

Stages == [n \in Node |-> StageOf(n)]

StagesAgree == Stages = Graph!Stages

\* So the stages are the protocol's.
LEMMA SameStages == EngineInv => StagesAgree
  BY SameStage DEF StagesAgree, Stages, Graph!Stages

\* And TaskOrder says of both the same.
LEMMA SameOrder ==
    ASSUME StagesAgree, StagesAgree', Graph!Order!Next
    PROVE  Order!Next
<1> DEFINE S == [n \in Node |-> StageOf(n)]
           T == [n \in Node |-> Graph!StageOf(n)]
<1>1. S = T /\ S' = T'
  BY DEF StagesAgree, Stages, Graph!Stages
<1> HIDE DEF S, T
<1>2. /\ \A n : Graph!Order!Dependencies(n) = Order!Dependencies(n)
      /\ \A d : Graph!Order!Permits(d) <=> Order!Permits(d)
  BY <1>1 DEF Graph!Order!Dependencies, Order!Dependencies, Graph!Order!Permits, Order!Permits, S, T
<1>3. \A n : /\ Graph!Order!Submit(n) => Order!Submit(n)
             /\ Graph!Order!Finish(n) => Order!Finish(n)
  BY <1>1 DEF Graph!Order!Submit, Order!Submit, Graph!Order!Finish, Order!Finish, S, T
<1>4. \A n : Graph!Order!Release(n) => Order!Release(n)
  BY <1>1, <1>2 DEF Graph!Order!Release, Order!Release, S, T
<1>5. \A C : /\ Graph!Order!Cancel(C) => Order!Cancel(C)
             /\ Graph!Order!Drop(C) => Order!Drop(C)
  BY <1>1, <1>2 DEF Graph!Order!Cancel, Order!Cancel, Graph!Order!Drop, Order!Drop, S, T
<1> QED
  BY <1>3, <1>4, <1>5 DEF Graph!Order!Next, Order!Next

\* Whatever its goroutines' interleaving, and whatever is reset, paused or
\* stopped meanwhile, the engine runs each node at most once, after the
\* dependencies the strategy asks for, and cancels a node only for a
\* dependency that failed or was itself cancelled, and never runs it then.
THEOREM EngineImplementsTaskOrder ==
    ASSUME PushedOnce
    PROVE  Spec => RefinesTaskOrder
<1>1. Init => Order!Init
  BY DEF Init, GraphInit, Order!Init, StageOf
<1>2. EngineInv /\ StagesAgree /\ StagesAgree' /\ [Next]_vars =>
          [Order!Next]_[n \in Node |-> StageOf(n)]
  <2> SUFFICES ASSUME EngineInv, StagesAgree, StagesAgree', [Next]_vars PROVE [Order!Next]_Stages
    BY DEF Stages
  <2>1. [Graph!Order!Next]_(Graph!Stages)
    BY StepMaps, GraphStepRefines DEF EngineInv
  <2> QED
    BY <2>1, SameOrder DEF StagesAgree
<1> QED
  BY <1>1, <1>2, SameStages, EngineInvariance, PTL DEF Spec, RefinesTaskOrder, Order!Spec

-----------------------------------------------------------------------------
(* Signals *)

\* The signals that come to the launcher, and those that Start has yet to send.
Signalling == IF readyListener.pc = "signal" THEN 1 ELSE 0
Launching  == IF launcher.pc \in {"paused", "size", "pop"} THEN 1 ELSE 0
Coming     == launchpad + Signalling + Launching

\* The node a signal is for may have been popped with another's: signals are
\* counted.  Start has counted the queue when it began to send, and what was
\* queued since came with signals of its own.
SignalInv ==
    ~paused => \/ Cardinality(priorityQueue) <= Coming
               \/ \E c \in Client : /\ client[c].pc = "signal"
                                    /\ Cardinality(priorityQueue) <= Coming + client[c].left

\* The goroutines that hold a signal are one or none.
LEMMA InFlight == SignalsInFlight = Signalling + Launching
<1>1. ASSUME NEW l, NEW S
      PROVE  Cardinality({k \in {l} : k.pc \in S}) = IF l.pc \in S THEN 1 ELSE 0
  <2>1. CASE l.pc \in S
    <3>1. {k \in {l} : k.pc \in S} = {l}
      BY <2>1
    <3> QED
      BY <2>1, <3>1, FS_Singleton
  <2>2. CASE l.pc \notin S
    <3>1. {k \in {l} : k.pc \in S} = {}
      BY <2>2
    <3> QED
      BY <2>2, <3>1, FS_EmptySet
  <2> QED
    BY <2>1, <2>2
<1>2. Cardinality({l \in {readyListener} : l.pc = "signal"}) = Signalling
  <2>1. {l \in {readyListener} : l.pc = "signal"} = {l \in {readyListener} : l.pc \in {"signal"}}
    OBVIOUS
  <2> QED
    BY <1>1, <2>1 DEF Signalling
<1>3. Cardinality({l \in {launcher} : l.pc \in {"paused", "size", "pop"}}) = Launching
  BY <1>1 DEF Launching
<1> QED
  BY <1>2, <1>3 DEF SignalsInFlight

\* What the invariant counts are numbers.
LEMMA SignalNumbers ==
    ASSUME TypeInv
    PROVE  /\ Cardinality(priorityQueue) \in Nat /\ launchpad \in Nat /\ launchpad <= PoolSize
           /\ Signalling \in 0 .. 1 /\ Launching \in 0 .. 1 /\ Coming \in Nat
           /\ \A c \in Client : client[c].left \in Nat
           /\ PoolSize \in Nat
<1>1. QueuesOK /\ ClientsOK
  BY Parts
<1>2. Cardinality(priorityQueue) \in Nat /\ PoolSize \in Nat
  BY <1>1, Sizes DEF QueuesOK
<1>3. launchpad \in Nat /\ launchpad <= PoolSize
  BY <1>1, <1>2 DEF QueuesOK
<1> QED
  BY <1>1, <1>2, <1>3 DEF Signalling, Launching, Coming, ClientsOK

\* And so it is after a step.
LEMMA NextNumbers == ASSUME TypeInv' PROVE Cardinality(priorityQueue)' \in Nat /\ Coming' \in Nat
<1>1. priorityQueue' \in SUBSET Node /\ launchpad' \in 0 .. PoolSize
  BY DEF TypeInv, TypeOK
<1>2. launchpad' \in Nat
  BY <1>1, Sizes
<1>3. Cardinality(priorityQueue') \in Nat
  BY <1>1, Sizes
<1>4. PICK k \in Nat : launchpad' = k
  BY <1>2
<1>5. k + (IF readyListener'.pc = "signal" THEN 1 ELSE 0)
         + (IF launcher'.pc \in {"paused", "size", "pop"} THEN 1 ELSE 0) \in Nat
  OBVIOUS
<1>6. Coming' \in Nat
  BY <1>4, <1>5 DEF Coming, Signalling, Launching
<1> QED
  BY <1>3, <1>6

\* A step that leaves Start alone and takes no more signals than nodes.
LEMMA StaysCovered ==
    ASSUME TypeInv, TypeInv', SignalInv, paused => paused',
           Cardinality(priorityQueue)' - Coming' <= Cardinality(priorityQueue) - Coming,
           \A c \in Client : client[c].pc = "signal" => client'[c] = client[c]
    PROVE  SignalInv'
<1>1. /\ Cardinality(priorityQueue) \in Nat /\ Coming \in Nat
      /\ \A c \in Client : client[c].left \in Nat
  BY SignalNumbers
<1>2. Cardinality(priorityQueue)' \in Nat /\ Coming' \in Nat
  BY NextNumbers
<1> HIDE DEF Coming
<1> QED
  BY <1>1, <1>2 DEF SignalInv

\* The listeners take a node with each signal, and add a signal with each node.
LEMMA ListenersSignal ==
    ASSUME TypeInv, TypeInv', SignalInv, PushListener \/ ReadyListener \/ LaunchPad
    PROVE  SignalInv'
<1>0. UNCHANGED <<paused, client>>
  BY DEF PushListener, PushReceive, PushCheck, PushWoken, PushAdd, PushEmit, PushQuit,
         ReadyListener, ReadyReceive, ReadyEnqueue, ReadySignal, ReadyQuit,
         LaunchPad, LaunchReceive, LaunchPaused, LaunchSize, LaunchPop, LaunchPopEmpty,
         LaunchDispatch, LaunchRegister, LaunchCount, LaunchQuit
<1>1. /\ Cardinality(priorityQueue) \in Nat /\ launchpad \in Nat
      /\ IsFiniteSet(priorityQueue)
  <2>1. QueuesOK
    BY Parts
  <2> QED
    BY <2>1, SignalNumbers, Sizes DEF QueuesOK
<1> USE DEF Coming, Signalling, Launching
<1>2. CASE \/ PushListener \/ ReadyReceive \/ ReadyQuit \/ LaunchReceive
           \/ LaunchDispatch \/ LaunchRegister \/ LaunchCount \/ LaunchQuit \/ LaunchPopEmpty
  <2>1. priorityQueue' = priorityQueue /\ Coming' = Coming
    BY <1>1, <1>2 DEF PushListener, PushReceive, PushCheck, PushWoken, PushAdd, PushEmit, PushQuit,
         ReadyReceive, ReadyQuit, LaunchReceive, LaunchDispatch, LaunchRegister, LaunchCount,
         LaunchQuit, LaunchPopEmpty, queues, At, Idle, Exited
  <2> QED
    BY <1>0, <1>1, <2>1, StaysCovered
<1>3. CASE ReadyEnqueue
  <2>1. Cardinality(priorityQueue)' <= Cardinality(priorityQueue) + 1
    BY <1>1, <1>3, FS_AddElement DEF ReadyEnqueue
  <2>2. Coming' = Coming + 1
    BY <1>1, <1>3 DEF ReadyEnqueue, At
  <2>3. Cardinality(priorityQueue)' \in Nat
    BY NextNumbers
  <2> QED
    BY <1>0, <1>1, <2>1, <2>2, <2>3, StaysCovered
<1>4. CASE ReadySignal
  <2>1. priorityQueue' = priorityQueue /\ Coming' = Coming
    BY <1>1, <1>4 DEF ReadySignal, Idle, At
  <2> QED
    BY <1>0, <1>1, <2>1, StaysCovered
<1>5. CASE LaunchPaused
  <2>1. CASE paused
    BY <1>0, <2>1 DEF SignalInv
  <2>2. CASE ~paused
    <3>1. priorityQueue' = priorityQueue /\ Coming' = Coming
      BY <1>1, <1>5, <2>2 DEF LaunchPaused, At, queues
    <3> QED
      BY <1>0, <1>1, <3>1, StaysCovered
  <2> QED
    BY <2>1, <2>2
<1>6. CASE LaunchSize
  <2>1. CASE priorityQueue = {}
    <3>1. Cardinality(priorityQueue)' = 0 /\ Coming' \in Nat
      BY <1>6, <2>1, FS_EmptySet, NextNumbers DEF LaunchSize, queues
    <3> QED
      BY <3>1 DEF SignalInv
  <2>2. CASE priorityQueue # {}
    <3>1. priorityQueue' = priorityQueue /\ Coming' = Coming
      BY <1>1, <1>6, <2>2 DEF LaunchSize, At, queues
    <3> QED
      BY <1>0, <1>1, <3>1, StaysCovered
  <2> QED
    BY <2>1, <2>2
<1>7. CASE LaunchPop
  <2>1. PICK n \in priorityQueue : priorityQueue' = priorityQueue \ {n}
    BY <1>7 DEF LaunchPop, IsNext, Popped
  <2>2. Cardinality(priorityQueue)' = Cardinality(priorityQueue) - 1
    BY <1>1, <2>1, FS_RemoveElement
  <2>3. Coming' = Coming - 1
    BY <1>1, <1>7 DEF LaunchPop, At
  <2> QED
    BY <1>0, <1>1, <2>2, <2>3, StaysCovered
<1> QED
  BY <1>2, <1>3, <1>4, <1>5, <1>6, <1>7 DEF ReadyListener, LaunchPad

\* Start sends a signal for each node that it has found in the queue, and only
\* then is done.
LEMMA StartSignals ==
    ASSUME TypeInv, TypeInv', SignalInv, NEW c \in Client, StartSignal(c), ~LosesSignal
    PROVE  SignalInv'
<1>0. /\ UNCHANGED <<paused, priorityQueue, readyListener, launcher>>
      /\ client[c].pc = "signal"
  BY DEF StartSignal
<1>1. /\ Cardinality(priorityQueue) \in Nat /\ launchpad \in Nat /\ launchpad <= PoolSize
      /\ Signalling \in Nat /\ Launching \in Nat /\ PoolSize \in Nat
      /\ \A d \in Client : client[d].left \in Nat
  BY SignalNumbers
<1>2. Signalling' = Signalling /\ Launching' = Launching
  BY <1>0 DEF Signalling, Launching
<1>3. ClientsOK
  BY Parts
<1> HIDE DEF Signalling, Launching
<1>4. CASE client[c].left = 0
  <2>1. /\ launchpad' = launchpad
        /\ \A d \in Client \ {c} : client'[d] = client[d]
    BY <1>3, <1>4 DEF StartSignal, Return, ClientsOK
  <2> QED
    BY <1>0, <1>1, <1>2, <1>4, <2>1 DEF SignalInv, Coming
<1>5. CASE client[c].left > 0 /\ launchpad < PoolSize
  <2>1. /\ launchpad' = launchpad + 1
        /\ client'[c].pc = "signal" /\ client'[c].left = client[c].left - 1
        /\ \A d \in Client \ {c} : client'[d] = client[d]
    BY <1>1, <1>3, <1>5 DEF StartSignal, ClientsOK
  <2> QED
    BY <1>0, <1>1, <1>2, <2>1 DEF SignalInv, Coming
<1>6. CASE client[c].left > 0 /\ ~(launchpad < PoolSize)
  <2>1. launchpad = PoolSize /\ launchpad' = launchpad
    BY <1>1, <1>6 DEF StartSignal
  <2>2. ~(Cardinality(priorityQueue) > PoolSize)
    BY <1>6, <2>1 DEF LosesSignal
  <2> QED
    BY <1>0, <1>1, <1>2, <2>1, <2>2 DEF SignalInv, Coming
<1> QED
  BY <1>1, <1>4, <1>5, <1>6

\* The clients add no nodes to the queue, and only a Reset takes signals.
LEMMA ClientSignals ==
    ASSUME TypeInv, TypeInv', SignalInv, NEW c \in Client, RunClient(c), ~LosesSignal
    PROVE  SignalInv'
<1>0. /\ UNCHANGED <<readyListener, launcher>>
      /\ Signalling' = Signalling /\ Launching' = Launching
  <2>1. UNCHANGED <<readyListener, launcher>>
    BY DEF RunClient, Push, WaitFor, Start, StartSignal, Pause, GetStats, GetStatsDone, Reset,
           ResetClear, ResetSize, ResetPop, ResetPopEmpty, ResetDrainLaunchpad, ResetDrainPush,
           ResetDone, Stop, StopWorkers, StopDone
  <2> QED
    BY <2>1 DEF Signalling, Launching
<1>1. /\ Cardinality(priorityQueue) \in Nat /\ launchpad \in Nat
      /\ Signalling \in Nat /\ Launching \in Nat /\ Coming \in Nat
      /\ \A d \in Client : client[d].left \in Nat
  BY SignalNumbers
<1>2. ClientsOK /\ QueuesOK
  BY Parts
<1>3. ASSUME client[c].pc # "signal"
      PROVE  \A d \in Client : client[d].pc = "signal" => client'[d] = client[d]
  BY <1>2, <1>3 DEF ClientsOK, RunClient, Push, WaitFor, Start, StartSignal, Pause, GetStats,
       GetStatsDone, Reset, ResetClear, ResetSize, ResetPop, ResetPopEmpty, ResetDrainLaunchpad,
       ResetDrainPush, ResetDone, Stop, StopWorkers, StopDone, Return, Proceed
<1> HIDE DEF Signalling, Launching
<1>4. CASE StartSignal(c)
  BY <1>4, StartSignals
<1>5. CASE Start(c)
  <2>1. CASE paused
    <3>1. /\ client'[c].pc = "signal" /\ client'[c].left = Cardinality(priorityQueue)
          /\ launchpad' = launchpad /\ priorityQueue' = priorityQueue
      BY <1>2, <1>5, <2>1 DEF Start, QueuedAtStart, ClientsOK, queues
    <3> QED
      BY <1>0, <1>1, <3>1 DEF SignalInv, Coming
  <2>2. CASE ~paused
    <3>1. /\ launchpad' = launchpad /\ priorityQueue' = priorityQueue
          /\ client[c].pc # "signal"
      BY <1>5, <2>2 DEF Start, Calls, queues
    <3> QED
      BY <1>0, <1>1, <1>3, <2>2, <3>1, StaysCovered DEF Coming
  <2> QED
    BY <2>1, <2>2
<1>6. CASE Pause(c)
  BY <1>6 DEF Pause, SignalInv
<1>7. CASE ResetDrainLaunchpad(c)
  <2>1. CASE launchpad = 0
    <3>1. /\ paused' = paused /\ launchpad' = launchpad /\ priorityQueue' = priorityQueue
          /\ client[c].pc # "signal"
      BY <1>7, <2>1 DEF ResetDrainLaunchpad
    <3> QED
      BY <1>0, <1>1, <1>3, <3>1, StaysCovered DEF Coming
  <2>2. CASE launchpad # 0
    <3>1. priorityQueue = {}
      BY <1>1, <1>7, <2>2 DEF LosesSignal
    <3>2. Cardinality(priorityQueue)' = 0 /\ Coming' \in Nat
      BY <1>7, <3>1, FS_EmptySet, NextNumbers DEF ResetDrainLaunchpad
    <3> QED
      BY <3>2 DEF SignalInv
  <2> QED
    BY <2>1, <2>2
<1>8. CASE ResetPop(c)
  <2>1. PICK n \in priorityQueue : priorityQueue' = priorityQueue \ {n}
    BY <1>8 DEF ResetPop, IsNext, Popped
  <2>2. Cardinality(priorityQueue)' = Cardinality(priorityQueue) - 1
    BY <1>2, <2>1, Sizes, FS_RemoveElement DEF QueuesOK
  <2>3. paused' = paused /\ launchpad' = launchpad /\ client[c].pc # "signal"
    BY <1>8 DEF ResetPop
  <2> QED
    BY <1>0, <1>1, <1>3, <2>2, <2>3, StaysCovered DEF Coming
<1>9. CASE \/ Push(c) \/ WaitFor(c) \/ GetStats(c) \/ GetStatsDone(c) \/ Reset(c) \/ ResetClear(c)
           \/ ResetSize(c) \/ ResetPopEmpty(c) \/ ResetDrainPush(c) \/ ResetDone(c)
           \/ Stop(c) \/ StopWorkers(c) \/ StopDone(c)
  <2>1. /\ paused' = paused /\ launchpad' = launchpad /\ priorityQueue' = priorityQueue
        /\ client[c].pc # "signal"
    BY <1>9 DEF Push, WaitFor, GetStats, GetStatsDone, Reset, ResetClear, ResetSize, ResetPopEmpty,
                ResetDrainPush, ResetDone, Stop, StopWorkers, StopDone, Calls, queues
  <2> QED
    BY <1>0, <1>1, <1>3, <2>1, StaysCovered DEF Coming
<1> QED
  BY <1>4, <1>5, <1>6, <1>7, <1>8, <1>9 DEF RunClient

\* Every step but those two keeps the queue covered.
LEMMA SignalsKept == TypeInv /\ SignalInv /\ [Next]_vars /\ [~LosesSignal]_vars => SignalInv'
<1> SUFFICES ASSUME TypeInv, SignalInv, [Next]_vars, [~LosesSignal]_vars PROVE SignalInv'
  OBVIOUS
<1>0. TypeInv'
  BY TypesKept
<1>1. CASE PushListener \/ ReadyListener \/ LaunchPad
  BY <1>0, <1>1, ListenersSignal
<1>2. ASSUME NEW w \in Worker, RunWorker(w) PROVE SignalInv'
  <2>1. UNCHANGED <<paused, client, readyListener, launcher, launchpad, priorityQueue>>
    BY <1>2 DEF RunWorker, WorkerTake, WorkerQuit, WorkerRun, WorkerPanic, CallbackCount,
                CallbackRemove, CallbackEmit, CallbackCancel, CallbackNotify, queues
  <2> QED
    BY <2>1 DEF SignalInv, Coming, Signalling, Launching
<1>3. CASE UNCHANGED vars
  BY <1>3 DEF vars, queues, SignalInv, Coming, Signalling, Launching
<1>4. ASSUME NEW c \in Client, RunClient(c), ~LosesSignal PROVE SignalInv'
  BY <1>0, <1>4, ClientSignals
<1> QED
  BY <1>1, <1>2, <1>3, <1>4 DEF Next

\* While the engine is started, every node in the queue has a signal of its
\* own, except after a Start that dropped one or a Reset that took one: those
\* are the only two places where the launchpad loses what it is to launch.
THEOREM SignalsAreCounted == Spec /\ NoSignalLost => []SignalsCoverQueue
<1>1. Init => SignalInv
  BY DEF Init, SignalInv
<1>2. TypeInv /\ SignalInv => SignalsCoverQueue
  <2> SUFFICES ASSUME TypeInv, SignalInv, ~paused PROVE SignalsCoverQueue
    BY DEF SignalsCoverQueue
  <2>1. /\ Cardinality(priorityQueue) \in Nat /\ launchpad \in Nat
        /\ Signalling \in Nat /\ Launching \in Nat
        /\ \A c \in Client : client[c].left \in Nat
    BY SignalNumbers
  <2> HIDE DEF Signalling, Launching
  <2>2. Coming = launchpad + SignalsInFlight
    BY <2>1, InFlight DEF Coming
  <2>3. CASE Cardinality(priorityQueue) <= Coming
    BY <2>2, <2>3 DEF SignalsCoverQueue
  <2>4. CASE ~(Cardinality(priorityQueue) <= Coming)
    <3>1. PICK c \in Client : /\ client[c].pc = "signal"
                              /\ Cardinality(priorityQueue) <= Coming + client[c].left
      BY <2>4 DEF SignalInv
    <3>2. client[c].left > 0
      BY <2>1, <2>4, <3>1 DEF Coming
    <3> QED
      BY <3>1, <3>2 DEF SignalsCoverQueue, StartSignalsLeft
  <2> QED
    BY <2>3, <2>4
<1> QED
  BY <1>1, <1>2, InitTyped, TypesKept, SignalsKept, PTL DEF Spec, NoSignalLost

-----------------------------------------------------------------------------
(* Programs without a Reset *)

\* No client calls Reset, which zeroes the counters.
NoReset == \A c \in Client : \A i \in DOMAIN Program[c] : Program[c][i][1] # "reset"

\* So no client is ever in one.
LEMMA NoResetRuns ==
    ASSUME NoReset, TypeInv, ResetFree, [Next]_vars
    PROVE  ResetFree'
<1>0. ClientsOK
  BY Parts
<1>1. CASE UNCHANGED client
  BY <1>1 DEF ResetFree, Resetting
<1>2. ASSUME NEW c \in Client, RunClient(c) PROVE ResetFree'
  <2>1. ~Reset(c)
    <3>1. Calls(c, "reset") => client[c].call \in DOMAIN Program[c]
      BY <1>0, ProgramAssumption DEF Calls, ClientsOK
    <3> QED
      BY <3>1 DEF Reset, Calls, NoReset
  <2>2. client[c].pc \notin {"clear", "size", "pop", "launchpad", "pushes"}
    BY DEF ResetFree, Resetting
  <2>3. /\ \A d \in Client \ {c} : client'[d] = client[d]
        /\ client'[c].pc \notin {"clear", "size", "pop", "launchpad", "pushes"}
    <3>1. CASE Push(c) \/ WaitFor(c) \/ Start(c) \/ StartSignal(c) \/ Pause(c)
      BY <1>0, <2>2, <3>1 DEF Push, WaitFor, Start, StartSignal, Pause, Return, Returned, ClientsOK
    <3>2. CASE GetStats(c) \/ GetStatsDone(c) \/ Stop(c) \/ StopWorkers(c) \/ StopDone(c)
      BY <1>0, <2>2, <3>2 DEF GetStats, GetStatsDone, Stop, StopWorkers, StopDone, Return, Returned,
                              Proceed, ClientsOK
    <3>3. ~(\/ ResetClear(c) \/ ResetSize(c) \/ ResetPop(c) \/ ResetPopEmpty(c)
            \/ ResetDrainLaunchpad(c) \/ ResetDrainPush(c) \/ ResetDone(c))
      BY <2>2 DEF ResetClear, ResetSize, ResetPop, ResetPopEmpty, ResetDrainLaunchpad,
                  ResetDrainPush, ResetDone
    <3> QED
      BY <1>2, <2>1, <3>1, <3>2, <3>3 DEF RunClient
  <2> QED
    BY <2>3 DEF ResetFree, Resetting
<1>3. CASE \/ PushListener \/ ReadyListener \/ LaunchPad \/ \E w \in Worker : RunWorker(w)
           \/ UNCHANGED vars
  BY <1>1, <1>3, ListenersFrame, WorkerFrame DEF vars
<1> QED
  BY <1>2, <1>3 DEF Next

\* With a worker for every node and without a Reset no signal is lost: one that
\* Start drops found the launchpad with as many signals as there can be nodes.
THEOREM RoomForAllLosesNone ==
    ASSUME NoReset, Cardinality(Node) <= PoolSize
    PROVE  Spec => NoSignalLost
<1>1. Init => ResetFree
  BY DEF Init, ResetFree, Resetting, Idle, At
<1>2. TypeInv /\ ResetFree => ~LosesSignal
  <2> SUFFICES ASSUME TypeInv, ResetFree PROVE ~LosesSignal
    OBVIOUS
  <2>1. priorityQueue \in SUBSET Node
    BY DEF TypeInv, TypeOK
  <2>2. Cardinality(priorityQueue) <= Cardinality(Node)
    BY <2>1, NodeAssumption, FS_Subset
  <2>3. ~(Cardinality(priorityQueue) > PoolSize)
    BY <2>1, <2>2, Sizes
  <2>4. \A c \in Client : ~ResetDrainLaunchpad(c)
    BY DEF ResetFree, Resetting, ResetDrainLaunchpad
  <2> QED
    BY <2>3, <2>4 DEF LosesSignal
<1> QED
  BY <1>1, <1>2, InitTyped, TypesKept, NoResetRuns, PTL DEF Spec, NoSignalLost

-----------------------------------------------------------------------------
(* The graph's mutex *)

\* While nodes are still to be sent, exactly one goroutine holds the mutex,
\* and is about to send them.
MutexInv ==
    /\ pushListener.pc = "emit" => emitting = {pushListener.node}
    /\ pushListener.pc = "emit" => \A w \in Worker : worker[w].pc # "emit"
    /\ \A w \in Worker : worker[w].pc = "emit" => emitting # {}
    /\ \A w, x \in Worker : worker[w].pc = "emit" /\ worker[x].pc = "emit" => w = x
    /\ emitting # {} => pushListener.pc = "emit" \/ \E w \in Worker : worker[w].pc = "emit"

\* A step in which nobody starts or stops sending.
LEMMA MutexUnchanged ==
    ASSUME MutexInv, emitting' = emitting,
           \/ pushListener' = pushListener
           \/ pushListener.pc # "emit" /\ pushListener'.pc # "emit",
           \A w \in Worker : worker'[w].pc = "emit" <=> worker[w].pc = "emit"
    PROVE  MutexInv'
  BY DEF MutexInv

\* Every step hands the mutex on.
LEMMA MutexKept == ASSUME TypeInv, MutexInv, [Next]_vars PROVE MutexInv'
<1>0. WorkersOK /\ ListenersOK
  BY Parts
<1>1. CASE PushListener
  <2>0. worker' = worker
    BY <1>1, ListenersFrame
  <2>1. CASE PushAdd
    <3>1. /\ emitting = {} /\ pushListener.pc = "add"
          /\ emitting' \in {{}, {pushListener.node}}
          /\ pushListener' = IF emitting' = {} THEN Idle ELSE At("emit", pushListener.node)
      BY <2>1 DEF PushAdd, Add, MutexFree
    <3> QED
      BY <2>0, <3>1 DEF MutexInv, Idle, At
  <2>2. CASE PushEmit
    BY <2>0, <2>2 DEF PushEmit, EmitReady, MutexInv, Idle, At
  <2>3. CASE PushReceive \/ PushCheck \/ PushWoken \/ PushQuit
    BY <2>0, <2>3, MutexUnchanged
       DEF PushReceive, PushCheck, PushWoken, PushQuit, graphVars, Idle, Exited, At
  <2> QED
    BY <1>1, <2>1, <2>2, <2>3 DEF PushListener
<1>2. CASE ReadyListener
  BY <1>2, MutexUnchanged
     DEF ReadyListener, ReadyReceive, ReceiveReady, ReadyEnqueue, ReadySignal, ReadyQuit, graphVars
<1>3. CASE LaunchPad
  BY <1>3, MutexUnchanged
     DEF LaunchPad, LaunchReceive, LaunchPaused, LaunchSize, LaunchPop, LaunchPopEmpty,
         LaunchDispatch, LaunchRegister, LaunchCount, LaunchQuit, graphVars
<1>4. ASSUME NEW w \in Worker, RunWorker(w) PROVE MutexInv'
  <2>0. pushListener' = pushListener
    BY <1>4, WorkerFrame
  <2>1. CASE CallbackRemove(w)
    <3>1. /\ emitting = {} /\ worker[w].pc = "remove"
          /\ \A x \in Worker \ {w} : worker'[x] = worker[x]
          /\ \/ worker'[w].pc = "cancel" /\ emitting' = emitting
             \/ worker'[w].pc = IF emitting' = {} THEN "notify" ELSE "emit"
      <4>1. CASE CascadesFrom(worker[w].node)
        BY <1>0, <2>1, <4>1 DEF CallbackRemove, RemoveSubtree, MutexFree, WorkersOK
      <4>2. CASE ~CascadesFrom(worker[w].node)
        BY <1>0, <2>1, <4>2, OneWorker DEF CallbackRemove, Remove, MutexFree
      <4> QED
        BY <4>1, <4>2
    <3> QED
      BY <2>0, <3>1 DEF MutexInv
  <2>2. CASE CallbackEmit(w)
    <3>1. /\ worker[w].pc = "emit"
          /\ \A x \in Worker \ {w} : worker'[x] = worker[x]
          /\ worker'[w].pc = IF emitting' = {} THEN "notify" ELSE "emit"
      BY <1>0, <2>2, OneWorker DEF CallbackEmit
    <3> QED
      BY <2>0, <3>1 DEF MutexInv
  <2>3. CASE WorkerTake(w) \/ WorkerQuit(w) \/ WorkerRun(w) \/ CallbackCount(w) \/ CallbackNotify(w)
    <3>1. /\ worker[w].pc # "emit" /\ worker'[w].pc # "emit"
          /\ \A x \in Worker \ {w} : worker'[x] = worker[x]
      BY <1>0, <2>3, OneWorker DEF WorkerTake, WorkerQuit, WorkerRun, CallbackCount, CallbackNotify
    <3>2. emitting' = emitting
      BY <2>3 DEF WorkerTake, WorkerQuit, WorkerRun, CallbackCount, CallbackNotify, graphVars
    <3> QED
      BY <2>0, <3>1, <3>2, MutexUnchanged
  <2>4. CASE CallbackCancel(w)
    <3>1. \A x \in Worker : worker'[x].pc = worker[x].pc
      BY <1>0, <2>4 DEF CallbackCancel, WorkersOK
    <3> QED
      BY <2>0, <2>4, <3>1, MutexUnchanged DEF CallbackCancel, graphVars
  <2>5. CASE WorkerPanic(w)
    BY <2>0, <2>5, MutexUnchanged DEF WorkerPanic, graphVars
  <2> QED
    BY <1>4, <2>1, <2>2, <2>3, <2>4, <2>5 DEF RunWorker
<1>5. ASSUME NEW c \in Client, RunClient(c) PROVE MutexInv'
  <2>1. UNCHANGED <<pushListener, worker>>
    BY <1>5 DEF RunClient, Push, WaitFor, Start, StartSignal, Pause, GetStats, GetStatsDone, Reset,
                ResetClear, ResetSize, ResetPop, ResetPopEmpty, ResetDrainLaunchpad,
                ResetDrainPush, ResetDone, Stop, StopWorkers, StopDone
  <2>2. emitting' = emitting
    BY <1>5 DEF RunClient, Push, WaitFor, Start, StartSignal, Pause, GetStats, GetStatsDone, Reset,
                ResetClear, Clear, ResetSize, ResetPop, ResetPopEmpty, ResetDrainLaunchpad,
                ResetDrainPush, ResetDone, Stop, StopWorkers, StopDone, graphVars
  <2> QED
    BY <2>1, <2>2, MutexUnchanged
<1>6. CASE UNCHANGED vars
  BY <1>6, MutexUnchanged DEF vars, graphVars
<1> QED
  BY <1>1, <1>2, <1>3, <1>4, <1>5, <1>6 DEF Next

\* Whoever calls what, the nodes that the graph has still to send are sent by
\* the one goroutine that holds its mutex: the push listener, which has one of
\* them, or the worker whose callback freed them.
THEOREM MutexHasOneHolder == Spec => []MutexInv
<1>1. Init => MutexInv
  BY DEF Init, GraphInit, MutexInv, Idle, At
<1> QED
  BY <1>1, InitTyped, TypesKept, MutexKept, PTL DEF Spec

-----------------------------------------------------------------------------
(* Cascades *)

\* No two cascades cancel the same node, nor does one cancel it twice.
DoomedOnce ==
    /\ \A w \in Worker : worker[w].doomed \cap cancelled = {}
    /\ \A w, x \in Worker : w # x => worker[w].doomed \cap worker[x].doomed = {}

\* A cascade takes what is in the graph, and what is doomed or cancelled has
\* left it.
LEMMA DoomedOnceKept == ASSUME EngineInv, DoomedOnce, [Next]_vars PROVE DoomedOnce'
<1>0. WorkersOK
  BY Parts DEF EngineInv
<1>1. ASSUME cancelled' = cancelled, \A w \in Worker : worker'[w].doomed = worker[w].doomed
      PROVE  DoomedOnce'
  BY <1>1 DEF DoomedOnce
<1>2. CASE PushListener \/ ReadyListener \/ LaunchPad
  <2>1. cancelled' = cancelled
    BY <1>2 DEF PushListener, PushReceive, PushCheck, PushWoken, PushAdd, PushEmit, PushQuit,
                ReadyListener, ReadyReceive, ReadyEnqueue, ReadySignal, ReadyQuit,
                LaunchPad, LaunchReceive, LaunchPaused, LaunchSize, LaunchPop, LaunchPopEmpty,
                LaunchDispatch, LaunchRegister, LaunchCount, LaunchQuit, results
  <2> QED
    BY <1>1, <1>2, <2>1, ListenersFrame DEF EngineInv
<1>3. ASSUME NEW w \in Worker, RunWorker(w) PROVE DoomedOnce'
  <2>1. CASE CallbackRemove(w)
    <3>1. /\ cancelled' = cancelled
          /\ \A x \in Worker \ {w} : worker'[x].doomed = worker[x].doomed
          /\ worker'[w].doomed \subseteq nodes
      <4>1. CASE CascadesFrom(worker[w].node)
        <5>1. worker' = [worker EXCEPT ![w].pc = "cancel", ![w].doomed = CancelledWith(worker[w].node)]
          BY <2>1, <4>1 DEF CallbackRemove
        <5>2. CancelledWith(worker[w].node) \subseteq nodes
          BY DEF CancelledWith
        <5> QED
          BY <1>0, <2>1, <5>1, <5>2 DEF CallbackRemove, results, WorkersOK
      <4>2. CASE ~CascadesFrom(worker[w].node)
        <5>1. worker[w].doomed = {}
          BY <2>1 DEF CallbackRemove, EngineInv, CallbackInv
        <5> QED
          BY <1>0, <2>1, <4>2, <5>1, OneWorker DEF CallbackRemove, results
      <4> QED
        BY <4>1, <4>2
    <3>2. CancelledNodes \cap nodes = {}
      BY DEF EngineInv, Graph!Inv
    <3>3. cancelled \cap nodes = {} /\ \A x \in Worker : worker[x].doomed \cap nodes = {}
      BY <3>2 DEF CancelledNodes, Doomed
    <3> QED
      BY <3>1, <3>3 DEF DoomedOnce
  <2>2. CASE CallbackCancel(w)
    <3>1. PICK m \in worker[w].doomed :
              /\ cancelled' = cancelled \cup {m}
              /\ worker' = [worker EXCEPT ![w].doomed = @ \ {m}]
      BY <2>2 DEF CallbackCancel
    <3>2. /\ \A x \in Worker \ {w} : worker'[x] = worker[x]
          /\ worker'[w].doomed = worker[w].doomed \ {m}
      BY <1>0, <3>1 DEF WorkersOK
    <3> QED
      BY <3>1, <3>2 DEF DoomedOnce
  <2>3. CASE \/ WorkerTake(w) \/ WorkerQuit(w) \/ WorkerRun(w) \/ CallbackCount(w)
             \/ CallbackEmit(w) \/ CallbackNotify(w)
    <3>1. \A x \in Worker : worker'[x].doomed = worker[x].doomed
      BY <1>0, <2>3, OneWorker DEF WorkerTake, WorkerQuit, WorkerRun, CallbackCount, CallbackEmit,
                                   CallbackNotify
    <3>2. cancelled' = cancelled
      BY <2>3 DEF WorkerTake, WorkerQuit, WorkerRun, CallbackCount, CallbackEmit, CallbackNotify,
                  results
    <3> QED
      BY <1>1, <3>1, <3>2
  <2>4. CASE WorkerPanic(w)
    BY <1>1, <2>4 DEF WorkerPanic, results
  <2> QED
    BY <1>3, <2>1, <2>2, <2>3, <2>4 DEF RunWorker
<1>4. ASSUME NEW c \in Client, RunClient(c) PROVE DoomedOnce'
  <2>1. UNCHANGED <<worker, cancelled>>
    BY <1>4 DEF RunClient, Push, WaitFor, Start, StartSignal, Pause, GetStats, GetStatsDone, Reset,
                ResetClear, ResetSize, ResetPop, ResetPopEmpty, ResetDrainLaunchpad,
                ResetDrainPush, ResetDone, Stop, StopWorkers, StopDone, results
  <2> QED
    BY <1>1, <2>1
<1>5. CASE UNCHANGED vars
  BY <1>1, <1>5 DEF vars, results
<1> QED
  BY <1>2, <1>3, <1>4, <1>5 DEF Next

-----------------------------------------------------------------------------
(* The counters *)

LaunchedNodes == {n \in Node : InPool(n) \/ AtWork(n) \/ HasResult(n)}

\* Dispatched and not yet counted.
Dispatched == IF launcher.pc \in {"register", "count"} THEN 1 ELSE 0

\* The callback of n's result has not counted it yet.
Counting(n) == \E w \in Worker : worker[w].pc = "count" /\ worker[w].node = n

\* The nodes whose result r has been counted.
Told(r) == {n \in Node : outcome[n] = r /\ n \notin missed /\ ~Counting(n)}

\* The counters are behind by the node that has just been dispatched, by the
\* callbacks about to count, and by the nodes a cascade has yet to announce.
LaunchedCounted == launchedCount + Dispatched = Cardinality(LaunchedNodes)
ResultsCounted ==
    /\ completedCount = Cardinality(Told("ok"))
    /\ failedCount = Cardinality(Told("err")) + Cardinality(cancelled)

\* A set of nodes that grows by one node counts one more.
LEMMA OneMore ==
    ASSUME NEW S \in SUBSET Node, NEW n \in Node, n \notin S
    PROVE  Cardinality(S) \in Nat /\ Cardinality(S \cup {n}) = Cardinality(S) + 1
  BY Sizes, FS_AddElement

\* The launchpad listener counts what it has dispatched.
LEMMA LaunchPadCounts ==
    ASSUME EngineInv, LaunchedCounted, LaunchPad
    PROVE  LaunchedCounted'
<1>0. QueuesOK /\ ListenersOK /\ RestOK
  BY Parts DEF EngineInv
<1>1. \A n : AtWork(n)' = AtWork(n) /\ HasResult(n)' = HasResult(n)
  <2>1. UNCHANGED <<worker, outcome>>
    BY DEF LaunchPad, LaunchReceive, LaunchPaused, LaunchSize, LaunchPop, LaunchPopEmpty,
           LaunchDispatch, LaunchRegister, LaunchCount, LaunchQuit, results
  <2> QED
    BY <2>1, SamePlaces
<1>2. launchedCount \in Nat /\ LaunchedNodes \in SUBSET Node
  BY <1>0 DEF RestOK, LaunchedNodes
<1>3. CASE LaunchDispatch
  <2>1. PICK m \in Node : m = launcher.node
    BY <1>0, <1>3 DEF LaunchDispatch, ListenersOK
  <2>2. /\ AtDispatch(m) /\ pool' = Append(pool, m) /\ pool \in Seq(Node) /\ Distinct(pool)
        /\ launchedCount' = launchedCount /\ Dispatched = 0 /\ Dispatched' = 1
    BY <1>0, <1>3, <2>1
       DEF LaunchDispatch, AtDispatch, At, QueuesOK, EngineInv, PipelineInv, counters, Dispatched
  <2>3. ~InPool(m) /\ ~AtWork(m) /\ ~HasResult(m)
    BY <2>1, <2>2 DEF EngineInv, PipelineInv
  <2>4. \A n : InPool(n)' <=> InPool(n) \/ n = m
    BY <2>2, <2>3, Sent DEF InPool
  <2>5. LaunchedNodes' = LaunchedNodes \cup {m} /\ m \notin LaunchedNodes
    BY <1>1, <2>3, <2>4 DEF LaunchedNodes
  <2>6. Cardinality(LaunchedNodes') = Cardinality(LaunchedNodes) + 1
    BY <1>2, <2>5, OneMore
  <2>7. launchedCount = Cardinality(LaunchedNodes)
    BY <1>2, <2>2 DEF LaunchedCounted
  <2> QED
    BY <2>2, <2>6, <2>7 DEF LaunchedCounted
<1>4. CASE ~LaunchDispatch
  <2>1. pool' = pool
    BY <1>4 DEF LaunchPad, LaunchReceive, LaunchPaused, LaunchSize, LaunchPop, LaunchPopEmpty,
                LaunchRegister, LaunchCount, LaunchQuit, queues
  <2>2. LaunchedNodes' = LaunchedNodes
    BY <1>1, <2>1, SamePlaces DEF LaunchedNodes
  <2>3. CASE LaunchCount
    <3>1. launchedCount' = launchedCount + 1 /\ Dispatched = 1 /\ Dispatched' = 0
      BY <2>3 DEF LaunchCount, Dispatched, Idle, At
    <3>2. launchedCount' \in Nat /\ launchedCount' + 0 = launchedCount'
      BY <1>2, <3>1
    <3> QED
      BY <2>2, <3>1, <3>2 DEF LaunchedCounted
  <2>4. CASE ~LaunchCount
    <3>1. launchedCount' = launchedCount /\ Dispatched' = Dispatched
      BY <1>4, <2>4
         DEF LaunchPad, LaunchReceive, LaunchPaused, LaunchSize, LaunchPop, LaunchPopEmpty,
             LaunchRegister, LaunchQuit, counters, Dispatched, Idle, Exited, At
    <3> QED
      BY <2>2, <3>1 DEF LaunchedCounted
  <2> QED
    BY <2>3, <2>4
<1> QED
  BY <1>3, <1>4

\* A worker moves a launched node on to its result.
LEMMA WorkerLaunched ==
    ASSUME EngineInv, NEW w \in Worker, RunWorker(w)
    PROVE  LaunchedNodes' = LaunchedNodes
<1>0. QueuesOK /\ WorkersOK /\ RestOK
  BY Parts DEF EngineInv
<1>1. CASE WorkerTake(w)
  <2>1. pool # <<>> /\ pool' = Tail(pool) /\ pool \in Seq(Node) /\ Distinct(pool)
    BY <1>0, <1>1 DEF WorkerTake, QueuesOK, EngineInv, PipelineInv
  <2>2. PICK m \in Node : m = Head(pool)
    BY <2>1, Received
  <2>3. InPool(m) /\ \A n : InPool(n)' <=> InPool(n) /\ n # m
    BY <2>1, <2>2, Received DEF InPool
  <2>4. /\ \A x \in Worker \ {w} : worker'[x] = worker[x]
        /\ worker'[w].pc = "run" /\ worker'[w].node = m /\ worker[w].pc = "idle"
    BY <1>0, <1>1, <2>2, OneWorker DEF WorkerTake
  <2>5. \A n : AtWork(n)' <=> AtWork(n) \/ n = m
    BY <2>4 DEF AtWork, Runs
  <2>6. \A n : HasResult(n)' = HasResult(n)
    BY <1>1, SamePlaces DEF WorkerTake, results
  <2> QED
    BY <2>3, <2>5, <2>6 DEF LaunchedNodes
<1>2. CASE WorkerRun(w)
  <2>1. PICK m \in Node : m = worker[w].node
    BY <1>0, <1>2 DEF WorkerRun, WorkersOK
  <2>2. \A n : HasResult(n)' <=> HasResult(n) \/ n = m
    BY <1>0, <1>2, <2>1 DEF WorkerRun, HasResult, RestOK
  <2>3. /\ worker[w].pc = "run" /\ worker'[w].pc # "run"
        /\ \A x \in Worker \ {w} : worker'[x] = worker[x]
    BY <1>0, <1>2, OneWorker DEF WorkerRun
  <2>4. \A n : AtWork(n) <=> AtWork(n)' \/ n = m
    <3>1. \A n : \A x \in Worker : Runs(x, n)' <=> Runs(x, n) /\ x # w
      BY <2>3 DEF Runs
    <3>2. \A n : Runs(w, n) <=> n = m
      BY <2>1, <2>3 DEF Runs
    <3> QED
      BY <3>1, <3>2 DEF AtWork
  <2>5. \A n : InPool(n)' = InPool(n)
    BY <1>2, SamePlaces DEF WorkerRun, queues
  <2> QED
    BY <2>2, <2>4, <2>5 DEF LaunchedNodes
<1>3. CASE ~WorkerTake(w) /\ ~WorkerRun(w)
  <2>1. UNCHANGED <<pool, outcome>>
    BY <1>3 DEF RunWorker, WorkerQuit, WorkerPanic, CallbackCount, CallbackRemove, CallbackEmit,
                CallbackCancel, CallbackNotify, queues, results
  <2>2. \A x \in Worker : \A n : Runs(x, n)' <=> Runs(x, n)
    <3>1. CASE WorkerQuit(w) \/ CallbackCount(w) \/ CallbackEmit(w) \/ CallbackNotify(w)
      <4>1. /\ \A x \in Worker \ {w} : worker'[x] = worker[x]
            /\ worker[w].pc # "run" /\ worker'[w].pc # "run"
        BY <1>0, <3>1, OneWorker DEF WorkerQuit, CallbackCount, CallbackEmit, CallbackNotify
      <4> QED
        BY <4>1 DEF Runs
    <3>2. CASE CallbackRemove(w)
      <4>1. /\ \A x \in Worker \ {w} : worker'[x] = worker[x]
            /\ worker[w].pc # "run" /\ worker'[w].pc # "run"
        BY <1>0, <3>2, OneWorker DEF CallbackRemove, WorkersOK
      <4> QED
        BY <4>1 DEF Runs
    <3>3. CASE CallbackCancel(w)
      BY <1>0, <3>3 DEF CallbackCancel, WorkersOK, Runs
    <3>4. CASE WorkerPanic(w)
      BY <3>4 DEF WorkerPanic, Runs
    <3> QED
      BY <1>3, <3>1, <3>2, <3>3, <3>4 DEF RunWorker
  <2> QED
    BY <2>1, <2>2, SamePlaces DEF LaunchedNodes, AtWork
<1> QED
  BY <1>1, <1>2, <1>3

\* A step that counts nothing, and in which no callback starts or stops
\* counting.
LEMMA NothingTold ==
    ASSUME ResultsCounted, UNCHANGED <<completedCount, failedCount, cancelled, outcome, missed>>,
           \A n \in Node : Counting(n)' <=> Counting(n)
    PROVE  ResultsCounted'
<1>1. \A r : Told(r)' = Told(r)
  BY DEF Told
<1> QED
  BY <1>1 DEF ResultsCounted

\* A result is not told before its callback counts it.
LEMMA WorkerRunCounts ==
    ASSUME EngineInv, ResultsCounted, NEW w \in Worker, WorkerRun(w)
    PROVE  ResultsCounted'
<1>0. WorkersOK /\ RestOK
  BY Parts DEF EngineInv
<1>1. PICK m \in Node : m = worker[w].node
  BY <1>0 DEF WorkerRun, WorkersOK
<1>2. /\ outcome[m] = "none"
      /\ \A n \in Node \ {m} : outcome'[n] = outcome[n]
  <2>1. ~HasResult(m)
    BY <1>1 DEF WorkerRun, AtWork, Runs, EngineInv, PipelineInv
  <2> QED
    BY <1>0, <1>1, <2>1 DEF WorkerRun, HasResult, RestOK
<1>3. /\ \A x \in Worker \ {w} : worker'[x] = worker[x]
      /\ worker[w].pc = "run"
      /\ \/ worker'[w].pc = "count" /\ worker'[w].node = m /\ missed' = missed
         \/ worker'[w].pc = "idle" /\ missed' = missed \cup {m}
  BY <1>0, <1>1, OneWorker DEF WorkerRun
<1>4. \A n \in Node \ {m} : Counting(n)' <=> Counting(n)
  BY <1>3 DEF Counting
<1>5. m \in missed' \/ Counting(m)'
  BY <1>3 DEF Counting
<1>6. \A r \in {"ok", "err"} : Told(r)' = Told(r)
  BY <1>2, <1>3, <1>4, <1>5 DEF Told
<1>7. UNCHANGED <<completedCount, failedCount, cancelled>>
  BY DEF WorkerRun, counters
<1> QED
  BY <1>6, <1>7 DEF ResultsCounted

\* A callback counts its result, which has not been counted before.
LEMMA CallbackCounts ==
    ASSUME EngineInv, ResultsCounted, NEW w \in Worker, CallbackCount(w)
    PROVE  ResultsCounted'
<1>0. WorkersOK /\ RestOK
  BY Parts DEF EngineInv
<1>1. PICK m \in Node : m = worker[w].node
  BY <1>0 DEF CallbackCount, WorkersOK
<1>2. /\ \A x \in Worker \ {w} : worker'[x] = worker[x]
      /\ worker[w].pc = "count" /\ worker'[w].pc = "remove"
      /\ UNCHANGED <<outcome, missed, cancelled>>
  BY <1>0, OneWorker DEF CallbackCount, results
<1>3. HasResult(m) /\ m \notin missed /\ \A x \in Worker : Callback(x, m) => x = w
  BY <1>1, <1>2 DEF Callback, EngineInv, CallbackInv
<1>4. Counting(m) /\ ~Counting(m)'
  BY <1>1, <1>2, <1>3 DEF Counting, Callback
<1>5. \A n \in Node \ {m} : Counting(n)' <=> Counting(n)
  BY <1>1, <1>2 DEF Counting
<1>6. outcome[m] \in {"ok", "err"}
  BY <1>0, <1>3 DEF RestOK, Outcome, HasResult
<1>7. \A r \in {"ok", "err"} :
          /\ r # outcome[m] => Told(r)' = Told(r)
          /\ r = outcome[m] => Told(r)' = Told(r) \cup {m} /\ m \notin Told(r)
  BY <1>2, <1>3, <1>4, <1>5 DEF Told
<1>8. \A r : Told(r) \in SUBSET Node
  BY DEF Told
<1>9. Cardinality(cancelled) \in Nat
  BY <1>0, Sizes DEF RestOK
<1>10. CASE outcome[m] = "ok"
  <2>1. completedCount' = completedCount + 1 /\ failedCount' = failedCount
    BY <1>1, <1>10 DEF CallbackCount
  <2>2. /\ Told("ok")' = Told("ok") \cup {m} /\ m \notin Told("ok")
        /\ Told("err")' = Told("err")
    BY <1>7, <1>10
  <2>3. Cardinality(Told("ok")') = Cardinality(Told("ok")) + 1
    BY <1>8, <2>2, OneMore
  <2> QED
    BY <1>2, <2>1, <2>2, <2>3 DEF ResultsCounted
<1>11. CASE outcome[m] = "err"
  <2>1. completedCount' = completedCount /\ failedCount' = failedCount + 1
    BY <1>1, <1>11 DEF CallbackCount
  <2>2. /\ Told("err")' = Told("err") \cup {m} /\ m \notin Told("err")
        /\ Told("ok")' = Told("ok")
    BY <1>7, <1>11
  <2>3. /\ Cardinality(Told("err")') = Cardinality(Told("err")) + 1
        /\ Cardinality(Told("err")) \in Nat
    BY <1>8, <2>2, OneMore
  <2>4. failedCount' = Cardinality(Told("err")') + Cardinality(cancelled)
    BY <1>9, <2>1, <2>3 DEF ResultsCounted
  <2> QED
    BY <1>2, <2>1, <2>2, <2>4 DEF ResultsCounted
<1> QED
  BY <1>6, <1>10, <1>11

\* A cascade counts each node it cancels, which has not been counted before.
LEMMA CancelCounts ==
    ASSUME EngineInv, DoomedOnce, ResultsCounted, NEW w \in Worker, CallbackCancel(w)
    PROVE  ResultsCounted'
<1>0. WorkersOK /\ RestOK
  BY Parts DEF EngineInv
<1>1. PICK m \in worker[w].doomed :
          /\ cancelled' = cancelled \cup {m}
          /\ worker' = [worker EXCEPT ![w].doomed = @ \ {m}]
  BY DEF CallbackCancel
<1>2. m \in Node /\ m \notin cancelled
  BY <1>0, <1>1 DEF WorkersOK, DoomedOnce
<1>3. \A n : Counting(n)' <=> Counting(n)
  BY <1>0, <1>1 DEF WorkersOK, Counting
<1>4. UNCHANGED <<completedCount, outcome, missed>> /\ failedCount' = failedCount + 1
  BY DEF CallbackCancel
<1>5. \A r : Told(r)' = Told(r)
  BY <1>3, <1>4 DEF Told
<1>6. /\ Cardinality(cancelled') = Cardinality(cancelled) + 1
      /\ Cardinality(cancelled) \in Nat
  BY <1>0, <1>1, <1>2, OneMore DEF RestOK
<1>7. Cardinality(Told("err")) \in Nat
  BY Sizes DEF Told
<1>8. failedCount' = Cardinality(Told("err")) + Cardinality(cancelled')
  BY <1>4, <1>6, <1>7 DEF ResultsCounted
<1> QED
  BY <1>4, <1>5, <1>8 DEF ResultsCounted

CountInv == LaunchedCounted /\ ResultsCounted

\* Every step that does not end a Reset.
LEMMA CountsKept ==
    ASSUME EngineInv, DoomedOnce, ResetFree, CountInv, [Next]_vars
    PROVE  CountInv'
<1>0. WorkersOK
  BY Parts DEF EngineInv
<1>1. ASSUME UNCHANGED <<pool, worker, outcome, launchedCount>>, Dispatched' = Dispatched
      PROVE  LaunchedCounted'
  BY <1>1, SamePlaces DEF LaunchedCounted, LaunchedNodes, CountInv
<1>2. ASSUME UNCHANGED <<worker, completedCount, failedCount, cancelled, outcome, missed>>
      PROVE  ResultsCounted'
  BY <1>2, NothingTold DEF Counting, CountInv
<1>3. CASE PushListener \/ ReadyListener
  <2>1. UNCHANGED <<pool, outcome, cancelled, missed, launchedCount, completedCount, failedCount,
                    launcher>>
    BY <1>3 DEF PushListener, PushReceive, PushCheck, PushWoken, PushAdd, PushEmit, PushQuit,
                ReadyListener, ReadyReceive, ReadyEnqueue, ReadySignal, ReadyQuit,
                queues, counters, results
  <2>2. worker' = worker
    BY <1>3, ListenersFrame DEF EngineInv
  <2> QED
    BY <1>1, <1>2, <2>1, <2>2 DEF CountInv, Dispatched
<1>4. CASE LaunchPad
  <2>1. UNCHANGED <<worker, completedCount, failedCount, cancelled, outcome, missed>>
    BY <1>4 DEF LaunchPad, LaunchReceive, LaunchPaused, LaunchSize, LaunchPop, LaunchPopEmpty,
                LaunchDispatch, LaunchRegister, LaunchCount, LaunchQuit, counters, results
  <2> QED
    BY <1>2, <1>4, <2>1, LaunchPadCounts DEF CountInv
<1>5. ASSUME NEW w \in Worker, RunWorker(w) PROVE CountInv'
  <2>1. UNCHANGED <<launchedCount, launcher>>
    BY <1>5 DEF RunWorker, WorkerTake, WorkerQuit, WorkerRun, WorkerPanic, CallbackCount,
                CallbackRemove, CallbackEmit, CallbackCancel, CallbackNotify, counters
  <2>2. LaunchedCounted'
    BY <1>5, <2>1, WorkerLaunched DEF CountInv, LaunchedCounted, Dispatched
  <2>3. CASE \/ WorkerTake(w) \/ WorkerQuit(w) \/ CallbackEmit(w) \/ CallbackNotify(w)
    <3>1. /\ worker[w].pc # "count" /\ worker'[w].pc # "count"
          /\ \A x \in Worker \ {w} : worker'[x] = worker[x]
      BY <1>0, <2>3, OneWorker DEF WorkerTake, WorkerQuit, CallbackEmit, CallbackNotify
    <3>2. \A n : Counting(n)' <=> Counting(n)
      BY <3>1 DEF Counting
    <3>3. UNCHANGED <<completedCount, failedCount, cancelled, outcome, missed>>
      BY <2>3 DEF WorkerTake, WorkerQuit, CallbackEmit, CallbackNotify, counters, results
    <3> QED
      BY <2>2, <3>2, <3>3, NothingTold DEF CountInv
  <2>4. CASE CallbackRemove(w)
    <3>1. /\ worker[w].pc # "count" /\ worker'[w].pc # "count"
          /\ \A x \in Worker \ {w} : worker'[x] = worker[x]
      BY <1>0, <2>4, OneWorker DEF CallbackRemove, WorkersOK
    <3>2. \A n : Counting(n)' <=> Counting(n)
      BY <3>1 DEF Counting
    <3>3. UNCHANGED <<completedCount, failedCount, cancelled, outcome, missed>>
      BY <2>4 DEF CallbackRemove, counters, results
    <3> QED
      BY <2>2, <3>2, <3>3, NothingTold DEF CountInv
  <2>5. CASE WorkerPanic(w)
    BY <1>2, <2>2, <2>5 DEF WorkerPanic, counters, results, CountInv
  <2> QED
    BY <1>5, <2>2, <2>3, <2>4, <2>5, WorkerRunCounts, CallbackCounts, CancelCounts
       DEF CountInv, RunWorker
<1>6. ASSUME NEW c \in Client, RunClient(c) PROVE CountInv'
  <2>1. ~ResetDone(c)
    BY DEF ResetFree, Resetting, ResetDone
  <2>2. UNCHANGED <<pool, worker, outcome, cancelled, missed, launchedCount, completedCount,
                    failedCount, launcher>>
    BY <1>6, <2>1
       DEF RunClient, Push, WaitFor, Start, StartSignal, Pause, GetStats, GetStatsDone, Reset,
           ResetClear, ResetSize, ResetPop, ResetPopEmpty, ResetDrainLaunchpad,
           ResetDrainPush, Stop, StopWorkers, StopDone, queues, counters, results
  <2> QED
    BY <1>1, <1>2, <2>2 DEF CountInv, Dispatched
<1>7. CASE UNCHANGED vars
  BY <1>1, <1>2, <1>7 DEF vars, queues, counters, results, CountInv, Dispatched
<1> QED
  BY <1>3, <1>4, <1>5, <1>6, <1>7 DEF Next

-----------------------------------------------------------------------------
(* The quiet engine *)

QuietInv == EngineInv /\ Graph!Conserved /\ ResetFree /\ MutexInv /\ DoomedOnce /\ CountInv

\* Nothing has happened yet.
LEMMA QuietStarts == Init => QuietInv
<1> SUFFICES ASSUME Init PROVE QuietInv
  OBVIOUS
<1>1. EngineInv /\ Graph!Init
  BY EngineStarts
<1>2. Graph!Conserved
  BY <1>1, Graph!NothingLostAtFirst, SameCounts, NodeAssumption, DepsAssumption,
     AcyclicAssumption, MaxGraphSizeAssumption, StrategyAssumption
<1>3. ResetFree /\ MutexInv /\ DoomedOnce
  BY DEF Init, GraphInit, ResetFree, Resetting, MutexInv, DoomedOnce, Idle, At
<1>4. LaunchedNodes = {} /\ Told("ok") = {} /\ Told("err") = {} /\ cancelled = {}
  BY NothingHeld
     DEF Init, LaunchedNodes, InPool, AtWork, Runs, HasResult, Told
<1>5. Dispatched = 0 /\ launchedCount = 0 /\ completedCount = 0 /\ failedCount = 0
  BY DEF Init, Dispatched, Idle, At
<1>6. CountInv
  BY <1>4, <1>5, FS_EmptySet DEF CountInv, LaunchedCounted, ResultsCounted
<1> QED
  BY <1>1, <1>2, <1>3, <1>6 DEF QuietInv

LEMMA QuietInvKept == ASSUME PushedOnce, NoReset PROVE QuietInv /\ [Next]_vars => QuietInv'
<1> SUFFICES ASSUME QuietInv, [Next]_vars PROVE QuietInv'
  OBVIOUS
<1>1. EngineInv' /\ TypeInv
  BY EngineInvKept DEF QuietInv, EngineInv
<1>2. Graph!Conserved'
  BY StepMaps, GraphOnward DEF QuietInv, EngineInv
<1>3. ResetFree' /\ MutexInv' /\ DoomedOnce' /\ CountInv'
  BY <1>1, NoResetRuns, MutexKept, DoomedOnceKept, CountsKept DEF QuietInv
<1> QED
  BY <1>1, <1>2, <1>3 DEF QuietInv

\* What the invariant says of an engine in which nobody moves.
LEMMA QuietMeansDone ==
    ASSUME QuietInv, SignalsCoverQueue
    PROVE  QuietEngineIsDone
<1> SUFFICES ASSUME Quiet, Wired, missed = {}
             PROVE  /\ nodes = {} /\ priorityQueue = {}
                    /\ failedCount = Cardinality(Fallen)
                    /\ completedCount = Cardinality({n \in Node : outcome[n] = "ok"})
                    /\ launchedCount = Cardinality({n \in Node : outcome[n] # "none"})
  BY DEF QuietEngineIsDone
<1>0. QueuesOK /\ RestOK
  BY Parts DEF QuietInv, EngineInv
<1>1. /\ pushListener = Idle /\ readyListener = Idle /\ launcher = Idle
      /\ \A w \in Worker : worker[w].pc = "idle"
      /\ readyNodesChan = <<>> /\ pool = <<>> /\ launchpad = 0
      /\ ~paused /\ \A c \in Client : client[c].pc = "idle"
  BY DEF Quiet
<1>2. priorityQueue = {}
  <2>1. Cardinality(priorityQueue) <= launchpad + SignalsInFlight
    BY <1>1 DEF SignalsCoverQueue, StartSignalsLeft
  <2>2. SignalsInFlight = 0
    BY <1>1, InFlight DEF Signalling, Launching, Idle, At
  <2>3. IsFiniteSet(priorityQueue) /\ Cardinality(priorityQueue) \in Nat
    BY <1>0, Sizes DEF QueuesOK
  <2>4. Cardinality(priorityQueue) = 0
    BY <1>1, <2>1, <2>2, <2>3
  <2> QED
    BY <2>3, <2>4, FS_EmptySet
<1>3. \A n : /\ ~AtEnqueue(n) /\ ~AtDispatch(n) /\ ~InPool(n) /\ ~AtWork(n) /\ ~Counting(n)
             /\ \A w \in Worker : ~Callback(w, n)
  BY <1>1, NothingHeld DEF AtEnqueue, AtDispatch, InPool, AtWork, Runs, Counting, Callback, Idle, At
<1>4. TakenNodes \subseteq SettledNodes
  BY <1>2, <1>3 DEF TakenNodes, Held, SettledNodes, Settled
<1>5. emitting = {}
  BY <1>1 DEF QuietInv, MutexInv, Idle, At
<1>6. CancelledNodes = cancelled
  BY <1>1 DEF CancelledNodes, Doomed, QuietInv, EngineInv, CallbackInv
<1>7. Graph!Inv /\ Graph!Conserved
  BY DEF QuietInv, EngineInv
<1>8. Graph!Wired
  BY SameCounts DEF Wired, Graph!Wired, Positions, Graph!Positions
<1>9. nodes = {}
  BY <1>1, <1>4, <1>5, <1>7, <1>8, Graph!QuietGraphIsEmpty, SameCounts, NodeAssumption,
     DepsAssumption, AcyclicAssumption, MaxGraphSizeAssumption, StrategyAssumption
<1>10. /\ Graph!Fallen = Graph!FailedNodes \cup CancelledNodes
       /\ Graph!FailedNodes \cap CancelledNodes = {}
  BY <1>7, <1>9, Graph!QuietGraphHasFallen, SameCounts, NodeAssumption,
     DepsAssumption, AcyclicAssumption, MaxGraphSizeAssumption, StrategyAssumption
<1>11. /\ Fallen = FailedNodes \cup cancelled
       /\ FailedNodes \cap cancelled = {}
  <2>1. Graph!FailedNodes = FailedNodes /\ \A S : Graph!TakesDependents(S) <=> TakesDependents(S)
    BY DEF Graph!FailedNodes, FailedNodes, Graph!TakesDependents, TakesDependents
  <2>2. Graph!Fallen = Fallen
    BY <2>1 DEF Graph!Fallen, Fallen
  <2> QED
    BY <1>6, <1>10, <2>1, <2>2
<1>12. failedCount = Cardinality(Fallen)
  <2>1. Told("err") = FailedNodes
    BY <1>3 DEF Told, FailedNodes
  <2>2. /\ IsFiniteSet(FailedNodes) /\ IsFiniteSet(cancelled)
        /\ Cardinality(FailedNodes) \in Nat /\ Cardinality(cancelled) \in Nat
    BY <1>0, Sizes DEF FailedNodes, RestOK
  <2>3. Cardinality(FailedNodes \cup cancelled) = Cardinality(FailedNodes) + Cardinality(cancelled)
    <3>1. Cardinality(FailedNodes \cup cancelled)
            = Cardinality(FailedNodes) + Cardinality(cancelled) - Cardinality(FailedNodes \cap cancelled)
      BY <2>2, FS_Union
    <3>2. Cardinality(FailedNodes \cap cancelled) = 0
      BY <1>11, FS_EmptySet
    <3> QED
      BY <2>2, <3>1, <3>2
  <2> QED
    BY <1>11, <2>1, <2>3 DEF QuietInv, CountInv, ResultsCounted
<1>13. completedCount = Cardinality({n \in Node : outcome[n] = "ok"})
  <2>1. Told("ok") = {n \in Node : outcome[n] = "ok"}
    BY <1>3 DEF Told
  <2> QED
    BY <2>1 DEF QuietInv, CountInv, ResultsCounted
<1>14. launchedCount = Cardinality({n \in Node : outcome[n] # "none"})
  <2>1. LaunchedNodes = {n \in Node : outcome[n] # "none"}
    BY <1>3 DEF LaunchedNodes, HasResult
  <2>2. launchedCount + 0 = Cardinality(LaunchedNodes)
    BY <1>1 DEF QuietInv, CountInv, LaunchedCounted, Dispatched, Idle, At
  <2> QED
    BY <1>0, <2>1, <2>2 DEF RestOK
<1> QED
  BY <1>2, <1>9, <1>12, <1>13, <1>14

\* A started engine in which nobody has anything left to do has forgotten
\* nobody and counted everybody once, if no signal was lost on the way: for
\* every graph, pool and strategy, and programs that push no node twice and
\* do not reset.
THEOREM QuietIsDone ==
    ASSUME PushedOnce, NoReset
    PROVE  Spec /\ NoSignalLost => []QuietEngineIsDone
<1>1. QuietInv /\ SignalsCoverQueue => QuietEngineIsDone
  BY QuietMeansDone
<1> QED
  BY <1>1, QuietStarts, QuietInvKept, SignalsAreCounted, PTL DEF Spec
=============================================================================
