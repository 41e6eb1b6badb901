------------------------------- MODULE WorkNode -------------------------------
(***************************************************************************)
(* A work node's own state while a worker has it: work_node.go with the    *)
(* worker of worker_pool.go around it.  The work function is that of       *)
(* NewWorkNodeForGroq ("standard"), a user's own one that calls the client *)
(* once, wrapped by wrapWithRetry ("retrying"), or none at all, which is   *)
(* what NewWorkNodeForOpenAI leaves ("missing").                           *)
(***************************************************************************)
EXTENDS GroqClient

CONSTANT NodeConfig    \* the retryConfig of nodes that retry

ASSUME NodeConfigAssumption == NodeConfig \in Config /\ NodeConfig.MaxDelay \in Duration

VARIABLE node    \* each caller's node

NodeKind == {"standard", "retrying", "missing"}
Status   == {"pending", "running", "completed", "failed"}
StatusChanSize == 2

\* The result of a node without a work function is a failure too.
Error(r) == r \in Failure

Node == [pc : {"new", "queued", "run", "calling", "sleep", "emit", "emitted", "done"},
         kind : NodeKind, status : Status, statusChan : Seq(Status),
         attempt : Nat, delay : Duration,
         result : {"none"} \cup Outcome,        \* what the work function has returned
         resultChan : Seq(Outcome)]

NewNode(kind) ==
    [pc |-> "new", kind |-> kind, status |-> "pending", statusChan |-> <<>>,
     attempt |-> 0, delay |-> 0, result |-> "none", resultChan |-> <<>>]

NodeTypeOK ==
    /\ node \in [Caller -> Node]
    /\ \A c \in Caller : Len(node[c].statusChan) <= StatusChanSize
                      /\ Len(node[c].resultChan) <= 1

NodeInit == node = [c \in Caller |-> NewNode("standard")]

\* The node is made and pushed; until a worker takes it, see TurboRun.
PushNode(c, kind) ==
    /\ node[c].pc = "new"
    /\ node' = [node EXCEPT ![c] = [NewNode(kind) EXCEPT !.pc = "queued"]]
    /\ UNCHANGED clientVars

\* (faulty) A status that cannot be sent is not set either.
StatusIfSent(n, status) ==
    IF Len(n.statusChan) < StatusChanSize
    THEN [n EXCEPT !.status = status, !.statusChan = Append(@, status)] ELSE n

\* SetStatus, which drops what a full channel does not take.
SetStatus(n, status) ==
    [n EXCEPT !.status = status,
              !.statusChan = IF Len(@) < StatusChanSize THEN Append(@, status) ELSE @]

Final(r) == IF Error(r) THEN "failed" ELSE "completed"

-----------------------------------------------------------------------------
(* The worker, and the work function it calls *)

\* (faulty) Without a work function there is no result.
WorkerSkips(c) ==
    /\ node[c].pc = "queued"
    /\ node' = [node EXCEPT ![c] =
          IF @.kind = "missing" THEN [@ EXCEPT !.pc = "done"]
                                ELSE [SetStatus(@, "running") EXCEPT !.pc = "run"]]
    /\ UNCHANGED clientVars

\* Without a work function the result is an error, and the status is left.
WorkerTakes(c) ==
    /\ node[c].pc = "queued"
    /\ node' = [node EXCEPT ![c] =
          IF @.kind = "missing" THEN [@ EXCEPT !.pc = "emit", !.result = "lasting"]
                                ELSE [SetStatus(@, "running") EXCEPT !.pc = "run"]]
    /\ UNCHANGED clientVars

\* executeStandardGroqRequest sets the status again, and its call of the
\* client has no context that could be cancelled; nor need a user's have.
Execute(c) ==
    /\ node[c].pc = "run"
    /\ node' = [node EXCEPT ![c] =
          [IF @.kind = "standard" THEN SetStatus(@, "running") ELSE @ EXCEPT !.pc = "calling"]]
    /\ Begin(c, "plain")

\* The errors that a node repeats its work function for.
isRetryable(r) == r = "passing"

\* The loop of wrapWithRetry goes on, ...
ExecuteAgain(c) ==
    LET n == node[c]
        r == call[c].result
    IN  /\ n.pc = "calling" /\ call[c].pc = "done" /\ n.kind = "retrying"
        /\ isRetryable(r) /\ n.attempt < NodeConfig.MaxRetries
        /\ \E d \in calculateDelay(NodeConfig, n.attempt) :
              node' = [node EXCEPT ![c].pc = "sleep", ![c].delay = d, ![c].attempt = @ + 1]
        /\ UNCHANGED clientVars

\* ... after time.Sleep, ...
Slept(c) ==
    /\ node[c].pc = "sleep"
    /\ node' = [node EXCEPT ![c].pc = "run"]
    /\ UNCHANGED clientVars

\* ... or the result is the work function's.
Executed(c) ==
    LET n == node[c]
        r == call[c].result
    IN  /\ n.pc = "calling" /\ call[c].pc = "done"
        /\ n.kind = "retrying" => ~isRetryable(r) \/ n.attempt >= NodeConfig.MaxRetries
        /\ node' = [node EXCEPT ![c] =
              [IF n.kind = "standard" THEN SetStatus(@, Final(r)) ELSE @
                  EXCEPT !.pc = "emit", !.result = r]]
        /\ UNCHANGED clientVars

\* The send to the result channel; its callbacks are in TurboRun.
EmitResult(c) ==
    LET n == node[c]
    IN  /\ n.pc = "emit"
        /\ n.resultChan = <<>>
        /\ node' = [node EXCEPT ![c].pc = IF n.kind = "missing" THEN "done" ELSE "emitted",
                                ![c].resultChan = <<n.result>>]
        /\ UNCHANGED clientVars

SetFinalStatus(c) ==
    /\ node[c].pc = "emitted"
    /\ node' = [node EXCEPT ![c] = [SetStatus(@, Final(@.result)) EXCEPT !.pc = "done"]]
    /\ UNCHANGED clientVars

NodeStep(c) ==
    \/ WorkerTakes(c) \/ Execute(c) \/ ExecuteAgain(c) \/ Slept(c) \/ Executed(c)
    \/ EmitResult(c) \/ SetFinalStatus(c)

ListenForStatus(c) ==
    /\ node[c].statusChan # <<>>
    /\ node' = [node EXCEPT ![c].statusChan = Tail(@)]
    /\ UNCHANGED clientVars
=============================================================================
