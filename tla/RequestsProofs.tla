---------------------------- MODULE RequestsProofs ----------------------------
(***************************************************************************)
(* Proofs about Requests, for every set of callers, tasks, retry           *)
(* configurations, channel sizes and chunks.  Each caller has a call of    *)
(* its own, and a node: a step changes those of one caller.                *)
(***************************************************************************)
EXTENDS Requests, FiniteSetTheorems, TLAPS

-----------------------------------------------------------------------------
(* Durations *)

\* The greatest duration is a natural number: a power of two is the number of
\* subsets of a set, and never zero.
LEMMA MaxDurationIsNatural == MaxDuration \in Nat
<1> DEFINE S == 1 .. Width - 1
<1>1. Width - 1 \in Nat
  BY WidthAssumption
<1>2. IsFiniteSet(S) /\ Cardinality(S) = Width - 1
  BY <1>1, FS_Interval
<1>3. IsFiniteSet(SUBSET S) /\ Cardinality(SUBSET S) = 2 ^ (Width - 1)
  BY <1>2, FS_SUBSET
<1>4. 2 ^ (Width - 1) \in Nat /\ 2 ^ (Width - 1) # 0
  BY <1>3, FS_CardinalityType, FS_EmptySet
<1> QED
  BY <1>4 DEF MaxDuration

\* A delay is a duration, whether or not its computation overflows.
LEMMA DelaysTyped ==
    ASSUME NEW config, config.MaxDelay \in Duration, NEW attempt,
           NEW d \in calculateDelay(config, attempt)
    PROVE  d \in Duration
BY MaxDurationIsNatural DEF calculateDelay, Converted, Capped, Duration

\* No wait is a duration, whatever the width.
LEMMA NoDelayTyped == 0 \in Duration
BY MaxDurationIsNatural DEF Duration

-----------------------------------------------------------------------------
(* The client *)

\* The retried function returns: the call is over, or waits for one more
\* attempt, if any is left.
Over(x, y, r) ==
    /\ y = [x EXCEPT !.pc = "done", !.result = r]
    /\ r # "answer" => x.attempt >= ClientConfig.MaxRetries

Again(x, y, r) ==
    /\ \E d \in calculateDelay(ClientConfig, x.attempt) :
          y = [x EXCEPT !.pc = "wait", !.result = r, !.delay = d, !.attempt = @ + 1]
    /\ r # "answer" /\ x.attempt < ClientConfig.MaxRetries

\* What an attempt may come to: nothing but an answer ends a call early.
Possible(x, r) ==
    /\ r \in Outcome
    /\ r = "doubtful" => x.mode = "plain"
    /\ x.pc = "request" <=> r = "unsent"
    /\ x.pc \in {"request", "sent", "stream"}

\* After an attempt a call is over, or waits for another.
LEMMA ReturnedCases ==
    ASSUME ClientTypeOK, NEW c \in Caller, NEW r, Possible(call[c], r), Returned(c, r)
    PROVE  /\ call' = [call EXCEPT ![c] = call'[c]]
           /\ Over(call[c], call'[c], r) \/ Again(call[c], call'[c], r)
<1>1. call[c] \in Call /\ call \in [Caller -> Call]
  BY DEF ClientTypeOK
<1>2. CASE isRetryableError(r, call[c].mode) /\ call[c].attempt < ClientConfig.MaxRetries
  <2>1. PICK d \in calculateDelay(ClientConfig, call[c].attempt) :
            call' = [call EXCEPT ![c].pc = "wait", ![c].result = r,
                                 ![c].delay = d, ![c].attempt = @ + 1]
    BY <1>2 DEF Returned
  <2>3. r # "answer"
    BY <1>2 DEF isRetryableError, Failure
  <2>4. call'[c] = [call[c] EXCEPT !.pc = "wait", !.result = r, !.delay = d, !.attempt = @ + 1]
    BY <1>1, <2>1
  <2>5. call' = [call EXCEPT ![c] = call'[c]]
    BY <1>1, <2>1, <2>4
  <2> QED
    BY <1>2, <2>1, <2>3, <2>4, <2>5 DEF Again
<1>3. CASE ~(isRetryableError(r, call[c].mode) /\ call[c].attempt < ClientConfig.MaxRetries)
  <2>1. call' = [call EXCEPT ![c].pc = "done", ![c].result = r]
    BY <1>3 DEF Returned
  <2>2. /\ call'[c] = [call[c] EXCEPT !.pc = "done", !.result = r]
        /\ call' = [call EXCEPT ![c] = call'[c]]
    BY <1>1, <2>1
  <2>3. r # "answer" => call[c].attempt >= ClientConfig.MaxRetries
    BY <1>1, <1>3, ClientConfigAssumption DEF isRetryableError, Possible, Outcome, Call, Config
  <2> QED
    BY <2>2, <2>3 DEF Over
<1> QED
  BY <1>2, <1>3

\* All the ways in which an attempt ends come to something possible, and its
\* context's error only when that is done.
LEMMA AttemptEnds ==
    ASSUME NEW c, Respond(c) \/ Unsendable(c) \/ StreamFails(c) \/ StreamEnds(c)
    PROVE  \E r : /\ Possible(call[c], r) /\ Returned(c, r)
                  /\ r = "cancelled" => c \in cancelled
<1>1. CASE Respond(c)
  BY <1>1 DEF Respond, Possible
<1>2. CASE Unsendable(c)
  BY <1>2 DEF Unsendable, Possible, Outcome, Failure
<1>3. CASE StreamFails(c)
  <2>1. PICK r \in Failure \ {"unsent"} :
            /\ call[c].pc \in {"sent", "stream"} /\ Returned(c, r)
            /\ r = "cancelled" => c \in cancelled
    BY <1>3 DEF StreamFails
  <2>2. Possible(call[c], r)
    BY <2>1 DEF Possible, Outcome, Failure
  <2> QED
    BY <2>1, <2>2
<1>4. CASE StreamEnds(c)
  BY <1>4 DEF StreamEnds, Possible, Outcome, Failure
<1> QED
  BY <1>1, <1>2, <1>3, <1>4

\* Either way it keeps its type.
LEMMA CallsTyped ==
    ASSUME NEW x \in Call, NEW y, NEW r \in Outcome, Over(x, y, r) \/ Again(x, y, r)
    PROVE  y \in Call
<1>1. CASE Over(x, y, r)
  BY <1>1 DEF Over, Call
<1>2. CASE Again(x, y, r)
  <2>1. PICK d \in calculateDelay(ClientConfig, x.attempt) :
            y = [x EXCEPT !.pc = "wait", !.result = r, !.delay = d, !.attempt = @ + 1]
    BY <1>2 DEF Again
  <2>2. x.attempt + 1 \in Nat
    BY DEF Call
  <2>3. d \in Duration
    BY DelaysTyped, ClientConfigAssumption
  <2> QED
    BY <2>1, <2>2, <2>3 DEF Call
<1> QED
  BY <1>1, <1>2

\* A request that is about to be sent.
LEMMA ClearedTyped ==
    ASSUME NEW x \in Call
    PROVE  [Cleared(x) EXCEPT !.pc = "sent", !.result = "none", !.lines = <<>>] \in Call
<1>1. NoTools \in [ToolIndex -> Seq(Nat)]
  BY DEF NoTools
<1>2. <<>> \in Seq(Nat) /\ <<>> \in Seq(Chunk)
  OBVIOUS
<1>3. Cleared(x) \in Call
  <2> HIDE DEF NoTools
  <2> QED
    BY <1>1, <1>2 DEF Cleared, Call
<1> QED
  BY <1>2, <1>3 DEF Call

\* A new call.
LEMMA NewCallTyped ==
    ASSUME NEW pc \in {"idle", "request"}, NEW mode \in Mode
    PROVE  NewCall(pc, mode) \in Call
<1>1. NoTools \in [ToolIndex -> Seq(Nat)]
  BY DEF NoTools
<1> QED
  BY <1>1, NoDelayTyped DEF NewCall, Call

\* What the steps of the client's callers do to a call.
LEMMA ClientTyped ==
    ASSUME ClientTypeOK, NEW c \in Caller, ClientStep(c)
    PROVE  ClientTypeOK'
<1>1. call[c] \in Call /\ call \in [Caller -> Call]
  BY DEF ClientTypeOK
<1>2. SUFFICES /\ call' = [call EXCEPT ![c] = call'[c]] /\ call'[c] \in Call
               /\ cancelled' = cancelled
               /\ retryChan' \in Seq(Nat) /\ Len(retryChan') <= RetryChanSize
  BY <1>1 DEF ClientTypeOK
<1>3. retryChan \in Seq(Nat) /\ Len(retryChan) <= RetryChanSize
  BY DEF ClientTypeOK
<1>4. ASSUME NEW r, Possible(call[c], r), Returned(c, r)
      PROVE  call' = [call EXCEPT ![c] = call'[c]] /\ call'[c] \in Call
  BY <1>1, <1>4, ReturnedCases, CallsTyped DEF Possible
<1>5. CASE Waited(c) \/ Abandoned(c)
  <2>1. CASE Waited(c)
    BY <1>1, <1>3, <2>1 DEF Waited, Call
  <2>2. CASE Abandoned(c)
    BY <1>1, <1>3, <2>2 DEF Abandoned, Call, Outcome, Failure
  <2> QED
    BY <1>5, <2>1, <2>2
<1>6. CASE Request(c)
  <2>1. PICK n \in {call[c].late, call[c].late \cup {call[c].attempt}} :
            call' = [call EXCEPT ![c] =
                [[Cleared(call[c]) EXCEPT !.pc = "sent", !.result = "none", !.lines = <<>>]
                    EXCEPT !.late = n]]
    BY <1>6 DEF Request, Cleared
  <2>2. n \subseteq Nat
    BY <1>1 DEF Call
  <2> DEFINE y == [Cleared(call[c]) EXCEPT !.pc = "sent", !.result = "none", !.lines = <<>>]
  <2>3. [y EXCEPT !.late = n] \in Call
    <3>1. y \in Call
      BY <1>1, ClearedTyped
    <3> HIDE DEF y
    <3> QED
      BY <2>2, <3>1 DEF Call
  <2> QED
    BY <1>1, <1>3, <1>6, <2>1, <2>3 DEF Request
<1>7. CASE Respond(c)
  <2>1. PICK r \in Outcome \ {"unsent", "cancelled"} :
            /\ Returned(c, r)
            /\ IF r \in Failure THEN pushToRetryChan(call[c].attempt) ELSE UNCHANGED retryChan
    BY <1>7 DEF Respond
  <2>2. retryChan' \in Seq(Nat) /\ Len(retryChan') <= RetryChanSize
    <3>1. call[c].attempt \in Nat
      BY <1>1 DEF Call
    <3>2. Append(retryChan, call[c].attempt) \in Seq(Nat)
          /\ Len(Append(retryChan, call[c].attempt)) = Len(retryChan) + 1
          /\ Len(retryChan) \in Nat
      BY <1>3, <3>1
    <3>3. \/ retryChan' = retryChan
          \/ retryChan' = Append(retryChan, call[c].attempt) /\ Len(retryChan) < RetryChanSize
      BY <2>1 DEF pushToRetryChan
    <3> QED
      BY <1>3, <3>2, <3>3, RetryChanAssumption
  <2>3. Possible(call[c], r)
    BY <1>7, <2>1 DEF Respond, Possible
  <2> QED
    BY <1>4, <1>7, <2>1, <2>2, <2>3 DEF Respond
<1>8. CASE Unsendable(c) \/ StreamFails(c) \/ StreamEnds(c)
  BY <1>3, <1>4, <1>8, AttemptEnds DEF Unsendable, StreamFails, StreamEnds
<1>9. CASE StreamOpens(c)
  BY <1>1, <1>3, <1>9 DEF StreamOpens, Call
<1>10. CASE ReadChunk(c)
  <2> DEFINE n == Len(call[c].lines) + 1
             x == call[c]
  <2>1. PICK chunk \in Chunk :
            call' = [call EXCEPT ![c] = [x EXCEPT
                !.lines = Append(@, chunk),
                !.content = IF chunk = <<"token">> THEN Append(@, n) ELSE @,
                !.firstToken = IF chunk = <<"token">> /\ @ = 0 THEN x.attempt + 1 ELSE @,
                !.tools = [i \in ToolIndex |-> IF chunk = <<"tool", i>> THEN Append(@[i], n)
                                                                       ELSE @[i]]]]
    BY <1>10 DEF ReadChunk
  <2>2. n \in Nat
    BY <1>1 DEF Call
  <2>3. Append(x.lines, chunk) \in Seq(Chunk)
    BY <1>1 DEF Call
  <2>4. (IF chunk = <<"token">> THEN Append(x.content, n) ELSE x.content) \in Seq(Nat)
    BY <1>1, <2>2 DEF Call
  <2>5. (IF chunk = <<"token">> /\ x.firstToken = 0 THEN x.attempt + 1 ELSE x.firstToken) \in Nat
    BY <1>1 DEF Call
  <2>6. [i \in ToolIndex |-> IF chunk = <<"tool", i>> THEN Append(x.tools[i], n)
                                                     ELSE x.tools[i]] \in [ToolIndex -> Seq(Nat)]
    BY <1>1, <2>2 DEF Call
  <2> HIDE DEF n
  <2>7. call'[c] \in Call /\ call' = [call EXCEPT ![c] = call'[c]]
    BY <1>1, <2>1, <2>3, <2>4, <2>5, <2>6 DEF Call
  <2> QED
    BY <1>3, <1>10, <2>7 DEF ReadChunk
<1> QED
  BY <1>5, <1>6, <1>7, <1>8, <1>9, <1>10 DEF ClientStep

\* How one step changes a call x into y.
Same(x, y) == y.attempt = x.attempt /\ y.delay = x.delay /\ y.mode = x.mode

Wakes(c, x, y) ==
    /\ x.pc = "wait" /\ (c \notin cancelled \/ x.delay <= SelectLag)
    /\ y = [x EXCEPT !.pc = "request"]

GivesUp(c, x, y) ==
    x.pc = "wait" /\ c \in cancelled /\ y = [x EXCEPT !.pc = "done", !.result = "cancelled"]

Sends(c, x, y) ==
    /\ x.pc = "request" /\ y.pc = "sent" /\ Same(x, y) /\ y.result = "none"
    /\ y.late = IF c \in cancelled THEN x.late \cup {x.attempt} ELSE x.late

Reads(x, y) ==
    /\ x.pc \in {"sent", "stream"} /\ y.pc = "stream" /\ Same(x, y)
    /\ y.result = x.result /\ y.late = x.late

Ends(c, x, y) ==
    \E r : /\ Possible(x, r)
           /\ r = "cancelled" => c \in cancelled
           /\ Over(x, y, r) \/ Again(x, y, r)

Moves(c, x, y) ==
    Wakes(c, x, y) \/ GivesUp(c, x, y) \/ Sends(c, x, y) \/ Reads(x, y) \/ Ends(c, x, y)

\* Every step of the client changes one call, in one of these ways.
LEMMA ClientMovesCall ==
    ASSUME ClientTypeOK, NEW c \in Caller, ClientStep(c)
    PROVE  /\ call' = [call EXCEPT ![c] = call'[c]] /\ cancelled' = cancelled
           /\ Moves(c, call[c], call'[c])
<1>1. call[c] \in Call /\ call \in [Caller -> Call]
  BY DEF ClientTypeOK
<1> DEFINE Goal == /\ call' = [call EXCEPT ![c] = call'[c]] /\ cancelled' = cancelled
                   /\ Moves(c, call[c], call'[c])
<1>2. ASSUME NEW r, Possible(call[c], r), Returned(c, r),
             r = "cancelled" => c \in cancelled, cancelled' = cancelled
      PROVE  Goal
  BY <1>2, ReturnedCases DEF Moves, Ends
<1>3. CASE Waited(c)
  BY <1>1, <1>3 DEF Waited, Moves, Wakes, Call
<1>4. CASE Abandoned(c)
  BY <1>1, <1>4 DEF Abandoned, Moves, GivesUp, Call
<1>5. CASE Request(c)
  <2>1. call'[c] = [Cleared(call[c]) EXCEPT !.pc = "sent", !.result = "none", !.lines = <<>>,
                       !.late = IF c \in cancelled THEN @ \cup {call[c].attempt} ELSE @]
    BY <1>1, <1>5 DEF Request
  <2>2. Sends(c, call[c], call'[c])
    BY <1>1, <1>5, <2>1 DEF Request, Cleared, Sends, Same, Call
  <2>3. call' = [call EXCEPT ![c] = call'[c]]
    BY <1>1, <1>5 DEF Request
  <2> QED
    BY <1>5, <2>2, <2>3 DEF Request, Moves
<1>6. CASE Respond(c) \/ Unsendable(c) \/ StreamFails(c) \/ StreamEnds(c)
  <2>1. cancelled' = cancelled
    BY <1>6 DEF Respond, Unsendable, StreamFails, StreamEnds
  <2> QED
    BY <1>2, <1>6, <2>1, AttemptEnds
<1>8. CASE StreamOpens(c)
  BY <1>1, <1>8 DEF StreamOpens, Moves, Reads, Same, Call
<1>9. CASE ReadChunk(c)
  <2> DEFINE n == Len(call[c].lines) + 1
             x == call[c]
  <2>1. PICK chunk \in Chunk :
            call' = [call EXCEPT ![c] = [x EXCEPT
                !.lines = Append(@, chunk),
                !.content = IF chunk = <<"token">> THEN Append(@, n) ELSE @,
                !.firstToken = IF chunk = <<"token">> /\ @ = 0 THEN x.attempt + 1 ELSE @,
                !.tools = [i \in ToolIndex |-> IF chunk = <<"tool", i>> THEN Append(@[i], n)
                                                                       ELSE @[i]]]]
    BY <1>9 DEF ReadChunk
  <2> DEFINE lines   == Append(x.lines, chunk)
             content == IF chunk = <<"token">> THEN Append(x.content, n) ELSE x.content
             first   == IF chunk = <<"token">> /\ x.firstToken = 0 THEN x.attempt + 1
                                                                    ELSE x.firstToken
             tools   == [i \in ToolIndex |-> IF chunk = <<"tool", i>> THEN Append(x.tools[i], n)
                                                                     ELSE x.tools[i]]
  <2>2. call' = [call EXCEPT ![c] = [x EXCEPT !.lines = lines, !.content = content,
                                             !.firstToken = first, !.tools = tools]]
    BY <2>1
  <2> HIDE DEF lines, content, first, tools
  <2>3. Reads(call[c], call'[c]) /\ call' = [call EXCEPT ![c] = call'[c]]
    BY <1>1, <1>9, <2>2 DEF ReadChunk, Reads, Same, Call
  <2> QED
    BY <1>9, <2>3 DEF ReadChunk, Moves
<1> QED
  BY <1>3, <1>4, <1>5, <1>6, <1>8, <1>9 DEF ClientStep

-----------------------------------------------------------------------------
(* The work node *)

\* A call that is over has a result, and so has a node that is to emit one.
ResultsKnown ==
    \A c \in Caller :
        /\ call[c].pc = "done" => call[c].result \in Outcome
        /\ node[c].pc \in {"emit", "emitted", "done"} => node[c].result \in Outcome
        /\ node[c].result = "none" \/ node[c].pc \in {"emit", "emitted", "done"}

\* A status goes to the channel if there is room.
LEMMA SetStatusTyped ==
    ASSUME NEW n \in Node, Len(n.statusChan) <= StatusChanSize, NEW status \in Status
    PROVE  LET m == SetStatus(n, status)
           IN  /\ m \in Node /\ Len(m.statusChan) <= StatusChanSize
               /\ m = [n EXCEPT !.status = status, !.statusChan = m.statusChan]
<1>1. /\ Append(n.statusChan, status) \in Seq(Status)
      /\ Len(Append(n.statusChan, status)) = Len(n.statusChan) + 1
      /\ Len(n.statusChan) \in Nat
  BY DEF Node
<1> DEFINE chan == IF Len(n.statusChan) < StatusChanSize THEN Append(n.statusChan, status)
                                                     ELSE n.statusChan
<1>2. chan \in Seq(Status) /\ Len(chan) <= StatusChanSize
  BY <1>1 DEF Node, StatusChanSize
<1>3. SetStatus(n, status) = [n EXCEPT !.status = status, !.statusChan = chan]
  BY DEF SetStatus
<1> HIDE DEF chan
<1> QED
  BY <1>2, <1>3 DEF Node

\* What a result makes of a node is a status.
LEMMA FinalTyped == ASSUME NEW r PROVE Final(r) \in Status
BY DEF Final, Status

\* How one step changes a node n into m, and whether it begins a call.
Changes(n, m) ==
    /\ m \in Node /\ Len(m.statusChan) <= StatusChanSize /\ Len(m.resultChan) <= 1

\* A step that changes one node as nodes change keeps the types.
LEMMA NodeTypeStep ==
    ASSUME NodeTypeOK, NEW c \in Caller, node' = [node EXCEPT ![c] = node'[c]],
           Changes(node[c], node'[c])
    PROVE  NodeTypeOK'
BY DEF NodeTypeOK, Changes

\* The steps of a worker with a node keep its type.
LEMMA NodeTyped ==
    ASSUME ClientTypeOK, NodeTypeOK, ResultsKnown, NEW c \in Caller, NodeStep(c)
    PROVE  NodeTypeOK' /\ node' = [node EXCEPT ![c] = node'[c]]
<1> DEFINE n == node[c]
<1>1. /\ n \in Node /\ Len(n.statusChan) <= StatusChanSize /\ Len(n.resultChan) <= 1
      /\ node \in [Caller -> Node]
  BY DEF NodeTypeOK
<1>2. SUFFICES node' = [node EXCEPT ![c] = node'[c]] /\ Changes(n, node'[c])
  BY NodeTypeStep
<1>3. CASE WorkerTakes(c)
  <2> DEFINE m == SetStatus(n, "running")
  <2>1. "running" \in Status
    BY DEF Status
  <2>2. /\ m \in Node /\ Len(m.statusChan) <= StatusChanSize
        /\ m = [n EXCEPT !.status = "running", !.statusChan = m.statusChan]
    BY <1>1, <2>1, SetStatusTyped
  <2>3. node' = [node EXCEPT ![c] =
            IF n.kind = "missing" THEN [n EXCEPT !.pc = "emit", !.result = "lasting"]
                                  ELSE [m EXCEPT !.pc = "run"]]
    BY <1>3 DEF WorkerTakes
  <2>4. m.resultChan = n.resultChan
    BY <1>1, <2>2 DEF Node
  <2> HIDE DEF m
  <2> QED
    BY <1>1, <2>2, <2>3, <2>4 DEF Changes, Node, Outcome, Failure
<1>4. CASE Execute(c)
  <2> DEFINE m == SetStatus(n, "running")
  <2>1. "running" \in Status
    BY DEF Status
  <2>2. /\ m \in Node /\ Len(m.statusChan) <= StatusChanSize
        /\ m = [n EXCEPT !.status = "running", !.statusChan = m.statusChan]
    BY <1>1, <2>1, SetStatusTyped
  <2>3. node' = [node EXCEPT ![c] = [IF n.kind = "standard" THEN m ELSE n EXCEPT !.pc = "calling"]]
    BY <1>4 DEF Execute
  <2>4. m.resultChan = n.resultChan
    BY <1>1, <2>2 DEF Node
  <2> HIDE DEF m
  <2> QED
    BY <1>1, <2>2, <2>3, <2>4 DEF Changes, Node
<1>5. CASE ExecuteAgain(c)
  <2>1. PICK d \in calculateDelay(NodeConfig, n.attempt) :
            node' = [node EXCEPT ![c].pc = "sleep", ![c].delay = d, ![c].attempt = @ + 1]
    BY <1>5 DEF ExecuteAgain
  <2>2. d \in Duration /\ n.attempt + 1 \in Nat
    BY <1>1, DelaysTyped, NodeConfigAssumption DEF Node
  <2> QED
    BY <1>1, <2>1, <2>2 DEF Changes, Node
<1>6. CASE Slept(c)
  BY <1>1, <1>6 DEF Slept, Changes, Node
<1>7. CASE Executed(c)
  <2> DEFINE r == call[c].result
             m == SetStatus(n, Final(r))
  <2>1. r \in Outcome
    BY <1>7 DEF Executed, ResultsKnown
  <2>2. /\ m \in Node /\ Len(m.statusChan) <= StatusChanSize
        /\ m = [n EXCEPT !.status = Final(r), !.statusChan = m.statusChan]
    BY <1>1, FinalTyped, SetStatusTyped
  <2>3. node' = [node EXCEPT ![c] =
            [IF n.kind = "standard" THEN m ELSE n EXCEPT !.pc = "emit", !.result = r]]
    BY <1>7 DEF Executed
  <2>4. m.resultChan = n.resultChan
    BY <1>1, <2>2 DEF Node
  <2> HIDE DEF m, r
  <2> QED
    BY <1>1, <2>1, <2>2, <2>3, <2>4 DEF Changes, Node
<1>8. CASE EmitResult(c)
  <2>1. n.result \in Outcome
    BY <1>8 DEF EmitResult, ResultsKnown
  <2> DEFINE emitted == <<n.result>>
  <2>2. emitted \in Seq(Outcome) /\ Len(emitted) <= 1
    BY <2>1
  <2>3. node' = [node EXCEPT ![c].pc = IF n.kind = "missing" THEN "done" ELSE "emitted",
                             ![c].resultChan = emitted]
    BY <1>8 DEF EmitResult
  <2>4. PICK pc \in {"done", "emitted"} :
            node'[c] = [n EXCEPT !.pc = pc, !.resultChan = emitted]
    BY <1>1, <2>3
  <2> HIDE DEF emitted
  <2>5. node'[c] \in Node
    BY <1>1, <2>2, <2>4 DEF Node
  <2>6. node'[c].statusChan = n.statusChan /\ node'[c].resultChan = emitted
    BY <1>1, <2>4 DEF Node
  <2>7. Changes(n, node'[c])
    BY <1>1, <2>2, <2>5, <2>6 DEF Changes
  <2> QED
    BY <1>1, <2>3, <2>7
<1>9. CASE SetFinalStatus(c)
  <2> DEFINE m == SetStatus(n, Final(n.result))
  <2>1. /\ m \in Node /\ Len(m.statusChan) <= StatusChanSize
        /\ m = [n EXCEPT !.status = Final(n.result), !.statusChan = m.statusChan]
    BY <1>1, FinalTyped, SetStatusTyped
  <2>2. node' = [node EXCEPT ![c] = [m EXCEPT !.pc = "done"]]
    BY <1>9 DEF SetFinalStatus
  <2>3. m.resultChan = n.resultChan
    BY <1>1, <2>1 DEF Node
  <2> HIDE DEF m
  <2> QED
    BY <1>1, <2>1, <2>2, <2>3 DEF Changes, Node
<1> QED
  BY <1>3, <1>4, <1>5, <1>6, <1>7, <1>8, <1>9 DEF NodeStep

\* What a step of a worker does to a node n, which becomes m.
Keeps(n, m) ==
    m.kind = n.kind /\ m.attempt = n.attempt /\ m.result = n.result /\ m.resultChan = n.resultChan

Untold(n, m) == m.status = n.status /\ m.statusChan = n.statusChan

Tells(n, m, status) ==
    /\ m.status = status
    /\ m.statusChan = n.statusChan \/ m.statusChan = Append(n.statusChan, status)

Starts(n, m) ==
    /\ n.pc = "queued" /\ n.kind # "missing" /\ m.pc = "run"
    /\ Keeps(n, m) /\ Tells(n, m, "running")

Skips(n, m) ==
    n.pc = "queued" /\ n.kind = "missing" /\ m = [n EXCEPT !.pc = "emit", !.result = "lasting"]

Asks(n, m) ==
    /\ n.pc = "run" /\ m.pc = "calling"
    /\ Keeps(n, m) /\ (Untold(n, m) \/ Tells(n, m, "running"))

Repeats(x, n, m) ==
    /\ n.pc = "calling" /\ x.pc = "done" /\ n.kind = "retrying"
    /\ x.result = "passing" /\ n.attempt < NodeConfig.MaxRetries
    /\ m.pc = "sleep" /\ m.kind = n.kind /\ m.attempt = n.attempt + 1
    /\ m.result = n.result /\ m.resultChan = n.resultChan /\ Untold(n, m)

Resumes(n, m) == n.pc = "sleep" /\ m = [n EXCEPT !.pc = "run"]

Concludes(x, n, m) ==
    /\ n.pc = "calling" /\ x.pc = "done" /\ m.pc = "emit"
    /\ n.kind = "retrying" /\ x.result = "passing" => n.attempt >= NodeConfig.MaxRetries
    /\ m.kind = n.kind /\ m.attempt = n.attempt
    /\ m.result = x.result /\ m.resultChan = n.resultChan
    /\ IF n.kind = "standard" THEN Tells(n, m, Final(x.result)) ELSE Untold(n, m)

Emits(n, m) ==
    /\ n.pc = "emit" /\ m.pc = IF n.kind = "missing" THEN "done" ELSE "emitted"
    /\ m.kind = n.kind /\ m.attempt = n.attempt /\ m.result = n.result
    /\ m.resultChan = <<n.result>> /\ Untold(n, m)

Finishes(n, m) ==
    /\ n.pc = "emitted" /\ m.pc = "done"
    /\ Keeps(n, m) /\ Tells(n, m, Final(n.result))

Works(x, n, m) ==
    \/ Starts(n, m) \/ Skips(n, m) \/ Repeats(x, n, m) \/ Resumes(n, m)
    \/ Concludes(x, n, m) \/ Emits(n, m) \/ Finishes(n, m)

\* A new status is told of, or dropped, without touching the result.
LEMMA SetStatusTells ==
    ASSUME NEW n \in Node, NEW status
    PROVE  LET m == SetStatus(n, status)
           IN  Keeps(n, m) /\ Tells(n, m, status) /\ m.pc = n.pc /\ DOMAIN m = DOMAIN n
BY DEF SetStatus, Keeps, Tells, Node

\* Every step of a worker changes one node, in one of these ways, and begins
\* a call of the client only when it asks.
LEMMA WorkerMovesNode ==
    ASSUME NodeTypeOK, NEW c \in Caller, NodeStep(c)
    PROVE  \/ Works(call[c], node[c], node'[c]) /\ UNCHANGED clientVars
           \/ Asks(node[c], node'[c]) /\ Begin(c, "plain")
<1> DEFINE n == node[c]
<1>1. n \in Node /\ node \in [Caller -> Node] /\ n.attempt \in Nat
  BY DEF NodeTypeOK, Node
<1>2. CASE WorkerTakes(c)
  <2> DEFINE m == SetStatus(n, "running")
  <2>1. Keeps(n, m) /\ Tells(n, m, "running") /\ DOMAIN m = DOMAIN n
    BY <1>1, SetStatusTells
  <2>2. /\ n.pc = "queued"
        /\ node'[c] = IF n.kind = "missing" THEN [n EXCEPT !.pc = "emit", !.result = "lasting"]
                                            ELSE [m EXCEPT !.pc = "run"]
    BY <1>1, <1>2 DEF WorkerTakes
  <2> HIDE DEF m
  <2>3. CASE n.kind = "missing"
    BY <1>2, <2>2, <2>3 DEF WorkerTakes, Works, Skips
  <2>4. CASE n.kind # "missing"
    <3>1. Starts(n, node'[c])
      BY <1>1, <2>1, <2>2, <2>4 DEF Starts, Keeps, Tells, Node
    <3> QED
      BY <1>2, <3>1 DEF WorkerTakes, Works
  <2> QED
    BY <2>3, <2>4
<1>3. CASE Execute(c)
  <2> DEFINE m == SetStatus(n, "running")
  <2>1. Keeps(n, m) /\ Tells(n, m, "running") /\ DOMAIN m = DOMAIN n
    BY <1>1, SetStatusTells
  <2>2. /\ n.pc = "run"
        /\ node'[c] = [IF n.kind = "standard" THEN m ELSE n EXCEPT !.pc = "calling"]
    BY <1>1, <1>3 DEF Execute
  <2> HIDE DEF m
  <2>3. Asks(n, node'[c])
    BY <1>1, <2>1, <2>2 DEF Asks, Keeps, Tells, Untold, Node
  <2> QED
    BY <1>3, <2>3 DEF Execute
<1>4. CASE ExecuteAgain(c)
  <2>1. PICK d : node'[c] = [n EXCEPT !.pc = "sleep", !.delay = d, !.attempt = @ + 1]
    BY <1>1, <1>4 DEF ExecuteAgain
  <2>2. Repeats(call[c], n, node'[c])
    BY <1>1, <1>4, <2>1 DEF ExecuteAgain, isRetryable, Repeats, Untold, Node
  <2> QED
    BY <1>4, <2>2 DEF ExecuteAgain, Works
<1>5. CASE Slept(c)
  BY <1>1, <1>5 DEF Slept, Works, Resumes
<1>6. CASE Executed(c)
  <2> DEFINE r == call[c].result
             m == SetStatus(n, Final(r))
  <2>1. Keeps(n, m) /\ Tells(n, m, Final(r)) /\ DOMAIN m = DOMAIN n
    BY <1>1, SetStatusTells
  <2>2. /\ n.pc = "calling" /\ call[c].pc = "done"
        /\ n.kind = "retrying" /\ r = "passing" => n.attempt >= NodeConfig.MaxRetries
        /\ node'[c] = [IF n.kind = "standard" THEN m ELSE n EXCEPT !.pc = "emit", !.result = r]
    BY <1>1, <1>6 DEF Executed, isRetryable
  <2> HIDE DEF m, r
  <2>3. Concludes(call[c], n, node'[c])
    BY <1>1, <2>1, <2>2 DEF Concludes, Keeps, Tells, Untold, Node, r
  <2> QED
    BY <1>6, <2>3 DEF Executed, Works
<1>7. CASE EmitResult(c)
  <2>1. /\ n.pc = "emit"
        /\ node'[c] = [n EXCEPT !.pc = IF n.kind = "missing" THEN "done" ELSE "emitted",
                                !.resultChan = <<n.result>>]
    BY <1>1, <1>7 DEF EmitResult
  <2>2. Emits(n, node'[c])
    BY <1>1, <2>1 DEF Emits, Untold, Node
  <2> QED
    BY <1>7, <2>2 DEF EmitResult, Works
<1>8. CASE SetFinalStatus(c)
  <2> DEFINE m == SetStatus(n, Final(n.result))
  <2>1. Keeps(n, m) /\ Tells(n, m, Final(n.result)) /\ DOMAIN m = DOMAIN n
    BY <1>1, SetStatusTells
  <2>2. n.pc = "emitted" /\ node'[c] = [m EXCEPT !.pc = "done"]
    BY <1>1, <1>8 DEF SetFinalStatus
  <2> HIDE DEF m
  <2>3. Finishes(n, node'[c])
    BY <1>1, <2>1, <2>2 DEF Finishes, Keeps, Tells, Node
  <2> QED
    BY <1>8, <2>3 DEF SetFinalStatus, Works
<1> QED
  BY <1>2, <1>3, <1>4, <1>5, <1>6, <1>7, <1>8 DEF NodeStep

-----------------------------------------------------------------------------
(* Types *)

\* A map with one more entry.
LEMMA WithTyped ==
    ASSUME NEW S, NEW T, NEW f \in Builder!PartialFunctions(S, T), NEW k \in S, NEW x \in T
    PROVE  /\ Builder!With(f, k, x) \in Builder!PartialFunctions(S, T)
           /\ DOMAIN Builder!With(f, k, x) = DOMAIN f \cup {k}
           /\ Builder!With(f, k, x)[k] = x
           /\ \A j \in DOMAIN f \ {k} : Builder!With(f, k, x)[j] = f[j]
<1>1. PICK D \in SUBSET S : f \in [D -> T]
  BY DEF Builder!PartialFunctions
<1>2. Builder!With(f, k, x) \in [D \cup {k} -> T] /\ D \cup {k} \in SUBSET S
  BY <1>1 DEF Builder!With
<1> QED
  BY <1>1, <1>2 DEF Builder!With, Builder!PartialFunctions

\* A new builder has no tasks and no results.
LEMMA EmptyTyped ==
    ASSUME NEW S, NEW T
    PROVE  Builder!Empty \in Builder!PartialFunctions(S, T) /\ DOMAIN Builder!Empty = {}
<1>1. Builder!Empty \in [{} -> T] /\ {} \in SUBSET S
  BY DEF Builder!Empty
<1> QED
  BY <1>1 DEF Builder!PartialFunctions, Builder!Empty

TypeInv == TypeOK /\ ResultsKnown

\* The parallel builder's part of the types.
LEMMA ParallelTypes ==
    ASSUME TypeOK
    PROVE  /\ tasks \in Builder!PartialFunctions(Caller, Direct \cup NodeKind)
           /\ DOMAIN tasks \subseteq Caller
           /\ \A c \in DOMAIN tasks : tasks[c] \in Direct \cup NodeKind
           /\ running \subseteq DOMAIN tasks
           /\ results \in Builder!PartialFunctions(Caller, Outcome)
           /\ DOMAIN results \subseteq Caller
           /\ builder \in {"adding", "running", "returned"}
<1>1. Builder!BuilderTypeOK
  BY DEF TypeOK
<1>2. PICK D \in SUBSET Caller : tasks \in [D -> Direct \cup NodeKind]
  BY <1>1 DEF Builder!BuilderTypeOK, Builder!PartialFunctions
<1>3. PICK E \in SUBSET Caller : results \in [E -> Outcome]
  BY <1>1 DEF Builder!BuilderTypeOK, Builder!PartialFunctions
<1> QED
  BY <1>1, <1>2, <1>3 DEF Builder!BuilderTypeOK

\* The history variables keep their types whatever the step.
LEMMA RemembersTyped ==
    ASSUME TypeOK, Remember
    PROVE  tries' \in [Caller -> Nat] /\ answered' \subseteq Caller
BY DEF TypeOK, Remember

\* The initial state is typed.
LEMMA InitTypes == Init => TypeInv
<1> SUFFICES ASSUME Init PROVE TypeInv
  OBVIOUS
<1>1. NewCall("idle", "plain") \in Call
  BY NewCallTyped DEF Mode
<1>2. ClientTypeOK
  BY <1>1, RetryChanAssumption DEF Init, ClientInit, ClientTypeOK
<1>3. NewNode("standard") \in Node /\ NewNode("standard").statusChan = <<>>
      /\ NewNode("standard").resultChan = <<>>
  BY NoDelayTyped DEF NewNode, Node, NodeKind, Status
<1>4. NodeTypeOK
  BY <1>3 DEF Init, NodeInit, NodeTypeOK, StatusChanSize
<1>5. Builder!BuilderTypeOK
  BY EmptyTyped DEF Init, Builder!BuilderInit, Builder!BuilderTypeOK
<1>6. ResultsKnown
  BY DEF ResultsKnown, Init, ClientInit, NodeInit, NewCall, NewNode
<1> QED
  BY <1>2, <1>4, <1>5, <1>6 DEF TypeInv, TypeOK, Init

\* A call that is over has a result after every step of the client.
LEMMA MovesKnown ==
    ASSUME NEW c \in Caller, NEW x \in Call, NEW y, Moves(c, x, y)
    PROVE  y.pc = "done" => y.result \in Outcome
BY DEF Moves, Wakes, GivesUp, Sends, Reads, Ends, Possible, Over, Again, Call, Outcome, Failure

\* A node that works for a task knows its result when it emits it.
LEMMA WorksKnown ==
    ASSUME NEW x, NEW n \in Node, NEW m, Works(x, n, m) \/ Asks(n, m),
           x.pc = "done" => x.result \in Outcome,
           n.pc \in {"emit", "emitted", "done"} => n.result \in Outcome,
           n.result = "none" \/ n.pc \in {"emit", "emitted", "done"}
    PROVE  /\ m.pc \in {"emit", "emitted", "done"} => m.result \in Outcome
           /\ m.result = "none" \/ m.pc \in {"emit", "emitted", "done"}
BY DEF Works, Asks, Starts, Skips, Repeats, Resumes, Concludes, Emits, Finishes, Keeps, Node,
       Outcome, Failure

\* A call begins with its first attempt.
LEMMA BeginTyped ==
    ASSUME ClientTypeOK, NEW c \in Caller, NEW mode \in Mode, Begin(c, mode)
    PROVE  /\ ClientTypeOK' /\ call' = [call EXCEPT ![c] = NewCall("request", mode)]
           /\ cancelled' = cancelled
BY NewCallTyped DEF Begin, ClientTypeOK

\* The builder's own steps.
LEMMA BuilderTypes ==
    ASSUME TypeInv,
           RunBuilder \/ BuilderReturns \/ CancelContext \/ (\E c \in Caller : AddTask(c)), Remember
    PROVE  TypeInv'
<1> USE DEF TypeInv
<1>1. UNCHANGED <<call, retryChan, node>> /\ cancelled' \subseteq Caller
  BY DEF RunBuilder, BuilderReturns, CancelContext, AddTask, Cancel, clientVars, TypeOK, ClientTypeOK
<1>2. ClientTypeOK' /\ NodeTypeOK'
  BY <1>1 DEF TypeOK, ClientTypeOK, NodeTypeOK
<1>3. ResultsKnown'
  BY <1>1 DEF ResultsKnown
<1>4. Builder!BuilderTypeOK'
  <2>1. CASE RunBuilder
    BY <2>1 DEF RunBuilder, Builder!Run, Builder!BuilderTypeOK, TypeOK
  <2>2. CASE BuilderReturns
    BY <2>2 DEF BuilderReturns, Builder!Return, Builder!BuilderTypeOK, TypeOK
  <2>3. CASE CancelContext
    BY <2>3 DEF CancelContext, parallelVars, Builder!BuilderTypeOK, TypeOK
  <2>4. ASSUME NEW c \in Caller, AddTask(c) PROVE Builder!BuilderTypeOK'
    <3>1. PICK task \in Added[c] : Builder!Add(c, task)
      BY <2>4 DEF AddTask
    <3>2. task \in Direct \cup NodeKind
      BY AddedAssumption
    <3>3. /\ tasks' \in Builder!PartialFunctions(Caller, Direct \cup NodeKind)
          /\ DOMAIN tasks \subseteq DOMAIN tasks'
      <4>1. tasks' = Builder!With(tasks, c, task)
        BY <3>1 DEF Builder!Add
      <4>2. tasks \in Builder!PartialFunctions(Caller, Direct \cup NodeKind)
        BY ParallelTypes
      <4>3. /\ Builder!With(tasks, c, task)
                 \in Builder!PartialFunctions(Caller, Direct \cup NodeKind)
            /\ DOMAIN Builder!With(tasks, c, task) = DOMAIN tasks \cup {c}
        BY <3>2, <4>2, WithTyped
      <4> QED
        BY <4>1, <4>3
    <3> QED
      BY <3>1, <3>3, ParallelTypes DEF Builder!Add, Builder!BuilderTypeOK
  <2> QED
    BY <2>1, <2>2, <2>3, <2>4
<1> QED
  BY <1>2, <1>3, <1>4, RemembersTyped DEF TypeOK

\* A task starts.
LEMMA StartTypes ==
    ASSUME TypeInv, NEW c \in Caller, StartTask(c), Remember
    PROVE  TypeInv'
<1> USE DEF TypeInv
<1>1. Builder!BuilderTypeOK'
  BY DEF StartTask, parallelVars, Builder!BuilderTypeOK, TypeOK
<1>2. CASE Begin(c, tasks[c]) /\ UNCHANGED node /\ tasks[c] \in Direct
  <2>1. /\ ClientTypeOK' /\ call' = [call EXCEPT ![c] = NewCall("request", tasks[c])]
        /\ node' = node
    BY <1>2, BeginTyped DEF TypeOK, Direct, Mode
  <2>2. NodeTypeOK'
    BY <2>1 DEF TypeOK, NodeTypeOK
  <2>3. ResultsKnown'
    BY <2>1 DEF ResultsKnown, NewCall, TypeOK, ClientTypeOK
  <2> QED
    BY <1>1, <2>1, <2>2, <2>3, RemembersTyped DEF TypeOK
<1>3. CASE PushNode(c, tasks[c]) /\ tasks[c] \in NodeKind
  <2> DEFINE m == [NewNode(tasks[c]) EXCEPT !.pc = "queued"]
  <2>1. /\ m \in Node /\ Len(m.statusChan) <= StatusChanSize /\ Len(m.resultChan) <= 1
        /\ m.pc = "queued" /\ m.result = "none"
    <3> DEFINE empty == <<>>
    <3>1. /\ empty \in Seq(Status) /\ Len(empty) <= StatusChanSize
          /\ empty \in Seq(Outcome) /\ Len(empty) <= 1
      BY DEF StatusChanSize
    <3>2. m = [pc |-> "queued", kind |-> tasks[c], status |-> "pending", statusChan |-> empty,
               attempt |-> 0, delay |-> 0, result |-> "none", resultChan |-> empty]
      BY DEF NewNode
    <3> HIDE DEF empty, m
    <3>3. m \in Node
      BY <1>3, <3>1, <3>2, NoDelayTyped DEF Node, Status
    <3> QED
      BY <3>1, <3>2, <3>3
  <2>2. node' = [node EXCEPT ![c] = m] /\ UNCHANGED clientVars
    BY <1>3 DEF PushNode
  <2> HIDE DEF m
  <2>3. ClientTypeOK' /\ NodeTypeOK'
    BY <2>1, <2>2 DEF TypeOK, ClientTypeOK, NodeTypeOK, clientVars
  <2>4. ResultsKnown'
    BY <2>1, <2>2 DEF ResultsKnown, TypeOK, NodeTypeOK, clientVars
  <2> QED
    BY <1>1, <2>3, <2>4, RemembersTyped DEF TypeOK
<1> QED
  BY <1>2, <1>3 DEF StartTask

\* A task returns.
LEMMA ReturnTypes ==
    ASSUME TypeInv, NEW c \in Caller, TaskReturns(c), Remember
    PROVE  TypeInv'
<1> USE DEF TypeInv
<1>1. node \in [Caller -> Node] /\ node[c] \in Node
  BY DEF TypeOK, NodeTypeOK
<1>2. PICK r \in Outcome : Builder!Record(c, r)
  <2>1. CASE call[c].pc = "done" /\ Builder!Record(c, call[c].result)
    BY <2>1 DEF ResultsKnown
  <2>2. CASE node[c].resultChan # <<>> /\ Builder!Record(c, Head(node[c].resultChan))
    <3>1. node[c].resultChan \in Seq(Outcome)
      BY <1>1 DEF Node
    <3>2. Head(node[c].resultChan) \in Outcome
      BY <2>2, <3>1
    <3> QED
      BY <2>2, <3>2
  <2> QED
    BY <2>1, <2>2 DEF TaskReturns
<1>3. Builder!BuilderTypeOK'
  <2>1. results' \in Builder!PartialFunctions(Caller, Outcome)
    BY <1>2, ParallelTypes, WithTyped DEF Builder!Record
  <2> QED
    BY <1>2, <2>1, ParallelTypes DEF Builder!Record, Builder!BuilderTypeOK
<1>4. UNCHANGED clientVars /\ (node' = node \/ node' = [node EXCEPT ![c].resultChan = <<>>])
  BY DEF TaskReturns
<1>5. ClientTypeOK'
  BY <1>4 DEF TypeOK, ClientTypeOK, clientVars
<1>6. NodeTypeOK' /\ ResultsKnown'
  <2>1. CASE node' = node
    BY <1>4, <2>1 DEF TypeOK, NodeTypeOK, ResultsKnown, clientVars
  <2>2. CASE node' = [node EXCEPT ![c].resultChan = <<>>]
    <3> DEFINE empty == <<>>
               m == [node[c] EXCEPT !.resultChan = empty]
    <3>1. empty \in Seq(Outcome) /\ Len(empty) <= 1
      OBVIOUS
    <3> HIDE DEF empty
    <3>2. m \in Node /\ m.statusChan = node[c].statusChan /\ m.resultChan = empty
          /\ m.pc = node[c].pc /\ m.result = node[c].result
      BY <1>1, <3>1 DEF Node
    <3>3. node' = [node EXCEPT ![c] = m]
      BY <1>1, <2>2 DEF empty
    <3> HIDE DEF m
    <3>4. NodeTypeOK'
      BY <3>1, <3>2, <3>3 DEF TypeOK, NodeTypeOK
    <3>5. ResultsKnown'
      BY <1>1, <1>4, <3>2, <3>3 DEF ResultsKnown, clientVars
    <3> QED
      BY <3>4, <3>5
  <2> QED
    BY <1>4, <2>1, <2>2
<1> QED
  BY <1>3, <1>5, <1>6, RemembersTyped DEF TypeOK

\* The client, the workers and the listener of the status.
LEMMA MoveTypes ==
    ASSUME TypeInv, NEW c \in Caller, ClientMoves(c) \/ NodeMoves(c) \/ ListenerHears(c), Remember
    PROVE  TypeInv'
<1> USE DEF TypeInv
<1>1. Builder!BuilderTypeOK'
  BY DEF ClientMoves, NodeMoves, ListenerHears, parallelVars, Builder!BuilderTypeOK, TypeOK
<1>2. /\ node \in [Caller -> Node] /\ node[c] \in Node
      /\ call \in [Caller -> Call] /\ call[c] \in Call
  BY DEF TypeOK, NodeTypeOK, ClientTypeOK
<1>3. CASE ClientMoves(c)
  <2>1. ClientTypeOK' /\ call' = [call EXCEPT ![c] = call'[c]] /\ Moves(c, call[c], call'[c])
    BY <1>3, ClientTyped, ClientMovesCall DEF ClientMoves, TypeOK
  <2>2. node' = node
    BY <1>3 DEF ClientMoves
  <2>3. NodeTypeOK'
    BY <2>2 DEF TypeOK, NodeTypeOK
  <2>4. call'[c].pc = "done" => call'[c].result \in Outcome
    BY <1>2, <2>1, MovesKnown
  <2>5. ResultsKnown'
    BY <1>2, <2>1, <2>2, <2>4 DEF ResultsKnown
  <2> QED
    BY <1>1, <2>1, <2>3, <2>5, RemembersTyped DEF TypeOK
<1>4. CASE NodeMoves(c)
  <2>1. NodeTypeOK' /\ node' = [node EXCEPT ![c] = node'[c]]
    BY <1>4, NodeTyped DEF NodeMoves, TypeOK
  <2>2. \/ Works(call[c], node[c], node'[c]) /\ UNCHANGED clientVars
        \/ Asks(node[c], node'[c]) /\ Begin(c, "plain")
    BY <1>4, WorkerMovesNode DEF NodeMoves, TypeOK
  <2>3. /\ node'[c].pc \in {"emit", "emitted", "done"} => node'[c].result \in Outcome
        /\ node'[c].result = "none" \/ node'[c].pc \in {"emit", "emitted", "done"}
    <3>1. /\ call[c].pc = "done" => call[c].result \in Outcome
          /\ node[c].pc \in {"emit", "emitted", "done"} => node[c].result \in Outcome
          /\ node[c].result = "none" \/ node[c].pc \in {"emit", "emitted", "done"}
      BY DEF ResultsKnown
    <3> QED
      BY <1>2, <2>2, <3>1, WorksKnown
  <2>4. ClientTypeOK' /\ (call' = call \/ call' = [call EXCEPT ![c] = NewCall("request", "plain")])
    <3>1. CASE UNCHANGED clientVars
      BY <3>1 DEF clientVars, TypeOK, ClientTypeOK
    <3>2. CASE Begin(c, "plain")
      BY <3>2, BeginTyped DEF TypeOK, Mode
    <3> QED
      BY <2>2, <3>1, <3>2
  <2>5. ResultsKnown'
    BY <1>2, <2>1, <2>3, <2>4 DEF ResultsKnown, NewCall
  <2> QED
    BY <1>1, <2>1, <2>4, <2>5, RemembersTyped DEF TypeOK
<1>5. CASE ListenerHears(c)
  <2> DEFINE rest == Tail(node[c].statusChan)
             m == [node[c] EXCEPT !.statusChan = rest]
  <2>1. /\ node[c].statusChan # <<>> /\ node' = [node EXCEPT ![c].statusChan = rest]
        /\ UNCHANGED clientVars
    BY <1>5 DEF ListenerHears, ListenForStatus
  <2>2. rest \in Seq(Status) /\ Len(rest) <= StatusChanSize
    <3>1. node[c].statusChan \in Seq(Status) /\ Len(node[c].statusChan) <= StatusChanSize
      BY <1>2 DEF Node, TypeOK, NodeTypeOK
    <3> QED
      BY <2>1, <3>1 DEF StatusChanSize
  <2> HIDE DEF rest
  <2>3. /\ m \in Node /\ m.statusChan = rest /\ m.resultChan = node[c].resultChan
        /\ m.pc = node[c].pc /\ m.result = node[c].result
    BY <1>2, <2>2 DEF Node
  <2>4. node' = [node EXCEPT ![c] = m]
    BY <1>2, <2>1
  <2> HIDE DEF m
  <2>5. NodeTypeOK'
    BY <2>2, <2>3, <2>4 DEF TypeOK, NodeTypeOK
  <2>6. ClientTypeOK' /\ ResultsKnown'
    BY <1>2, <2>1, <2>3, <2>4 DEF ResultsKnown, clientVars, TypeOK, ClientTypeOK
  <2> QED
    BY <1>1, <2>5, <2>6, RemembersTyped DEF TypeOK
<1> QED
  BY <1>3, <1>4, <1>5

\* Every step of the composition keeps the types.
LEMMA NextTypes == TypeInv /\ [Next]_vars => TypeInv'
<1> SUFFICES ASSUME TypeInv, [Next]_vars PROVE TypeInv'
  OBVIOUS
<1>1. CASE Next
  BY <1>1, BuilderTypes, StartTypes, ReturnTypes, MoveTypes DEF Next, Step
<1>2. CASE UNCHANGED vars
  BY <1>2 DEF vars, clientVars, parallelVars, TypeInv, TypeOK, ClientTypeOK, NodeTypeOK,
              Builder!BuilderTypeOK, ResultsKnown
<1> QED
  BY <1>1, <1>2

\* Calls, nodes, channels and the builder's maps keep their types; a duration
\* stays one even when its computation overflows, and no full channel is sent to.
THEOREM RequestTypes == Spec => []TypeOK
<1>1. TypeInv => TypeOK
  BY DEF TypeInv
<1> QED
  BY <1>1, InitTypes, NextTypes, PTL DEF Spec

-----------------------------------------------------------------------------
(* Cancellation *)

\* The cap and the backoff of a long wait are longer than the lag, and so is
\* the wait, as the backoff does not overflow.
LEMMA LongDelays ==
    ASSUME NEW attempt \in Nat, LongWait(attempt + 1),
           NEW d \in calculateDelay(ClientConfig, attempt)
    PROVE  SelectLag < d
<1> DEFINE backoff == ClientConfig.BaseDelay * ClientConfig.BackoffMultiple ^ attempt
<1>1. attempt + 1 - 1 = attempt
  OBVIOUS
<1>2. SelectLag < ClientConfig.MaxDelay /\ SelectLag < backoff /\ backoff <= MaxDuration
  BY <1>1 DEF LongWait
<1>3. /\ ClientConfig.BaseDelay \in Nat /\ ClientConfig.BackoffMultiple \in Nat \ {0}
      /\ ClientConfig.MaxDelay \in Nat /\ SelectLag \in Nat /\ MaxDuration \in Nat
  BY ClientConfigAssumption, SelectLagAssumption, MaxDurationIsNatural DEF Config
<1>4. ClientConfig.BackoffMultiple ^ attempt \in Int
  BY <1>3
<1>5. backoff \in Int
  BY <1>3, <1>4
<1> HIDE DEF backoff
<1>6. backoff \in Duration
  BY <1>2, <1>3, <1>5 DEF Duration
<1>7. d = Capped(backoff, ClientConfig.MaxDelay)
  BY <1>6 DEF calculateDelay, Converted, backoff
<1> QED
  BY <1>2, <1>3, <1>5, <1>7 DEF Capped

\* The wait that a call is in, or has come from, is the one before its attempt.
\* Before its context is cancelled nothing of it is late; a call that has sent
\* something late waits again, but only a wait that is not long lets it go on.
LateOne(c, x) ==
    /\ x.attempt <= ClientConfig.MaxRetries
    /\ c \notin cancelled => x.late = {}
    /\ x.late \subseteq 0 .. x.attempt
    /\ x.pc \in {"request", "wait"} => x.attempt \notin x.late
    /\ x.pc = "wait" \/ (x.pc = "request" /\ x.attempt > 0) =>
          x.attempt > 0 /\ x.delay \in calculateDelay(ClientConfig, x.attempt - 1)
    /\ x.pc = "request" /\ x.late # {} => x.attempt > 0 /\ x.delay <= SelectLag
    /\ \A early, late \in x.late : early < late => ~LongWait(late)

LateInv == \A c \in Caller : LateOne(c, call[c])

\* A step leaves the calls alone, begins one, or moves one.
LEMMA CallSteps ==
    ASSUME TypeInv, Step
    PROVE  \/ call' = call /\ cancelled \subseteq cancelled'
           \/ \E c \in Caller : /\ \E mode : call' = [call EXCEPT ![c] = NewCall("request", mode)]
                                /\ cancelled' = cancelled
           \/ \E c \in Caller : /\ call' = [call EXCEPT ![c] = call'[c]]
                                /\ cancelled' = cancelled
                                /\ ClientStep(c) /\ Moves(c, call[c], call'[c])
<1>1. CASE RunBuilder \/ BuilderReturns \/ CancelContext \/ (\E c \in Caller : AddTask(c))
  BY <1>1 DEF RunBuilder, BuilderReturns, CancelContext, AddTask, Cancel, clientVars
<1>2. ASSUME NEW c \in Caller, StartTask(c)
      PROVE  \/ call' = call /\ cancelled \subseteq cancelled'
             \/ /\ \E mode : call' = [call EXCEPT ![c] = NewCall("request", mode)]
                /\ cancelled' = cancelled
  BY <1>2 DEF StartTask, Begin, PushNode, clientVars
<1>3. ASSUME NEW c \in Caller, TaskReturns(c) \/ ListenerHears(c)
      PROVE  call' = call /\ cancelled \subseteq cancelled'
  BY <1>3 DEF TaskReturns, ListenerHears, ListenForStatus, clientVars
<1>4. ASSUME NEW c \in Caller, ClientMoves(c)
      PROVE  /\ call' = [call EXCEPT ![c] = call'[c]] /\ cancelled' = cancelled
             /\ ClientStep(c) /\ Moves(c, call[c], call'[c])
  BY <1>4, ClientMovesCall DEF ClientMoves, TypeInv, TypeOK
<1>5. ASSUME NEW c \in Caller, NodeMoves(c)
      PROVE  \/ call' = call /\ cancelled \subseteq cancelled'
             \/ /\ \E mode : call' = [call EXCEPT ![c] = NewCall("request", mode)]
                /\ cancelled' = cancelled
  <2>1. UNCHANGED clientVars \/ Begin(c, "plain")
    BY <1>5, WorkerMovesNode DEF NodeMoves, TypeInv, TypeOK
  <2> QED
    BY <2>1 DEF clientVars, Begin
<1> QED
  BY <1>1, <1>2, <1>3, <1>4, <1>5 DEF Step

\* One move of a call keeps it so.
LEMMA MovesLate ==
    ASSUME NEW c \in Caller, NEW x \in Call, NEW y, Moves(c, x, y), LateOne(c, x)
    PROVE  LateOne(c, y)
<1>0. /\ x.attempt \in Nat /\ x.late \subseteq Nat /\ ClientConfig.MaxRetries \in Nat
      /\ x.delay \in Int /\ SelectLag \in Nat
  BY ClientConfigAssumption, SelectLagAssumption, MaxDurationIsNatural DEF Call, Config, Duration
<1>1. CASE Wakes(c, x, y)
  <2>1. /\ y.attempt = x.attempt /\ y.late = x.late /\ y.delay = x.delay
        /\ x.pc = "wait" /\ y.pc = "request"
    BY <1>1 DEF Wakes, Call
  <2>2. x.late # {} => x.delay <= SelectLag
    BY <1>1 DEF Wakes, LateOne
  <2> QED
    BY <2>1, <2>2 DEF LateOne
<1>2. CASE GivesUp(c, x, y)
  <2>1. y.attempt = x.attempt /\ y.late = x.late /\ y.pc = "done"
    BY <1>2 DEF GivesUp, Call
  <2> QED
    BY <2>1 DEF LateOne
<1>3. CASE Sends(c, x, y)
  <2>1. /\ y.attempt = x.attempt /\ y.pc = "sent" /\ x.pc = "request"
        /\ y.late = IF c \in cancelled THEN x.late \cup {x.attempt} ELSE x.late
    BY <1>3 DEF Sends, Same
  <2>2. x.late \subseteq 0 .. x.attempt /\ x.attempt \notin x.late
    BY <2>1 DEF LateOne
  <2>3. ASSUME NEW early \in x.late PROVE ~LongWait(x.attempt)
    <3>1. /\ x.attempt > 0 /\ x.delay <= SelectLag
          /\ x.delay \in calculateDelay(ClientConfig, x.attempt - 1)
      BY <2>1, <2>3 DEF LateOne
    <3>2. x.attempt - 1 \in Nat /\ x.attempt - 1 + 1 = x.attempt
      BY <1>0, <3>1
    <3>3. LongWait(x.attempt) => SelectLag < x.delay
      BY <3>1, <3>2, LongDelays
    <3> QED
      BY <1>0, <3>1, <3>3
  <2>4. ASSUME NEW early \in y.late, NEW late \in y.late, early < late PROVE ~LongWait(late)
    <3>1. CASE early \in x.late /\ late \in x.late
      BY <2>4, <3>1 DEF LateOne
    <3>2. CASE late = x.attempt
      <4>1. early \in x.late
        BY <1>0, <2>1, <2>4, <3>2
      <4> QED
        BY <2>3, <3>2, <4>1
    <3>3. CASE early = x.attempt /\ late \in x.late
      BY <1>0, <2>2, <2>4, <3>3
    <3> QED
      BY <2>1, <2>4, <3>1, <3>2, <3>3
  <2>5. y.late \subseteq 0 .. y.attempt
    BY <1>0, <2>1, <2>2
  <2>6. c \notin cancelled => y.late = {}
    BY <2>1 DEF LateOne
  <2> QED
    BY <2>1, <2>4, <2>5, <2>6 DEF LateOne
<1>4. CASE Reads(x, y)
  <2>1. y.attempt = x.attempt /\ y.late = x.late /\ y.pc = "stream"
    BY <1>4 DEF Reads, Same
  <2> QED
    BY <2>1 DEF LateOne
<1>5. CASE Ends(c, x, y)
  <2>1. PICK r : Over(x, y, r) \/ Again(x, y, r)
    BY <1>5 DEF Ends
  <2>2. CASE Over(x, y, r)
    <3>1. y.attempt = x.attempt /\ y.late = x.late /\ y.pc = "done"
      BY <2>2 DEF Over, Call
    <3> QED
      BY <3>1 DEF LateOne
  <2>3. CASE Again(x, y, r)
    <3>1. PICK d \in calculateDelay(ClientConfig, x.attempt) :
              y = [x EXCEPT !.pc = "wait", !.result = r, !.delay = d, !.attempt = @ + 1]
      BY <2>3 DEF Again
    <3>2. y.late = x.late /\ y.pc = "wait" /\ y.attempt = x.attempt + 1 /\ y.delay = d
      BY <3>1 DEF Call
    <3>3. /\ y.attempt <= ClientConfig.MaxRetries /\ y.attempt > 0
          /\ y.attempt - 1 = x.attempt
      BY <1>0, <2>3, <3>2 DEF Again
    <3>4. y.late \subseteq 0 .. y.attempt /\ y.attempt \notin y.late
      BY <1>0, <3>2 DEF LateOne
    <3> QED
      BY <3>1, <3>2, <3>3, <3>4 DEF LateOne
  <2> QED
    BY <2>1, <2>2, <2>3
<1> QED
  BY <1>1, <1>2, <1>3, <1>4, <1>5 DEF Moves

\* A new call has sent nothing.
LEMMA NewLate == \A c, pc, mode : LateOne(c, NewCall(pc, mode)) \/ pc = "wait"
<1>1. ClientConfig.MaxRetries \in Nat
  BY ClientConfigAssumption DEF Config
<1> QED
  BY <1>1 DEF LateOne, NewCall

\* Every step keeps the late attempts.
LEMMA NextLate == TypeInv /\ LateInv /\ [Next]_vars => LateInv'
<1> SUFFICES ASSUME TypeInv, LateInv, [Next]_vars PROVE LateInv'
  OBVIOUS
<1>0. call \in [Caller -> Call]
  BY DEF TypeInv, TypeOK, ClientTypeOK
<1>1. CASE call' = call /\ cancelled \subseteq cancelled'
  BY <1>1 DEF LateInv, LateOne
<1>2. ASSUME NEW c \in Caller, NEW mode, call' = [call EXCEPT ![c] = NewCall("request", mode)],
             cancelled' = cancelled
      PROVE  LateInv'
  <2>1. LateOne(c, NewCall("request", mode))
    BY NewLate
  <2>2. \A d \in Caller : call'[d] = IF d = c THEN NewCall("request", mode) ELSE call[d]
    BY <1>0, <1>2
  <2>3. \A d \in Caller : LateOne(d, call'[d])
    BY <2>1, <2>2 DEF LateInv
  <2> QED
    BY <1>2, <2>3 DEF LateInv, LateOne
<1>3. ASSUME NEW c \in Caller, call' = [call EXCEPT ![c] = call'[c]],
             cancelled' = cancelled, Moves(c, call[c], call'[c])
      PROVE  LateInv'
  <2>1. call[c] \in Call
    BY <1>0
  <2>2. LateOne(c, call'[c])
    BY <1>3, <2>1, MovesLate DEF LateInv
  <2>3. \A d \in Caller \ {c} : call'[d] = call[d]
    BY <1>0, <1>3
  <2>4. \A d \in Caller : LateOne(d, call'[d])
    BY <2>2, <2>3 DEF LateInv
  <2> QED
    BY <1>3, <2>4 DEF LateInv, LateOne
<1>4. CASE Step
  BY <1>1, <1>2, <1>3, <1>4, CallSteps
<1> QED
  BY <1>1, <1>4 DEF Next, vars, clientVars

\* No call has sent anything at first.
LEMMA InitLate == Init => LateInv
  BY NewLate DEF Init, ClientInit, LateInv

\* Once the context of a call is cancelled, Execute sends one more request at
\* most, whatever it is about, and others only after waits that end before
\* the cancellation can be seen: for every configuration, overflows included.
THEOREM CancellationStops == Spec => []CancelledCallsStop
<1>1. LateInv => CancelledCallsStop
  BY DEF LateInv, LateOne, CancelledCallsStop
<1> QED
  BY <1>1, InitTypes, NextTypes, InitLate, NextLate, PTL DEF Spec

\* So it is one at most if the configuration makes it wait, as the default one
\* does, before each attempt: no retry that it has is without its wait.
THEOREM CancelledOnce ==
    ASSUME \A attempt \in 1 .. ClientConfig.MaxRetries : LongWait(attempt)
    PROVE  Spec => [](\A c \in Caller : \A early, late \in call[c].late : early = late)
<1>1. LateInv /\ TypeInv => \A c \in Caller : \A early, late \in call[c].late : early = late
  <2> SUFFICES ASSUME LateInv, TypeInv, NEW c \in Caller,
                      NEW early \in call[c].late, NEW late \in call[c].late
               PROVE  early = late
    OBVIOUS
  <2>1. /\ call[c].attempt \in Nat /\ ClientConfig.MaxRetries \in Nat
        /\ early \in Nat /\ late \in Nat
    BY ClientConfigAssumption DEF TypeInv, TypeOK, ClientTypeOK, Call, Config
  <2>2. /\ early <= ClientConfig.MaxRetries /\ late <= ClientConfig.MaxRetries
    BY <2>1 DEF LateInv, LateOne
  <2>3. /\ early < late => ~LongWait(late)
        /\ late < early => ~LongWait(early)
    BY DEF LateInv, LateOne
  <2> QED
    BY <2>1, <2>2, <2>3
<1> QED
  BY <1>1, InitTypes, NextTypes, InitLate, NextLate, PTL DEF Spec

-----------------------------------------------------------------------------
(* Answers of streams *)

\* The chunks of an attempt that are of one kind, by their positions.
At(lines, chunk) == {n \in DOMAIN lines : lines[n] = chunk}

\* While it reads a stream, and when it returns its answer, a call knows when
\* the attempt it is in brought the first token.
Timed(x) ==
    x.pc \in {"sent", "stream"} \/ (x.pc = "done" /\ x.result = "answer") =>
        x.firstToken = IF x.content = <<>> THEN 0 ELSE x.attempt + 1

\* What a call has gathered is what the chunks of one attempt carried, whatever
\* the call does next: nothing in it outlives the attempt.
Gathered(x) ==
    /\ InOrder(x.content, At(x.lines, <<"token">>))
    /\ \A i \in ToolIndex : InOrder(x.tools[i], At(x.lines, <<"tool", i>>))
    /\ Timed(x)

\* Nothing goes through no positions.
LEMMA NothingInOrder == InOrder(<<>>, {})
BY DEF InOrder, Range

\* What comes later goes to the end.
LEMMA LaterInOrder ==
    ASSUME NEW s \in Seq(Nat), NEW S, InOrder(s, S), NEW n \in Nat, \A m \in S : m < n
    PROVE  InOrder(Append(s, n), S \cup {n})
<1> DEFINE t == Append(s, n)
<1>1. DOMAIN s = 1 .. Len(s) /\ Len(s) \in Nat /\ DOMAIN t = 1 .. Len(s) + 1
  OBVIOUS
<1>2. t[Len(s) + 1] = n /\ \A i \in 1 .. Len(s) : t[i] = s[i] /\ s[i] \in Nat
  OBVIOUS
<1>3. S = {s[i] : i \in 1 .. Len(s)} /\ \A i, j \in 1 .. Len(s) : i < j => s[i] < s[j]
  BY <1>1 DEF InOrder, Range
<1> HIDE DEF t
<1>4. Range(t) = S \cup {n}
  <2>1. Range(t) = {t[i] : i \in 1 .. Len(s) + 1}
    BY <1>1 DEF Range
  <2>2. ASSUME NEW m \in Range(t) PROVE m \in S \cup {n}
    <3>1. PICK i \in 1 .. Len(s) + 1 : m = t[i]
      BY <2>1, <2>2
    <3>2. i \in 1 .. Len(s) \/ i = Len(s) + 1
      BY <1>1, <3>1
    <3> QED
      BY <1>2, <1>3, <3>1, <3>2
  <2>3. ASSUME NEW m \in S PROVE m \in Range(t)
    <3>1. PICK i \in 1 .. Len(s) : m = s[i]
      BY <1>3, <2>3
    <3>2. i \in 1 .. Len(s) + 1
      BY <1>1, <3>1
    <3> QED
      BY <1>2, <2>1, <3>1, <3>2
  <2>4. n \in Range(t)
    <3>1. Len(s) + 1 \in 1 .. Len(s) + 1
      BY <1>1
    <3> QED
      BY <1>2, <2>1, <3>1
  <2> QED
    BY <2>2, <2>3, <2>4
<1>5. ASSUME NEW i \in DOMAIN t, NEW j \in DOMAIN t, i < j
      PROVE  t[i] < t[j]
  BY <1>1, <1>2, <1>3, <1>5
<1> QED
  BY <1>4, <1>5 DEF InOrder, t

\* Reading a chunk adds its position to those of its kind, after all others.
LEMMA ChunkInOrder ==
    ASSUME NEW lines \in Seq(Chunk), NEW chunk \in Chunk, NEW kind,
           NEW s \in Seq(Nat), InOrder(s, At(lines, kind)),
           NEW n, n = Len(lines) + 1
    PROVE  InOrder(IF kind = chunk THEN Append(s, n) ELSE s, At(Append(lines, chunk), kind))
<1> DEFINE more == Append(lines, chunk)
<1>1. /\ DOMAIN lines = 1 .. Len(lines) /\ Len(lines) \in Nat
      /\ DOMAIN more = 1 .. Len(lines) + 1
      /\ more[Len(lines) + 1] = chunk
      /\ \A i \in 1 .. Len(lines) : more[i] = lines[i]
  OBVIOUS
<1> HIDE DEF more
<1>2. CASE kind = chunk
  <2>1. At(more, kind) = At(lines, kind) \cup {n}
    BY <1>1, <1>2 DEF At
  <2>2. n \in Nat /\ \A m \in At(lines, kind) : m < n
    BY <1>1 DEF At
  <2>3. InOrder(Append(s, n), At(lines, kind) \cup {n})
    BY <2>2, LaterInOrder
  <2> QED
    BY <1>2, <2>1, <2>3 DEF more
<1>3. CASE kind # chunk
  <2>1. At(more, kind) = At(lines, kind)
    BY <1>1, <1>3 DEF At
  <2> QED
    BY <1>3, <2>1 DEF more
<1> QED
  BY <1>2, <1>3

\* Reading a chunk gathers what it carries, and nothing else.
LEMMA ReadGathers ==
    ASSUME TypeInv, NEW c \in Caller, ReadChunk(c), Gathered(call[c])
    PROVE  Gathered(call'[c])
<1> DEFINE x == call[c]
           y == call'[c]
           n == Len(x.lines) + 1
<1>1. x \in Call /\ call \in [Caller -> Call]
  BY DEF TypeInv, TypeOK, ClientTypeOK
<1>2. PICK chunk \in Chunk :
          call' = [call EXCEPT ![c] = [x EXCEPT
              !.lines = Append(@, chunk),
              !.content = IF chunk = <<"token">> THEN Append(@, n) ELSE @,
              !.firstToken = IF chunk = <<"token">> /\ @ = 0 THEN x.attempt + 1 ELSE @,
              !.tools = [i \in ToolIndex |-> IF chunk = <<"tool", i>> THEN Append(@[i], n)
                                                                     ELSE @[i]]]]
  BY DEF ReadChunk
<1> DEFINE lines   == Append(x.lines, chunk)
           content == IF chunk = <<"token">> THEN Append(x.content, n) ELSE x.content
           first   == IF chunk = <<"token">> /\ x.firstToken = 0 THEN x.attempt + 1
                                                                  ELSE x.firstToken
           tools   == [i \in ToolIndex |-> IF chunk = <<"tool", i>> THEN Append(x.tools[i], n)
                                                                   ELSE x.tools[i]]
<1>3. call' = [call EXCEPT ![c] = [x EXCEPT !.lines = lines, !.content = content,
                                           !.firstToken = first, !.tools = tools]]
  BY <1>2
<1>4. /\ y.lines = lines /\ y.content = content /\ y.firstToken = first /\ y.tools = tools
      /\ y.pc = "stream" /\ y.attempt = x.attempt
  <2> HIDE DEF lines, content, first, tools
  <2> QED
    BY <1>1, <1>3 DEF ReadChunk, Call
<1> HIDE DEF x, y
<1>5. InOrder(y.content, At(y.lines, <<"token">>))
  <2>1. x.lines \in Seq(Chunk) /\ x.content \in Seq(Nat) /\ chunk \in Chunk
    BY <1>1, <1>2 DEF Call
  <2>2. InOrder(x.content, At(x.lines, <<"token">>))
    BY DEF Gathered, x
  <2>3. /\ y.content = IF <<"token">> = chunk THEN Append(x.content, n) ELSE x.content
        /\ y.lines = Append(x.lines, chunk) /\ n = Len(x.lines) + 1
    BY <1>4
  <2> HIDE DEF n
  <2> QED
    BY <2>1, <2>2, <2>3, ChunkInOrder
<1>6. ASSUME NEW i \in ToolIndex
      PROVE  InOrder(y.tools[i], At(y.lines, <<"tool", i>>))
  <2>1. x.lines \in Seq(Chunk) /\ x.tools[i] \in Seq(Nat) /\ chunk \in Chunk
    BY <1>1, <1>2 DEF Call
  <2>2. InOrder(x.tools[i], At(x.lines, <<"tool", i>>))
    BY DEF Gathered, x
  <2>3. /\ y.tools[i] = IF <<"tool", i>> = chunk THEN Append(x.tools[i], n) ELSE x.tools[i]
        /\ y.lines = Append(x.lines, chunk) /\ n = Len(x.lines) + 1
    BY <1>4
  <2> HIDE DEF n
  <2> QED
    BY <2>1, <2>2, <2>3, ChunkInOrder
<1>7. Timed(y)
  <2>1. x.pc = "stream" /\ x.content \in Seq(Nat) /\ x.attempt \in Nat
    BY <1>1 DEF ReadChunk, Call, x
  <2>2. x.firstToken = IF x.content = <<>> THEN 0 ELSE x.attempt + 1
    BY <2>1 DEF Gathered, Timed, x
  <2>3. Append(x.content, n) # <<>>
    BY <2>1
  <2> QED
    BY <1>4, <2>1, <2>2, <2>3 DEF Timed
<1> QED
  BY <1>5, <1>6, <1>7 DEF Gathered, y

\* What has been gathered does not depend on the rest of the call.
LEMMA KeepsGathered ==
    ASSUME NEW x, NEW y, Gathered(x), Timed(y),
           y.lines = x.lines, y.content = x.content, y.tools = x.tools
    PROVE  Gathered(y)
BY DEF Gathered, At

\* When the retried function returns nothing has been added, and nothing is an
\* answer but what it has just returned.
LEMMA ReturnGathers ==
    ASSUME NEW x \in Call, NEW y, NEW r, Possible(x, r), Over(x, y, r) \/ Again(x, y, r),
           Gathered(x)
    PROVE  Gathered(y)
<1>1. CASE Over(x, y, r)
  <2>1. /\ y.lines = x.lines /\ y.content = x.content /\ y.tools = x.tools
        /\ y.firstToken = x.firstToken /\ y.attempt = x.attempt
    BY <1>1 DEF Over, Call
  <2>2. y.pc = "done" /\ y.result = r /\ (r = "answer" => x.pc \in {"sent", "stream"})
    BY <1>1 DEF Over, Call, Possible
  <2>3. Timed(y)
    BY <2>1, <2>2 DEF Gathered, Timed
  <2> QED
    BY <2>1, <2>3, KeepsGathered
<1>2. CASE Again(x, y, r)
  <2>1. /\ y.lines = x.lines /\ y.content = x.content /\ y.tools = x.tools
        /\ y.pc = "wait"
    BY <1>2 DEF Again, Call
  <2> QED
    BY <2>1, KeepsGathered DEF Timed
<1> QED
  BY <1>1, <1>2

\* A request starts with nothing.
LEMMA RequestGathers ==
    ASSUME TypeInv, NEW c \in Caller, Request(c)
    PROVE  Gathered(call'[c])
<1>1. call[c] \in Call /\ call \in [Caller -> Call]
  BY DEF TypeInv, TypeOK, ClientTypeOK
<1>2. call'[c] = [Cleared(call[c]) EXCEPT !.pc = "sent", !.result = "none", !.lines = <<>>,
                     !.late = IF c \in cancelled THEN @ \cup {call[c].attempt} ELSE @]
  BY <1>1 DEF Request
<1>3. /\ call'[c].lines = <<>> /\ call'[c].content = <<>> /\ call'[c].firstToken = 0
      /\ call'[c].tools = NoTools
  <2> HIDE DEF NoTools
  <2> QED
    BY <1>1, <1>2 DEF Cleared, Call
<1>4. \A kind : At(call'[c].lines, kind) = {}
  BY <1>3 DEF At
<1>5. \A i \in ToolIndex : call'[c].tools[i] = <<>>
  BY <1>3 DEF NoTools
<1> QED
  BY <1>3, <1>4, <1>5, NothingInOrder DEF Gathered, Timed

\* A new call has nothing.
LEMMA NewGathers ==
    ASSUME NEW pc \in {"idle", "request"}, NEW mode
    PROVE  Gathered(NewCall(pc, mode))
<1>1. \A kind : At(NewCall(pc, mode).lines, kind) = {}
  BY DEF At, NewCall
<1> QED
  BY <1>1, NothingInOrder DEF Gathered, Timed, NewCall, NoTools

\* Whatever a client does, it has gathered what one attempt brought.
LEMMA ClientGathers ==
    ASSUME TypeInv, NEW c \in Caller, ClientStep(c), Gathered(call[c])
    PROVE  Gathered(call'[c])
<1>1. call[c] \in Call /\ call \in [Caller -> Call] /\ ClientTypeOK
  BY DEF TypeInv, TypeOK, ClientTypeOK
<1>2. ASSUME NEW r, Possible(call[c], r), Returned(c, r)
      PROVE  Gathered(call'[c])
  BY <1>1, <1>2, ReturnedCases, ReturnGathers
<1>3. CASE Waited(c) \/ Abandoned(c) \/ StreamOpens(c)
  <2>1. /\ call'[c].lines = call[c].lines /\ call'[c].content = call[c].content
        /\ call'[c].tools = call[c].tools
    BY <1>1, <1>3 DEF Waited, Abandoned, StreamOpens, Call
  <2>2. Timed(call'[c])
    <3>1. CASE Waited(c) \/ Abandoned(c)
      <4>1. CASE Waited(c)
        BY <1>1, <4>1 DEF Waited, Timed, Call
      <4>2. CASE Abandoned(c)
        <5>1. call'[c].pc = "done" /\ call'[c].result = "cancelled"
          BY <1>1, <4>2 DEF Abandoned, Call
        <5> QED
          BY <5>1 DEF Timed
      <4> QED
        BY <3>1, <4>1, <4>2
    <3>2. CASE StreamOpens(c)
      <4>1. /\ call[c].pc = "sent" /\ call'[c].attempt = call[c].attempt
            /\ call'[c].firstToken = call[c].firstToken
        BY <1>1, <3>2 DEF StreamOpens, Call
      <4> QED
        BY <2>1, <4>1 DEF Gathered, Timed
    <3> QED
      BY <1>3, <3>1, <3>2
  <2> QED
    BY <2>1, <2>2, KeepsGathered
<1>4. CASE Request(c)
  BY <1>4, RequestGathers
<1>5. CASE Respond(c) \/ Unsendable(c) \/ StreamFails(c) \/ StreamEnds(c)
  BY <1>2, <1>5, AttemptEnds
<1>6. CASE ReadChunk(c)
  BY <1>6, ReadGathers
<1> QED
  BY <1>3, <1>4, <1>5, <1>6 DEF ClientStep

\* So do all calls, whoever moves.
AllGathered == \A c \in Caller : Gathered(call[c])

\* Every step keeps what the calls have gathered.
LEMMA NextGathered == TypeInv /\ AllGathered /\ [Next]_vars => AllGathered'
<1> SUFFICES ASSUME TypeInv, AllGathered, [Next]_vars PROVE AllGathered'
  OBVIOUS
<1> USE DEF AllGathered
<1>0. call \in [Caller -> Call]
  BY DEF TypeInv, TypeOK, ClientTypeOK
<1>1. CASE call' = call
  BY <1>1
<1>2. ASSUME NEW c \in Caller, NEW mode, call' = [call EXCEPT ![c] = NewCall("request", mode)]
      PROVE  AllGathered'
  <2>1. Gathered(NewCall("request", mode))
    BY NewGathers
  <2>2. \A d \in Caller : call'[d] = IF d = c THEN NewCall("request", mode) ELSE call[d]
    BY <1>0, <1>2
  <2> QED
    BY <2>1, <2>2
<1>3. ASSUME NEW c \in Caller, call' = [call EXCEPT ![c] = call'[c]], ClientStep(c)
      PROVE  AllGathered'
  <2>1. Gathered(call'[c])
    BY <1>3, ClientGathers
  <2>2. \A d \in Caller \ {c} : call'[d] = call[d]
    BY <1>0, <1>3
  <2> QED
    BY <2>1, <2>2
<1>4. CASE Step
  BY <1>1, <1>2, <1>3, <1>4, CallSteps
<1> QED
  BY <1>1, <1>4 DEF Next, vars, clientVars

\* Counting through the first numbers in order is counting one by one: those
\* up to the k-th are k.
LEMMA CountingInOrder ==
    ASSUME NEW n \in Nat, NEW s \in [1 .. n -> 0 .. n - 1], InOrder(s, 0 .. n - 1)
    PROVE  s = [k \in 1 .. n |-> k - 1]
<1>1. /\ \A i, j \in 1 .. n : i < j => s[i] < s[j]
      /\ \A m \in 0 .. n - 1 : \E j \in 1 .. n : s[j] = m
  BY DEF InOrder, Range
<1>2. ASSUME NEW k \in 1 .. n
      PROVE  s[k] = k - 1
  <2> DEFINE upTo == [j \in 1 .. k |-> s[j]]
  <2>1. s[k] \in 0 .. n - 1 /\ k \in Nat /\ s[k] \in Int
    OBVIOUS
  <2>2. ASSUME NEW j \in 1 .. k
        PROVE  j \in 1 .. n /\ s[j] \in 0 .. s[k]
    <3>1. j \in 1 .. n /\ s[j] \in 0 .. n - 1
      OBVIOUS
    <3>2. j = k \/ s[j] < s[k]
      BY <1>1, <3>1
    <3> QED
      BY <2>1, <3>1, <3>2
  <2>3. upTo \in Injection(1 .. k, 0 .. s[k])
    <3>1. upTo \in [1 .. k -> 0 .. s[k]]
      BY <2>2
    <3>2. ASSUME NEW i \in 1 .. k, NEW j \in 1 .. k, i # j
          PROVE  upTo[i] # upTo[j]
      <4>1. i \in 1 .. n /\ j \in 1 .. n /\ s[i] \in Int /\ s[j] \in Int
        BY <2>2
      <4>2. i < j \/ j < i
        BY <3>2, <4>1
      <4>3. s[i] < s[j] \/ s[j] < s[i]
        BY <1>1, <4>1, <4>2
      <4> QED
        BY <4>1, <4>3
    <3> QED
      BY <3>1, <3>2 DEF Injection, IsInjective
  <2>4. ASSUME NEW m \in 0 .. s[k]
        PROVE  \E j \in 1 .. k : upTo[j] = m
    <3>0. m \in 0 .. n - 1
      BY <2>1
    <3>1. PICK j \in 1 .. n : s[j] = m
      BY <1>1, <3>0
    <3>2. ~(k < j)
      BY <1>1, <2>1, <3>1
    <3> QED
      BY <3>1, <3>2
  <2>5. upTo \in Bijection(1 .. k, 0 .. s[k])
    BY <2>3, <2>4 DEF Bijection, Surjection, Injection
  <2>6. Cardinality(0 .. s[k]) = k
    BY <2>1, <2>5, FS_CountingElements DEF ExistsBijection
  <2>7. Cardinality(0 .. s[k]) = s[k] + 1
    BY <2>1, FS_Interval
  <2> QED
    BY <2>1, <2>6, <2>7
<1> QED
  BY <1>2

\* The loop over the tool calls, when none of their indexes is missing, goes
\* through all of them.
LEMMA LoopFindsAll ==
    ASSUME NEW tools, NEW n \in Nat, Started(tools) = 0 .. n - 1
    PROVE  ToolCalls(tools) = [k \in 1 .. n |-> tools[k - 1]]
<1> DEFINE indexes == {i \in Started(tools) : i < Cardinality(Started(tools))}
           loop == CHOOSE s \in [1 .. Cardinality(indexes) -> indexes] : InOrder(s, indexes)
           count == [k \in 1 .. n |-> k - 1]
<1>1. Cardinality(0 .. n - 1) = n
  BY FS_Interval
<1>2. Cardinality(Started(tools)) = n
  BY <1>1
<1>3. indexes = 0 .. n - 1 /\ Cardinality(indexes) = n
  <2>1. indexes = {i \in 0 .. n - 1 : i < n}
    BY <1>2
  <2>2. {i \in 0 .. n - 1 : i < n} = 0 .. n - 1
    OBVIOUS
  <2> QED
    BY <1>1, <2>1, <2>2
<1>4. count \in [1 .. n -> 0 .. n - 1] /\ InOrder(count, 0 .. n - 1)
  <2>1. count \in [1 .. n -> 0 .. n - 1]
    OBVIOUS
  <2>2. ASSUME NEW m \in 0 .. n - 1
        PROVE  \E k \in 1 .. n : count[k] = m
    <3>1. m + 1 \in 1 .. n /\ (m + 1) - 1 = m
      OBVIOUS
    <3> QED
      BY <3>1
  <2>3. Range(count) = 0 .. n - 1
    BY <2>1, <2>2 DEF Range
  <2> QED
    BY <2>1, <2>3 DEF InOrder
<1>5. loop = CHOOSE s \in [1 .. n -> 0 .. n - 1] : InOrder(s, 0 .. n - 1)
  BY <1>3
<1>6. loop \in [1 .. n -> 0 .. n - 1] /\ InOrder(loop, 0 .. n - 1)
  <2> HIDE DEF loop, count
  <2> QED
    BY <1>4, <1>5
<1>7. loop = count
  <2> HIDE DEF loop
  <2> QED
    BY <1>6, CountingInOrder
<1>8. ToolCalls(tools) = [k \in DOMAIN loop |-> tools[loop[k]]]
  BY DEF ToolCalls
<1> HIDE DEF loop
<1> QED
  BY <1>7, <1>8

\* What a stream returns is what came in its last attempt: the retries of
\* parseStreamingResponse share no piece, and the loop over toolCallsMap puts
\* them back in order.
THEOREM AnswersAreOneAttempts == Spec => []AnswerIsOneAttempts
<1>1. Init => AllGathered
  BY NewGathers DEF Init, ClientInit, AllGathered
<1>2. TypeInv /\ AllGathered => AnswerIsOneAttempts
  <2> SUFFICES ASSUME TypeInv, AllGathered, NEW c \in Caller,
                      call[c].pc = "done", call[c].mode = "stream", call[c].result = "answer"
               PROVE  LET x == call[c]
                          came == {i \in ToolIndex : At(x.lines, <<"tool", i>>) # {}}
                          answer == ToolCalls(x.tools)
                      IN  /\ InOrder(x.content, At(x.lines, <<"token">>))
                          /\ came = 0 .. Cardinality(came) - 1 =>
                               /\ DOMAIN answer = 1 .. Cardinality(came)
                               /\ \A k \in DOMAIN answer :
                                     InOrder(answer[k], At(x.lines, <<"tool", k - 1>>))
                          /\ x.firstToken = IF x.content = <<>> THEN 0 ELSE x.attempt + 1
    BY DEF AnswerIsOneAttempts, At
  <2> DEFINE x == call[c]
             came == {i \in ToolIndex : At(x.lines, <<"tool", i>>) # {}}
             answer == ToolCalls(x.tools)
             n == Cardinality(came)
  <2>1. x \in Call /\ Gathered(x)
    BY DEF TypeInv, TypeOK, ClientTypeOK, AllGathered
  <2>2. InOrder(x.content, At(x.lines, <<"token">>)) /\ Timed(x)
    BY <2>1 DEF Gathered
  <2>3. ASSUME NEW i \in ToolIndex
        PROVE  InOrder(x.tools[i], At(x.lines, <<"tool", i>>)) /\ x.tools[i] \in Seq(Nat)
    BY <2>1 DEF Gathered, Call
  <2>4. Started(x.tools) = came
    <3>1. ASSUME NEW i \in ToolIndex
          PROVE  x.tools[i] # <<>> <=> At(x.lines, <<"tool", i>>) # {}
      <4>1. At(x.lines, <<"tool", i>>) = {x.tools[i][k] : k \in 1 .. Len(x.tools[i])}
        BY <2>3 DEF InOrder, Range
      <4>2. x.tools[i] # <<>> <=> Len(x.tools[i]) # 0
        BY <2>3
      <4>3. Len(x.tools[i]) # 0 <=> 1 .. Len(x.tools[i]) # {}
        <5>1. Len(x.tools[i]) \in Nat
          BY <2>3
        <5>2. Len(x.tools[i]) # 0 => 1 \in 1 .. Len(x.tools[i])
          BY <5>1
        <5> QED
          BY <5>1, <5>2
      <4> QED
        BY <4>1, <4>2, <4>3
    <3> QED
      BY <3>1 DEF Started
  <2>5. n \in Nat
    BY ToolIndexAssumption, FS_Subset, FS_CardinalityType
  <2>6. ASSUME came = 0 .. n - 1
        PROVE  /\ DOMAIN answer = 1 .. n
               /\ \A k \in DOMAIN answer : InOrder(answer[k], At(x.lines, <<"tool", k - 1>>))
    <3>1. answer = [k \in 1 .. n |-> x.tools[k - 1]]
      BY <2>4, <2>5, <2>6, LoopFindsAll
    <3>2. ASSUME NEW k \in 1 .. n
          PROVE  k - 1 \in ToolIndex
      <4>1. k - 1 \in 0 .. n - 1
        BY <2>5
      <4> QED
        BY <2>6, <4>1
    <3> HIDE DEF n
    <3> QED
      BY <3>1, <3>2, <2>3
  <2> QED
    BY <2>2, <2>6 DEF Timed
<1> QED
  BY <1>1, <1>2, InitTypes, NextTypes, NextGathered, PTL DEF Spec

-----------------------------------------------------------------------------
(* Statuses *)

\* What may be known of a node with this result.
Known(result) ==
    {"pending", "running"} \cup (IF result = "none" THEN {} ELSE {Final(result)})

\* StatusTellsResult, for one node.
Truthful(n) ==
    /\ n.status \in Known(n.result)
    /\ \A i \in DOMAIN n.statusChan : n.statusChan[i] \in Known(n.result)
    /\ n.kind = "standard" /\ n.pc \in {"emit", "emitted", "done"} => n.status = Final(n.result)
    /\ n.kind # "missing" /\ n.pc = "done" => n.status = Final(n.result)

\* A step leaves the nodes alone, makes a new one, takes from a channel of
\* one, or is its worker's.
LEMMA NodeSteps ==
    ASSUME TypeInv, Step
    PROVE  \/ node' = node
           \/ \E c \in Caller, kind \in NodeKind :
                 node' = [node EXCEPT ![c] = [NewNode(kind) EXCEPT !.pc = "queued"]]
           \/ \E c \in Caller : node' = [node EXCEPT ![c].resultChan = <<>>]
           \/ \E c \in Caller : /\ node[c].statusChan # <<>>
                                /\ node' = [node EXCEPT ![c].statusChan = Tail(@)]
           \/ \E c \in Caller : /\ node' = [node EXCEPT ![c] = node'[c]]
                                /\ Works(call[c], node[c], node'[c]) \/ Asks(node[c], node'[c])
<1>1. CASE RunBuilder \/ BuilderReturns \/ CancelContext \/ (\E c \in Caller : AddTask(c))
  BY <1>1 DEF RunBuilder, BuilderReturns, CancelContext, AddTask
<1>2. ASSUME NEW c \in Caller, StartTask(c)
      PROVE  \/ node' = node
             \/ \E kind \in NodeKind :
                   node' = [node EXCEPT ![c] = [NewNode(kind) EXCEPT !.pc = "queued"]]
  BY <1>2 DEF StartTask, PushNode
<1>3. ASSUME NEW c \in Caller, TaskReturns(c)
      PROVE  node' = node \/ node' = [node EXCEPT ![c].resultChan = <<>>]
  BY <1>3 DEF TaskReturns
<1>4. ASSUME NEW c \in Caller, ListenerHears(c)
      PROVE  node[c].statusChan # <<>> /\ node' = [node EXCEPT ![c].statusChan = Tail(@)]
  BY <1>4 DEF ListenerHears, ListenForStatus
<1>5. ASSUME NEW c \in Caller, NodeMoves(c)
      PROVE  /\ node' = [node EXCEPT ![c] = node'[c]]
             /\ Works(call[c], node[c], node'[c]) \/ Asks(node[c], node'[c])
  BY <1>5, NodeTyped, WorkerMovesNode DEF NodeMoves, TypeInv, TypeOK
<1>6. ASSUME NEW c \in Caller, ClientMoves(c) PROVE node' = node
  BY <1>6 DEF ClientMoves
<1> QED
  BY <1>1, <1>2, <1>3, <1>4, <1>5, <1>6 DEF Step

\* A status that is told is the node's own, and the last in its channel.
LEMMA TellsKnown ==
    ASSUME NEW n \in Node, NEW m, NEW status, NEW K, Tells(n, m, status) \/ Untold(n, m),
           Tells(n, m, status) => status \in K,
           n.status \in K, \A i \in DOMAIN n.statusChan : n.statusChan[i] \in K
    PROVE  m.status \in K /\ \A i \in DOMAIN m.statusChan : m.statusChan[i] \in K
<1>1. /\ n.statusChan \in Seq(Status)
      /\ DOMAIN Append(n.statusChan, status) = 1 .. Len(n.statusChan) + 1
      /\ DOMAIN n.statusChan = 1 .. Len(n.statusChan) /\ Len(n.statusChan) \in Nat
      /\ \A i \in DOMAIN n.statusChan : Append(n.statusChan, status)[i] = n.statusChan[i]
      /\ Append(n.statusChan, status)[Len(n.statusChan) + 1] = status
  BY DEF Node
<1>2. ASSUME status \in K, NEW i \in DOMAIN Append(n.statusChan, status)
      PROVE  Append(n.statusChan, status)[i] \in K
  <2>1. i \in DOMAIN n.statusChan \/ i = Len(n.statusChan) + 1
    BY <1>1
  <2> QED
    BY <1>1, <1>2, <2>1
<1> QED
  BY <1>2 DEF Tells, Untold

\* A worker tells the truth.
LEMMA WorksTruthful ==
    ASSUME NEW x, x.pc = "done" => x.result \in Outcome,
           NEW n \in Node, NEW m, Works(x, n, m) \/ Asks(n, m), Truthful(n),
           n.pc \in {"emit", "emitted", "done"} <=> n.result # "none"
    PROVE  Truthful(m)
<1>1. /\ n.status \in Known(n.result)
      /\ \A i \in DOMAIN n.statusChan : n.statusChan[i] \in Known(n.result)
  BY DEF Truthful
<1>2. "running" \in Known(n.result)
  BY DEF Known
<1>3. CASE Starts(n, m) \/ Asks(n, m)
  <2>1. /\ m.pc \in {"run", "calling"} /\ m.result = n.result
        /\ Tells(n, m, "running") \/ Untold(n, m)
    BY <1>3 DEF Starts, Asks, Keeps
  <2>2. m.status \in Known(n.result) /\ \A i \in DOMAIN m.statusChan : m.statusChan[i] \in Known(n.result)
    BY <1>1, <1>2, <2>1, TellsKnown
  <2> QED
    BY <2>1, <2>2 DEF Truthful
<1>4. CASE Skips(n, m)
  <2>1. n.result = "none"
    BY <1>4 DEF Skips
  <2>2. /\ m.status = n.status /\ m.statusChan = n.statusChan /\ m.kind = "missing"
    BY <1>4 DEF Skips, Node
  <2> QED
    BY <1>1, <2>1, <2>2 DEF Truthful, Known
<1>5. CASE Repeats(x, n, m) \/ Resumes(n, m)
  <2>1. /\ m.status = n.status /\ m.statusChan = n.statusChan /\ m.result = n.result
        /\ m.pc \in {"sleep", "run"}
    BY <1>5 DEF Repeats, Resumes, Untold, Node
  <2> QED
    BY <1>1, <2>1 DEF Truthful
<1>6. CASE Concludes(x, n, m)
  <2>1. n.result = "none" /\ x.result # "none" /\ m.result = x.result /\ m.pc = "emit"
        /\ m.kind = n.kind
    BY <1>6 DEF Concludes, Outcome, Failure
  <2>2. Known(n.result) \subseteq Known(x.result) /\ Final(x.result) \in Known(x.result)
    BY <2>1 DEF Known
  <2>3. Tells(n, m, Final(x.result)) \/ Untold(n, m)
    BY <1>6 DEF Concludes
  <2>4. /\ m.status \in Known(x.result)
        /\ \A i \in DOMAIN m.statusChan : m.statusChan[i] \in Known(x.result)
    BY <1>1, <2>2, <2>3, TellsKnown
  <2>5. n.kind = "standard" => m.status = Final(x.result)
    BY <1>6 DEF Concludes, Tells
  <2> QED
    BY <2>1, <2>4, <2>5 DEF Truthful
<1>7. CASE Emits(n, m)
  BY <1>1, <1>7 DEF Emits, Untold, Truthful
<1>8. CASE Finishes(n, m)
  <2>1. m.result = n.result /\ m.pc = "done" /\ Tells(n, m, Final(n.result)) /\ m.kind = n.kind
    BY <1>8 DEF Finishes, Keeps
  <2>2. Final(n.result) \in Known(n.result)
    BY <1>8 DEF Finishes, Known
  <2>3. m.status = Final(n.result)
    BY <2>1 DEF Tells
  <2>4. /\ m.status \in Known(n.result)
        /\ \A i \in DOMAIN m.statusChan : m.statusChan[i] \in Known(n.result)
    BY <1>1, <2>1, <2>2, TellsKnown
  <2> QED
    BY <2>1, <2>3, <2>4 DEF Truthful
<1> QED
  BY <1>3, <1>4, <1>5, <1>6, <1>7, <1>8 DEF Works

\* What is taken from a node's channels leaves the rest of it as true as it was.
LEMMA TakingKeepsTruth ==
    ASSUME NEW n \in Node, Truthful(n)
    PROVE  /\ Truthful([n EXCEPT !.resultChan = <<>>])
           /\ n.statusChan # <<>> => Truthful([n EXCEPT !.statusChan = Tail(@)])
<1>1. Truthful([n EXCEPT !.resultChan = <<>>])
  BY DEF Truthful, Node
<1>2. ASSUME n.statusChan # <<>>
      PROVE  Truthful([n EXCEPT !.statusChan = Tail(@)])
  <2> DEFINE rest == Tail(n.statusChan)
  <2>1. n.statusChan \in Seq(Status)
    BY DEF Node
  <2>2. \A i \in DOMAIN rest : i + 1 \in DOMAIN n.statusChan /\ rest[i] = n.statusChan[i + 1]
    BY <1>2, <2>1
  <2>3. \A i \in DOMAIN rest : rest[i] \in Known(n.result)
    BY <2>2 DEF Truthful
  <2> HIDE DEF rest
  <2>4. LET m == [n EXCEPT !.statusChan = rest]
        IN  /\ m.status = n.status /\ m.statusChan = rest /\ m.result = n.result
            /\ m.pc = n.pc /\ m.kind = n.kind
    BY DEF Node
  <2>5. Truthful([n EXCEPT !.statusChan = rest])
    BY <2>3, <2>4 DEF Truthful
  <2> QED
    BY <2>5 DEF rest
<1> QED
  BY <1>1, <1>2

\* Every step keeps statuses truthful.
LEMMA NextTruthful ==
    ASSUME TypeInv, \A c \in Caller : Truthful(node[c]), [Next]_vars
    PROVE  \A c \in Caller : Truthful(node'[c])
<1>0. node \in [Caller -> Node]
  BY DEF TypeInv, TypeOK, NodeTypeOK
<1>1. CASE node' = node
  BY <1>1
<1>2. ASSUME NEW c \in Caller, NEW m, node' = [node EXCEPT ![c] = m], Truthful(m)
      PROVE  \A d \in Caller : Truthful(node'[d])
  BY <1>0, <1>2
<1>3. ASSUME NEW c \in Caller, NEW kind \in NodeKind,
             node' = [node EXCEPT ![c] = [NewNode(kind) EXCEPT !.pc = "queued"]]
      PROVE  \A d \in Caller : Truthful(node'[d])
  <2> DEFINE m == [NewNode(kind) EXCEPT !.pc = "queued"]
  <2>1. m.status = "pending" /\ m.statusChan = <<>> /\ m.pc = "queued"
    BY DEF NewNode
  <2>2. Truthful(m)
    BY <2>1 DEF Truthful, Known
  <2> HIDE DEF m
  <2>3. node' = [node EXCEPT ![c] = m]
    BY <1>3 DEF m
  <2> QED
    BY <1>2, <2>2, <2>3
<1>4. ASSUME NEW c \in Caller, node' = [node EXCEPT ![c].resultChan = <<>>]
      PROVE  \A d \in Caller : Truthful(node'[d])
  <2>1. node' = [node EXCEPT ![c] = [node[c] EXCEPT !.resultChan = <<>>]]
    BY <1>0, <1>4
  <2> QED
    BY <1>0, <1>2, <2>1, TakingKeepsTruth
<1>5. ASSUME NEW c \in Caller, node[c].statusChan # <<>>,
             node' = [node EXCEPT ![c].statusChan = Tail(@)]
      PROVE  \A d \in Caller : Truthful(node'[d])
  <2>1. node' = [node EXCEPT ![c] = [node[c] EXCEPT !.statusChan = Tail(@)]]
    BY <1>0, <1>5
  <2> QED
    BY <1>0, <1>2, <1>5, <2>1, TakingKeepsTruth
<1>6. ASSUME NEW c \in Caller, node' = [node EXCEPT ![c] = node'[c]],
             Works(call[c], node[c], node'[c]) \/ Asks(node[c], node'[c])
      PROVE  \A d \in Caller : Truthful(node'[d])
  <2>1. /\ call[c].pc = "done" => call[c].result \in Outcome
        /\ node[c].pc \in {"emit", "emitted", "done"} <=> node[c].result # "none"
    BY DEF TypeInv, ResultsKnown, Outcome, Failure
  <2>2. Truthful(node'[c])
    BY <1>0, <1>6, <2>1, WorksTruthful
  <2> QED
    BY <1>2, <1>6, <2>2
<1>7. CASE Step
  BY <1>1, <1>3, <1>4, <1>5, <1>6, <1>7, NodeSteps
<1> QED
  BY <1>1, <1>7 DEF Next, vars

\* A node's status, and everything in its channel of statuses, is one that
\* its result bears out, although the channel is sent to without waiting and
\* SetStatus is called by the work function and by the worker.
THEOREM StatusesTruthful == Spec => []StatusTellsResult
<1> DEFINE AllTruthful == \A c \in Caller : Truthful(node[c])
<1>1. Init => AllTruthful
  BY DEF Init, NodeInit, NewNode, Truthful, Known
<1>2. TypeInv /\ AllTruthful /\ [Next]_vars => AllTruthful'
  BY NextTruthful
<1>3. AllTruthful => StatusTellsResult
  BY DEF Truthful, Known, StatusTellsResult
<1> HIDE DEF AllTruthful
<1> QED
  BY <1>1, <1>2, <1>3, InitTypes, NextTypes, PTL DEF Spec

-----------------------------------------------------------------------------
(* Results *)

\* The builder has a result of every task that is not running any more.
Recorded ==
    /\ builder = "adding" => DOMAIN results = {} /\ running = {}
    /\ builder # "adding" => DOMAIN results = DOMAIN tasks \ running
    /\ builder = "returned" => running = {}

\* A node is the one of its caller's task, and emits its own result.
Placed(c) ==
    /\ node[c].pc # "new" =>
          c \in DOMAIN tasks /\ tasks[c] = node[c].kind /\ builder # "adding"
    /\ node[c].resultChan # <<>> =>
          node[c].pc \in {"emitted", "done"} /\ node[c].resultChan = <<node[c].result>>

\* A result that is recorded is that of the call, or of the node, for good.
Kept(c) ==
    IF tasks[c] \in Direct
    THEN call[c].pc = "done" /\ results[c] = call[c].result
    ELSE node[c].pc \in {"emitted", "done"} /\ results[c] = node[c].result

Progress ==
    /\ Recorded
    /\ \A c \in Caller : Placed(c)
    /\ \A c \in DOMAIN results : Kept(c)

\* No task is both recorded and running, and nothing runs before Run.
LEMMA RunningTasks ==
    ASSUME TypeInv, Progress, NEW c \in running
    PROVE  c \in Caller /\ c \in DOMAIN tasks /\ c \notin DOMAIN results /\ builder # "adding"
BY ParallelTypes DEF TypeInv, Progress, Recorded

\* The builder's own steps keep the bookkeeping of tasks.
LEMMA BuilderProgress ==
    ASSUME TypeInv, Progress,
           RunBuilder \/ BuilderReturns \/ CancelContext \/ (\E c \in Caller : AddTask(c))
    PROVE  Progress'
<1>1. UNCHANGED <<call, node>>
  BY DEF RunBuilder, BuilderReturns, CancelContext, AddTask, Cancel, clientVars
<1>2. CASE RunBuilder
  <2>1. /\ builder = "adding" /\ running' = DOMAIN tasks /\ tasks' = tasks /\ results' = results
        /\ builder' = IF tasks = Builder!Empty THEN "returned" ELSE "running"
    BY <1>2 DEF RunBuilder, Builder!Run
  <2>2. DOMAIN Builder!Empty = {}
    BY EmptyTyped
  <2>3. Recorded'
    BY <2>1, <2>2 DEF Progress, Recorded
  <2> QED
    BY <1>1, <2>1, <2>3 DEF Progress, Placed, Kept, Recorded
<1>3. CASE BuilderReturns
  BY <1>1, <1>3 DEF BuilderReturns, Builder!Return, Progress, Placed, Kept, Recorded
<1>4. CASE CancelContext
  BY <1>1, <1>4 DEF CancelContext, parallelVars, Progress, Placed, Kept, Recorded
<1>5. ASSUME NEW c \in Caller, AddTask(c) PROVE Progress'
  <2>1. builder = "adding" /\ UNCHANGED <<running, results, builder>>
    BY <1>5 DEF AddTask, Builder!Add
  <2> QED
    BY <1>1, <2>1 DEF Progress, Placed, Kept, Recorded
<1> QED
  BY <1>2, <1>3, <1>4, <1>5

\* So does a task that starts, ...
LEMMA StartProgress ==
    ASSUME TypeInv, Progress, NEW c \in Caller, StartTask(c)
    PROVE  Progress'
<1>1. /\ c \in running /\ c \in DOMAIN tasks /\ c \notin DOMAIN results /\ builder # "adding"
      /\ UNCHANGED <<tasks, running, results, builder>>
  BY RunningTasks DEF StartTask, parallelVars
<1>2. Recorded'
  BY <1>1 DEF Progress, Recorded
<1>3. call \in [Caller -> Call] /\ node \in [Caller -> Node] /\ DOMAIN results \subseteq Caller
  BY ParallelTypes DEF TypeInv, TypeOK, ClientTypeOK, NodeTypeOK
<1>4. CASE Begin(c, tasks[c]) /\ node' = node
  <2>1. \A d \in Caller \ {c} : call'[d] = call[d]
    BY <1>3, <1>4 DEF Begin
  <2> QED
    BY <1>1, <1>2, <1>3, <1>4, <2>1 DEF Progress, Placed, Kept
<1>5. CASE PushNode(c, tasks[c])
  <2>1. call' = call /\ node' = [node EXCEPT ![c] = [NewNode(tasks[c]) EXCEPT !.pc = "queued"]]
    BY <1>5 DEF PushNode, clientVars
  <2>2. /\ \A d \in Caller \ {c} : node'[d] = node[d]
        /\ node'[c].kind = tasks[c] /\ node'[c].resultChan = <<>>
    BY <1>3, <2>1 DEF NewNode
  <2> QED
    BY <1>1, <1>2, <1>3, <2>1, <2>2 DEF Progress, Placed, Kept
<1> QED
  BY <1>4, <1>5 DEF StartTask

\* ... and one that returns.
LEMMA ReturnProgress ==
    ASSUME TypeInv, Progress, NEW c \in Caller, TaskReturns(c)
    PROVE  Progress'
<1>1. c \in running /\ c \in DOMAIN tasks /\ c \notin DOMAIN results /\ builder # "adding"
  BY RunningTasks DEF TaskReturns
<1>2. node \in [Caller -> Node] /\ DOMAIN results \subseteq Caller
  BY ParallelTypes DEF TypeInv, TypeOK, NodeTypeOK
<1>3. /\ call' = call
      /\ \/ node' = node
         \/ node' = [node EXCEPT ![c].resultChan = <<>>]
  BY DEF TaskReturns, clientVars
<1>4. \A d \in Caller : /\ UNCHANGED <<node[d].pc, node[d].kind, node[d].result>>
                        /\ node'[d].resultChan = <<>> \/ node'[d].resultChan = node[d].resultChan
  <2> DEFINE empty == <<>>
  <2>1. CASE node' = [node EXCEPT ![c].resultChan = empty]
    <3> HIDE DEF empty
    <3>1. \A d \in Caller : node[d] \in Node
      BY <1>2
    <3>2. \A d \in Caller : node'[d] = IF d = c THEN [node[d] EXCEPT !.resultChan = empty]
                                              ELSE node[d]
      BY <1>2, <2>1
    <3>3. \A d \in Caller : /\ UNCHANGED <<node[d].pc, node[d].kind, node[d].result>>
                            /\ node'[d].resultChan = empty \/ node'[d].resultChan = node[d].resultChan
      BY <3>1, <3>2 DEF Node
    <3> QED
      BY <3>3 DEF empty
  <2> QED
    BY <1>3, <2>1
<1>5. PICK r \in Outcome :
          /\ Builder!Record(c, r)
          /\ \/ tasks[c] \in Direct /\ call[c].pc = "done" /\ r = call[c].result
             \/ tasks[c] \in NodeKind /\ node[c].pc \in {"emitted", "done"} /\ r = node[c].result
  <2>1. CASE tasks[c] \in Direct /\ call[c].pc = "done" /\ Builder!Record(c, call[c].result)
    BY <2>1 DEF TypeInv, ResultsKnown
  <2>2. CASE tasks[c] \in NodeKind /\ node[c].resultChan # <<>>
             /\ Builder!Record(c, Head(node[c].resultChan))
    <3>1. node[c].pc \in {"emitted", "done"} /\ node[c].resultChan = <<node[c].result>>
      BY <2>2 DEF Progress, Placed
    <3>2. Head(node[c].resultChan) = node[c].result /\ node[c].result \in Outcome
      BY <3>1 DEF TypeInv, ResultsKnown
    <3> QED
      BY <2>2, <3>1, <3>2
  <2> QED
    BY <2>1, <2>2 DEF TaskReturns
<1>6. /\ tasks' = tasks /\ builder' = builder /\ running' = running \ {c}
      /\ DOMAIN results' = DOMAIN results \cup {c} /\ results'[c] = r
      /\ \A d \in DOMAIN results : results'[d] = results[d]
  <2>1. /\ tasks' = tasks /\ builder' = builder /\ running' = running \ {c}
        /\ results' = Builder!With(results, c, r)
    BY <1>5 DEF Builder!Record
  <2>2. /\ DOMAIN results' = DOMAIN results \cup {c} /\ results'[c] = r
        /\ \A d \in DOMAIN results \ {c} : results'[d] = results[d]
    BY <2>1 DEF Builder!With
  <2> QED
    BY <1>1, <2>1, <2>2
<1>7. Recorded'
  BY <1>1, <1>6 DEF Progress, Recorded
<1>8. \A d \in Caller : Placed(d)'
  BY <1>4, <1>6 DEF Progress, Placed
<1>9. Kept(c)'
  BY <1>3, <1>4, <1>5, <1>6 DEF Kept, Direct, NodeKind
<1>10. ASSUME NEW d \in DOMAIN results PROVE Kept(d)'
  BY <1>2, <1>3, <1>4, <1>6 DEF Progress, Kept
<1> QED
  BY <1>6, <1>7, <1>8, <1>9, <1>10 DEF Progress

\* The client, the workers and the listener of the status leave the builder
\* alone; what has been recorded of a call or a node does not change again.
LEMMA MoveProgress ==
    ASSUME TypeInv, Progress,
           NEW c \in Caller, ClientMoves(c) \/ NodeMoves(c) \/ ListenerHears(c)
    PROVE  Progress'
<1>1. /\ UNCHANGED <<tasks, running, results, builder>>
      /\ DOMAIN results \subseteq DOMAIN tasks /\ DOMAIN tasks \subseteq Caller
      /\ \A d \in DOMAIN tasks : tasks[d] \in Direct \cup NodeKind
  BY ParallelTypes DEF ClientMoves, NodeMoves, ListenerHears, parallelVars, TypeInv, Progress,
                       Recorded
<1>2. Recorded'
  BY <1>1 DEF Progress, Recorded
<1>3. /\ call \in [Caller -> Call] /\ node \in [Caller -> Node]
      /\ \A d \in Caller : node[d] \in Node /\ call[d] \in Call
  BY DEF TypeInv, TypeOK, ClientTypeOK, NodeTypeOK
<1>4. CASE ClientMoves(c)
  <2>1. /\ node' = node /\ call' = [call EXCEPT ![c] = call'[c]]
        /\ Moves(c, call[c], call'[c])
    BY <1>4, ClientMovesCall DEF ClientMoves, TypeInv, TypeOK
  <2>2. call[c].pc # "done"
    BY <2>1 DEF Moves, Wakes, GivesUp, Sends, Reads, Ends, Possible
  <2>3. \A d \in Caller : d = c \/ call'[d] = call[d]
    BY <1>3, <2>1
  <2> QED
    BY <1>1, <1>2, <2>1, <2>2, <2>3 DEF Progress, Placed, Kept
<1>5. CASE NodeMoves(c)
  <2>1. node' = [node EXCEPT ![c] = node'[c]]
    BY <1>5, NodeTyped DEF NodeMoves, TypeInv, TypeOK
  <2>2. \A d \in Caller : d = c \/ node'[d] = node[d]
    BY <1>3, <2>1
  <2>3. \/ Works(call[c], node[c], node'[c]) /\ call' = call
        \/ /\ Asks(node[c], node'[c])
           /\ \A d \in Caller : d = c \/ call'[d] = call[d]
    BY <1>3, <1>5, WorkerMovesNode DEF NodeMoves, TypeInv, TypeOK, clientVars, Begin
  <2>4. /\ node[c].pc # "new" /\ node'[c].kind = node[c].kind
        /\ \/ node'[c].resultChan = node[c].resultChan
           \/ node'[c].pc \in {"emitted", "done"} /\ node'[c].resultChan = <<node'[c].result>>
        /\ node[c].pc \in {"emitted", "done"} =>
              node'[c].pc = "done" /\ node'[c].result = node[c].result
    BY <1>3, <2>3 DEF Works, Asks, Starts, Skips, Repeats, Resumes, Concludes, Emits, Finishes,
                      Keeps, Node
  <2>5. tasks[c] \in NodeKind /\ tasks[c] \notin Direct
    BY <1>3, <2>4 DEF Progress, Placed, Node, NodeKind, Direct
  <2>6. \A d \in Caller : Placed(d)'
    BY <1>1, <2>2, <2>4 DEF Progress, Placed
  <2>7. \A d \in DOMAIN results : Kept(d)'
    BY <1>1, <2>2, <2>3, <2>4, <2>5 DEF Progress, Kept
  <2> QED
    BY <1>1, <1>2, <2>6, <2>7 DEF Progress
<1>6. CASE ListenerHears(c)
  <2>1. call' = call /\ node' = [node EXCEPT ![c].statusChan = Tail(@)]
    BY <1>6 DEF ListenerHears, ListenForStatus, clientVars
  <2>2. \A d \in Caller : UNCHANGED <<node[d].pc, node[d].kind, node[d].result, node[d].resultChan>>
    BY <1>3, <2>1 DEF Node
  <2> QED
    BY <1>1, <1>2, <2>1, <2>2 DEF Progress, Placed, Kept
<1> QED
  BY <1>4, <1>5, <1>6

\* Every step keeps the bookkeeping of tasks.
LEMMA NextProgress == TypeInv /\ Progress /\ [Next]_vars => Progress'
<1> SUFFICES ASSUME TypeInv, Progress, [Next]_vars PROVE Progress'
  OBVIOUS
<1>1. CASE Step
  BY <1>1, BuilderProgress, StartProgress, ReturnProgress, MoveProgress DEF Step
<1>2. CASE UNCHANGED vars
  BY <1>2 DEF vars, clientVars, parallelVars, Progress, Recorded, Placed, Kept
<1> QED
  BY <1>1, <1>2 DEF Next

\* No task has been added at first.
LEMMA InitProgress == Init => Progress
BY EmptyTyped DEF Init, ClientInit, NodeInit, Builder!BuilderInit, Progress, Recorded, Placed, Kept,
                  NewNode

\* Run returns with one result for every task, the task's own, whatever fails
\* and whether the task called the client or pushed a node.
THEOREM ResultsComplete == Spec => []ResultsAreComplete
<1>1. TypeInv /\ Progress => ResultsAreComplete
  BY ParallelTypes DEF TypeInv, Progress, Recorded, Kept, ResultsAreComplete
<1> QED
  BY <1>1, InitTypes, NextTypes, InitProgress, NextProgress, PTL DEF Spec

-----------------------------------------------------------------------------
(* Requests made *)

\* What a node's finished attempts have cost, each as many as the client makes.
RoundsOf(attempt) == ClientTries * attempt

\* How many attempts of the client the rounds of a node have made.
LEMMA Rounds ==
    ASSUME NEW attempt \in Nat
    PROVE  /\ ClientTries \in Nat \ {0} /\ RoundsOf(attempt) \in Nat
           /\ attempt = 0 => RoundsOf(attempt) = 0
           /\ RoundsOf(attempt + 1) = RoundsOf(attempt) + ClientTries
           /\ RoundsOf(attempt + 1) % ClientTries = 0
           /\ attempt <= NodeConfig.MaxRetries =>
                 RoundsOf(attempt + 1) <= ClientTries * NodeTries
           /\ attempt = NodeConfig.MaxRetries =>
                 RoundsOf(attempt + 1) = ClientTries * NodeTries
<1>1. ClientTries \in Nat \ {0} /\ NodeTries \in Nat \ {0} /\ NodeConfig.MaxRetries \in Nat
      /\ NodeTries = NodeConfig.MaxRetries + 1
  BY ClientConfigAssumption, NodeConfigAssumption DEF Config, ClientTries, NodeTries
<1> HIDE DEF ClientTries
<1>2. \A d \in Nat \ {0}, k \in Nat : (d * k) % d = 0 /\ d * k \in Nat /\ d * (k + 1) = d * k + d
  OBVIOUS
<1>3. \A d, j, k \in Nat : j <= k => d * j <= d * k
  OBVIOUS
<1>4. RoundsOf(attempt + 1) % ClientTries = 0
  BY <1>1, <1>2 DEF RoundsOf
<1>5. attempt <= NodeConfig.MaxRetries => RoundsOf(attempt + 1) <= ClientTries * NodeTries
  BY <1>1, <1>3 DEF RoundsOf
<1>6. RoundsOf(attempt) \in Nat /\ RoundsOf(attempt + 1) = RoundsOf(attempt) + ClientTries
      /\ (attempt = 0 => RoundsOf(attempt) = 0)
  BY <1>1, <1>2 DEF RoundsOf
<1> QED
  BY <1>1, <1>4, <1>5, <1>6 DEF RoundsOf

\* The requests made by a caller's call x and, before it, by the attempts of
\* its node n; those in stopped have had their context cancelled.
CallCounted(c, x, n, made, stopped) ==
    LET before == RoundsOf(n.attempt)
    IN  /\ x.pc = "idle" => made = 0
        /\ x.pc \in {"request", "wait"} => made = before + x.attempt
        /\ x.pc \in {"sent", "stream"} => made = before + x.attempt + 1
        /\ x.pc = "done" =>
              /\ made <= before + ClientTries
              /\ x.result # "answer" /\ (c \notin stopped \/ x.result = "passing") =>
                    made = before + ClientTries

\* Between two attempts of a node everything made is what those have cost.
Counted(c, x, n, made, stopped) ==
    IF n.pc \in {"run", "sleep"}
    THEN made = RoundsOf(n.attempt) /\ x.pc \in {"idle", "done"} /\ x.result # "answer"
    ELSE CallCounted(c, x, n, made, stopped)

\* How far the node and the call it has made are.
Stages(x, n) ==
    /\ x.attempt <= ClientConfig.MaxRetries /\ n.attempt <= NodeConfig.MaxRetries
    /\ n.pc \in {"new", "queued"} \/ n.kind # "retrying" => n.attempt = 0
    /\ n.pc = "queued" \/ (n.pc # "new" /\ n.kind = "missing") => x.pc = "idle"
    /\ n.kind = "missing" => n.pc \notin {"run", "calling", "sleep"}
    /\ n.pc = "calling" => x.pc # "idle"
    /\ n.pc \in {"emit", "emitted", "done"} /\ n.kind # "missing" =>
          /\ x.pc = "done" /\ n.result = x.result
          /\ n.kind = "retrying" /\ n.result = "passing" => n.attempt = NodeConfig.MaxRetries
    /\ x.result = "answer" => x.pc = "done"

\* An answer is the end of a call.
Heard(c, x, n, had) == c \in had => x.pc = "done" /\ x.result = "answer" /\ n.pc \notin {"run", "sleep"}

Spending(c, x, n, made, stopped, had) ==
    Counted(c, x, n, made, stopped) /\ Stages(x, n) /\ Heard(c, x, n, had)

\* Calls are made for tasks that run; a task that calls has no node.
Called(c) ==
    call[c].pc # "idle" => /\ c \in DOMAIN tasks /\ builder # "adding"
                           /\ node[c].pc = "new" => tasks[c] \in Direct

Spent ==
    \A c \in Caller :
        /\ Spending(c, call[c], node[c], tries[c], cancelled, answered)
        /\ Called(c)

\* An attempt counts when it is made, whether a request is sent or cannot be.
Made(x, y, made) == IF x.pc = "request" /\ y.pc # "request" THEN made + 1 ELSE made

\* A move of the client, while its node waits for it or there is none.
LEMMA MovesSpend ==
    ASSUME NEW c \in Caller, NEW x \in Call, NEW y, NEW n \in Node, NEW made \in Nat,
           NEW had, NEW has, c \in has => c \in had \/ y.result = "answer",
           Moves(c, x, y), Spending(c, x, n, made, cancelled, had)
    PROVE  Spending(c, y, n, Made(x, y, made), cancelled, has)
<1>1. /\ x.attempt \in Nat /\ n.attempt \in Nat /\ ClientTries \in Nat
      /\ RoundsOf(n.attempt) \in Nat /\ ClientTries = ClientConfig.MaxRetries + 1
      /\ ClientConfig.MaxRetries \in Nat
  BY Rounds, ClientConfigAssumption DEF Call, Node, ClientTries, Config
<1>2. /\ x.pc \notin {"idle", "done"} /\ n.pc \in {"new", "calling"} /\ c \notin had /\ x.result # "answer"
      /\ CallCounted(c, x, n, made, cancelled)
  BY DEF Moves, Wakes, GivesUp, Sends, Reads, Ends, Possible, Spending, Counted, Stages, Heard, Node, NodeKind
<1>3. x.attempt <= ClientConfig.MaxRetries
  BY DEF Spending, Stages
<1> HIDE DEF ClientTries
<1>4. /\ y.attempt <= ClientConfig.MaxRetries /\ y.pc # "idle"
      /\ y.result = "answer" => y.pc = "done"
      /\ CallCounted(c, y, n, Made(x, y, made), cancelled)
  <2>1. CASE Wakes(c, x, y)
    BY <1>1, <1>2, <1>3, <2>1 DEF Wakes, Call, CallCounted, Made
  <2>2. CASE GivesUp(c, x, y)
    BY <1>1, <1>2, <1>3, <2>2 DEF GivesUp, Call, CallCounted, Made
  <2>3. CASE Sends(c, x, y)
    BY <1>1, <1>2, <1>3, <2>3 DEF Sends, Same, CallCounted, Made
  <2>4. CASE Reads(x, y)
    BY <1>1, <1>2, <1>3, <2>4 DEF Reads, Same, CallCounted, Made
  <2>5. ASSUME NEW r, Possible(x, r), Over(x, y, r)
        PROVE  /\ y.attempt <= ClientConfig.MaxRetries /\ y.pc # "idle"
               /\ y.result = "answer" => y.pc = "done"
               /\ CallCounted(c, y, n, Made(x, y, made), cancelled)
    <3>1. y.pc = "done" /\ y.result = r /\ y.attempt = x.attempt
      BY <2>5 DEF Over, Call
    <3>2. Made(x, y, made) = RoundsOf(n.attempt) + x.attempt + 1
      BY <1>2, <2>5, <3>1 DEF CallCounted, Made, Possible
    <3>3. r # "answer" => x.attempt = ClientConfig.MaxRetries
      BY <1>1, <1>3, <2>5 DEF Over
    <3> QED
      BY <1>1, <1>3, <3>1, <3>2, <3>3 DEF CallCounted
  <2>6. ASSUME NEW r, Possible(x, r), Again(x, y, r)
        PROVE  /\ y.attempt <= ClientConfig.MaxRetries /\ y.pc # "idle"
               /\ y.result = "answer" => y.pc = "done"
               /\ CallCounted(c, y, n, Made(x, y, made), cancelled)
    <3>1. y.pc = "wait" /\ y.result = r /\ y.attempt = x.attempt + 1
      BY <2>6 DEF Again, Call
    <3>2. Made(x, y, made) = RoundsOf(n.attempt) + x.attempt + 1
      BY <1>2, <2>6, <3>1 DEF CallCounted, Made, Possible
    <3> QED
      BY <1>1, <2>6, <3>1, <3>2 DEF CallCounted, Again
  <2> QED
    BY <2>1, <2>2, <2>3, <2>4, <2>5, <2>6 DEF Moves, Ends
<1> QED
  BY <1>2, <1>4 DEF Spending, Counted, Stages, Heard

\* A step of the worker that leaves the client alone.
LEMMA WorksSpend ==
    ASSUME NEW c, NEW x \in Call, NEW n \in Node, NEW m, NEW made \in Nat, NEW stopped,
           NEW had, NEW has, c \in has => c \in had \/ x.result = "answer",
           Works(x, n, m), Spending(c, x, n, made, stopped, had)
    PROVE  Spending(c, x, m, made, stopped, has)
<1>1. /\ n.attempt \in Nat /\ NodeConfig.MaxRetries \in Nat /\ ClientTries \in Nat
      /\ RoundsOf(n.attempt) \in Nat
      /\ RoundsOf(n.attempt + 1) = RoundsOf(n.attempt) + ClientTries
  BY Rounds, NodeConfigAssumption DEF Node, Config
<1> USE DEF Spending, Counted, Stages, Heard
<1>2. CASE Starts(n, m)
  <2>1. /\ n.pc = "queued" /\ n.kind # "missing" /\ m.pc = "run" /\ m.kind = n.kind
        /\ m.attempt = n.attempt
    BY <1>2 DEF Starts, Keeps
  <2>2. n.attempt = 0 /\ x.pc = "idle" /\ x.result # "answer" /\ made = 0 /\ c \notin had
    BY <2>1 DEF CallCounted
  <2>3. RoundsOf(m.attempt) = 0
    BY <1>1, <2>1, <2>2, Rounds
  <2> QED
    BY <2>1, <2>2, <2>3
<1>3. CASE Skips(n, m)
  <2>1. m.pc = "emit" /\ m.kind = "missing" /\ m.attempt = n.attempt /\ n.pc = "queued"
    BY <1>3 DEF Skips, Node
  <2> QED
    BY <2>1 DEF CallCounted
<1>4. CASE Resumes(n, m)
  <2>1. m.pc = "run" /\ m.kind = n.kind /\ m.attempt = n.attempt /\ n.pc = "sleep"
    BY <1>4 DEF Resumes, Node
  <2> QED
    BY <2>1
<1>5. CASE Repeats(x, n, m)
  <2>1. /\ n.pc = "calling" /\ x.pc = "done" /\ n.kind = "retrying" /\ x.result = "passing"
        /\ n.attempt < NodeConfig.MaxRetries
        /\ m.pc = "sleep" /\ m.kind = n.kind /\ m.attempt = n.attempt + 1
    BY <1>5 DEF Repeats
  <2>2. made = RoundsOf(n.attempt) + ClientTries
    BY <2>1 DEF CallCounted, Failure
  <2> QED
    BY <1>1, <2>1, <2>2
<1>6. CASE Concludes(x, n, m)
  <2>1. /\ n.pc = "calling" /\ x.pc = "done" /\ m.pc = "emit"
        /\ n.kind = "retrying" /\ x.result = "passing" => n.attempt = NodeConfig.MaxRetries
        /\ m.kind = n.kind /\ m.attempt = n.attempt /\ m.result = x.result
    <3>1. n.attempt <= NodeConfig.MaxRetries
      OBVIOUS
    <3> HIDE DEF Spending, Counted, Stages, Heard
    <3>2. /\ n.pc = "calling" /\ x.pc = "done" /\ m.pc = "emit"
          /\ n.kind = "retrying" /\ x.result = "passing" => n.attempt >= NodeConfig.MaxRetries
          /\ m.kind = n.kind /\ m.attempt = n.attempt /\ m.result = x.result
      BY ONLY <1>6 DEF Concludes
    <3>3. n.attempt >= NodeConfig.MaxRetries => n.attempt = NodeConfig.MaxRetries
      BY ONLY <1>1, <3>1
    <3> QED
      BY ONLY <3>2, <3>3
  <2> QED
    BY <2>1 DEF CallCounted
<1>7. CASE Emits(n, m)
  <2>1. /\ n.pc = "emit" /\ m.pc = (IF n.kind = "missing" THEN "done" ELSE "emitted")
        /\ m.kind = n.kind /\ m.attempt = n.attempt /\ m.result = n.result
    BY <1>7 DEF Emits
  <2> QED
    BY <2>1 DEF CallCounted
<1>8. CASE Finishes(n, m)
  <2>1. /\ n.pc = "emitted" /\ m.pc = "done"
        /\ m.kind = n.kind /\ m.attempt = n.attempt /\ m.result = n.result
    BY <1>8 DEF Finishes, Keeps
  <2> QED
    BY <2>1 DEF CallCounted
<1> QED
  BY <1>2, <1>3, <1>4, <1>5, <1>6, <1>7, <1>8 DEF Works

\* Everything that Spending looks at in a call is as it was, or better known.
LEMMA StaySpend ==
    ASSUME NEW c, NEW x \in Call, NEW n, NEW m, NEW made, NEW stopped, NEW more, NEW had, NEW has,
           Spending(c, x, n, made, stopped, had), stopped \subseteq more,
           c \in has => c \in had \/ x.result = "answer", m.pc = n.pc, m.kind = n.kind, m.attempt = n.attempt,
           m.result = n.result
    PROVE  Spending(c, x, m, made, more, has)
BY DEF Spending, Counted, Stages, Heard, CallCounted

\* A new call, of a task or of a node's work function.
LEMMA BeginsSpend ==
    ASSUME NEW c, NEW x, NEW n \in Node, NEW m, NEW mode, NEW made \in Nat, NEW stopped,
           NEW had, NEW has, c \in has => c \in had,
           Spending(c, x, n, made, stopped, had),
           \/ x.pc = "idle" /\ n.pc = "new" /\ m = n
           \/ Asks(n, m)
    PROVE  Spending(c, NewCall("request", mode), m, made, stopped, has)
<1> DEFINE y == NewCall("request", mode)
<1>1. y.pc = "request" /\ y.attempt = 0 /\ y.result = "none"
  BY DEF NewCall
<1>2. /\ m.pc \in {"new", "calling"} /\ m.attempt = n.attempt /\ m.kind = n.kind
      /\ n.pc \in {"new", "run"}
      /\ m.pc = "calling" <=> n.pc = "run"
  BY DEF Asks, Keeps
<1>3. made = RoundsOf(n.attempt) /\ c \notin had
  <2>1. CASE n.pc = "new" /\ x.pc = "idle"
    <3>1. n.attempt = 0 /\ made = 0 /\ c \notin had
      BY <2>1 DEF Spending, Counted, CallCounted, Stages, Heard
    <3> QED
      BY <3>1, Rounds
  <2>2. CASE n.pc = "run"
    BY <2>2 DEF Spending, Counted, Heard
  <2> QED
    BY <2>1, <2>2 DEF Asks
<1>4. RoundsOf(n.attempt) \in Nat /\ ClientConfig.MaxRetries \in Nat
  BY Rounds, ClientConfigAssumption DEF Node, Config
<1> HIDE DEF y
<1>5. Counted(c, y, m, made, stopped) /\ Heard(c, y, m, has)
  BY <1>1, <1>2, <1>3, <1>4 DEF Counted, CallCounted, Heard
<1>6. Stages(y, m)
  BY <1>1, <1>2, <1>4 DEF Spending, Stages
<1> QED
  BY <1>5, <1>6 DEF Spending, y

\* Of a new node, whose caller has made no call.
LEMMA PushesSpend ==
    ASSUME NEW c, NEW x, NEW n, NEW kind \in NodeKind, NEW made, NEW stopped, NEW had, NEW has,
           c \in has => c \in had, NEW m, m = [NewNode(kind) EXCEPT !.pc = "queued"],
           Spending(c, x, n, made, stopped, had), n.pc = "new", x.pc = "idle"
    PROVE  Spending(c, x, m, made, stopped, has)
<1>1. m.pc = "queued" /\ m.attempt = 0 /\ m.kind = kind
  BY DEF NewNode
<1>2. NodeConfig.MaxRetries \in Nat
  BY NodeConfigAssumption DEF Config
<1> QED
  BY <1>1, <1>2 DEF Spending, Counted, CallCounted, Stages, Heard

\* What the history variables add up to for one caller.
LEMMA Remembers ==
    ASSUME TypeOK, Remember, NEW c \in Caller
    PROVE  /\ tries'[c] = Made(call[c], call'[c], tries[c]) /\ tries[c] \in Nat
           /\ (c \in answered') <=> (c \in answered \/ call'[c].result = "answer")
BY DEF TypeOK, Remember, Made

\* A step that leaves a caller's call as it is, and its node but for channels.
LEMMA AloneSpent ==
    ASSUME TypeInv, Spent, Remember, NEW c \in Caller,
           call'[c] = call[c], cancelled \subseteq cancelled',
           UNCHANGED <<node[c].pc, node[c].kind, node[c].attempt, node[c].result>>
    PROVE  Spending(c, call'[c], node'[c], tries'[c], cancelled', answered')
<1>1. call[c] \in Call
  BY DEF TypeInv, TypeOK, ClientTypeOK
<1>2. tries'[c] = tries[c] /\ ((c \in answered') <=> (c \in answered \/ call[c].result = "answer"))
  BY Remembers DEF TypeInv, Made
<1>3. Spending(c, call[c], node[c], tries[c], cancelled, answered)
  BY DEF Spent
<1>4. Spending(c, call[c], node'[c], tries[c], cancelled', answered')
  BY <1>1, <1>2, <1>3, StaySpend
<1> QED
  BY <1>2, <1>4

\* Every step keeps the count of attempts.
LEMMA NextSpent == TypeInv /\ Progress /\ Spent /\ [Next]_vars => Spent'
<1> SUFFICES ASSUME TypeInv, Progress, Spent, [Next]_vars PROVE Spent'
  OBVIOUS
<1>0. /\ call \in [Caller -> Call] /\ node \in [Caller -> Node]
      /\ \A d \in Caller : call[d] \in Call /\ node[d] \in Node
  BY DEF TypeInv, TypeOK, ClientTypeOK, NodeTypeOK
<1>1. CASE UNCHANGED vars
  BY <1>1 DEF vars, clientVars, parallelVars, Spent, Called
<1> SUFFICES ASSUME Step, Remember PROVE Spent'
  BY <1>1 DEF Next
\* The builder's steps make no calls; a task is added before any is made.
<1>2. CASE RunBuilder \/ BuilderReturns \/ CancelContext \/ (\E c \in Caller : AddTask(c))
  <2>1. UNCHANGED <<call, node>> /\ cancelled \subseteq cancelled'
    BY <1>2 DEF RunBuilder, BuilderReturns, CancelContext, AddTask, Cancel, clientVars
  <2>2. ASSUME NEW d \in Caller
        PROVE  Spending(d, call'[d], node'[d], tries'[d], cancelled', answered')
    BY <2>1, AloneSpent
  <2>3. ASSUME NEW d \in Caller PROVE Called(d)'
    <3>1. CASE call[d].pc = "idle"
      BY <2>1, <3>1 DEF Called
    <3>2. CASE builder # "adding" /\ d \in DOMAIN tasks
      <4>1. tasks' = tasks /\ builder' # "adding"
        BY <1>2, <3>2 DEF RunBuilder, BuilderReturns, CancelContext, AddTask, Builder!Run,
                          Builder!Return, Builder!Add, parallelVars
      <4> QED
        BY <2>1, <3>2, <4>1 DEF Spent, Called
    <3> QED
      BY <3>1, <3>2 DEF Spent, Called
  <2> QED
    BY <2>2, <2>3 DEF Spent
\* All others concern one caller.
<1>3. ASSUME NEW c \in Caller,
             StartTask(c) \/ TaskReturns(c) \/ ClientMoves(c) \/ NodeMoves(c) \/ ListenerHears(c),
             Spending(c, call'[c], node'[c], tries'[c], cancelled', answered'),
             Called(c)'
      PROVE  Spent'
  <2>1. /\ tasks' = tasks /\ builder' = builder /\ cancelled' = cancelled
        /\ \A d \in Caller \ {c} : call'[d] = call[d] /\ node'[d] = node[d]
    <3>1. tasks' = tasks /\ builder' = builder
      BY <1>3 DEF StartTask, TaskReturns, ClientMoves, NodeMoves, ListenerHears, parallelVars,
                  Builder!Record
    <3>2. CASE StartTask(c)
      BY <1>0, <3>1, <3>2 DEF StartTask, Begin, PushNode, clientVars
    <3>3. CASE TaskReturns(c)
      BY <1>0, <3>1, <3>3 DEF TaskReturns, clientVars
    <3>4. CASE ClientMoves(c)
      <4>1. node' = node /\ call' = [call EXCEPT ![c] = call'[c]] /\ cancelled' = cancelled
        BY <3>4, ClientMovesCall DEF ClientMoves, TypeInv, TypeOK
      <4> QED
        BY <1>0, <3>1, <4>1
    <3>5. CASE NodeMoves(c)
      <4>1. node' = [node EXCEPT ![c] = node'[c]] /\ (UNCHANGED clientVars \/ Begin(c, "plain"))
        BY <3>5, NodeTyped, WorkerMovesNode DEF NodeMoves, TypeInv, TypeOK
      <4> QED
        BY <1>0, <3>1, <4>1 DEF Begin, clientVars
    <3>6. CASE ListenerHears(c)
      BY <1>0, <3>1, <3>6 DEF ListenerHears, ListenForStatus, clientVars
    <3> QED
      BY <1>3, <3>2, <3>3, <3>4, <3>5, <3>6
  <2>2. \A d \in Caller \ {c} :
            /\ Spending(d, call'[d], node'[d], tries'[d], cancelled', answered')
            /\ Called(d)'
    BY <2>1, AloneSpent DEF Spent, Called
  <2> QED
    BY <1>3, <2>2 DEF Spent
<1>4. ASSUME NEW c \in Caller, StartTask(c) PROVE Spent'
  <2>1. /\ c \in DOMAIN tasks /\ builder # "adding" /\ tasks' = tasks /\ builder' = builder
    BY <1>4, RunningTasks DEF StartTask, parallelVars
  <2>2. /\ Spending(c, call[c], node[c], tries[c], cancelled, answered)
        /\ Called(c) /\ Placed(c)
    BY DEF Spent, Progress
  <2>3. CASE tasks[c] \in Direct /\ call[c].pc = "idle" /\ Begin(c, tasks[c]) /\ node' = node
    <3>1. node[c].pc = "new"
      BY <1>0, <2>2, <2>3 DEF Placed, Direct, Node, NodeKind
    <3>2. call'[c] = NewCall("request", tasks[c]) /\ cancelled' = cancelled
      BY <1>0, <2>3 DEF Begin
    <3>3. tries'[c] = tries[c] /\ tries[c] \in Nat /\ (c \in answered' => c \in answered)
      BY <2>3, <3>2, Remembers DEF TypeInv, Made, NewCall
    <3>4. Spending(c, NewCall("request", tasks[c]), node[c], tries[c], cancelled, answered')
      BY <1>0, <2>2, <2>3, <3>1, <3>3, BeginsSpend
    <3>5. Called(c)'
      BY <2>1, <2>3 DEF Called
    <3> QED
      BY <1>3, <1>4, <2>3, <3>2, <3>3, <3>4, <3>5
  <2>4. CASE tasks[c] \in NodeKind /\ PushNode(c, tasks[c])
    <3>1. node[c].pc = "new" /\ UNCHANGED clientVars
          /\ node'[c] = [NewNode(tasks[c]) EXCEPT !.pc = "queued"]
      BY <1>0, <2>4 DEF PushNode
    <3>2. call[c].pc = "idle"
      BY <2>2, <2>4, <3>1 DEF Called, Direct, NodeKind
    <3>3. call[c].result # "answer"
      BY <2>2, <3>2 DEF Spending, Stages
    <3>4. call' = call /\ cancelled' = cancelled /\ tries'[c] = tries[c]
          /\ (c \in answered' => c \in answered)
      BY <3>1, <3>2, <3>3, Remembers DEF TypeInv, Made, clientVars
    <3>5. Spending(c, call[c], node'[c], tries[c], cancelled, answered')
      BY <2>2, <2>4, <3>1, <3>2, <3>4, PushesSpend
    <3>6. Called(c)'
      BY <3>2, <3>4 DEF Called
    <3> QED
      BY <1>3, <1>4, <3>4, <3>5, <3>6
  <2> QED
    BY <1>4, <2>3, <2>4 DEF StartTask
<1>5. ASSUME NEW c \in Caller, TaskReturns(c) \/ ListenerHears(c) PROVE Spent'
  <2>1. /\ call' = call /\ cancelled' = cancelled /\ tasks' = tasks /\ builder' = builder
        /\ \/ node' = node
           \/ node' = [node EXCEPT ![c].resultChan = <<>>]
           \/ node' = [node EXCEPT ![c].statusChan = Tail(@)]
    BY <1>5 DEF TaskReturns, ListenerHears, ListenForStatus, clientVars, parallelVars, Builder!Record
  <2>2. UNCHANGED <<node[c].pc, node[c].kind, node[c].attempt, node[c].result>>
    <3>1. ASSUME NEW q, node' = [node EXCEPT ![c].resultChan = q]
                     \/ node' = [node EXCEPT ![c].statusChan = q]
          PROVE  UNCHANGED <<node[c].pc, node[c].kind, node[c].attempt, node[c].result>>
      BY <1>0, <3>1 DEF Node
    <3> QED
      BY <2>1, <3>1
  <2>3. Spending(c, call'[c], node'[c], tries'[c], cancelled', answered')
    BY <2>1, <2>2, AloneSpent
  <2>4. Called(c)'
    BY <2>1, <2>2 DEF Spent, Called
  <2> QED
    BY <1>3, <1>5, <2>3, <2>4
<1>6. ASSUME NEW c \in Caller, ClientMoves(c) PROVE Spent'
  <2>1. /\ node' = node /\ cancelled' = cancelled /\ tasks' = tasks /\ builder' = builder
        /\ Moves(c, call[c], call'[c])
    BY <1>6, ClientMovesCall DEF ClientMoves, parallelVars, TypeInv, TypeOK
  <2>2. Spending(c, call[c], node[c], tries[c], cancelled, answered) /\ Called(c)
    BY DEF Spent
  <2>3. /\ tries'[c] = Made(call[c], call'[c], tries[c]) /\ tries[c] \in Nat
        /\ (c \in answered' => c \in answered \/ call'[c].result = "answer")
    BY Remembers DEF TypeInv
  <2>4. Spending(c, call'[c], node[c], Made(call[c], call'[c], tries[c]), cancelled, answered')
    BY <1>0, <2>1, <2>2, <2>3, MovesSpend
  <2>5. Called(c)'
    BY <2>1, <2>2 DEF Called, Moves, Wakes, GivesUp, Sends, Reads, Ends, Possible
  <2> QED
    BY <1>3, <1>6, <2>1, <2>3, <2>4, <2>5
<1>7. ASSUME NEW c \in Caller, NodeMoves(c) PROVE Spent'
  <2>1. /\ tasks' = tasks /\ builder' = builder
        /\ \/ Works(call[c], node[c], node'[c]) /\ UNCHANGED clientVars
           \/ Asks(node[c], node'[c]) /\ Begin(c, "plain")
    BY <1>7, WorkerMovesNode DEF NodeMoves, parallelVars, TypeInv, TypeOK
  <2>2. /\ Spending(c, call[c], node[c], tries[c], cancelled, answered)
        /\ Called(c) /\ Placed(c)
    BY DEF Spent, Progress
  <2>3. /\ tries'[c] = Made(call[c], call'[c], tries[c]) /\ tries[c] \in Nat
        /\ (c \in answered' => c \in answered \/ call'[c].result = "answer")
    BY Remembers DEF TypeInv
  <2>4. node[c].pc # "new" /\ node'[c].pc # "new"
    BY <1>0, <2>1 DEF Works, Asks, Starts, Skips, Repeats, Resumes, Concludes, Emits, Finishes,
                      Node
  <2>5. Called(c)'
    BY <2>1, <2>2, <2>4 DEF Called, Placed
  <2>6. CASE Works(call[c], node[c], node'[c]) /\ UNCHANGED clientVars
    <3>1. call' = call /\ cancelled' = cancelled /\ tries'[c] = tries[c]
      BY <2>3, <2>6 DEF Made, clientVars
    <3>2. Spending(c, call[c], node'[c], tries[c], cancelled, answered')
      BY <1>0, <2>2, <2>3, <2>6, <3>1, WorksSpend
    <3> QED
      BY <1>3, <1>7, <2>3, <2>5, <3>1, <3>2
  <2>7. CASE Asks(node[c], node'[c]) /\ Begin(c, "plain")
    <3>1. /\ call'[c] = NewCall("request", "plain") /\ cancelled' = cancelled
          /\ call'[c].pc = "request" /\ call'[c].result = "none"
      BY <1>0, <2>7 DEF Begin, NewCall
    <3>2. tries'[c] = tries[c] /\ (c \in answered' => c \in answered)
      BY <2>3, <2>7, <3>1 DEF Made, Begin
    <3>3. Spending(c, call'[c], node'[c], tries[c], cancelled, answered')
      BY <1>0, <2>2, <2>3, <2>7, <3>1, <3>2, BeginsSpend
    <3> QED
      BY <1>3, <1>7, <2>5, <3>1, <3>2, <3>3
  <2> QED
    BY <2>1, <2>6, <2>7
<1> QED
  BY <1>2, <1>4, <1>5, <1>6, <1>7 DEF Step

\* No attempt has been made at first.
LEMMA InitSpent == Init => Spent
<1> SUFFICES ASSUME Init PROVE Spent
  OBVIOUS
<1>1. ClientConfig.MaxRetries \in Nat /\ NodeConfig.MaxRetries \in Nat
  BY ClientConfigAssumption, NodeConfigAssumption DEF Config
<1>2. ASSUME NEW c \in Caller
      PROVE  /\ call[c].pc = "idle" /\ call[c].attempt = 0 /\ call[c].result = "none"
             /\ node[c].pc = "new" /\ node[c].attempt = 0 /\ node[c].kind = "standard"
             /\ tries[c] = 0 /\ c \notin answered
  BY DEF Init, ClientInit, NodeInit, NewCall, NewNode
<1> QED
  BY <1>1, <1>2 DEF Spent, Called, Spending, Counted, CallCounted, Stages, Heard

\* A failure, or an answer in doubt, is returned only when the client has made
\* all its attempts in each of the node's, and the node all of its own if the
\* error is one it repeats for; more are never made, and none after an answer
\* that the client does not doubt.
THEOREM FailuresAreSpent == Spec => []GivesUpOnlyWhenSpent
<1>1. TypeInv /\ Progress /\ Spent => GivesUpOnlyWhenSpent
  <2> SUFFICES ASSUME TypeInv, Progress, Spent PROVE GivesUpOnlyWhenSpent
    OBVIOUS
  <2>1. \A c \in answered : call[c].pc = "done"
    BY DEF TypeInv, TypeOK, Spent, Spending, Heard
  <2>2. ASSUME NEW c \in DOMAIN results
        PROVE  /\ tries[c] <= ClientTries * (IF tasks[c] = "retrying" THEN NodeTries ELSE 1)
               /\ results[c] # "answer" /\ c \notin cancelled /\ tasks[c] # "missing" =>
                     /\ tries[c] > 0 /\ tries[c] % ClientTries = 0
                     /\ tasks[c] = "retrying" /\ results[c] = "passing" =>
                           tries[c] = ClientTries * NodeTries
    <3>1. /\ c \in Caller /\ c \in DOMAIN tasks /\ tasks[c] \in Direct \cup NodeKind
          /\ tries[c] \in Nat /\ node[c] \in Node /\ node[c].attempt \in Nat
      BY ParallelTypes DEF TypeInv, TypeOK, NodeTypeOK, Node, Progress, Recorded
    <3>2. /\ Kept(c) /\ Placed(c)
          /\ Spending(c, call[c], node[c], tries[c], cancelled, answered)
      BY <3>1 DEF Progress, Spent
    <3>3. /\ ClientTries \in Nat \ {0} /\ NodeTries \in Nat /\ ClientTries * 1 = ClientTries
          /\ ClientTries * NodeTries \in Nat /\ ClientTries <= ClientTries * NodeTries
      <4>1. /\ ClientTries \in Nat \ {0} /\ NodeTries \in Nat \ {0}
        BY ClientConfigAssumption, NodeConfigAssumption DEF Config, ClientTries, NodeTries
      <4> HIDE DEF ClientTries, NodeTries
      <4>2. \A d, k \in Nat \ {0} : d * 1 = d /\ d * k \in Nat /\ d <= d * k
        OBVIOUS
      <4> QED
        BY <4>1, <4>2
    <3> DEFINE made == RoundsOf(node[c].attempt + 1)
    <3>4. /\ made = RoundsOf(node[c].attempt) + ClientTries
          /\ RoundsOf(node[c].attempt) \in Nat /\ made % ClientTries = 0
          /\ node[c].attempt = 0 => made = ClientTries
          /\ node[c].attempt <= NodeConfig.MaxRetries => made <= ClientTries * NodeTries
          /\ node[c].attempt = NodeConfig.MaxRetries => made = ClientTries * NodeTries
      <4> HIDE DEF ClientTries, NodeTries, made
      <4>1. /\ RoundsOf(node[c].attempt) \in Nat
            /\ node[c].attempt = 0 => RoundsOf(node[c].attempt) = 0
        BY <3>1, Rounds
      <4>2. /\ made = RoundsOf(node[c].attempt) + ClientTries
            /\ made % ClientTries = 0
            /\ node[c].attempt <= NodeConfig.MaxRetries => made <= ClientTries * NodeTries
            /\ node[c].attempt = NodeConfig.MaxRetries => made = ClientTries * NodeTries
        BY <3>1, Rounds, Zenon DEF made
      <4> QED
        BY <3>3, <4>1, <4>2
    <3> HIDE DEF made, ClientTries, NodeTries
    <3>5. CASE tasks[c] = "missing"
      <4>1. call[c].pc = "idle" /\ node[c].pc \in {"emitted", "done"}
        BY <3>1, <3>2, <3>5 DEF Kept, Placed, Direct, Spending, Stages
      <4>2. tries[c] = 0
        BY <3>2, <4>1 DEF Spending, Counted, CallCounted
      <4> QED
        BY <3>3, <3>5, <4>2
    <3>6. CASE tasks[c] # "missing"
      <4>1. /\ call[c].pc = "done" /\ node[c].pc \notin {"run", "sleep"}
            /\ results[c] = call[c].result
            /\ tasks[c] # "retrying" => node[c].attempt = 0
            /\ tasks[c] = "retrying" /\ results[c] = "passing" =>
                  node[c].attempt = NodeConfig.MaxRetries
            /\ node[c].attempt <= NodeConfig.MaxRetries
        <5>1. CASE tasks[c] \in Direct
          <6>1. node[c].pc = "new"
            BY <3>1, <3>2, <5>1 DEF Placed, Direct, Node, NodeKind
          <6> QED
            BY <3>2, <5>1, <6>1 DEF Kept, Spending, Stages, Direct
        <5>2. CASE tasks[c] \notin Direct
          <6>1. node[c].pc \in {"emitted", "done"} /\ results[c] = node[c].result
                /\ tasks[c] = node[c].kind
            BY <3>2, <5>2 DEF Kept, Placed
          <6> QED
            BY <3>2, <3>6, <6>1 DEF Spending, Stages
        <5> QED
          BY <5>1, <5>2
      <4>2. /\ tries[c] <= made
            /\ results[c] # "answer" /\ c \notin cancelled => tries[c] = made
        BY <3>1, <3>2, <3>4, <4>1 DEF Spending, Counted, CallCounted
      <4> QED
        BY <3>1, <3>3, <3>4, <4>1, <4>2
    <3> QED
      BY <3>5, <3>6
  <2> QED
    BY <2>1, <2>2 DEF GivesUpOnlyWhenSpent
<1> QED
  BY <1>1, InitTypes, NextTypes, InitProgress, NextProgress, InitSpent, NextSpent, PTL DEF Spec
=============================================================================
