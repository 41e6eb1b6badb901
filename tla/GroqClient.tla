------------------------------ MODULE GroqClient ------------------------------
(***************************************************************************)
(* clients/groq/groq.go over utils/retry/retry.go: the calls of            *)
(* ChatCompletion and ChatCompletionStream that goroutines make of one     *)
(* client.  Execute sends a request, judges what came of it, waits and     *)
(* sends again.  The provider and the network are modelled by the outcomes *)
(* the code can tell apart.                                                *)
(***************************************************************************)
EXTENDS Backoff, Sequences, SequencesExt

CONSTANTS
    Caller,         \* goroutines that call the client, once at a time
    ClientConfig,   \* RetryConfig
    SelectLag,      \* the time a goroutine may take from starting a timer to its select
    RetryChanSize,  \* capacity of RetryChan
    ToolIndex,      \* indexes of tool calls in streamed chunks
    MaxChunks       \* bound: chunks in one stream

ASSUME ClientConfigAssumption == ClientConfig \in Config /\ ClientConfig.MaxDelay \in Duration
ASSUME SelectLagAssumption == SelectLag \in Nat
ASSUME RetryChanAssumption == RetryChanSize \in Nat
ASSUME ToolIndexAssumption == ToolIndex \subseteq Nat /\ IsFiniteSet(ToolIndex)
ASSUME MaxChunksAssumption == MaxChunks \in Nat

VARIABLES
    call,       \* each caller's call, or its last one
    cancelled,  \* callers whose context has been cancelled
    retryChan   \* attempts announced and not yet received

clientVars == <<call, cancelled, retryChan>>

Mode == {"plain", "stream"}

\* What comes of an attempt.  An error is passing if its text is one of those
\* the work node repeats a request for (connections, timeouts, 429, 5xx), and
\* a request is unsent if it could not be made.  An answer is doubtful if it
\* says it is complete and has no content, or if its body mentions
\* failed_generation, whatever its content.
Failure == {"passing", "lasting", "unsent", "cancelled"}
Outcome == {"answer", "doubtful"} \cup Failure

\* What a chunk carries: a piece of content, of a tool call, or neither.
Chunk == {<<"token">>, <<"bare">>} \cup {<<"tool", i>> : i \in ToolIndex}

Call == [pc : {"idle", "request", "sent", "stream", "wait", "done"}, mode : Mode,
         attempt : Nat, delay : Duration,   \* the attempt, and the wait before it
         result : {"none"} \cup Outcome,    \* what an attempt has returned
         lines : Seq(Chunk),                \* history: chunks of this attempt
         content : Seq(Nat),                \* fullContent, as the chunks it came in
         tools : [ToolIndex -> Seq(Nat)],   \* toolCallsMap, likewise
         firstToken : Nat,                  \* the attempt of firstTokenTime, from 1
         late : SUBSET Nat]                 \* history: attempts that sent after cancellation

NoTools == [i \in ToolIndex |-> <<>>]

NewCall(pc, mode) ==
    [pc |-> pc, mode |-> mode, attempt |-> 0, delay |-> 0, result |-> "none", lines |-> <<>>,
     content |-> <<>>, tools |-> NoTools, firstToken |-> 0, late |-> {}]

ClientTypeOK ==
    /\ call \in [Caller -> Call]
    /\ cancelled \subseteq Caller
    /\ retryChan \in Seq(Nat) /\ Len(retryChan) <= RetryChanSize

ClientInit ==
    /\ call = [c \in Caller |-> NewCall("idle", "plain")]
    /\ cancelled = {}
    /\ retryChan = <<>>

-----------------------------------------------------------------------------
(* Execute *)

Begin(c, mode) ==
    /\ call[c].pc \in {"idle", "done"}
    /\ call' = [call EXCEPT ![c] = NewCall("request", mode)]
    /\ UNCHANGED <<cancelled, retryChan>>

\* (faulty) Only what the provider refuses is an error.
RetriesAnswers(r, mode) == r # "lasting"

\* isRetryableError.  An error is always repeated: what the code says of
\* status 400, 429 (unless evalMode) and 5xx never decides, as each of them
\* comes with an error.  A stream passes no body, so its answer is not doubted.
isRetryableError(r, mode) ==
    \/ r \in Failure
    \/ r = "doubtful" /\ mode = "plain"

\* The retried function has returned r, to which Execute reacts.
Returned(c, r) ==
    LET x == call[c]
    IN  IF isRetryableError(r, x.mode) /\ x.attempt < ClientConfig.MaxRetries
        THEN \E d \in calculateDelay(ClientConfig, x.attempt) :
                call' = [call EXCEPT ![c].pc = "wait", ![c].result = r,
                                     ![c].delay = d, ![c].attempt = @ + 1]
        ELSE call' = [call EXCEPT ![c].pc = "done", ![c].result = r]

\* (faulty) The context is not looked at.
SleptThrough(c) ==
    /\ call[c].pc = "wait"
    /\ call' = [call EXCEPT ![c].pc = "request"]
    /\ UNCHANGED <<cancelled, retryChan>>

\* The select between ctx.Done and the timer finds a context that is done when
\* the wait begins, or before the timer fires; but if the timer is due by then
\* as well, either may be chosen.
Waited(c) ==
    /\ call[c].pc = "wait"
    /\ c \notin cancelled \/ call[c].delay <= SelectLag
    /\ call' = [call EXCEPT ![c].pc = "request"]
    /\ UNCHANGED <<cancelled, retryChan>>

Abandoned(c) ==
    /\ call[c].pc = "wait"
    /\ c \in cancelled
    /\ call' = [call EXCEPT ![c].pc = "done", ![c].result = "cancelled"]
    /\ UNCHANGED <<cancelled, retryChan>>

-----------------------------------------------------------------------------
(* One request *)

\* (faulty) What the last attempt has gathered is kept.
KeepsPieces(x) == x

\* What an attempt gathers starts afresh, the time of its first token too.
Cleared(x) == [x EXCEPT !.content = <<>>, !.tools = NoTools, !.firstToken = 0]

\* A request that cannot be encoded or created is never sent, at no attempt.
Unsendable(c) ==
    /\ call[c].pc = "request"
    /\ call[c].attempt = 0 \/ call[c].result = "unsent"
    /\ Returned(c, "unsent")
    /\ UNCHANGED <<cancelled, retryChan>>

\* No request is kept from being made by its context; one of a stream fails.
Request(c) ==
    LET x == call[c]
    IN  /\ x.pc = "request" /\ x.result # "unsent"
        /\ call' = [call EXCEPT ![c] = [Cleared(x) EXCEPT
              !.pc = "sent", !.result = "none", !.lines = <<>>,
              !.late = IF c \in cancelled THEN @ \cup {x.attempt} ELSE @]]
        /\ UNCHANGED <<cancelled, retryChan>>

\* (faulty) The channel takes whatever is sent.
PushUnbounded(attempt) == retryChan' = Append(retryChan, attempt)

pushToRetryChan(attempt) ==
    retryChan' = IF Len(retryChan) < RetryChanSize THEN Append(retryChan, attempt)
                                                   ELSE retryChan

\* The end of ChatCompletion's request, which takes no notice of the context.
Respond(c) ==
    /\ call[c].pc = "sent" /\ call[c].mode = "plain"
    /\ \E r \in Outcome \ {"unsent", "cancelled"} :
          /\ Returned(c, r)
          /\ IF r \in Failure THEN pushToRetryChan(call[c].attempt) ELSE UNCHANGED retryChan
    /\ UNCHANGED cancelled

\* The errors of a stream: any, or its context's once that is cancelled.
StreamFails(c) ==
    /\ call[c].mode = "stream"
    /\ \E r \in Failure \ {"unsent"} :
          /\ \/ call[c].pc = "sent" /\ (r = "cancelled" => c \in cancelled)
             \/ call[c].pc = "stream" /\ (r = "cancelled" <=> c \in cancelled)
          /\ Returned(c, r)
    /\ UNCHANGED <<cancelled, retryChan>>

StreamOpens(c) ==
    /\ call[c].pc = "sent" /\ call[c].mode = "stream"
    /\ call' = [call EXCEPT ![c].pc = "stream"]
    /\ UNCHANGED <<cancelled, retryChan>>

\* The context is checked for each line; lines without a chunk are skipped.
\* A token goes to the caller's callback at once, whatever the attempt comes to.
ReadChunk(c) ==
    LET x == call[c]
        n == Len(x.lines) + 1
    IN  /\ x.pc = "stream" /\ c \notin cancelled
        /\ n <= MaxChunks
        /\ \E chunk \in Chunk :
              call' = [call EXCEPT ![c] = [x EXCEPT
                  !.lines = Append(@, chunk),
                  !.content = IF chunk = <<"token">> THEN Append(@, n) ELSE @,
                  !.firstToken = IF chunk = <<"token">> /\ @ = 0 THEN x.attempt + 1 ELSE @,
                  !.tools = [i \in ToolIndex |-> IF chunk = <<"tool", i>> THEN Append(@[i], n)
                                                                         ELSE @[i]]]]
        /\ UNCHANGED <<cancelled, retryChan>>

\* [DONE], or the end of the body, which is taken for it.  A stream without a
\* chunk is an error.
StreamEnds(c) ==
    /\ call[c].pc = "stream"
    /\ Returned(c, CASE call[c].lines # <<>> -> "answer"
                    [] call[c].lines = <<>> /\ c \in cancelled -> "cancelled"
                    [] OTHER -> "lasting")
    /\ UNCHANGED <<cancelled, retryChan>>

Started(tools) == {i \in ToolIndex : tools[i] # <<>>}

\* s goes through the members of S, from the least up.
InOrder(s, S) ==
    /\ Range(s) = S
    /\ \A i, j \in DOMAIN s : i < j => s[i] < s[j]

\* The tool calls of the answer: the loop counts up to as many as there are,
\* so that an index beyond their number is left out.
ToolCalls(tools) ==
    LET indexes == {i \in Started(tools) : i < Cardinality(Started(tools))}
        loop == CHOOSE s \in [1 .. Cardinality(indexes) -> indexes] : InOrder(s, indexes)
    IN  [k \in DOMAIN loop |-> tools[loop[k]]]

ClientStep(c) ==
    \/ Waited(c) \/ Abandoned(c) \/ Unsendable(c) \/ Request(c) \/ Respond(c)
    \/ StreamFails(c) \/ StreamOpens(c) \/ ReadChunk(c) \/ StreamEnds(c)

\* A context, shared by some callers, is cancelled.
Cancel(callers) ==
    /\ cancelled' = cancelled \cup callers
    /\ UNCHANGED <<call, retryChan>>
=============================================================================
