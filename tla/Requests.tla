------------------------------- MODULE Requests -------------------------------
(***************************************************************************)
(* Requests from the caller that wants results to the provider: a parallel *)
(* builder whose tasks call the groq client, with the context the builder  *)
(* is run with, or push a work node to the engine and wait for its result. *)
(* What the engine does with a node until a worker takes it is a delay     *)
(* here; TurboRun has it.                                                  *)
(***************************************************************************)
EXTENDS WorkNode

CONSTANT Added    \* the kinds of task that may be added under each key

VARIABLES
    tasks, running, results, builder,   \* the parallel builder
    tries,      \* history: attempts made for each caller
    answered    \* history: callers for which one has brought an answer, without a doubt

Direct == {"plain", "stream"}

ASSUME AddedAssumption == Added \in [Caller -> SUBSET (Direct \cup NodeKind)]

Builder == INSTANCE ParallelBuilder
    WITH Key <- Caller, Task <- Direct \cup NodeKind, Result <- Outcome

parallelVars == <<tasks, running, results, builder>>
vars         == <<clientVars, node, parallelVars, tries, answered>>

TypeOK ==
    /\ ClientTypeOK /\ NodeTypeOK /\ Builder!BuilderTypeOK
    /\ tries \in [Caller -> Nat] /\ answered \subseteq Caller

Init ==
    /\ ClientInit /\ NodeInit /\ Builder!BuilderInit
    /\ tries = [c \in Caller |-> 0] /\ answered = {}

-----------------------------------------------------------------------------
AddTask(c) ==
    /\ \E task \in Added[c] : Builder!Add(c, task)
    /\ UNCHANGED <<clientVars, node>>

RunBuilder ==
    /\ Builder!Run
    /\ UNCHANGED <<clientVars, node>>

BuilderReturns ==
    /\ Builder!Return
    /\ UNCHANGED <<clientVars, node>>

\* A task's goroutine calls the client itself, or pushes a node.
StartTask(c) ==
    /\ c \in running
    /\ \/ tasks[c] \in Direct /\ call[c].pc = "idle" /\ Begin(c, tasks[c]) /\ UNCHANGED node
       \/ tasks[c] \in NodeKind /\ PushNode(c, tasks[c])
    /\ UNCHANGED parallelVars

\* The client's call returns, or ListenForResult does.
TaskReturns(c) ==
    /\ c \in running
    /\ \/ /\ tasks[c] \in Direct /\ call[c].pc = "done"
          /\ Builder!Record(c, call[c].result)
          /\ UNCHANGED <<clientVars, node>>
       \/ /\ tasks[c] \in NodeKind /\ node[c].resultChan # <<>>
          /\ Builder!Record(c, Head(node[c].resultChan))
          /\ node' = [node EXCEPT ![c].resultChan = <<>>]
          /\ UNCHANGED clientVars

ClientMoves(c) == ClientStep(c) /\ UNCHANGED <<node, parallelVars>>
NodeMoves(c)   == NodeStep(c) /\ UNCHANGED parallelVars

ListenerHears(c) == ListenForStatus(c) /\ UNCHANGED parallelVars

\* The context that the builder was run with.
CancelContext ==
    /\ cancelled = {} /\ builder # "returned"
    /\ Cancel({c \in Caller : c \notin DOMAIN tasks \/ tasks[c] \in Direct})
    /\ UNCHANGED <<node, parallelVars>>

Step ==
    \/ RunBuilder \/ BuilderReturns \/ CancelContext
    \/ \E c \in Caller :
          \/ AddTask(c) \/ StartTask(c) \/ TaskReturns(c)
          \/ ClientMoves(c) \/ NodeMoves(c) \/ ListenerHears(c)

Remember ==
    /\ tries' = [c \in Caller |->
          IF call[c].pc = "request" /\ call'[c].pc # "request" THEN tries[c] + 1 ELSE tries[c]]
    /\ answered' = answered \cup {c \in Caller : call'[c].result = "answer"}

Next == Step /\ Remember

Spec == Init /\ [][Next]_vars

\* Goroutines run, the engine gets to every node, and the provider answers.
Fairness ==
    /\ WF_vars(BuilderReturns /\ Remember)
    /\ \A c \in Caller :
          /\ WF_vars((StartTask(c) \/ TaskReturns(c)) /\ Remember)
          /\ WF_vars(ClientMoves(c) /\ Remember)
          /\ WF_vars(NodeMoves(c) /\ Remember)

FairSpec == Spec /\ Fairness

-----------------------------------------------------------------------------
\* What a stream returns is what came in its last attempt: no piece of one that
\* failed halfway, in the order of the chunks; tool calls, whose pieces come
\* mixed, in the order of their indexes; and the time of the first token is
\* that attempt's.
AnswerIsOneAttempts ==
    \A c \in Caller :
        LET x == call[c]
            At(chunk) == {n \in DOMAIN x.lines : x.lines[n] = chunk}
            came == {i \in ToolIndex : At(<<"tool", i>>) # {}}
            answer == ToolCalls(x.tools)
        IN  x.pc = "done" /\ x.mode = "stream" /\ x.result = "answer" =>
                /\ InOrder(x.content, At(<<"token">>))
                /\ came = 0 .. Cardinality(came) - 1 =>
                      /\ DOMAIN answer = 1 .. Cardinality(came)
                      /\ \A k \in DOMAIN answer : InOrder(answer[k], At(<<"tool", k - 1>>))
                /\ x.firstToken = IF x.content = <<>> THEN 0 ELSE x.attempt + 1

ClientTries == ClientConfig.MaxRetries + 1
NodeTries   == NodeConfig.MaxRetries + 1

\* A caller that does not get an answer, or only one that the client doubts, has
\* had every attempt made that the two configurations allow it, whoever gave up
\* in the end: client and work node judge errors differently, and their retries
\* multiply.  One that has had an answer without a doubt has nothing asked again.
GivesUpOnlyWhenSpent ==
    /\ \A c \in answered : call[c].pc = "done"
    /\ \A c \in DOMAIN results :
            /\ tries[c] <= ClientTries * (IF tasks[c] = "retrying" THEN NodeTries ELSE 1)
            /\ results[c] # "answer" /\ c \notin cancelled /\ tasks[c] # "missing" =>
                  /\ tries[c] > 0 /\ tries[c] % ClientTries = 0
                  /\ tasks[c] = "retrying" /\ results[c] = "passing" =>
                        tries[c] = ClientTries * NodeTries

\* The wait before this attempt, not the first, is long enough for its select
\* to find nothing else when the context is done: both the backoff and the cap
\* are more than the lag, and the backoff is not more than a duration can be.
LongWait(attempt) ==
    LET backoff == ClientConfig.BaseDelay * ClientConfig.BackoffMultiple ^ (attempt - 1)
    IN  SelectLag < ClientConfig.MaxDelay /\ SelectLag < backoff /\ backoff <= MaxDuration

\* A call whose context is cancelled sends one more request at most, the one
\* that it had begun, or had waited for, when the context was cancelled.  It
\* sends others only after waits that are not long: those of a backoff that has
\* overflowed, which end at once, or of a configuration with none.
CancelledCallsStop ==
    \A c \in Caller : \A early, late \in call[c].late : early < late => ~LongWait(late)

\* Run returns every task's own result, and only when all have one.
ResultsAreComplete ==
    builder = "returned" =>
        /\ DOMAIN results = DOMAIN tasks
        /\ \A c \in DOMAIN tasks :
              results[c] = IF tasks[c] \in Direct THEN call[c].result ELSE node[c].result

\* The status says what became of a node, never more than is known and never
\* anything else afterwards, even if nobody listens for it.  That of a
\* standard node is final before its result can be waited for, any other's
\* when its worker is done, but for one without a work function.
StatusTellsResult ==
    \A c \in Caller :
        LET n == node[c]
            known == {"pending", "running"} \cup
                        (IF n.result = "none" THEN {} ELSE {Final(n.result)})
            final == n.status = Final(n.result)
        IN  /\ n.status \in known
            /\ \A i \in DOMAIN n.statusChan : n.statusChan[i] \in known
            /\ n.kind = "standard" /\ n.pc \in {"emit", "emitted", "done"} => final
            /\ n.kind # "missing" /\ n.pc = "done" => final

\* Run returns, whatever fails or is cancelled, and whether or not anybody
\* listens to the channels it is announced on.
RunReturns == (builder = "running") ~> (builder = "returned")
=============================================================================
