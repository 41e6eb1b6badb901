--------------------------- MODULE UnixSocketBackend ---------------------------
(***************************************************************************)
(* The rate limit backend shared by the processes of a machine: a client   *)
(* in each process, and the manager processes that clients start when they *)
(* can dial none.  Whoever listens on the one socket path gets the         *)
(* connections made from then on; connections made before stay where they  *)
(* are.  Processes may start, end and be killed between any two steps.     *)
(*                                                                         *)
(* One provider, whose budget is counted in charges of one token.          *)
(***************************************************************************)
EXTENDS Integers

CONSTANTS
    Client,      \* bound: the processes that use the backend, one client in each
    Manager,     \* bound: the manager processes that are ever started
    NoManager,
    TPM,         \* charges a minute allows
    MaxCharges   \* bound: no charge is begun after this many in one minute

ASSUME NoManagerAssumption == NoManager \notin Manager
ASSUME TPMAssumption == TPM \in Nat \ {0}
ASSUME MaxChargesAssumption == MaxCharges \in Nat

VARIABLES
    socket,    \* the manager whose socket the path names: it may be gone
    manager,   \* state, currentMinute, timers of each manager
    accepted,  \* each manager's clients
    open,      \* connections whose manager's end is open, accepted or not
    client,    \* each process's client
    wire,      \* the command or reply on each client's connection
    handled,   \* history: how often managers have obeyed the current call
    recorded   \* history: charges each manager has recorded in this minute

vars == <<socket, manager, accepted, open, client, wire, handled, recorded>>

Command == {"budget", "consume"}
Sending == {"send", "dial", "spawn", "redial", "retry"}

ClientState == [pc : Sending \cup {"new", "idle", "read", "gone"}, conn : Manager \cup {NoManager},
                call : Command \cup {"connect", "none"}]

ManagerState == [pc : {"new", "remove", "bind", "bound", "running", "stopping", "closing", "gone"},
                 used : Nat, fresh : BOOLEAN, timer : {"first", "waiting", "due"}, idle : BOOLEAN]

Exchange == [at : {"none", "request", "handled", "reply"}, to : Command, left : Nat]

NewManager(pc) == [pc |-> pc, used |-> 0, fresh |-> TRUE, timer |-> "first", idle |-> FALSE]
Nothing        == [at |-> "none", to |-> "budget", left |-> 0]

TypeOK ==
    /\ socket \in Manager \cup {NoManager}
    /\ manager \in [Manager -> ManagerState]
    /\ accepted \in [Manager -> SUBSET Client] /\ open \in [Manager -> SUBSET Client]
    /\ client \in [Client -> ClientState]
    /\ wire \in [Client -> Exchange]
    /\ handled \in [Client -> Nat] /\ recorded \in [Manager -> Nat]

Init ==
    /\ socket = NoManager
    /\ manager = [m \in Manager |-> NewManager("new")]
    /\ accepted = [m \in Manager |-> {}] /\ open = [m \in Manager |-> {}]
    /\ client = [c \in Client |-> [pc |-> "new", conn |-> NoManager, call |-> "connect"]]
    /\ wire = [c \in Client |-> Nothing]
    /\ handled = [c \in Client |-> 0] /\ recorded = [m \in Manager |-> 0]

Serving(m)   == manager[m].pc \in {"running", "stopping", "closing"}
Listening(m) == manager[m].pc \in {"bound", "running", "stopping"}
Reachable    == socket # NoManager /\ Listening(socket)
Linked(c)    == client[c].conn # NoManager /\ c \in open[client[c].conn]

-----------------------------------------------------------------------------
(* The client.  Each call holds its mutex; a client that has lost its      *)
(* connection for good returns errors and has no more steps.               *)

Goto(c, pc) == client' = [client EXCEPT ![c].pc = pc]

Return(c, conn) == client' = [client EXCEPT ![c] = [pc |-> "idle", conn |-> conn, call |-> "none"]]

\* A new process makes its client.
NewBackend(c) ==
    /\ client[c].pc = "new"
    /\ Goto(c, "dial")
    /\ UNCHANGED <<socket, manager, accepted, open, wire, handled, recorded>>

Dial(c) ==
    /\ client[c].pc \in {"dial", "redial"} /\ Reachable
    /\ IF client[c].call = "connect" THEN Return(c, socket)
       ELSE client' = [client EXCEPT ![c].pc = "retry", ![c].conn = socket]
    /\ open' = [open EXCEPT ![socket] = @ \cup {c}]
    /\ UNCHANGED <<socket, manager, accepted, wire, handled, recorded>>

DialFails(c) ==
    /\ client[c].pc \in {"dial", "redial"} /\ ~Reachable
    /\ IF client[c].pc = "dial" THEN Goto(c, "spawn") ELSE Return(c, NoManager)
    /\ UNCHANGED <<socket, manager, accepted, open, wire, handled, recorded>>

\* The new process runs NewManager; its client dials again 100 ms later.
StartManager(c, m) ==
    /\ client[c].pc = "spawn" /\ manager[m].pc = "new"
    /\ manager' = [manager EXCEPT ![m] = NewManager("remove")]
    /\ Goto(c, "redial")
    /\ UNCHANGED <<socket, accepted, open, wire, handled, recorded>>

StartManagerFails(c) ==
    /\ client[c].pc = "spawn"
    /\ Return(c, NoManager)
    /\ UNCHANGED <<socket, manager, accepted, open, wire, handled, recorded>>

Call(c, command) ==
    /\ client[c].pc = "idle" /\ client[c].conn # NoManager
    /\ command = "consume" => \A m \in Manager : recorded[m] < MaxCharges
    /\ client' = [client EXCEPT ![c].pc = "send", ![c].call = command]
    /\ handled' = [handled EXCEPT ![c] = 0]
    /\ UNCHANGED <<socket, manager, accepted, open, wire, recorded>>

Send(c) ==
    /\ client[c].pc \in {"send", "retry"} /\ Linked(c)
    /\ wire' = [wire EXCEPT ![c] = [at |-> "request", to |-> client[c].call, left |-> 0]]
    /\ Goto(c, "read")
    /\ UNCHANGED <<socket, manager, accepted, open, handled, recorded>>

\* The first failed write leads to a new connection, the second to an error.
SendFails(c) ==
    /\ client[c].pc \in {"send", "retry"} /\ ~Linked(c)
    /\ IF client[c].pc = "send"
       THEN client' = [client EXCEPT ![c].pc = "dial", ![c].conn = NoManager]
       ELSE Return(c, client[c].conn)
    /\ UNCHANGED <<socket, manager, accepted, open, wire, handled, recorded>>

Read(c) ==
    /\ client[c].pc = "read" /\ wire[c].at = "reply"
    /\ wire' = [wire EXCEPT ![c] = Nothing]
    /\ Return(c, client[c].conn)
    /\ UNCHANGED <<socket, manager, accepted, open, handled, recorded>>

\* (faulty) The read has a deadline, and its error leaves the connection open.
ReadTimesOut(c) ==
    /\ client[c].pc = "read" /\ wire[c].at # "reply"
    /\ Return(c, client[c].conn)
    /\ UNCHANGED <<socket, manager, accepted, open, wire, handled, recorded>>

\* (faulty) A failed read is retried like a failed write.
ReadFailsRetried(c) ==
    /\ client[c].pc = "read" /\ wire[c].at # "reply" /\ ~Linked(c)
    /\ client' = [client EXCEPT ![c].pc = "dial", ![c].conn = NoManager]
    /\ UNCHANGED <<socket, manager, accepted, open, wire, handled, recorded>>

\* Replies are read before the end of the connection is seen.  The broken
\* connection is kept; the next call finds that it cannot be written to.
ReadFails(c) ==
    /\ client[c].pc = "read" /\ wire[c].at # "reply" /\ ~Linked(c)
    /\ Return(c, client[c].conn)
    /\ UNCHANGED <<socket, manager, accepted, open, wire, handled, recorded>>

\* The process ends, or has closed its backend for good.  A command it has
\* written stays to be read.
Close(c) ==
    /\ client[c].pc \notin {"new", "gone"}
    /\ client' = [client EXCEPT ![c] = [pc |-> "gone", conn |-> NoManager, call |-> "none"]]
    /\ wire' = IF wire[c].at = "reply" THEN [wire EXCEPT ![c] = Nothing] ELSE wire
    /\ UNCHANGED <<socket, manager, accepted, open, handled, recorded>>

ClientStep(c) ==
    \/ Dial(c) \/ DialFails(c) \/ StartManagerFails(c)
    \/ \E m \in Manager : StartManager(c, m)
    \/ Send(c) \/ SendFails(c) \/ Read(c) \/ ReadFails(c)

-----------------------------------------------------------------------------
(* The manager *)

Advance(m, pc) == manager' = [manager EXCEPT ![m].pc = pc]

\* The ends of the connections in cs close, and what had not been answered
\* will not be.
Break(cs) ==
    wire' = [c \in Client |-> IF c \in cs /\ wire[c].at # "reply" THEN Nothing ELSE wire[c]]

Ends(m) ==
    /\ manager' = [manager EXCEPT ![m] = NewManager("gone")]
    /\ accepted' = [accepted EXCEPT ![m] = {}] /\ open' = [open EXCEPT ![m] = {}]
    /\ recorded' = [recorded EXCEPT ![m] = 0]
    /\ Break(open[m])
    /\ UNCHANGED <<client, handled>>

RemoveSocket(m) ==
    /\ manager[m].pc = "remove"
    /\ socket' = NoManager
    /\ Advance(m, "bind")
    /\ UNCHANGED <<accepted, open, client, wire, handled, recorded>>

Listen(m) ==
    /\ manager[m].pc = "bind" /\ socket = NoManager
    /\ socket' = m
    /\ Advance(m, "bound")
    /\ UNCHANGED <<accepted, open, client, wire, handled, recorded>>

\* Another manager has made its socket meanwhile.
ListenFails(m) ==
    /\ manager[m].pc = "bind" /\ socket # NoManager
    /\ Ends(m)
    /\ UNCHANGED socket

\* Chmod changes whatever file has the path, and fails when there is none.
Start(m) ==
    /\ manager[m].pc = "bound" /\ socket # NoManager
    /\ Advance(m, "running")
    /\ UNCHANGED <<socket, accepted, open, client, wire, handled, recorded>>

StartFails(m) ==
    /\ manager[m].pc = "bound" /\ socket = NoManager
    /\ Ends(m)
    /\ UNCHANGED socket

AcceptConnection(m, c) ==
    /\ Listening(m) /\ Serving(m)
    /\ c \in open[m] \ accepted[m]
    /\ accepted' = [accepted EXCEPT ![m] = @ \cup {c}]
    /\ UNCHANGED <<socket, manager, open, client, wire, handled, recorded>>

\* (faulty) The minute is brought up to date and its usage is kept.
UsageKept(m) == manager[m].used

\* The usage of the current minute, as checkAndResetMinute leaves it.
CurrentUsage(m) == IF manager[m].fresh THEN manager[m].used ELSE 0

\* (faulty) An overdrawn budget is reported as it is.
MaybeNegative(used) == TPM - used

Remaining(used) == IF TPM < used THEN 0 ELSE TPM - used

HandleCommand(m, c) ==
    /\ Serving(m) /\ c \in accepted[m] /\ wire[c].at = "request"
    /\ LET amount == IF wire[c].to = "consume" THEN 1 ELSE 0 IN
       /\ manager' = [manager EXCEPT ![m].used = CurrentUsage(m) + amount, ![m].fresh = TRUE]
       /\ recorded' = [recorded EXCEPT ![m] = @ + amount]
       /\ wire' = [wire EXCEPT ![c].at = "handled",
                               ![c].left = IF wire[c].to = "budget" THEN Remaining(CurrentUsage(m))
                                                                    ELSE 0]
    /\ handled' = [handled EXCEPT ![c] = @ + 1]
    /\ UNCHANGED <<socket, accepted, open, client>>

\* (faulty) Only a command that asks for something is answered.
RespondToQuestion(m, c) ==
    /\ Serving(m) /\ c \in accepted[m] /\ wire[c].at = "handled"
    /\ wire' = IF client[c].conn = m /\ wire[c].to = "budget"
               THEN [wire EXCEPT ![c].at = "reply"] ELSE [wire EXCEPT ![c] = Nothing]
    /\ UNCHANGED <<socket, manager, accepted, open, client, handled, recorded>>

\* Nobody reads the reply to a process that has gone.
Respond(m, c) ==
    /\ Serving(m) /\ c \in accepted[m] /\ wire[c].at = "handled"
    /\ wire' = IF client[c].conn = m THEN [wire EXCEPT ![c].at = "reply"]
                                     ELSE [wire EXCEPT ![c] = Nothing]
    /\ UNCHANGED <<socket, manager, accepted, open, client, handled, recorded>>

\* (faulty) The connection is closed and stays among the clients.
CloseOnly(m, c) ==
    /\ Serving(m) /\ c \in accepted[m] \cap open[m]
    /\ client[c].conn # m /\ wire[c] = Nothing
    /\ open' = [open EXCEPT ![m] = @ \ {c}]
    /\ UNCHANGED <<socket, manager, accepted, client, wire, handled, recorded>>

\* handleClient comes to the end of what its client has sent.
Forget(m, c) ==
    /\ Serving(m) /\ c \in accepted[m]
    /\ client[c].conn # m /\ wire[c] = Nothing
    /\ open' = [open EXCEPT ![m] = @ \ {c}]
    /\ accepted' = [accepted EXCEPT ![m] = @ \ {c}]
    /\ UNCHANGED <<socket, manager, client, wire, handled, recorded>>

\* The timer sleeps until the minute ends and then starts a ticker, whose
\* ticks fall just after the beginning of each minute from the next on.
NewMinute ==
    /\ manager' = [m \in Manager |->
          IF manager[m].pc \in {"new", "gone"} THEN manager[m]
          ELSE [manager[m] EXCEPT !.fresh = FALSE,
                   !.timer = IF ~Serving(m) THEN @ ELSE IF @ = "first" THEN "waiting" ELSE "due"]]
    /\ recorded' = [m \in Manager |-> 0]
    /\ UNCHANGED <<socket, accepted, open, client, wire, handled>>

\* The tick resets the usage whether or not a command has done so already.
ResetMinute(m) ==
    /\ Serving(m) /\ manager[m].timer = "due"
    /\ manager' = [manager EXCEPT ![m].used = 0, ![m].fresh = TRUE, ![m].timer = "waiting"]
    /\ UNCHANGED <<socket, accepted, open, client, wire, handled, recorded>>

\* A tick of the monitor.  Five seconds after one that found no clients,
\* having found none since, it stops the manager.
MonitorIdle(m) ==
    /\ manager[m].pc = "running"
    /\ manager[m].idle = (accepted[m] # {})
    /\ manager' = [manager EXCEPT ![m].idle = ~@]
    /\ UNCHANGED <<socket, accepted, open, client, wire, handled, recorded>>

MonitorStops(m) ==
    /\ manager[m].pc = "running" /\ manager[m].idle /\ accepted[m] = {}
    /\ Advance(m, "stopping")
    /\ UNCHANGED <<socket, accepted, open, client, wire, handled, recorded>>

\* Closing the listener removes the file that has the path by now, and
\* breaks the connections nobody has accepted.
CloseListener(m) ==
    /\ manager[m].pc = "stopping"
    /\ Advance(m, "closing")
    /\ socket' = NoManager
    /\ open' = [open EXCEPT ![m] = accepted[m]]
    /\ Break(open[m] \ accepted[m])
    /\ UNCHANGED <<accepted, client, handled, recorded>>

Exit(m) ==
    /\ manager[m].pc = "closing"
    /\ Ends(m)
    /\ socket' = NoManager

\* A signal ends the process, which leaves its socket file.
Kill(m) ==
    /\ manager[m].pc \notin {"new", "gone"}
    /\ Ends(m)
    /\ UNCHANGED socket

ManagerStep(m) ==
    \/ RemoveSocket(m) \/ Listen(m) \/ ListenFails(m) \/ Start(m) \/ StartFails(m)
    \/ MonitorIdle(m) \/ MonitorStops(m) \/ CloseListener(m) \/ Exit(m)

HandlerStep(m, c) == AcceptConnection(m, c) \/ HandleCommand(m, c) \/ Respond(m, c) \/ Forget(m, c)

-----------------------------------------------------------------------------

Next ==
    \/ \E c \in Client : NewBackend(c) \/ ClientStep(c) \/ Close(c)
    \/ \E c \in Client, command \in Command : Call(c, command)
    \/ \E m \in Manager : ManagerStep(m) \/ ResetMinute(m) \/ Kill(m)
    \/ \E m \in Manager, c \in Client : HandlerStep(m, c)
    \/ NewMinute

Spec == Init /\ [][Next]_vars

\* What has begun goes on; calls, new processes, kills and ticks need not come.
FairSpec ==
    /\ Spec
    /\ \A c \in Client : WF_vars(ClientStep(c))
    /\ \A m \in Manager : WF_vars(ManagerStep(m))
    /\ \A m \in Manager, c \in Client : WF_vars(HandlerStep(m, c))

-----------------------------------------------------------------------------
(* Properties *)

\* A call is obeyed at most once, whatever connections and managers fail
\* and however the client reconnects: the second write of sendCommand only
\* repeats one that failed.  A repeated charge would be counted twice.
HandledOnce == \A c \in Client : handled[c] <= 1

\* A reply is for the call that waits for it: a call that has returned
\* leaves no command or reply behind it for the next one to read.
RepliesAnswerCalls ==
    \A c \in Client : wire[c].at # "none" =>
        \/ client[c].pc = "read" /\ wire[c].to = client[c].call
        \/ client[c].pc = "gone"

\* What a manager counts in its minute was recorded in this minute, between
\* a ticker and commands that reset it at different moments; until its
\* ticker has reset a minute that has begun, nothing is missing either.
UsageIsThisMinutes ==
    \A m \in Manager : manager[m].fresh =>
        /\ manager[m].used <= recorded[m]
        /\ manager[m].timer \in {"first", "due"} => manager[m].used = recorded[m]

\* Every call returns, with a reply or an error, although the manager may
\* stop or be killed at any moment and no read has a deadline.
CallsReturn == \A c \in Client : client[c].pc \notin {"new", "idle"} ~> client[c].pc \in {"idle", "gone"}

\* A manager that is left without connections exits (manager.go:80), also
\* one whose socket file another manager has replaced.
LonelyManagersExit ==
    \A m \in Manager :
        <>[](\A c \in Client : client[c].conn # m) => <>[](manager[m].pc \in {"new", "gone"})

\* "track and enforce rate limits across single or multiple processes"
\* (backend.go:13): two connected processes share one manager's usage.
ProcessesShareManager ==
    \A c, d \in Client : Linked(c) /\ Linked(d) => client[c].conn = client[d].conn
=============================================================================
