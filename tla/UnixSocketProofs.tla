---------------------------- MODULE UnixSocketProofs ----------------------------
(***************************************************************************)
(* Proofs about the shared backend, for any number of processes, managers, *)
(* kills and minutes: calls are obeyed at most once and get their own      *)
(* replies, and a manager counts the charges of its minute.                *)
(***************************************************************************)
EXTENDS UnixSocketBackend, TLAPS

-----------------------------------------------------------------------------
(* Types *)

\* A client that sends has a command to send, and one that dials has a call.
CallKnown ==
    \A c \in Client :
        /\ client[c].pc = "new" => client[c].call = "connect"
        /\ client[c].pc \in Sending => client[c].call # "none"
        /\ client[c].pc \in {"send", "retry"} => client[c].call \in Command

Typed == TypeOK /\ CallKnown

\* Nothing is known of a minute that has not been charged.
LEMMA ValuesTyped ==
    /\ \A pc \in {"new", "remove", "gone"} : NewManager(pc) \in ManagerState
    /\ Nothing \in Exchange
    /\ \A used \in Nat : Remaining(used) \in Nat
    /\ \A m \in Manager : manager \in [Manager -> ManagerState] => CurrentUsage(m) \in Nat
<1>1. \A pc \in {"new", "remove", "gone"} : NewManager(pc) \in ManagerState
  BY DEF NewManager, ManagerState
<1>2. Nothing \in Exchange
  BY DEF Nothing, Exchange, Command
<1>3. \A used \in Nat : Remaining(used) \in Nat
  BY TPMAssumption DEF Remaining
<1>4. \A m \in Manager : manager \in [Manager -> ManagerState] => CurrentUsage(m) \in Nat
  BY DEF CurrentUsage, ManagerState
<1> QED
  BY <1>1, <1>2, <1>3, <1>4

\* A client or a manager that moves on keeps its type.
LEMMA MovesTyped ==
    /\ \A conn \in Manager \cup {NoManager} :
          [pc |-> "idle", conn |-> conn, call |-> "none"] \in ClientState
    /\ \A s \in ClientState : [s EXCEPT !.pc = "spawn"] \in ClientState
    /\ \A s \in ManagerState :
          /\ \A pc \in {"bind", "bound", "running", "stopping", "closing"} :
                [s EXCEPT !.pc = pc] \in ManagerState
          /\ [s EXCEPT !.idle = ~s.idle] \in ManagerState
          /\ \A used \in Nat : [s EXCEPT !.used = used, !.fresh = TRUE] \in ManagerState
  BY DEF ClientState, ManagerState, Sending

\* A client that has returned an error or a connection is typed.
LEMMA ReturnTyped ==
    ASSUME Typed, NEW c \in Client, NEW conn \in Manager \cup {NoManager}, Return(c, conn)
    PROVE  client' \in [Client -> ClientState] /\ CallKnown'
<1>1. client' = [client EXCEPT ![c] = [pc |-> "idle", conn |-> conn, call |-> "none"]]
  BY DEF Return
<1>2. client' \in [Client -> ClientState]
  BY <1>1, MovesTyped DEF Typed, TypeOK
<1>3. CallKnown'
  BY <1>1 DEF Typed, TypeOK, CallKnown, Sending
<1> QED
  BY <1>2, <1>3

LEMMA InitTyped == Init => Typed
<1> SUFFICES ASSUME Init PROVE Typed
  OBVIOUS
<1>1. [pc |-> "new", conn |-> NoManager, call |-> "connect"] \in ClientState
  BY DEF ClientState
<1>2. TypeOK
  BY <1>1, ValuesTyped DEF Init, TypeOK
<1>3. CallKnown
  BY DEF Init, CallKnown, Sending
<1> QED
  BY <1>2, <1>3 DEF Typed

\* A process that ends leaves typed connections behind.
LEMMA EndTyped ==
    ASSUME Typed, NEW m \in Manager, Ends(m), socket' \in Manager \cup {NoManager}
    PROVE  Typed'
<1>1. manager' \in [Manager -> ManagerState]
  BY ValuesTyped DEF Typed, TypeOK, Ends
<1>2. wire' \in [Client -> Exchange]
  BY ValuesTyped DEF Typed, TypeOK, Ends, Break
<1>3. CallKnown'
  BY DEF Typed, CallKnown, Ends
<1> QED
  BY <1>1, <1>2, <1>3 DEF Typed, TypeOK, Ends

\* The client's steps keep the types: a call is dialled, written, read.
LEMMA ClientTyped ==
    ASSUME Typed, NEW c \in Client,
           \/ NewBackend(c) \/ ClientStep(c) \/ Close(c)
           \/ \E command \in Command : Call(c, command)
    PROVE  Typed'
<1> USE DEF Typed, TypeOK, Goto
<1>1. CASE NewBackend(c)
  BY <1>1 DEF NewBackend, ClientState, CallKnown, Sending
<1>2. CASE Dial(c)
  <2>1. socket \in Manager /\ client[c].pc \in Sending
    BY <1>2 DEF Dial, Reachable, Sending
  <2>2. open' \in [Manager -> SUBSET Client]
    BY <1>2, <2>1 DEF Dial
  <2>3. CASE client[c].call = "connect"
    BY <1>2, <2>1, <2>2, <2>3, ReturnTyped DEF Dial
  <2>4. CASE client[c].call # "connect"
    <3>1. client[c].call \in Command
      BY <2>1, <2>4 DEF CallKnown, ClientState
    <3>2. client' = [client EXCEPT ![c].pc = "retry", ![c].conn = socket]
      BY <1>2, <2>4 DEF Dial
    <3>3. client' \in [Client -> ClientState]
      BY <2>1, <3>2 DEF ClientState, Sending
    <3>4. CallKnown'
      BY <3>1, <3>2 DEF CallKnown, Sending, Command
    <3> QED
      BY <1>2, <2>2, <3>3, <3>4 DEF Dial
  <2> QED
    BY <2>3, <2>4
<1>3. CASE DialFails(c)
  <2>1. CASE client[c].pc = "dial"
    <3>1. client' = [client EXCEPT ![c].pc = "spawn"]
      BY <1>3, <2>1 DEF DialFails, Goto
    <3>2. client' \in [Client -> ClientState]
      <4>1. client[c] \in ClientState
        OBVIOUS
      <4>2. [client[c] EXCEPT !.pc = "spawn"] \in ClientState
        BY <4>1, MovesTyped
      <4> QED
        BY <3>1, <4>2
    <3>3. CallKnown'
      BY <2>1, <3>1 DEF CallKnown, Sending
    <3> QED
      BY <1>3, <3>2, <3>3 DEF DialFails
  <2>2. CASE client[c].pc # "dial"
    BY <1>3, <2>2, ReturnTyped DEF DialFails
  <2> QED
    BY <2>1, <2>2
<1>4. CASE StartManagerFails(c)
  BY <1>4, ReturnTyped DEF StartManagerFails
<1>5. ASSUME NEW m \in Manager, StartManager(c, m) PROVE Typed'
  <2>1. manager' \in [Manager -> ManagerState]
    BY <1>5, ValuesTyped DEF StartManager
  <2> QED
    BY <1>5, <2>1 DEF StartManager, ClientState, CallKnown, Sending
<1>6. CASE Send(c)
  <2>1. wire' \in [Client -> Exchange]
    BY <1>6 DEF Send, Exchange, CallKnown
  <2> QED
    BY <1>6, <2>1 DEF Send, ClientState, CallKnown, Sending
<1>7. CASE SendFails(c)
  <2>1. CASE client[c].pc = "send"
    <3>1. client' = [client EXCEPT ![c].pc = "dial", ![c].conn = NoManager]
      BY <1>7, <2>1 DEF SendFails
    <3>2. client' \in [Client -> ClientState]
      BY <3>1 DEF ClientState, Sending
    <3>3. CallKnown'
      BY <2>1, <3>1 DEF CallKnown, Sending, Command
    <3> QED
      BY <1>7, <3>2, <3>3 DEF SendFails
  <2>2. CASE client[c].pc # "send"
    BY <1>7, <2>2, ReturnTyped DEF SendFails, ClientState
  <2> QED
    BY <2>1, <2>2
<1>8. CASE Read(c)
  <2>1. wire' \in [Client -> Exchange]
    BY <1>8, ValuesTyped DEF Read
  <2> QED
    BY <1>8, <2>1, ReturnTyped DEF Read, ClientState
<1>9. CASE ReadFails(c)
  BY <1>9, ReturnTyped DEF ReadFails, ClientState
<1>10. CASE Close(c)
  <2>1. wire' \in [Client -> Exchange]
    BY <1>10, ValuesTyped DEF Close
  <2> QED
    BY <1>10, <2>1 DEF Close, ClientState, CallKnown, Sending
<1>11. ASSUME NEW command \in Command, Call(c, command) PROVE Typed'
  BY <1>11 DEF Call, ClientState, CallKnown, Sending, Command
<1> QED
  BY <1>1, <1>2, <1>3, <1>4, <1>5, <1>6, <1>7, <1>8, <1>9, <1>10, <1>11 DEF ClientStep

\* The manager's steps keep the types.
LEMMA ManagerTyped ==
    ASSUME Typed, NEW m \in Manager, ManagerStep(m) \/ ResetMinute(m) \/ Kill(m)
    PROVE  Typed'
<1>1. CASE RemoveSocket(m) \/ Listen(m) \/ Start(m) \/ MonitorIdle(m) \/ MonitorStops(m)
  <2>1. manager' \in [Manager -> ManagerState]
    <3>1. CASE MonitorIdle(m)
      BY <3>1, MovesTyped DEF Typed, TypeOK, MonitorIdle
    <3>2. CASE RemoveSocket(m) \/ Listen(m) \/ Start(m) \/ MonitorStops(m)
      <4>1. PICK pc \in {"bind", "bound", "running", "stopping"} :
              manager' = [manager EXCEPT ![m].pc = pc]
        BY <3>2 DEF RemoveSocket, Listen, Start, MonitorStops, Advance
      <4>2. manager[m] \in ManagerState
        BY DEF Typed, TypeOK
      <4>3. [manager[m] EXCEPT !.pc = pc] \in ManagerState
        BY <4>2, MovesTyped
      <4> QED
        BY <4>1, <4>3 DEF Typed, TypeOK
    <3> QED
      BY <1>1, <3>1, <3>2
  <2>2. socket' \in Manager \cup {NoManager}
    BY <1>1 DEF Typed, TypeOK, RemoveSocket, Listen, Start, MonitorIdle, MonitorStops
  <2>3. UNCHANGED <<accepted, open, client, wire, handled, recorded>>
    BY <1>1 DEF RemoveSocket, Listen, Start, MonitorIdle, MonitorStops
  <2> QED
    BY <2>1, <2>2, <2>3 DEF Typed, TypeOK, CallKnown
<1>2. CASE ListenFails(m) \/ StartFails(m) \/ Kill(m) \/ Exit(m)
  BY <1>2, EndTyped DEF Typed, TypeOK, ListenFails, StartFails, Kill, Exit
<1>3. CASE CloseListener(m)
  <2>1. manager' \in [Manager -> ManagerState]
    <3>1. manager[m] \in ManagerState
      BY DEF Typed, TypeOK
    <3>2. [manager[m] EXCEPT !.pc = "closing"] \in ManagerState
      BY <3>1, MovesTyped
    <3> QED
      BY <1>3, <3>2 DEF Typed, TypeOK, CloseListener, Advance
  <2>2. wire' \in [Client -> Exchange]
    BY <1>3, ValuesTyped DEF Typed, TypeOK, CloseListener, Break
  <2> QED
    BY <1>3, <2>1, <2>2 DEF Typed, TypeOK, CallKnown, CloseListener
<1>4. CASE ResetMinute(m)
  BY <1>4 DEF Typed, TypeOK, CallKnown, ResetMinute, ManagerState
<1> QED
  BY <1>1, <1>2, <1>3, <1>4 DEF ManagerStep

LEMMA HandlerTyped ==
    ASSUME Typed, NEW m \in Manager, NEW c \in Client, HandlerStep(m, c)
    PROVE  Typed'
<1>1. CASE AcceptConnection(m, c)
  BY <1>1 DEF Typed, TypeOK, CallKnown, AcceptConnection
<1>2. CASE HandleCommand(m, c)
  <2>1. CurrentUsage(m) \in Nat /\ Remaining(CurrentUsage(m)) \in Nat
    BY ValuesTyped DEF Typed, TypeOK
  <2> DEFINE amount == IF wire[c].to = "consume" THEN 1 ELSE 0
  <2>2. amount \in Nat
    OBVIOUS
  <2>3. manager' = [manager EXCEPT ![m].used = CurrentUsage(m) + amount, ![m].fresh = TRUE]
        /\ recorded' = [recorded EXCEPT ![m] = @ + amount]
    BY <1>2 DEF HandleCommand
  <2> HIDE DEF amount
  <2>4. CurrentUsage(m) + amount \in Nat
    BY <2>1, <2>2
  <2>5. manager' \in [Manager -> ManagerState] /\ recorded' \in [Manager -> Nat]
    <3>1. manager[m] \in ManagerState
      BY DEF Typed, TypeOK
    <3>2. [manager[m] EXCEPT !.used = CurrentUsage(m) + amount, !.fresh = TRUE] \in ManagerState
      BY <2>4, <3>1, MovesTyped
    <3>3. manager' \in [Manager -> ManagerState]
      BY <2>3, <3>2 DEF Typed, TypeOK
    <3>4. recorded' \in [Manager -> Nat]
      BY <2>2, <2>3 DEF Typed, TypeOK
    <3> QED
      BY <3>3, <3>4
  <2>6. PICK left \in Nat : wire' = [wire EXCEPT ![c].at = "handled", ![c].left = left]
    BY <1>2, <2>1 DEF HandleCommand
  <2>7. wire' \in [Client -> Exchange]
    BY <2>6 DEF Typed, TypeOK, Exchange
  <2>8. handled' \in [Client -> Nat]
    BY <1>2 DEF Typed, TypeOK, HandleCommand
  <2> QED
    BY <1>2, <2>5, <2>7, <2>8 DEF Typed, TypeOK, CallKnown, HandleCommand
<1>3. CASE Respond(m, c)
  <2>1. wire' \in [Client -> Exchange]
    BY <1>3, ValuesTyped DEF Typed, TypeOK, Respond, Exchange
  <2> QED
    BY <1>3, <2>1 DEF Typed, TypeOK, CallKnown, Respond
<1>4. CASE Forget(m, c)
  BY <1>4 DEF Typed, TypeOK, CallKnown, Forget
<1> QED
  BY <1>1, <1>2, <1>3, <1>4 DEF HandlerStep

LEMMA MinuteTyped == Typed /\ NewMinute => Typed'
<1> SUFFICES ASSUME Typed, NewMinute PROVE Typed'
  OBVIOUS
<1>1. ASSUME NEW m \in Manager PROVE manager'[m] \in ManagerState
  BY <1>1 DEF Typed, TypeOK, NewMinute, ManagerState
<1>2. manager' \in [Manager -> ManagerState]
  BY <1>1 DEF NewMinute
<1> QED
  BY <1>2 DEF Typed, TypeOK, CallKnown, NewMinute

LEMMA NextTyped == Typed /\ [Next]_vars => Typed'
<1> SUFFICES ASSUME Typed, [Next]_vars PROVE Typed'
  OBVIOUS
<1>1. CASE UNCHANGED vars
  BY <1>1 DEF Typed, TypeOK, CallKnown, vars
<1>2. CASE Next
  BY <1>2, ClientTyped, ManagerTyped, HandlerTyped, MinuteTyped DEF Next
<1> QED
  BY <1>1, <1>2

\* Every variable has its type, and budgets are answered with natural
\* numbers however far they are overdrawn.
THEOREM BackendTypes == Spec => []TypeOK
<1>1. Typed => TypeOK
  BY DEF Typed
<1> QED
  BY InitTyped, NextTyped, <1>1, PTL DEF Spec

-----------------------------------------------------------------------------
(* Usage *)

\* Inductive: a manager that has not looked at the clock in this minute, or
\* does not run, has recorded nothing in it.
UsageInv ==
    /\ UsageIsThisMinutes
    /\ \A m \in Manager :
          ~manager[m].fresh \/ manager[m].pc \in {"new", "gone"} => recorded[m] = 0

LEMMA InitUsage == Init => UsageInv
  BY DEF Init, UsageInv, UsageIsThisMinutes, NewManager

\* A manager that starts or ends counts nothing and has recorded nothing.
LEMMA UsageNone ==
    ASSUME Typed, UsageInv, NEW m \in Manager, NEW pc,
           manager' = [manager EXCEPT ![m] = NewManager(pc)],
           recorded' = [recorded EXCEPT ![m] = 0]
    PROVE  UsageInv'
  BY DEF Typed, TypeOK, UsageInv, UsageIsThisMinutes, NewManager

LEMMA ClientKeepsUsage ==
    ASSUME Typed, UsageInv, NEW c \in Client,
           \/ NewBackend(c) \/ ClientStep(c) \/ Close(c)
           \/ \E command \in Command : Call(c, command)
    PROVE  UsageInv'
<1>1. ASSUME NEW m \in Manager, StartManager(c, m) PROVE UsageInv'
  <2>1. recorded' = [recorded EXCEPT ![m] = 0]
    BY <1>1 DEF StartManager, UsageInv, Typed, TypeOK
  <2> QED
    BY <1>1, <2>1, UsageNone DEF StartManager
<1>2. CASE UNCHANGED <<manager, recorded>>
  BY <1>2 DEF UsageInv, UsageIsThisMinutes
<1> QED
  BY <1>1, <1>2 DEF NewBackend, ClientStep, Close, Call, Dial, DialFails, StartManagerFails, Send,
                    SendFails, Read, ReadFails

LEMMA ManagerKeepsUsage ==
    ASSUME Typed, UsageInv, NEW m \in Manager, ManagerStep(m) \/ ResetMinute(m) \/ Kill(m)
    PROVE  UsageInv'
<1>1. CASE RemoveSocket(m) \/ Listen(m) \/ Start(m) \/ MonitorStops(m) \/ CloseListener(m)
  <2>1. PICK pc \in {"bind", "bound", "running", "stopping", "closing"} :
          manager' = [manager EXCEPT ![m].pc = pc] /\ UNCHANGED recorded
    BY <1>1 DEF RemoveSocket, Listen, Start, MonitorStops, CloseListener, Advance
  <2> QED
    BY <2>1 DEF Typed, TypeOK, ManagerState, UsageInv, UsageIsThisMinutes
<1>2. CASE MonitorIdle(m)
  BY <1>2 DEF MonitorIdle, Typed, TypeOK, ManagerState, UsageInv, UsageIsThisMinutes
<1>3. CASE ListenFails(m) \/ StartFails(m) \/ Kill(m) \/ Exit(m)
  BY <1>3, UsageNone DEF ListenFails, StartFails, Kill, Exit, Ends
<1>4. CASE ResetMinute(m)
  BY <1>4 DEF ResetMinute, Serving, Typed, TypeOK, ManagerState, UsageInv, UsageIsThisMinutes
<1> QED
  BY <1>1, <1>2, <1>3, <1>4 DEF ManagerStep

\* Only commands count, after they have looked at the clock.
LEMMA HandlerKeepsUsage ==
    ASSUME Typed, UsageInv, NEW m \in Manager, NEW c \in Client, HandlerStep(m, c)
    PROVE  UsageInv'
<1>1. CASE HandleCommand(m, c)
  <2> DEFINE amount == IF wire[c].to = "consume" THEN 1 ELSE 0
  <2>1. amount \in Nat
    OBVIOUS
  <2>2. /\ manager' = [manager EXCEPT ![m].used = CurrentUsage(m) + amount, ![m].fresh = TRUE]
        /\ recorded' = [recorded EXCEPT ![m] = @ + amount]
        /\ manager[m].pc \notin {"new", "gone"}
    BY <1>1 DEF HandleCommand, Serving
  <2> HIDE DEF amount
  <2>3. CurrentUsage(m) \in Nat /\ recorded[m] \in Nat
    BY ValuesTyped DEF Typed, TypeOK
  <2>4. /\ CurrentUsage(m) <= recorded[m]
        /\ manager[m].timer \in {"first", "due"} => CurrentUsage(m) = recorded[m]
    BY <2>3 DEF CurrentUsage, UsageInv, UsageIsThisMinutes
  <2>5. manager[m] \in ManagerState
    BY DEF Typed, TypeOK
  <2>6. /\ manager'[m].used = CurrentUsage(m) + amount /\ manager'[m].fresh
        /\ manager'[m].timer = manager[m].timer /\ manager'[m].pc = manager[m].pc
        /\ recorded'[m] = recorded[m] + amount
        /\ \A n \in Manager \ {m} : manager'[n] = manager[n] /\ recorded'[n] = recorded[n]
    BY <2>2, <2>5 DEF Typed, TypeOK, ManagerState
  <2>7. /\ CurrentUsage(m) + amount <= recorded[m] + amount
        /\ CurrentUsage(m) = recorded[m] => CurrentUsage(m) + amount = recorded[m] + amount
    BY <2>1, <2>3, <2>4
  <2>8. ASSUME NEW n \in Manager
        PROVE  /\ manager'[n].fresh =>
                     /\ manager'[n].used <= recorded'[n]
                     /\ manager'[n].timer \in {"first", "due"} => manager'[n].used = recorded'[n]
               /\ ~manager'[n].fresh \/ manager'[n].pc \in {"new", "gone"} => recorded'[n] = 0
    <3>1. CASE n = m
      BY <2>2, <2>4, <2>6, <2>7, <3>1
    <3>2. CASE n # m
      BY <2>6, <3>2 DEF UsageInv, UsageIsThisMinutes
    <3> QED
      BY <3>1, <3>2
  <2> QED
    BY <2>8 DEF UsageInv, UsageIsThisMinutes
<1>2. CASE AcceptConnection(m, c) \/ Respond(m, c) \/ Forget(m, c)
  BY <1>2 DEF AcceptConnection, Respond, Forget, UsageInv, UsageIsThisMinutes
<1> QED
  BY <1>1, <1>2 DEF HandlerStep

LEMMA MinuteKeepsUsage == Typed /\ UsageInv /\ NewMinute => UsageInv'
<1> SUFFICES ASSUME Typed, UsageInv, NewMinute, NEW m \in Manager
             PROVE  /\ recorded'[m] = 0
                    /\ manager'[m].fresh => manager'[m].used = 0
  BY DEF UsageInv, UsageIsThisMinutes
<1>1. recorded'[m] = 0
  BY DEF NewMinute
<1>2. manager[m] \in ManagerState
  BY DEF Typed, TypeOK
<1>3. CASE manager[m].pc \in {"new", "gone"}
  <2>1. manager'[m] = manager[m]
    BY <1>3 DEF NewMinute
  <2> QED
    BY <1>1, <1>2, <1>3, <2>1 DEF UsageInv, UsageIsThisMinutes, ManagerState
<1>4. CASE manager[m].pc \notin {"new", "gone"}
  <2>1. ~manager'[m].fresh
    BY <1>2, <1>4 DEF NewMinute, ManagerState
  <2> QED
    BY <1>1, <2>1
<1> QED
  BY <1>3, <1>4

\* A manager counts in its minute what was recorded in this minute, and
\* until its ticker has reset a minute already begun, all of it.
THEOREM UsageExact == Spec => []UsageIsThisMinutes
<1>1. Typed /\ UsageInv /\ [Next]_vars => UsageInv'
  <2> SUFFICES ASSUME Typed, UsageInv, [Next]_vars PROVE UsageInv'
    OBVIOUS
  <2>1. CASE UNCHANGED vars
    BY <2>1 DEF UsageInv, UsageIsThisMinutes, vars
  <2>2. CASE Next
    BY <2>2, ClientKeepsUsage, ManagerKeepsUsage, HandlerKeepsUsage, MinuteKeepsUsage DEF Next
  <2> QED
    BY <2>1, <2>2
<1>2. UsageInv => UsageIsThisMinutes
  BY DEF UsageInv
<1> QED
  BY InitTyped, NextTyped, InitUsage, <1>1, <1>2, PTL DEF Spec

-----------------------------------------------------------------------------
(* Calls *)

\* Inductive, for each client: an unanswered command is on a connection whose
\* manager is there, and what has yet to be sent or obeyed has not been obeyed.
CallOK(c) ==
    /\ wire[c].at # "none" =>
          \/ client[c].pc = "read" /\ wire[c].to = client[c].call
          \/ client[c].pc = "gone"
    /\ handled[c] <= 1
    /\ client[c].pc = "read" /\ wire[c].at \in {"request", "handled"} => Linked(c)
    /\ client[c].pc \in Sending \cup {"new"} \/ wire[c].at = "request" => handled[c] = 0

CallInv == \A c \in Client : CallOK(c)

LEMMA InitCalls == Init => CallInv
<1> SUFFICES ASSUME Init, NEW c \in Client PROVE CallOK(c)
  BY DEF CallInv
<1>1. client[c].pc = "new" /\ wire[c].at = "none" /\ handled[c] = 0
  BY DEF Init, Nothing
<1> QED
  BY <1>1 DEF CallOK

\* A client whose call nobody touches.
LEMMA CallUntouched ==
    ASSUME NEW c \in Client, CallOK(c), Linked(c) => Linked(c)',
           client'[c] = client[c], wire'[c] = wire[c], handled'[c] = handled[c]
    PROVE  CallOK(c)'
  BY DEF CallOK

\* The client's steps: a command is only sent when nothing is on the wire.
LEMMA ClientKeepsCalls ==
    ASSUME Typed, CallInv, NEW c \in Client,
           \/ NewBackend(c) \/ ClientStep(c) \/ Close(c)
           \/ \E command \in Command : Call(c, command)
    PROVE  CallInv'
<1>1. ASSUME NEW d \in Client, d # c PROVE CallOK(d)'
  <2>1. client'[d] = client[d] /\ wire'[d] = wire[d] /\ handled'[d] = handled[d]
    BY <1>1 DEF Typed, TypeOK, NewBackend, ClientStep, Close, Call, Dial, DialFails, StartManager,
                StartManagerFails, Send, SendFails, Read, ReadFails, Goto, Return
  <2>2. \A m \in Manager : open[m] \subseteq open'[m]
    BY DEF Typed, TypeOK, NewBackend, ClientStep, Close, Call, Dial, DialFails, StartManager,
           StartManagerFails, Send, SendFails, Read, ReadFails
  <2>3. Linked(d) => Linked(d)'
    BY <2>1, <2>2 DEF Linked, Typed, TypeOK, ClientState
  <2> QED
    BY <2>1, <2>3, CallUntouched DEF CallInv
<1> SUFFICES CallOK(c)'
  BY <1>1 DEF CallInv
<1>2. CallOK(c)
  BY DEF CallInv
<1>3. client[c] \in ClientState /\ wire[c] \in Exchange
  BY DEF Typed, TypeOK
<1>4. CASE NewBackend(c) \/ DialFails(c) \/ StartManagerFails(c) \/ SendFails(c)
  <2>1. /\ client[c].pc \notin {"read", "gone"} /\ client'[c].pc \notin {"read", "new"}
        /\ client'[c].pc \in Sending => client[c].pc \in Sending \cup {"new"}
        /\ UNCHANGED <<wire, handled>>
    BY <1>3, <1>4 DEF Typed, TypeOK, NewBackend, DialFails, StartManagerFails, SendFails, Goto,
                      Return, ClientState, Sending
  <2> QED
    BY <1>2, <2>1 DEF CallOK, Typed, TypeOK, Exchange
<1>5. CASE Dial(c) \/ \E m \in Manager : StartManager(c, m)
  <2>1. /\ client[c].pc \in Sending /\ client'[c].pc \in Sending \cup {"idle"}
        /\ UNCHANGED <<wire, handled>>
    BY <1>3, <1>5 DEF Typed, TypeOK, Dial, StartManager, Goto, Return, ClientState, Sending
  <2> QED
    BY <1>2, <2>1 DEF CallOK, Sending
<1>6. CASE Send(c)
  <2>1. /\ client[c].pc \in {"send", "retry"} /\ client'[c] = [client[c] EXCEPT !.pc = "read"]
        /\ wire'[c] = [at |-> "request", to |-> client[c].call, left |-> 0]
        /\ Linked(c) /\ UNCHANGED <<open, handled>>
    BY <1>6 DEF Send, Goto, Typed, TypeOK
  <2>2. client'[c].pc = "read" /\ client'[c].call = client[c].call
        /\ client'[c].conn = client[c].conn
    BY <1>3, <2>1 DEF ClientState
  <2>3. handled[c] = 0
    BY <1>2, <2>1 DEF CallOK, Sending
  <2> QED
    BY <2>1, <2>2, <2>3 DEF CallOK, Linked
<1>7. CASE Read(c)
  <2>1. client'[c].pc = "idle" /\ wire'[c].at = "none" /\ UNCHANGED handled
    BY <1>7 DEF Read, Return, Nothing, Typed, TypeOK
  <2> QED
    BY <1>2, <2>1 DEF CallOK, Sending
<1>8. CASE ReadFails(c)
  <2>1. client'[c].pc = "idle" /\ UNCHANGED <<wire, handled>>
    BY <1>8 DEF ReadFails, Return, Typed, TypeOK
  <2>2. wire[c].at = "none"
    BY <1>2, <1>3, <1>8 DEF ReadFails, CallOK, Exchange
  <2> QED
    BY <1>2, <2>1, <2>2 DEF CallOK, Sending
<1>9. CASE Close(c)
  <2>1. client'[c].pc = "gone" /\ UNCHANGED handled
        /\ (wire'[c] = wire[c] \/ wire'[c].at = "none")
    BY <1>9 DEF Close, Nothing, Typed, TypeOK
  <2> QED
    BY <1>2, <2>1 DEF CallOK, Sending
<1>10. ASSUME NEW command \in Command, Call(c, command) PROVE CallOK(c)'
  <2>1. /\ client[c].pc = "idle" /\ client'[c].pc = "send" /\ handled'[c] = 0 /\ UNCHANGED wire
    BY <1>3, <1>10 DEF Call, Typed, TypeOK, ClientState
  <2> QED
    BY <1>2, <2>1 DEF CallOK
<1> QED
  BY <1>4, <1>5, <1>6, <1>7, <1>8, <1>9, <1>10 DEF ClientStep

\* When ends of connections close, the commands on them are dropped.
LEMMA BreakKeepsCalls ==
    ASSUME Typed, CallInv, NEW cs \in SUBSET Client, Break(cs),
           \A m \in Manager : open[m] \ cs \subseteq open'[m], UNCHANGED <<client, handled>>
    PROVE  CallInv'
<1> SUFFICES ASSUME NEW c \in Client PROVE CallOK(c)'
  BY DEF CallInv
<1>1. CallOK(c)
  BY DEF CallInv
<1>2. CASE c \in cs /\ wire[c].at # "reply"
  <2>1. wire'[c].at = "none"
    BY <1>2 DEF Break, Nothing
  <2> QED
    BY <1>1, <2>1 DEF CallOK
<1>3. CASE c \in cs /\ wire[c].at = "reply"
  <2>1. wire'[c] = wire[c]
    BY <1>3 DEF Break
  <2> QED
    BY <1>1, <1>3, <2>1 DEF CallOK
<1>4. CASE c \notin cs
  <2>1. wire'[c] = wire[c]
    BY <1>4 DEF Break
  <2>2. Linked(c) => Linked(c)'
    BY <1>4 DEF Linked, Typed, TypeOK, ClientState
  <2> QED
    BY <1>1, <2>1, <2>2, CallUntouched
<1> QED
  BY <1>2, <1>3, <1>4

\* The manager's own steps: it may lose connections, and answers nobody.
LEMMA ManagerKeepsCalls ==
    ASSUME Typed, CallInv, NEW m \in Manager,
           ManagerStep(m) \/ ResetMinute(m) \/ Kill(m)
    PROVE  CallInv'
<1>1. CASE UNCHANGED <<open, client, wire, handled>>
  BY <1>1 DEF CallInv, CallOK, Linked
<1>2. CASE ListenFails(m) \/ StartFails(m) \/ Kill(m) \/ Exit(m)
  <2>1. Break(open[m]) /\ UNCHANGED <<client, handled>>
        /\ \A n \in Manager : open[n] \ open[m] \subseteq open'[n]
    BY <1>2 DEF ListenFails, StartFails, Kill, Exit, Ends, Typed, TypeOK
  <2> QED
    BY <2>1, BreakKeepsCalls DEF Typed, TypeOK
<1>3. CASE CloseListener(m)
  <2>1. Break(open[m] \ accepted[m]) /\ UNCHANGED <<client, handled>>
        /\ \A n \in Manager : open[n] \ (open[m] \ accepted[m]) \subseteq open'[n]
    BY <1>3 DEF CloseListener, Typed, TypeOK
  <2>2. open[m] \ accepted[m] \in SUBSET Client
    BY DEF Typed, TypeOK
  <2> QED
    BY <2>1, <2>2, BreakKeepsCalls
<1> QED
  BY <1>1, <1>2, <1>3 DEF ManagerStep, RemoveSocket, Listen, Start, MonitorIdle, MonitorStops,
                          ResetMinute

\* A command is obeyed when it is taken off the wire, and answered after.
LEMMA HandlerKeepsCalls ==
    ASSUME Typed, CallInv, NEW m \in Manager, NEW c \in Client, HandlerStep(m, c)
    PROVE  CallInv'
<1>1. ASSUME NEW d \in Client, d # c PROVE CallOK(d)'
  <2>1. client'[d] = client[d] /\ wire'[d] = wire[d] /\ handled'[d] = handled[d]
    BY <1>1 DEF Typed, TypeOK, HandlerStep, AcceptConnection, HandleCommand, Respond, Forget
  <2>2. \A n \in Manager : open[n] \ {c} \subseteq open'[n]
    BY DEF Typed, TypeOK, HandlerStep, AcceptConnection, HandleCommand, Respond, Forget
  <2>3. Linked(d) => Linked(d)'
    BY <1>1, <2>1, <2>2 DEF Linked, Typed, TypeOK, ClientState
  <2> QED
    BY <2>1, <2>3, CallUntouched DEF CallInv
<1> SUFFICES CallOK(c)'
  BY <1>1 DEF CallInv
<1>2. CallOK(c)
  BY DEF CallInv
<1>3. client[c] \in ClientState /\ wire[c] \in Exchange
  BY DEF Typed, TypeOK
<1>4. CASE AcceptConnection(m, c)
  BY <1>2, <1>4 DEF AcceptConnection, CallOK, Linked
<1>5. CASE HandleCommand(m, c)
  <2>1. /\ wire[c].at = "request" /\ handled'[c] = handled[c] + 1 /\ UNCHANGED <<client, open>>
        /\ \E left : wire'[c] = [wire[c] EXCEPT !.at = "handled", !.left = left]
    BY <1>5 DEF HandleCommand, Typed, TypeOK
  <2>2. wire'[c].at = "handled" /\ wire'[c].to = wire[c].to
    BY <1>3, <2>1 DEF Exchange
  <2>3. handled'[c] = 1 /\ client[c].pc \in {"read", "gone"}
    BY <1>2, <2>1 DEF CallOK
  <2> QED
    BY <1>2, <2>1, <2>2, <2>3 DEF CallOK, Linked, Sending
<1>6. CASE Respond(m, c)
  <2>1. wire[c].at = "handled" /\ UNCHANGED <<client, open, handled>>
    BY <1>6 DEF Respond
  <2>2. CASE client[c].conn = m
    <3>1. wire'[c].at = "reply" /\ wire'[c].to = wire[c].to
      BY <1>3, <1>6, <2>2 DEF Respond, Typed, TypeOK, Exchange
    <3> QED
      BY <1>2, <2>1, <3>1 DEF CallOK, Sending
  <2>3. CASE client[c].conn # m
    <3>1. wire'[c].at = "none"
      BY <1>6, <2>3 DEF Respond, Nothing, Typed, TypeOK
    <3> QED
      BY <1>2, <2>1, <3>1 DEF CallOK
  <2> QED
    BY <2>2, <2>3
<1>7. CASE Forget(m, c)
  <2>1. wire[c].at = "none" /\ UNCHANGED <<client, wire, handled>>
    BY <1>7 DEF Forget, Nothing
  <2> QED
    BY <1>2, <2>1 DEF CallOK
<1> QED
  BY <1>4, <1>5, <1>6, <1>7 DEF HandlerStep

\* However processes, managers and connections fail, each client's call is
\* where it can be.
LEMMA CallsKept == Spec => []CallInv
<1>1. Typed /\ CallInv /\ [Next]_vars => CallInv'
  <2> SUFFICES ASSUME Typed, CallInv, [Next]_vars PROVE CallInv'
    OBVIOUS
  <2>1. CASE UNCHANGED vars
    BY <2>1 DEF CallInv, CallOK, Linked, vars
  <2>2. CASE NewMinute
    BY <2>2 DEF CallInv, CallOK, Linked, NewMinute
  <2>3. CASE Next
    BY <2>2, <2>3, ClientKeepsCalls, ManagerKeepsCalls, HandlerKeepsCalls DEF Next
  <2> QED
    BY <2>1, <2>3
<1> QED
  BY InitTyped, NextTyped, InitCalls, <1>1, PTL DEF Spec

\* Whatever fails, a call is obeyed at most once.
THEOREM CallsExact == Spec => []HandledOnce
<1>1. CallInv => HandledOnce
  BY DEF CallInv, CallOK, HandledOnce
<1> QED
  BY CallsKept, <1>1, PTL

\* A reply is read by the call it answers, never by a later one.
THEOREM RepliesExact == Spec => []RepliesAnswerCalls
<1>1. CallInv => RepliesAnswerCalls
  BY DEF CallInv, CallOK, RepliesAnswerCalls
<1> QED
  BY CallsKept, <1>1, PTL
=============================================================================
