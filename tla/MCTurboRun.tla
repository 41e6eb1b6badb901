------------------------------ MODULE MCTurboRun ------------------------------
(* Small engines: graphs, priorities and client programs. *)
EXTENDS TurboRunProperties, TLC

CONSTANTS
    a, b, c, d,   \* nodes
    v, w,         \* workers
    p, q          \* clients

-----------------------------------------------------------------------------
(* Graphs *)

\* b and c wait for a, d for both.
Diamond == (a :> <<>>) @@ (b :> <<a>>) @@ (c :> <<a>>) @@ (d :> <<b, c>>)

\* c waits for a and for b.
Join == (a :> <<>>) @@ (b :> <<>>) @@ (c :> <<a, b>>)

\* b waits for a; c is alone.
PairAndOne == (a :> <<>>) @@ (b :> <<a>>) @@ (c :> <<>>)

Size4 == (a :> 1) @@ (b :> 2) @@ (c :> 2) @@ (d :> 1)
Size3 == (a :> 1) @@ (b :> 2) @@ (c :> 2)

-----------------------------------------------------------------------------
(* Client programs *)

Pushes(order) == [i \in DOMAIN order |-> <<"push", order[i]>>]

\* The way the tests use the engine: push everything, start it, wait.
DiamondThenStart == p :> Pushes(<<a, b, c, d>>) \o << <<"start">>, <<"wait", d>> >>

JoinThenStart == p :> Pushes(<<a, b, c>>) \o << <<"start">>, <<"wait", c>> >>

\* q pauses and resumes while p submits, starts, asks for the stats and waits.
PauseAndResume ==
    (p :> Pushes(<<a, b>>) \o << <<"start">>, <<"stats">>, <<"wait", b>>, <<"push", c>> >>)
      @@ (q :> << <<"pause">>, <<"start">> >>)

\* One client submits, starts and submits more; the other resets and stops
\* the engine, at any time.
ResetAndStop ==
    (p :> Pushes(<<a, b>>) \o << <<"start">>, <<"push", c>> >>)
      @@ (q :> << <<"reset">>, <<"stop">> >>)

\* The engine is started first.
StartThenPush == p :> << <<"start">> >> \o Pushes(<<a, b>>)

\* Five nodes on their own, and q asks for the stats.
Alone5 == [n \in 1 .. 5 |-> <<>>]
Size5 == [n \in 1 .. 5 |-> n]

StatsMeanwhile ==
    (p :> << <<"start">> >> \o Pushes([i \in 1 .. 5 |-> i])) @@ (q :> << <<"stats">> >>)
=============================================================================
