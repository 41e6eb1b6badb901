------------------------------- MODULE MCGraph -------------------------------
(* A small graph for GraphProtocol and for the recursion of SubtreeRemoval. *)
EXTENDS SubtreeRemoval, TLC

CONSTANTS a, b, c, d

\* Two roots; c waits for a, named twice, and for b; d shares a with its parent.
Shared == (a :> <<>>) @@ (b :> <<>>) @@ (c :> <<a, b, a>>) @@ (d :> <<a, c>>)
=============================================================================
