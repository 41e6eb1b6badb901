------------------------------- MODULE MCTracker -------------------------------
(* Two processes that share a backend, nodes of one token, and a budget of *)
(* two tokens and one request: requests run out while tokens are left.     *)
EXTENDS ConsumptionTracker, TLC

CONSTANTS p, q, groq

Small == {[provider |-> groq, tokens |-> 1]}

Tokens   == groq :> 2
Requests == groq :> 1
=============================================================================
