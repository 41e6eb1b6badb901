------------------------------ MODULE MCRequests ------------------------------
(* Two tasks of any kinds.  The client tries three times, a node twice; a  *)
(* duration has three bits, so that the third try's delay does not fit.    *)
EXTENDS Requests

CONSTANTS c1, c2

Kinds == (c1 :> Direct \cup NodeKind) @@ (c2 :> {"plain"})

Client == [MaxRetries |-> 2, BaseDelay |-> 2, MaxDelay |-> 3, BackoffMultiple |-> 2]
Retry  == [MaxRetries |-> 1, BaseDelay |-> 1, MaxDelay |-> 2, BackoffMultiple |-> 2]
=============================================================================
