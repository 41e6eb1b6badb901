-------------------------------- MODULE Backoff --------------------------------
(***************************************************************************)
(* The configuration of a retry and its delays: calculateDelay of          *)
(* retry.Config and of WorkNode, which compute the same.  A time.Duration  *)
(* is an integer of Width bits; the multiple is a whole number, for which  *)
(* the code's float64 arithmetic is exact up to the limits that matter.    *)
(***************************************************************************)
EXTENDS Integers

CONSTANT Width

ASSUME WidthAssumption == Width \in Nat \ {0}

Config == [MaxRetries : Nat, BaseDelay : Nat \ {0}, MaxDelay : Nat \ {0},
           BackoffMultiple : Nat \ {0}]

MaxDuration == 2 ^ (Width - 1) - 1
Duration    == (-MaxDuration - 1) .. MaxDuration

\* Go leaves the conversion of a float that no integer can hold to the
\* machine: amd64 gives the least integer, arm64 the greatest.
Converted(x) == IF x \in Duration THEN {x} ELSE {-MaxDuration - 1, MaxDuration}

Capped(d, cap) == IF d > cap THEN cap ELSE d

\* The delays that may follow the attempt of this number, counted from 0.
calculateDelay(config, attempt) ==
    {Capped(d, config.MaxDelay) :
        d \in Converted(config.BaseDelay * config.BackoffMultiple ^ attempt)}
=============================================================================
