----------------------------- MODULE MCUnixSocket -----------------------------
(* Few processes and managers, none of which is special. *)
EXTENDS UnixSocketBackend, TLC

Interchangeable == Permutations(Client) \cup Permutations(Manager)
=============================================================================
