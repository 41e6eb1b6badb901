---------------------------- MODULE MCPriorityQueue ----------------------------
(* Seven items, a heap of three full levels, with ties on every level.     *)
EXTENDS PriorityQueue

Priorities == <<1, 1, 2, 2, 3, 3, 4>>
=============================================================================
