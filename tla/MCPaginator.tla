----------------------------- MODULE MCPaginator -----------------------------
(* Values of Paginator's constants for TLC: up to four pages, any of them   *)
(* empty.                                                                   *)
EXTENDS Paginator

MCLists == UNION {[1..n -> 0..2] : n \in 1..4}
=============================================================================
