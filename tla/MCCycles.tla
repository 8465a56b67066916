------------------------------- MODULE MCCycles -------------------------------
(* Every graph over a few nodes, with each order of the edges and repeats. *)
EXTENDS CycleSearch

CONSTANT MaxDegree

ListsUpTo == UNION {[1..d -> Nodes] : d \in 0..MaxDegree}

=============================================================================
