------------------------------ MODULE CycleSearch -----------------------------
(***************************************************************************)
(* detect_cycles (graph_algorithms.py): the depth-first walk behind the     *)
(* cycle check of a task DAG and of the BLOCKED_BY edges between jobs.  A   *)
(* node is WHITE until the walk comes to it, GRAY while it is on the path,  *)
(* BLACK once all its neighbors are done; an edge to a GRAY node closes a   *)
(* cycle.                                                                   *)
(*                                                                          *)
(* The calls of `visit` in progress are the nodes of `path`; `at` is how    *)
(* far each has come in its loop over its neighbors.  The order of the keys *)
(* is the order the caller's edges came in, so any key may be next.         *)
(***************************************************************************)
EXTENDS Naturals, Sequences

CONSTANTS Nodes,
          Lists    \* the lists of neighbors a node may have

ASSUME SearchAssumption == Lists \subseteq Seq(Nodes)

VARIABLES adjacency,  \* the neighbors of each node; a key is a node with some
          color,
          path,
          at,         \* the next place in the neighbor list of each node
          cycles      \* the result so far

vars == <<adjacency, color, path, at, cycles>>

Colors == {"white", "gray", "black"}
Keys == {n \in Nodes : adjacency[n] # <<>>}
Edge(n, m) == \E i \in DOMAIN adjacency[n] : adjacency[n][i] = m

-----------------------------------------------------------------------------
Top == path[Len(path)]
Running == path # <<>>
Exhausted == at[Top] > Len(adjacency[Top])
Neighbor == adjacency[Top][at[Top]]

Init ==
  /\ adjacency \in [Nodes -> Lists]
  /\ color = [n \in Nodes |-> "white"]
  /\ path = <<>>
  /\ at = [n \in Nodes |-> 1]
  /\ cycles = {}

\* visit(n) begins.
Enter(n) ==
  /\ color' = [color EXCEPT ![n] = "gray"]
  /\ path' = Append(path, n)

VisitKey(n) ==
  /\ ~Running
  /\ n \in Keys /\ color[n] = "white"
  /\ Enter(n)
  /\ UNCHANGED <<adjacency, at, cycles>>

\* Mutant: only an edge back to the node itself closes a cycle.
ClosesSelfOnly == Neighbor = Top

Closes == color[Neighbor] = "gray"

\* Mutant: the cycle is taken to start where the path does.
FoundFromRoot == path \o <<Neighbor>>

\* path[cycle_start:] + [neighbor]
Found == SubSeq(path, CHOOSE i \in DOMAIN path : path[i] = Neighbor, Len(path))
           \o <<Neighbor>>

\* One turn of the loop over the neighbors.
NextNeighbor ==
  /\ Running /\ ~Exhausted
  /\ at' = [at EXCEPT ![Top] = @ + 1]
  /\ IF color[Neighbor] = "white" THEN Enter(Neighbor) ELSE UNCHANGED <<color, path>>
  /\ cycles' = IF Closes THEN cycles \cup {Found} ELSE cycles
  /\ UNCHANGED adjacency

Leave ==
  /\ Running /\ Exhausted
  /\ path' = SubSeq(path, 1, Len(path) - 1)
  /\ color' = [color EXCEPT ![Top] = "black"]
  /\ UNCHANGED <<adjacency, at, cycles>>

Next == NextNeighbor \/ Leave \/ \E n \in Nodes : VisitKey(n)

Spec == Init /\ [][Next]_vars

-----------------------------------------------------------------------------
Done == ~Running /\ \A n \in Keys : color[n] # "white"

SearchTypeOK ==
  /\ adjacency \in [Nodes -> Lists]
  /\ color \in [Nodes -> Colors]
  /\ path \in Seq(Nodes)
  /\ at \in [Nodes -> Nat \ {0}]
  /\ cycles \subseteq Seq(Nodes)

\* A node is GRAY exactly while it is on the path, and on it once: what makes an edge to
\* a GRAY node close a cycle and path.index find where it starts.
PathIsGray ==
  /\ \A n \in Nodes : color[n] = "gray" <=> \E i \in DOMAIN path : path[i] = n
  /\ \A i, j \in DOMAIN path : path[i] = path[j] => i = j

\* What a deadlock is: nodes each of which waits for one of them.
HasCycle == \E S \in SUBSET Nodes : S # {} /\ \A n \in S : \E m \in S : Edge(n, m)

\* The search is over with nothing found just when nothing could deadlock.  It looks at
\* every node once, from whatever key it starts, so a cycle must show even when the walk
\* enters it from outside or has left its nodes behind.
FindsDeadlocks == Done => (cycles = {} <=> ~HasCycle)

\* Each cycle reported is one: it follows edges and ends where it began.
CyclesAreReal ==
  \A cycle \in cycles :
    /\ Len(cycle) > 1 /\ cycle[1] = cycle[Len(cycle)]
    /\ \A i \in 1..Len(cycle) - 1 : Edge(cycle[i], cycle[i + 1])

=============================================================================
