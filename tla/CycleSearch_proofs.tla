-------------------------- MODULE CycleSearch_proofs --------------------------
(***************************************************************************)
(* The cycle search is right on every graph: it reports a cycle just when   *)
(* there is one.  What it reports is a cycle because the path follows       *)
(* edges.  That it misses none rests on Explored: while nothing has been    *)
(* reported, the neighbors a node is done with are BLACK or further down    *)
(* the path; so a node is BLACK only after all its neighbors, and no set of *)
(* BLACK nodes can wait for itself.                                         *)
(***************************************************************************)
EXTENDS CycleSearch, SequenceTheorems, FiniteSetTheorems, TLAPS

PathFollows == \A i \in 1..Len(path) - 1 : Edge(path[i], path[i + 1])

Below(n, m) == \E i, k \in DOMAIN path : i < k /\ path[i] = n /\ path[k] = m
Explored ==
  \A n \in Nodes : \A j \in DOMAIN adjacency[n] :
    j < at[n] => color[adjacency[n][j]] = "black" \/ Below(n, adjacency[n][j])
BlackAfterNeighbors ==
  \A n \in Nodes : color[n] = "black" =>
    \A j \in DOMAIN adjacency[n] : color[adjacency[n][j]] = "black"
Waiting(S) == S # {} /\ \A n \in S : color[n] = "black" /\ \E m \in S : Edge(n, m)
NoBlackCycle == ~\E S \in SUBSET Nodes : Waiting(S)

Walk == SearchTypeOK /\ PathIsGray /\ PathFollows
Clean == cycles = {} => Explored /\ BlackAfterNeighbors /\ NoBlackCycle

-----------------------------------------------------------------------------
\* Neighbors are nodes, and an edge is a place in a list of neighbors.
LEMMA ListsAreTyped ==
  ASSUME adjacency \in [Nodes -> Lists]
  PROVE \A n \in Nodes : /\ adjacency[n] \in Seq(Nodes)
                         /\ DOMAIN adjacency[n] = 1..Len(adjacency[n])
                         /\ Len(adjacency[n]) \in Nat
                         /\ \A j \in DOMAIN adjacency[n] : adjacency[n][j] \in Nodes
  BY SearchAssumption

\* Where a turn of the loop is: a node of the path and one of its neighbors.
LEMMA TurnIsTyped ==
  ASSUME SearchTypeOK, Running
  PROVE /\ Len(path) \in Nat \ {0} /\ DOMAIN path = 1..Len(path)
        /\ \A i \in DOMAIN path : path[i] \in Nodes
        /\ Top \in Nodes
        /\ ~Exhausted => at[Top] \in DOMAIN adjacency[Top] /\ Neighbor \in Nodes
  <1>1. Len(path) \in Nat \ {0} /\ DOMAIN path = 1..Len(path)
        /\ \A i \in DOMAIN path : path[i] \in Nodes
    BY DEF SearchTypeOK, Running
  <1>2. Top \in Nodes
    BY <1>1 DEF Top
  <1>3. ASSUME ~Exhausted PROVE at[Top] \in DOMAIN adjacency[Top] /\ Neighbor \in Nodes
    BY <1>2, <1>3, ListsAreTyped DEF SearchTypeOK, Exhausted, Neighbor
  <1> QED BY <1>1, <1>2, <1>3

\* A place the loop has come to is an edge.
LEMMA TurnIsEdge ==
  ASSUME SearchTypeOK, Running, ~Exhausted
  PROVE Edge(Top, Neighbor)
  BY TurnIsTyped DEF Edge, Neighbor

\* Where the cycle that is being closed begins on the path.
LEMMA StartsOnPath ==
  ASSUME SearchTypeOK, PathIsGray, Running, ~Exhausted, Closes
  PROVE \E s \in DOMAIN path : /\ path[s] = Neighbor
                               /\ Found = SubSeq(path, s, Len(path)) \o <<Neighbor>>
  <1>1. \E i \in DOMAIN path : path[i] = Neighbor
    BY TurnIsTyped DEF PathIsGray, Closes
  <1> DEFINE s == CHOOSE i \in DOMAIN path : path[i] = Neighbor
  <1>2. s \in DOMAIN path /\ path[s] = Neighbor
    BY <1>1
  <1> QED BY <1>2 DEF Found

\* What SubSeq and \o make of it, place by place.
LEMMA FoundIsTyped ==
  ASSUME SearchTypeOK, PathIsGray, Running, ~Exhausted, Closes
  PROVE /\ Found \in Seq(Nodes)
        /\ \E s \in DOMAIN path :
             /\ path[s] = Neighbor
             /\ Len(Found) = Len(path) - s + 2
             /\ \A i \in 1..Len(path) - s + 1 : Found[i] = path[s + i - 1]
             /\ Found[Len(path) - s + 2] = Neighbor
  <1>1. PICK s \in DOMAIN path : /\ path[s] = Neighbor
                                 /\ Found = SubSeq(path, s, Len(path)) \o <<Neighbor>>
    BY StartsOnPath
  <1> DEFINE tail == SubSeq(path, s, Len(path))
  <1>2. s \in 1..Len(path) /\ Len(path) \in Nat /\ path \in Seq(Nodes) /\ Neighbor \in Nodes
    BY <1>1, TurnIsTyped DEF SearchTypeOK
  <1>3. tail \in Seq(Nodes) /\ Len(tail) = Len(path) - s + 1
        /\ \A i \in 1..Len(path) - s + 1 : tail[i] = path[s + i - 1]
    BY <1>2
  <1>4. /\ tail \o <<Neighbor>> \in Seq(Nodes)
        /\ Len(tail \o <<Neighbor>>) = Len(path) - s + 2
        /\ \A i \in 1..Len(path) - s + 1 : (tail \o <<Neighbor>>)[i] = tail[i]
        /\ (tail \o <<Neighbor>>)[Len(path) - s + 2] = Neighbor
    <2> DEFINE last == <<Neighbor>>
    <2>1. last \in Seq(Nodes) /\ Len(last) = 1 /\ last[1] = Neighbor
      BY <1>2
    <2> HIDE DEF tail, last
    <2>2. /\ tail \o last \in Seq(Nodes) /\ Len(tail \o last) = Len(tail) + Len(last)
          /\ \A i \in 1..Len(tail) : (tail \o last)[i] = tail[i]
          /\ (tail \o last)[Len(tail) + 1] = last[1]
      <3>1. /\ tail \o last \in Seq(Nodes) /\ Len(tail \o last) = Len(tail) + Len(last)
            /\ \A i \in 1..Len(tail) + Len(last) :
                 (tail \o last)[i] = IF i <= Len(tail) THEN tail[i] ELSE last[i - Len(tail)]
        BY <1>3, <2>1, ConcatProperties
      <3>2. Len(tail) \in Nat /\ 1..Len(tail) \subseteq 1..Len(tail) + Len(last)
        BY <1>3, <2>1
      <3> QED BY <2>1, <3>1, <3>2
    <2>3. Len(tail) + 1 = Len(path) - s + 2
      BY <1>2, <1>3
    <2>4. /\ tail \o last \in Seq(Nodes) /\ Len(tail \o last) = Len(path) - s + 2
          /\ \A i \in 1..Len(path) - s + 1 : (tail \o last)[i] = tail[i]
          /\ (tail \o last)[Len(path) - s + 2] = Neighbor
      BY <1>3, <2>1, <2>2, <2>3
    <2> QED BY <2>4 DEF last
  <1> QED BY <1>1, <1>3, <1>4

-----------------------------------------------------------------------------
\* Init establishes the type invariant.
LEMMA TypedFirst == Init => SearchTypeOK
  BY DEF Init, SearchTypeOK, Colors

\* Each action keeps it.
LEMMA TypedNext == SearchTypeOK /\ PathIsGray /\ [Next]_vars => SearchTypeOK'
  <1> SUFFICES ASSUME SearchTypeOK, PathIsGray, [Next]_vars PROVE SearchTypeOK'
    OBVIOUS
  <1>1. CASE NextNeighbor
    <2>1. Running /\ ~Exhausted
      BY <1>1 DEF NextNeighbor
    <2>2. color' \in [Nodes -> Colors] /\ path' \in Seq(Nodes)
      <3>1. Neighbor \in Nodes
        BY <2>1, TurnIsTyped
      <3>2. CASE color[Neighbor] = "white"
        <4>1. Enter(Neighbor)
          BY <1>1, <3>2 DEF NextNeighbor
        <4> QED BY <3>1, <4>1 DEF Enter, SearchTypeOK, Colors
      <3>3. CASE color[Neighbor] # "white"
        BY <1>1, <3>3 DEF NextNeighbor, SearchTypeOK
      <3> QED BY <3>2, <3>3
    <2>3. at' \in [Nodes -> Nat \ {0}]
      BY <1>1, <2>1, TurnIsTyped DEF NextNeighbor, SearchTypeOK
    <2>4. cycles' \subseteq Seq(Nodes)
      BY <1>1, <2>1, FoundIsTyped DEF NextNeighbor, SearchTypeOK
    <2> QED BY <1>1, <2>2, <2>3, <2>4 DEF NextNeighbor, SearchTypeOK
  <1>2. CASE Leave
    BY <1>2, TurnIsTyped DEF Leave, SearchTypeOK, Colors
  <1>3. ASSUME NEW n \in Nodes, VisitKey(n) PROVE SearchTypeOK'
    BY <1>3 DEF VisitKey, Enter, SearchTypeOK, Colors
  <1>4. CASE UNCHANGED vars
    BY <1>4 DEF vars, SearchTypeOK
  <1> QED BY <1>1, <1>2, <1>3, <1>4 DEF Next

-----------------------------------------------------------------------------
\* Places of the path once a node is put on it, or taken off.
LEMMA Pushed ==
  ASSUME SearchTypeOK, NEW n \in Nodes, Enter(n)
  PROVE /\ Len(path) \in Nat /\ DOMAIN path = 1..Len(path)
        /\ Len(path') = Len(path) + 1 /\ DOMAIN path' = 1..Len(path) + 1
        /\ path'[Len(path) + 1] = n
        /\ \A i \in 1..Len(path) : path'[i] = path[i]
        /\ \A m \in Nodes : color'[m] = IF m = n THEN "gray" ELSE color[m]
  BY DEF SearchTypeOK, Enter

LEMMA Popped ==
  ASSUME SearchTypeOK, Leave
  PROVE /\ Len(path) \in Nat \ {0} /\ DOMAIN path = 1..Len(path)
        /\ Len(path') = Len(path) - 1 /\ DOMAIN path' = 1..Len(path) - 1
        /\ \A i \in 1..Len(path) - 1 : path'[i] = path[i]
        /\ \A m \in Nodes : color'[m] = IF m = Top THEN "black" ELSE color[m]
  <1>1. Len(path) \in Nat \ {0} /\ DOMAIN path = 1..Len(path) /\ path \in Seq(Nodes)
    BY TurnIsTyped DEF Leave, SearchTypeOK
  <1>2. path' = SubSeq(path, 1, Len(path) - 1)
    BY DEF Leave
  <1>3. /\ Len(path') = Len(path) - 1 /\ DOMAIN path' = 1..Len(path) - 1
        /\ \A i \in 1..Len(path) - 1 : path'[i] = path[i]
    BY <1>1, <1>2
  <1>4. \A m \in Nodes : color'[m] = IF m = Top THEN "black" ELSE color[m]
    BY DEF SearchTypeOK, Leave
  <1> QED BY <1>1, <1>3, <1>4

\* Only a WHITE node is put on the path, so none is there twice.
LEMMA PushKeeps ==
  ASSUME SearchTypeOK, PathIsGray, NEW n \in Nodes, color[n] = "white", Enter(n)
  PROVE PathIsGray'
  <1> DEFINE last == Len(path) + 1
  <1>1. \A m \in Nodes : color'[m] = "gray" <=> m = n \/ color[m] = "gray"
    BY Pushed
  <1>2. \A m \in Nodes : (\E i \in DOMAIN path' : path'[i] = m)
                         <=> m = n \/ \E i \in DOMAIN path : path[i] = m
    <2> SUFFICES ASSUME NEW m \in Nodes
                 PROVE (\E i \in DOMAIN path' : path'[i] = m)
                         <=> m = n \/ \E i \in DOMAIN path : path[i] = m
      OBVIOUS
    <2>1. last \in DOMAIN path' /\ path'[last] = n
      BY Pushed
    <2>2. \A i \in DOMAIN path : i \in DOMAIN path' /\ path'[i] = path[i]
      BY Pushed
    <2>3. \A i \in DOMAIN path' : i = last \/ i \in DOMAIN path
      BY Pushed
    <2> QED BY <2>1, <2>2, <2>3
  <1>3. \A i \in DOMAIN path : path[i] \in Nodes /\ path[i] # n
    BY DEF SearchTypeOK, PathIsGray
  <1>4. \A i, j \in DOMAIN path' : path'[i] = path'[j] => i = j
    BY <1>3, Pushed DEF PathIsGray
  <1> QED BY <1>1, <1>2, <1>4 DEF PathIsGray

\* A node that is left is the last of the path and only there.
LEMMA LeaveKeeps ==
  ASSUME SearchTypeOK, PathIsGray, Leave
  PROVE PathIsGray'
  <1>1. Running /\ Top \in Nodes /\ Len(path) \in DOMAIN path /\ path[Len(path)] = Top
    BY TurnIsTyped DEF Leave, Top
  <1>2. \A m \in Nodes : color'[m] = "gray" <=> m # Top /\ color[m] = "gray"
    BY Popped
  <1>3. \A i \in DOMAIN path : i = Len(path) \/ (i \in DOMAIN path' /\ path'[i] = path[i])
    BY Popped
  <1>4. \A i \in DOMAIN path' : i \in DOMAIN path /\ path'[i] = path[i] /\ i # Len(path)
    BY Popped
  <1>5. \A m \in Nodes : (\E i \in DOMAIN path' : path'[i] = m)
                         <=> m # Top /\ \E i \in DOMAIN path : path[i] = m
    BY <1>1, <1>3, <1>4 DEF PathIsGray
  <1>6. \A i, j \in DOMAIN path' : path'[i] = path'[j] => i = j
    BY <1>4 DEF PathIsGray
  <1> QED BY <1>2, <1>5, <1>6 DEF PathIsGray

LEMMA PathIsGrayNext == SearchTypeOK /\ PathIsGray /\ [Next]_vars => PathIsGray'
  <1> SUFFICES ASSUME SearchTypeOK, PathIsGray, [Next]_vars PROVE PathIsGray'
    OBVIOUS
  <1>1. CASE NextNeighbor
    <2>1. CASE color[Neighbor] = "white"
      BY <1>1, <2>1, TurnIsTyped, PushKeeps DEF NextNeighbor
    <2>2. CASE color[Neighbor] # "white"
      BY <1>1, <2>2 DEF NextNeighbor, PathIsGray
    <2> QED BY <2>1, <2>2
  <1>2. CASE Leave
    BY <1>2, LeaveKeeps
  <1>3. ASSUME NEW n \in Nodes, VisitKey(n) PROVE PathIsGray'
    BY <1>3, PushKeeps DEF VisitKey
  <1>4. CASE UNCHANGED vars
    BY <1>4 DEF vars, PathIsGray
  <1> QED BY <1>1, <1>2, <1>3, <1>4 DEF Next

\* Each node of the path was reached over an edge from the one before.
LEMMA PathFollowsNext ==
  SearchTypeOK /\ PathIsGray /\ PathFollows /\ [Next]_vars => PathFollows'
  <1> SUFFICES ASSUME SearchTypeOK, PathFollows, [Next]_vars PROVE PathFollows'
    OBVIOUS
  <1>1. CASE NextNeighbor
    <2>1. adjacency' = adjacency
      BY <1>1 DEF NextNeighbor
    <2>2. CASE color[Neighbor] = "white"
      <3>1. Enter(Neighbor) /\ Neighbor \in Nodes /\ Edge(Top, Neighbor) /\ Len(path) # 0
        BY <1>1, <2>2, TurnIsTyped, TurnIsEdge DEF NextNeighbor
      <3>2. \A i \in 1..Len(path) : Edge(path'[i], path'[i + 1])
        <4> SUFFICES ASSUME NEW i \in 1..Len(path) PROVE Edge(path'[i], path'[i + 1])
          OBVIOUS
        <4>1. CASE i = Len(path)
          BY <3>1, <4>1, Pushed DEF Top
        <4>2. CASE i # Len(path)
          <5>1. i \in 1..Len(path) - 1 /\ i + 1 \in 1..Len(path)
            BY <4>2, Pushed, <3>1
          <5> QED BY <3>1, <5>1, Pushed DEF PathFollows
        <4> QED BY <4>1, <4>2
      <3>3. Len(path') - 1 = Len(path)
        BY <3>1, Pushed
      <3> QED BY <2>1, <3>2, <3>3 DEF PathFollows, Edge
    <2>3. CASE color[Neighbor] # "white"
      BY <1>1, <2>1, <2>3 DEF NextNeighbor, PathFollows, Edge
    <2> QED BY <2>2, <2>3
  <1>2. CASE Leave
    <2>1. adjacency' = adjacency
      BY <1>2 DEF Leave
    <2>2. \A i \in 1..Len(path') - 1 : /\ i \in 1..Len(path) - 1
                                      /\ path'[i] = path[i] /\ path'[i + 1] = path[i + 1]
      BY <1>2, Popped
    <2> QED BY <2>1, <2>2 DEF PathFollows, Edge
  <1>3. ASSUME NEW n \in Nodes, VisitKey(n) PROVE PathFollows'
    <2>1. Len(path) = 0 /\ Enter(n)
      BY <1>3 DEF VisitKey, Running, SearchTypeOK
    <2>2. Len(path') = 1
      BY <2>1, Pushed
    <2>3. 1..Len(path') - 1 = {}
      BY <2>2
    <2> QED BY <2>3 DEF PathFollows
  <1>4. CASE UNCHANGED vars
    BY <1>4 DEF vars, PathFollows, Edge
  <1> QED BY <1>1, <1>2, <1>3, <1>4 DEF Next

\* A cycle that is reported follows the path from where it starts, then the edge that
\* closes it.
LEMMA FoundIsReal ==
  ASSUME SearchTypeOK, PathIsGray, PathFollows, Running, ~Exhausted, Closes
  PROVE /\ Len(Found) > 1 /\ Found[1] = Found[Len(Found)]
        /\ \A i \in 1..Len(Found) - 1 : Edge(Found[i], Found[i + 1])
  <1>1. PICK s \in DOMAIN path :
          /\ path[s] = Neighbor
          /\ Len(Found) = Len(path) - s + 2
          /\ \A i \in 1..Len(path) - s + 1 : Found[i] = path[s + i - 1]
          /\ Found[Len(path) - s + 2] = Neighbor
    BY FoundIsTyped
  <1>2. Len(path) \in Nat \ {0} /\ s \in 1..Len(path)
    BY <1>1, TurnIsTyped
  <1>3. Len(Found) > 1
    BY <1>1, <1>2
  <1>4. Found[1] = Neighbor
    <2>1. 1 \in 1..Len(path) - s + 1 /\ s + 1 - 1 = s
      BY <1>2
    <2> QED BY <1>1, <2>1
  <1>5. ASSUME NEW i \in 1..Len(Found) - 1 PROVE Edge(Found[i], Found[i + 1])
    <2>0. Len(Found) - 1 = Len(path) - s + 1 /\ i \in 1..Len(path) - s + 1
      <3>1. Len(Found) = Len(path) - s + 2
        BY <1>1
      <3>2. Len(Found) - 1 = Len(path) - s + 1
        BY <1>2, <3>1
      <3> QED BY <1>5, <3>2
    <2>1. CASE i = Len(path) - s + 1
      <3>1. s + i - 1 = Len(path) /\ i + 1 = Len(path) - s + 2
        BY <1>2, <2>1
      <3>2. Found[i] = Top
        BY <1>1, <2>0, <3>1 DEF Top
      <3> QED BY <1>1, <3>1, <3>2, TurnIsEdge
    <2>2. CASE i # Len(path) - s + 1
      <3> DEFINE k == s + i - 1
      <3>1. /\ i \in 1..Len(path) - s + 1 /\ i + 1 \in 1..Len(path) - s + 1
            /\ k \in 1..Len(path) - 1 /\ s + (i + 1) - 1 = k + 1
        BY <1>2, <2>0, <2>2
      <3>2. Found[i] = path[k] /\ Found[i + 1] = path[k + 1]
        BY <1>1, <3>1
      <3> QED BY <3>1, <3>2 DEF PathFollows
    <2> QED BY <2>1, <2>2
  <1> QED BY <1>1, <1>3, <1>4, <1>5

LEMMA CyclesAreRealNext ==
  SearchTypeOK /\ PathIsGray /\ PathFollows /\ CyclesAreReal /\ [Next]_vars
    => CyclesAreReal'
  <1> SUFFICES ASSUME SearchTypeOK, PathIsGray, PathFollows, CyclesAreReal, [Next]_vars
               PROVE CyclesAreReal'
    OBVIOUS
  <1>1. adjacency' = adjacency
    BY DEF Next, NextNeighbor, Leave, VisitKey, vars
  <1>2. CASE NextNeighbor
    <2>1. CASE Closes
      <3>1. Running /\ ~Exhausted /\ cycles' = cycles \cup {Found}
        BY <1>2, <2>1 DEF NextNeighbor
      <3> QED BY <1>1, <2>1, <3>1, FoundIsReal DEF CyclesAreReal, Edge
    <2>2. CASE ~Closes
      <3>1. cycles' = cycles
        BY <1>2, <2>2 DEF NextNeighbor
      <3> QED BY <1>1, <3>1 DEF CyclesAreReal, Edge
    <2> QED BY <2>1, <2>2
  <1>3. CASE cycles' = cycles
    BY <1>1, <1>3 DEF CyclesAreReal, Edge
  <1> QED BY <1>2, <1>3 DEF Next, Leave, VisitKey, vars

-----------------------------------------------------------------------------
\* While nothing is reported, a turn of the loop meets no GRAY node.
LEMMA ExploredNext ==
  ASSUME SearchTypeOK, PathIsGray, Explored, [Next]_vars, cycles' = {}
  PROVE Explored'
  <1>1. SUFFICES ASSUME NEW n \in Nodes, NEW j \in DOMAIN adjacency[n], j < at'[n],
                        NEW m \in Nodes, m = adjacency[n][j]
                 PROVE color'[m] = "black" \/ Below(n, m)'
    <2>1. adjacency' = adjacency
      BY DEF Next, NextNeighbor, Leave, VisitKey, vars
    <2>2. \A n \in Nodes : \A j \in DOMAIN adjacency[n] : adjacency[n][j] \in Nodes
      BY ListsAreTyped DEF SearchTypeOK
    <2> QED BY <2>1, <2>2 DEF Explored
  <1>2. j < at[n] => color[m] = "black" \/ Below(n, m)
    BY <1>1 DEF Explored
  <1>3. CASE NextNeighbor
    <2>1. Running /\ ~Exhausted /\ Top \in Nodes /\ Neighbor \in Nodes
      BY <1>3, TurnIsTyped DEF NextNeighbor
    <2>2. ~Closes
      BY <1>3 DEF NextNeighbor
    <2>3. CASE color[Neighbor] = "white"
      <3>1. Enter(Neighbor)
        BY <1>3, <2>3 DEF NextNeighbor
      <3>2. color[m] = "black" => color'[m] = "black"
        BY <1>1, <2>1, <2>3, <3>1, Pushed
      <3>3. Below(n, m) => Below(n, m)'
        <4> SUFFICES ASSUME NEW i \in DOMAIN path, NEW k \in DOMAIN path,
                            i < k, path[i] = n, path[k] = m
                     PROVE Below(n, m)'
          BY DEF Below
        <4>1. /\ i \in DOMAIN path' /\ k \in DOMAIN path'
              /\ path'[i] = path[i] /\ path'[k] = path[k]
          BY <2>1, <3>1, Pushed
        <4> QED BY <4>1 DEF Below
      <3>4. CASE j < at[n]
        BY <1>2, <3>2, <3>3, <3>4
      <3>5. CASE ~(j < at[n])
        <4>1. n = Top /\ m = Neighbor
          <5>1. n = Top
            BY <1>1, <1>3, <3>5 DEF NextNeighbor, SearchTypeOK
          <5>2. at'[n] = at[n] + 1 /\ at[n] \in Nat /\ j \in Nat
            BY <1>3, <5>1, <2>1, ListsAreTyped DEF NextNeighbor, SearchTypeOK
          <5>3. j = at[n]
            BY <1>1, <3>5, <5>2
          <5> QED BY <1>1, <5>1, <5>3 DEF Neighbor
        <4>2. /\ Len(path) \in DOMAIN path' /\ Len(path) + 1 \in DOMAIN path'
              /\ Len(path) < Len(path) + 1
              /\ path'[Len(path)] = Top /\ path'[Len(path) + 1] = Neighbor
          BY <2>1, <3>1, TurnIsTyped, Pushed DEF Top
        <4> QED BY <4>1, <4>2 DEF Below
      <3> QED BY <3>4, <3>5
    <2>4. CASE color[Neighbor] # "white"
      <3>1. color' = color /\ path' = path
        BY <1>3, <2>4 DEF NextNeighbor
      <3>2. color[Neighbor] = "black"
        BY <2>1, <2>2, <2>4 DEF Closes, SearchTypeOK, Colors
      <3>3. CASE j < at[n]
        BY <1>2, <3>1, <3>3 DEF Below
      <3>4. CASE ~(j < at[n])
        <4>1. n = Top
          BY <1>1, <1>3, <3>4 DEF NextNeighbor, SearchTypeOK
        <4>2. at'[n] = at[n] + 1 /\ at[n] \in Nat /\ j \in Nat
          BY <1>3, <4>1, <2>1, ListsAreTyped DEF NextNeighbor, SearchTypeOK
        <4>3. j = at[n]
          BY <1>1, <3>4, <4>2
        <4> QED BY <1>1, <3>1, <3>2, <4>1, <4>3 DEF Neighbor
      <3> QED BY <3>3, <3>4
    <2> QED BY <2>3, <2>4
  <1>4. CASE Leave
    <2>1. color[m] = "black" \/ Below(n, m)
      BY <1>1, <1>2, <1>4 DEF Leave
    <2>2. color[m] = "black" => color'[m] = "black"
      BY <1>1, <1>4, Popped
    <2>3. ASSUME Below(n, m) PROVE color'[m] = "black" \/ Below(n, m)'
      <3>1. PICK i, k \in DOMAIN path : i < k /\ path[i] = n /\ path[k] = m
        BY <2>3 DEF Below
      <3>2. CASE k = Len(path)
        BY <1>1, <1>4, <3>1, <3>2, Popped DEF Top
      <3>3. CASE k # Len(path)
        <4>1. /\ i \in DOMAIN path' /\ k \in DOMAIN path'
              /\ path'[i] = path[i] /\ path'[k] = path[k]
          BY <1>4, <3>1, <3>3, Popped
        <4> QED BY <3>1, <4>1 DEF Below
      <3> QED BY <3>2, <3>3
    <2> QED BY <2>1, <2>2, <2>3
  <1>5. ASSUME NEW r \in Nodes, VisitKey(r)
        PROVE color'[m] = "black" \/ Below(n, m)'
    <2>1. Enter(r) /\ color[r] = "white" /\ at' = at
      BY <1>5 DEF VisitKey
    <2>2. Below(n, m) => Below(n, m)'
      BY <2>1, Pushed DEF Below
    <2>3. color[m] = "black" => color'[m] = "black"
      BY <1>1, <2>1, Pushed
    <2> QED BY <1>1, <1>2, <2>1, <2>2, <2>3
  <1>6. CASE UNCHANGED vars
    BY <1>1, <1>2, <1>6 DEF vars, Below
  <1> QED BY <1>3, <1>4, <1>5, <1>6 DEF Next

\* A node is left only when all its neighbors are BLACK: none can be below it.
LEMMA LeftAfterNeighbors ==
  ASSUME SearchTypeOK, PathIsGray, Explored, Leave
  PROVE \A j \in DOMAIN adjacency[Top] : color[adjacency[Top][j]] = "black"
  <1> SUFFICES ASSUME NEW j \in DOMAIN adjacency[Top]
               PROVE color[adjacency[Top][j]] = "black"
    OBVIOUS
  <1>1. /\ Top \in Nodes /\ Len(path) \in DOMAIN path /\ path[Len(path)] = Top
        /\ DOMAIN path = 1..Len(path) /\ Len(path) \in Nat
    BY TurnIsTyped DEF Leave, Top
  <1>2. j < at[Top]
    BY <1>1, ListsAreTyped DEF Leave, Exhausted, SearchTypeOK
  <1>3. ~Below(Top, adjacency[Top][j])
    BY <1>1 DEF Below, PathIsGray
  <1> QED BY <1>1, <1>2, <1>3 DEF Explored

LEMMA BlackNext ==
  ASSUME SearchTypeOK, PathIsGray, Explored, BlackAfterNeighbors, NoBlackCycle, [Next]_vars
  PROVE BlackAfterNeighbors' /\ NoBlackCycle'
  <1>1. adjacency' = adjacency
    BY DEF Next, NextNeighbor, Leave, VisitKey, vars
  <1>2. CASE Leave
    <2>1. Top \in Nodes /\ color[Top] = "gray"
      <3>1. Top \in Nodes /\ Len(path) \in DOMAIN path /\ path[Len(path)] = Top
        BY <1>2, TurnIsTyped DEF Leave, Top
      <3> QED BY <3>1 DEF PathIsGray
    <2>2. \A m \in Nodes : color'[m] = "black" <=> m = Top \/ color[m] = "black"
      BY <1>2, Popped
    <2>3. \A j \in DOMAIN adjacency[Top] : color[adjacency[Top][j]] = "black"
      BY <1>2, LeftAfterNeighbors
    <2>4. BlackAfterNeighbors'
      BY <1>1, <2>1, <2>2, <2>3, ListsAreTyped DEF BlackAfterNeighbors, SearchTypeOK
    <2>5. ASSUME NEW S \in SUBSET Nodes, Waiting(S)' PROVE FALSE
      <3>1. S # {} /\ \A n \in S : /\ n = Top \/ color[n] = "black"
                                   /\ \E m \in S : Edge(n, m)
        BY <1>1, <2>2, <2>5 DEF Waiting, Edge
      <3>2. \A n \in S : \A m \in S : Edge(n, m) => color[m] = "black"
        BY <2>3, <3>1 DEF BlackAfterNeighbors, Edge
      <3>3. Waiting({n \in S : color[n] = "black"})
        <4> DEFINE B == {n \in S : color[n] = "black"}
        <4>1. \A n \in S : \E m \in B : Edge(n, m)
          BY <3>1, <3>2
        <4>2. B # {}
          BY <3>1, <4>1
        <4> QED BY <4>1, <4>2 DEF Waiting
      <3>4. {n \in S : color[n] = "black"} \in SUBSET Nodes
        OBVIOUS
      <3> QED BY <3>3, <3>4 DEF NoBlackCycle
    <2> QED BY <2>4, <2>5 DEF NoBlackCycle
  <1>3. CASE ~Leave
    <2>1. \A m \in Nodes : color'[m] = "black" <=> color[m] = "black"
      <3>1. ASSUME NEW n \in Nodes, color[n] = "white", Enter(n)
            PROVE \A m \in Nodes : color'[m] = "black" <=> color[m] = "black"
        BY <3>1, Pushed
      <3>2. CASE color' = color
        BY <3>2
      <3>3. CASE NextNeighbor
        BY <3>1, <3>2, <3>3, TurnIsTyped DEF NextNeighbor
      <3> QED BY <1>3, <3>1, <3>2, <3>3 DEF Next, VisitKey, vars
    <2>2. BlackAfterNeighbors'
      BY <1>1, <2>1, ListsAreTyped DEF BlackAfterNeighbors, SearchTypeOK
    <2>3. \A S \in SUBSET Nodes : Waiting(S)' => Waiting(S)
      BY <1>1, <2>1 DEF Waiting, Edge
    <2> QED BY <2>2, <2>3 DEF NoBlackCycle
  <1> QED BY <1>2, <1>3

\* What was clean stays clean until a cycle is reported, and cycles stay reported.
LEMMA CleanNext == SearchTypeOK /\ PathIsGray /\ Clean /\ [Next]_vars => Clean'
  <1> SUFFICES ASSUME SearchTypeOK, PathIsGray, Clean, [Next]_vars, cycles' = {}
               PROVE (Explored /\ BlackAfterNeighbors /\ NoBlackCycle)'
    BY DEF Clean
  <1>1. cycles = {}
    BY DEF Next, NextNeighbor, Leave, VisitKey, vars
  <1>2. Explored /\ BlackAfterNeighbors /\ NoBlackCycle
    BY <1>1 DEF Clean
  <1> QED BY <1>2, ExploredNext, BlackNext

-----------------------------------------------------------------------------
\* The invariant the theorems rest on.
LEMMA WalkFirst == Init => Walk /\ CyclesAreReal /\ Clean
  <1> SUFFICES ASSUME Init PROVE Walk /\ CyclesAreReal /\ Clean
    OBVIOUS
  <1>1. /\ DOMAIN path = {} /\ Len(path) = 0 /\ cycles = {}
        /\ \A n \in Nodes : color[n] = "white" /\ at[n] = 1
    BY DEF Init
  <1>2. PathIsGray /\ PathFollows
    BY <1>1 DEF PathIsGray, PathFollows
  <1>3. CyclesAreReal
    BY <1>1 DEF CyclesAreReal
  <1>4. Explored
    BY <1>1, ListsAreTyped, TypedFirst DEF Explored, SearchTypeOK
  <1>5. BlackAfterNeighbors
    BY <1>1 DEF BlackAfterNeighbors
  <1>6. NoBlackCycle
    BY <1>1 DEF NoBlackCycle, Waiting
  <1> QED BY <1>2, <1>3, <1>4, <1>5, <1>6, TypedFirst DEF Walk, Clean

THEOREM WalkHolds == Spec => [](Walk /\ CyclesAreReal /\ Clean)
  <1>1. Walk /\ CyclesAreReal /\ Clean /\ [Next]_vars => (Walk /\ CyclesAreReal /\ Clean)'
    BY TypedNext, PathIsGrayNext, PathFollowsNext, CyclesAreRealNext, CleanNext DEF Walk
  <1> QED BY WalkFirst, <1>1, PTL DEF Spec

\* Types, for any nodes and lists of neighbors.
THEOREM SearchTyped == Spec => []SearchTypeOK
  <1>1. Walk => SearchTypeOK
    BY DEF Walk
  <1> QED BY <1>1, WalkHolds, PTL

\* The colors of detect_cycles tell where a node is in the walk.
THEOREM ColorsTellThePath == Spec => []PathIsGray
  <1>1. Walk => PathIsGray
    BY DEF Walk
  <1> QED BY <1>1, WalkHolds, PTL

\* Every cycle detect_cycles reports is a cycle of the graph.
THEOREM ReportedAreReal == Spec => []CyclesAreReal
  <1> QED BY WalkHolds, PTL

\* A cycle that follows edges is a set of nodes waiting for one another.
LEMMA CycleWaits ==
  ASSUME SearchTypeOK, CyclesAreReal, cycles # {}
  PROVE HasCycle
  <1>1. PICK c \in cycles : /\ c \in Seq(Nodes) /\ Len(c) > 1 /\ c[1] = c[Len(c)]
                            /\ \A i \in 1..Len(c) - 1 : Edge(c[i], c[i + 1])
    BY DEF SearchTypeOK, CyclesAreReal
  <1> DEFINE S == {c[i] : i \in 1..Len(c) - 1}
  <1>2. Len(c) \in Nat /\ \A i \in 1..Len(c) : c[i] \in Nodes
    BY <1>1
  <1>3. S \in SUBSET Nodes /\ c[1] \in S
    BY <1>1, <1>2
  <1>4. ASSUME NEW n \in S PROVE \E m \in S : Edge(n, m)
    <2>1. PICK i \in 1..Len(c) - 1 : n = c[i]
      OBVIOUS
    <2>2. Edge(n, c[i + 1])
      BY <1>1, <2>1
    <2>3. CASE i = Len(c) - 1
      BY <1>1, <1>2, <1>3, <2>2, <2>3
    <2>4. CASE i # Len(c) - 1
      <3>1. i + 1 \in 1..Len(c) - 1
        BY <1>2, <2>4
      <3> QED BY <2>2, <3>1
    <2> QED BY <2>3, <2>4
  <1> QED BY <1>3, <1>4 DEF HasCycle

\* detect_cycles returns nothing just when no nodes wait for one another: the check that
\* keeps a DAG that would deadlock from being run.
THEOREM DeadlocksAreFound == Spec => []FindsDeadlocks
  <1>1. Walk /\ CyclesAreReal /\ Clean => FindsDeadlocks
    <2> SUFFICES ASSUME Walk, CyclesAreReal, Clean, Done
                 PROVE cycles = {} <=> ~HasCycle
      BY DEF FindsDeadlocks
    <2>1. cycles # {} => HasCycle
      BY CycleWaits DEF Walk
    <2>2. ASSUME cycles = {}, HasCycle PROVE FALSE
      <3>1. PICK S \in SUBSET Nodes : S # {} /\ \A n \in S : \E m \in S : Edge(n, m)
        BY <2>2 DEF HasCycle
      <3>2. \A n \in S : n \in Keys
        <4> SUFFICES ASSUME NEW n \in S PROVE adjacency[n] # <<>>
          BY DEF Keys
        <4>1. PICK i \in DOMAIN adjacency[n] : TRUE
          BY <3>1 DEF Edge
        <4>2. adjacency[n] \in Seq(Nodes) /\ DOMAIN adjacency[n] = 1..Len(adjacency[n])
          BY ListsAreTyped DEF Walk, SearchTypeOK
        <4> QED BY <4>1, <4>2
      <3>3. \A n \in S : color[n] = "black"
        <4>1. \A n \in Nodes : color[n] # "gray"
          <5>1. path = <<>>
            BY DEF Done, Running
          <5>2. DOMAIN path = {}
            BY <5>1
          <5> QED BY <5>2 DEF Walk, PathIsGray
        <4> QED BY <3>2, <4>1 DEF Done, Walk, SearchTypeOK, Colors
      <3> QED BY <2>2, <3>1, <3>3 DEF Clean, NoBlackCycle, Waiting
    <2> QED BY <2>1, <2>2
  <1> QED BY <1>1, WalkHolds, PTL

-----------------------------------------------------------------------------
\* Why the walk ends, cycles or none: nodes it has not come to, nodes it has not left, and
\* places in the neighbor lists it has not looked at only ever become fewer.
Unseen == {n \in Nodes : color[n] = "white"}
Unfinished == {n \in Nodes : color[n] # "black"}
PlacesOf == [n \in Nodes |-> {n} \X DOMAIN adjacency[n]]
Ahead == {place \in UNION {PlacesOf[n] : n \in Nodes} : place[2] >= at[place[1]]}
Work == Cardinality(Unseen) + Cardinality(Unfinished) + Cardinality(Ahead)

LEMMA PlacesAreFinite ==
  ASSUME SearchTypeOK, IsFiniteSet(Nodes)
  PROVE IsFiniteSet(Ahead)
  <1> DEFINE lists == {PlacesOf[n] : n \in Nodes}
  <1>1. IsFiniteSet(lists)
    <2>1. PlacesOf \in Surjection(Nodes, lists)
      BY DEF PlacesOf, Surjection
    <2> QED BY <2>1, FS_Surjection
  <1>2. ASSUME NEW list \in lists PROVE IsFiniteSet(list)
    <2>1. PICK n \in Nodes : list = {n} \X DOMAIN adjacency[n]
      BY DEF PlacesOf
    <2>2. DOMAIN adjacency[n] = 1..Len(adjacency[n]) /\ Len(adjacency[n]) \in Nat
      BY ListsAreTyped DEF SearchTypeOK
    <2>3. IsFiniteSet(DOMAIN adjacency[n])
      BY <2>2, FS_Interval
    <2>4. IsFiniteSet({n})
      BY FS_Singleton
    <2> QED BY <2>1, <2>3, <2>4, FS_Product
  <1> HIDE DEF lists
  <1>3. IsFiniteSet(UNION lists)
    BY <1>1, <1>2, FS_UNION
  <1>4. Ahead \subseteq UNION lists
    BY DEF Ahead, lists
  <1> QED BY <1>3, <1>4, FS_Subset

\* Of three finite sets that only lose elements, one that does makes the work less.
LEMMA WorkDone ==
  ASSUME SearchTypeOK, IsFiniteSet(Nodes),
         Unseen' \subseteq Unseen, Unfinished' \subseteq Unfinished, Ahead' \subseteq Ahead,
         Unseen' # Unseen \/ Unfinished' # Unfinished \/ Ahead' # Ahead
  PROVE Work' < Work
  <1>1. IsFiniteSet(Unseen) /\ IsFiniteSet(Unfinished) /\ IsFiniteSet(Ahead)
    BY PlacesAreFinite, FS_Subset DEF Unseen, Unfinished
  <1>2. /\ Cardinality(Unseen') <= Cardinality(Unseen)
        /\ Cardinality(Unseen) = Cardinality(Unseen') => Unseen = Unseen'
        /\ IsFiniteSet(Unseen')
    BY <1>1, FS_Subset
  <1>3. /\ Cardinality(Unfinished') <= Cardinality(Unfinished)
        /\ Cardinality(Unfinished) = Cardinality(Unfinished') => Unfinished = Unfinished'
        /\ IsFiniteSet(Unfinished')
    BY <1>1, FS_Subset
  <1>4. /\ Cardinality(Ahead') <= Cardinality(Ahead)
        /\ Cardinality(Ahead) = Cardinality(Ahead') => Ahead = Ahead'
        /\ IsFiniteSet(Ahead')
    BY <1>1, FS_Subset
  <1>5. /\ Cardinality(Unseen) \in Nat /\ Cardinality(Unseen') \in Nat
        /\ Cardinality(Unfinished) \in Nat /\ Cardinality(Unfinished') \in Nat
        /\ Cardinality(Ahead) \in Nat /\ Cardinality(Ahead') \in Nat
    BY <1>1, <1>2, <1>3, <1>4, FS_CardinalityType
  <1> QED BY <1>2, <1>3, <1>4, <1>5 DEF Work

LEMMA EnteredOnce ==
  ASSUME SearchTypeOK, NEW n \in Nodes, color[n] = "white", Enter(n)
  PROVE Unseen' \subseteq Unseen /\ Unfinished' = Unfinished
        /\ n \in Unseen /\ n \notin Unseen'
  BY DEF SearchTypeOK, Enter, Unseen, Unfinished

LEMMA StepsLessen ==
  ASSUME SearchTypeOK, PathIsGray, Next
  PROVE /\ Unseen' \subseteq Unseen /\ Unfinished' \subseteq Unfinished /\ Ahead' \subseteq Ahead
        /\ Unseen' # Unseen \/ Unfinished' # Unfinished \/ Ahead' # Ahead
  <1>1. CASE NextNeighbor
    <2>1. /\ Running /\ ~Exhausted /\ Top \in Nodes /\ Neighbor \in Nodes
          /\ at[Top] \in DOMAIN adjacency[Top] /\ at[Top] \in Nat
          /\ at' = [at EXCEPT ![Top] = @ + 1] /\ adjacency' = adjacency
      BY <1>1, TurnIsTyped DEF NextNeighbor, SearchTypeOK
    <2>2. Unseen' \subseteq Unseen /\ Unfinished' \subseteq Unfinished
      <3>1. CASE color[Neighbor] = "white"
        BY <1>1, <2>1, <3>1, EnteredOnce DEF NextNeighbor
      <3>2. CASE color[Neighbor] # "white"
        BY <1>1, <3>2 DEF NextNeighbor, Unseen, Unfinished
      <3> QED BY <3>1, <3>2
    <2>3. <<Top, at[Top]>> \in Ahead /\ <<Top, at[Top]>> \notin Ahead'
      BY <2>1 DEF Ahead, PlacesOf, SearchTypeOK
    <2>4. Ahead' \subseteq Ahead
      <3>1. \A n \in Nodes, j \in Nat : j >= at'[n] => j >= at[n]
        BY <2>1 DEF SearchTypeOK
      <3>2. ASSUME NEW place \in Ahead' PROVE place \in Ahead
        <4>1. PICK n \in Nodes : place \in {n} \X DOMAIN adjacency[n]
          BY <2>1 DEF Ahead, PlacesOf
        <4>2. place[1] = n /\ place[2] \in Nat /\ place[2] >= at'[n]
          BY <4>1, ListsAreTyped DEF Ahead, SearchTypeOK
        <4> QED BY <3>1, <4>1, <4>2 DEF Ahead, PlacesOf
      <3> QED BY <3>2
    <2> QED BY <2>2, <2>3, <2>4
  <1>2. CASE Leave
    <2>1. Top \in Nodes /\ color[Top] = "gray"
      <3>1. Top \in Nodes /\ Len(path) \in DOMAIN path /\ path[Len(path)] = Top
        BY <1>2, TurnIsTyped DEF Leave, Top
      <3> QED BY <3>1 DEF PathIsGray
    <2>2. Ahead' = Ahead
      BY <1>2 DEF Leave, Ahead, PlacesOf
    <2>3. \A m \in Nodes : color'[m] = IF m = Top THEN "black" ELSE color[m]
      BY <1>2, Popped
    <2> QED BY <2>1, <2>2, <2>3 DEF Unseen, Unfinished
  <1>3. ASSUME NEW n \in Nodes, VisitKey(n)
        PROVE /\ Unseen' \subseteq Unseen /\ Unseen' # Unseen
              /\ Unfinished' = Unfinished /\ Ahead' = Ahead
    <2>1. Enter(n) /\ color[n] = "white" /\ UNCHANGED <<adjacency, at>>
      BY <1>3 DEF VisitKey
    <2>2. Ahead' = Ahead
      BY <2>1 DEF Ahead, PlacesOf
    <2> QED BY <2>1, <2>2, EnteredOnce
  <1> QED BY <1>1, <1>2, <1>3 DEF Next

\* detect_cycles comes to an end on every finite graph, one that is all cycles too: each
\* call and each turn of a loop leaves less to do than before.
THEOREM SearchEnds ==
  ASSUME IsFiniteSet(Nodes)
  PROVE Spec => [](Work \in Nat) /\ [][Work' < Work]_vars
  <1>1. Walk => Work \in Nat
    <2> SUFFICES ASSUME Walk PROVE Work \in Nat
      OBVIOUS
    <2>1. IsFiniteSet(Unseen) /\ IsFiniteSet(Unfinished) /\ IsFiniteSet(Ahead)
      BY PlacesAreFinite, FS_Subset DEF Unseen, Unfinished, Walk
    <2> QED BY <2>1, FS_CardinalityType DEF Work
  <1>2. Walk /\ [Next]_vars => [Work' < Work]_vars
    BY StepsLessen, WorkDone DEF Walk
  <1> QED BY <1>1, <1>2, WalkHolds, PTL DEF Spec

=============================================================================
