---------------------------- MODULE ContentLedger ----------------------------
(***************************************************************************)
(* What the spawner promises about the content of the research graph,       *)
(* whatever its workers and reviewers do: content lands whole, each node is *)
(* landed by one job for good, and it is human-reviewed only when a review  *)
(* of that job endorses everything the job holds at that moment.            *)
(***************************************************************************)
CONSTANTS Slots, Nodes

VARIABLES holdings,   \* the nodes each job has landed
          endorsed    \* the nodes a human has reviewed

vars == <<holdings, endorsed>>

Landed == UNION {holdings[s] : s \in Slots}

Init == /\ holdings = [s \in Slots |-> {}]
        /\ endorsed = {}

Land(s, new) ==
  /\ new \cap Landed = {}
  /\ holdings' = [holdings EXCEPT ![s] = @ \cup new]
  /\ UNCHANGED endorsed

Endorse(s) ==
  /\ endorsed' = endorsed \cup holdings[s]
  /\ UNCHANGED holdings

Next == \E s \in Slots : Endorse(s) \/ \E new \in SUBSET Nodes : Land(s, new)

Spec == Init /\ [][Next]_vars
=============================================================================
