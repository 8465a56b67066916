----------------------------- MODULE MCWorkflow ------------------------------
(***************************************************************************)
(* Model-checking instances of ExtractionWorkflow.  The nodes sit above the *)
(* threshold, between the waiver floor and the threshold, and below the     *)
(* floor; the two claims contradict each other.                             *)
(***************************************************************************)
EXTENDS ExtractionWorkflow, FiniteSetsExt, TLC

CONSTANTS claim1, claim2, concept,   \* content nodes
          alice, bob,                \* reviewers
          slotA, slotB               \* (paper, extraction type) pairs

NodeConf == (claim1 :> 85) @@ (claim2 :> 59) @@ (concept :> 20)

Mean(nodes) ==
  IF nodes = {} THEN 0
  ELSE MapThenSumSet(LAMBDA n : NodeConf[n], nodes) \div Cardinality(nodes)

MCOpposed == {{claim1, claim2}}
SlotSymmetry == Permutations({slotA, slotB})
MCAvgConf == [nodes \in SUBSET Nodes |-> Mean(nodes)]
=============================================================================
