----------------------------- MODULE MCPipeline -----------------------------
(***************************************************************************)
(* Model-checking instances of SpecialistPipeline: two claims that          *)
(* contradict each other, one of them of low confidence.                    *)
(***************************************************************************)
EXTENDS SpecialistPipeline, FiniteSetsExt, TLC

CONSTANTS claim1, claim2, alice, slotA, slotB

MCOpposed == {{claim1, claim2}}

NodeConf == (claim1 :> 85) @@ (claim2 :> 59)

MCAvgConf ==
  [nodes \in SUBSET Nodes |->
     IF nodes = {} THEN 0
     ELSE MapThenSumSet(LAMBDA n : NodeConf[n], nodes) \div Cardinality(nodes)]

SlotSymmetry == Permutations({slotA, slotB})
=============================================================================
