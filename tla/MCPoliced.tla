------------------------------ MODULE MCPoliced ------------------------------
(***************************************************************************)
(* Model-checking instances of PolicedExtraction.  slotA is free unless the *)
(* request is large; slotB is escalated by the first rule, and blocked by   *)
(* the second where the request is large.  Outcomes are escalated when the  *)
(* worker failed and blocked when their average confidence is low.          *)
(***************************************************************************)
EXTENDS PolicedExtraction, TLC

CONSTANTS claim1, claim2, alice, slotA, slotB

MCOpposed == {{claim1, claim2}}

NodeConf == (claim1 :> 85) @@ (claim2 :> 59)

MCAvgConf ==
  [nodes \in SUBSET Nodes |->
     IF nodes = {} THEN 0
     ELSE MapThenSumSet(LAMBDA n : NodeConf[n], nodes) \div Cardinality(nodes)]

\* A rule of the caller's own: several nodes at once want a human.
EscalateSeveral ==
  [realized \in Actions \X Envelopes |->
     IF Cardinality(realized[2].nodes) > 1 THEN "escalated" ELSE "none"]

MCRules == <<RequireEscalationFor({slotB}), MaxResultsCeiling>>
MCOutcomeRules ==
  <<EscalateOnWorkerFailure, EscalateSeveral, BlockLowAverageConfidence(60)>>
=============================================================================
