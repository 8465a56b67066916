---------------------------- MODULE MCOrchestrator ----------------------------
(***************************************************************************)
(* Model-checking instance of Orchestrator: a paper with claims and         *)
(* concepts, beside the claims of another paper that its own caller admits. *)
(* The paper's claim sits between the waiver floor and the threshold, its   *)
(* concept below the floor; the other paper's claim is a confident one that *)
(* contradicts the first.                                                   *)
(***************************************************************************)
EXTENDS Orchestrator, Inspection, FiniteSetsExt, SequencesExt, TLC

CONSTANTS claim, concept, rival,   \* content nodes
          alice,                   \* a reviewer
          paper,
          claims, concepts, others \* slots

NodeConf == (claim :> 59) @@ (concept :> 20) @@ (rival :> 85)

Mean(nodes) ==
  IF nodes = {} THEN 0
  ELSE MapThenSumSet(LAMBDA n : NodeConf[n], nodes) \div Cardinality(nodes)

MCOpposed == {{claim, rival}}
MCAvgConf == [nodes \in SUBSET Nodes |-> Mean(nodes)]
MCFanOut == (paper :> <<claims, concepts>>)
MCTypeOf == (claims :> "claims") @@ (concepts :> "concepts") @@ (others :> "claims")

Item(n, conf, form) == [id |-> n, conf |-> conf, form |-> form]

ClaimItems ==
  {Item(claim, 59, "fit"), Item(claim, 10, "unusable"), Item(claim, 120, "fit"),
   Item(claim, 59, "mistyped"), Item(claim, 59, "textless")}
ConceptItems ==
  {Item(concept, 20, "fit"), Item(concept, -10, "fit"), Item(concept, 0, "malformed")}

MaxItems == 2
MCTexts ==
  (claims :> SeqOf(ClaimItems, MaxItems)) @@ (concepts :> SeqOf(ConceptItems, MaxItems))
    @@ (others :> {})
=============================================================================
