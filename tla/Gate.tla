-------------------------------- MODULE Gate --------------------------------
(***************************************************************************)
(* The verdict of WorkflowGate.should_unlock_next_stage                     *)
(* (research_graph_gates.py): seven checks run in a fixed order, the first  *)
(* that fails decides.  The module has no variables: the workflow calls it  *)
(* on a job (ExtractionWorkflow), and GateLog on any kind of node.          *)
(*                                                                          *)
(* A node is seen through the facts the checks read:                        *)
(*   type      the node type                                                *)
(*   complete  it has every property its type requires                      *)
(*   sourced   it has a provenance naming a source and a method             *)
(*   conf      the provenance's confidence, or NoConfidence                 *)
(*   reviewed  provenance.human_reviewed                                    *)
(*   entailed  what the entailment checker answers for it                   *)
(* A review task is seen through the fields _find_waiver reads; NoTask is   *)
(* the record of a job that has none.  Confidences are hundredths.          *)
(***************************************************************************)
EXTENDS Naturals

CONSTANTS Threshold,       \* confidence_threshold
          WaiverFloor,     \* waiver_confidence_floor
          RequireReview,   \* require_human_review
          DetectConflicts, \* detect_conflicts
          HonorWaivers,    \* honor_waivers
          CheckEntailment, \* an entailment_checker is configured
          Anonymous        \* the empty reviewer name

ASSUME GateAssumption ==
  /\ Threshold \in Nat /\ WaiverFloor \in Nat
  /\ {RequireReview, DetectConflicts, HonorWaivers, CheckEntailment} \subseteq BOOLEAN

FullConfidence == 100
NoConfidence == FullConfidence + 1
Confidences == 0 .. FullConfidence

NodeTypes == {"extraction_job", "review_task", "paper", "claim", "concept"}

-----------------------------------------------------------------------------
(* The checks. *)

SchemaValid(n) == n.complete

ProvenancePresent(n) == n.sourced /\ n.conf # NoConfidence

\* Only a claim has text to entail; without a checker the check is a no-op.
ClaimEntailed(n) == (n.type = "claim" /\ CheckEntailment) => n.entailed

\* Mutant: a waiver nobody signed is honoured.
WaiverUnsigned(t) ==
  t.waived /\ t.status = "approved" /\ t.reasoned /\ t.reviewed

\* A waiver with a defect is no waiver: the task must be approved, give a
\* reason, name an accountable reviewer and be itself human-reviewed.
WaiverIntact(t) ==
  /\ t.waived
  /\ t.status = "approved"
  /\ t.reasoned
  /\ t.by # Anonymous
  /\ t.reviewed

Waived(n, t) == HonorWaivers /\ WaiverIntact(t) /\ n.conf >= WaiverFloor

Confident(n) == n.conf >= Threshold

ConfidencePassed(n, t) ==
  n.conf # NoConfidence /\ (Confident(n) \/ Waived(n, t))

HumanReviewed(n) == RequireReview => n.reviewed

\* contested: an unresolved conflict touches the node or what it produced.
NoConflicts(contested) == DetectConflicts => ~contested

DownstreamAllowed(n) == n.type \in {"extraction_job", "review_task", "paper"}

-----------------------------------------------------------------------------
(* The verdict: the checks in the code's order, each with the reason code a *)
(* failure reports.                                                         *)

Checks(n, t, contested) ==
  << [passed |-> SchemaValid(n),           code |-> "SCHEMA_INVALID"],
     [passed |-> ProvenancePresent(n),     code |-> "PROVENANCE_MISSING"],
     [passed |-> ClaimEntailed(n),         code |-> "CLAIM_NOT_ENTAILED"],
     [passed |-> ConfidencePassed(n, t),   code |-> "LOW_CONFIDENCE"],
     [passed |-> HumanReviewed(n),         code |-> "REVIEW_REQUIRED"],
     [passed |-> NoConflicts(contested),   code |-> "CONFLICT_UNRESOLVED"],
     [passed |-> DownstreamAllowed(n),     code |-> "DOWNSTREAM_NOT_ALLOWED"] >>

CanProceed(n, t, contested) ==
  /\ SchemaValid(n)
  /\ ProvenancePresent(n)
  /\ ClaimEntailed(n)
  /\ ConfidencePassed(n, t)
  /\ HumanReviewed(n)
  /\ NoConflicts(contested)
  /\ DownstreamAllowed(n)
=============================================================================
