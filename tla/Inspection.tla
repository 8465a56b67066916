------------------------------ MODULE Inspection ------------------------------
(***************************************************************************)
(* The queries of graph_queries.py about what is stuck and why.  They read  *)
(* the graph and change nothing; why_blocked and blocked_jobs put each job  *)
(* to the gate as it stands now, where a job's status is what the gate said *)
(* when it was last asked.                                                  *)
(***************************************************************************)
EXTENDS ExtractionWorkflow

\* Mutant of Blocked: the gate is asked with the conflicts left out.
BlockedApart(s, g) == ~Unlocked(jobs[s][g], task[s], produced[s], {})

\* why_blocked, of the g-th job node of slot s.
Blocked(s, g) == ~Unlocked(jobs[s][g], task[s], produced[s], openConflicts)

\* blocked_jobs goes through the nodes, not the index.
BlockedJobs ==
  {job \in Slots \X (1..MaxSpawns) :
     job[2] \in DOMAIN jobs[job[1]] /\ Blocked(job[1], job[2])}

\* contradicting_claims; unresolved_conflicts are openConflicts.
ContradictingClaims(claim, includeResolved) ==
  UNION {pair \ {claim} :
    pair \in {c \in openConflicts \cup (IF includeResolved THEN resolvedConflicts ELSE {}) :
                claim \in c}}

(* A job's status and the gate's live verdict on it part only over          *)
(* contradictions: a held job the gate would now let through had one that   *)
(* a human resolved, an approved job it would now hold has one that came    *)
(* later and is open, and the queries an agent asks show which claim it is. *)
(* A job that is queued or failed is never let through (why_blocked,        *)
(* blocked_jobs, contradicting_claims against admit and approve_review).    *)
DriftExplained ==
  \A s \in Slots : \A g \in DOMAIN jobs[s] :
    LET status == jobs[s][g].status
        blocked == <<s, g>> \in BlockedJobs
    IN /\ status = "held" /\ ~blocked =>
            \E n \in produced[s] :
              ContradictingClaims(n, TRUE) # ContradictingClaims(n, FALSE)
       /\ status = "approved" /\ blocked =>
            \E n \in produced[s] : ContradictingClaims(n, FALSE) # {}
       /\ status \in {"queued", "failed"} => blocked
=============================================================================
