------------------------- MODULE ExtractionWorkflow -------------------------
(***************************************************************************)
(* WorkerSpawner (research_graph_workers.py), the only writer of the graph: *)
(* it mints extraction jobs, admits or rejects the envelopes untrusted      *)
(* workers return, runs the gate on the job, opens a review task when the   *)
(* gate holds it, and applies the reviews humans give.                      *)
(*                                                                          *)
(* A slot is a (paper, extraction type): spawn derives the job's id from    *)
(* it, so spawning a slot again appends a second job node with the same id. *)
(* The graph's index finds the latest of them and the reviews the first;    *)
(* edges and the review task, keyed by the id, are shared.                  *)
(*                                                                          *)
(* Each operation runs to its end in one thread: it is one action.  An      *)
(* envelope is seen through its worker_status, the nodes it emits and       *)
(* whether it passes the checks of _verify_envelope that look at nothing    *)
(* but the envelope and its directive (`ok`).                               *)
(***************************************************************************)
EXTENDS Gate, Sequences

CONSTANTS Slots,         \* the (paper, extraction type) pairs
          Nodes,         \* the ids of the content workers may emit
          Opposed,       \* the pairs of claims detect_conflicts_in_graph matches
          AvgConf,       \* the average confidence of each set of emitted nodes
          Reviewers,     \* the names a review may be signed with
          RetryAllowed,  \* admit is given a retry_with
          MaxSpawns,     \* bound on the spawns of a slot
          MaxAdmits      \* bound on the envelopes put to a slot

ASSUME WorkflowAssumption ==
  /\ Opposed \subseteq SUBSET Nodes /\ {} \notin Opposed
  /\ \A pair \in Opposed : \A n \in pair : pair # {n}
  /\ AvgConf \in [SUBSET Nodes -> Confidences]
  /\ Anonymous \notin Reviewers
  /\ RetryAllowed \in BOOLEAN
  /\ MaxSpawns \in Nat /\ MaxAdmits \in Nat

VARIABLES jobs,               \* the job nodes of each slot, in the order spawned
          task,               \* the review task of each slot
          produced,           \* the targets of each job's PRODUCES edges
          reviewed,           \* the content nodes marked human_reviewed
          openConflicts,      \* graph.conflicts not marked resolved
          resolvedConflicts,  \* graph.conflicts marked resolved
          admits              \* envelopes put to each slot, for MaxAdmits only

vars == <<jobs, task, produced, reviewed, openConflicts, resolvedConflicts, admits>>

Signatures == Reviewers \cup {Anonymous}

JobStatuses == {"queued", "completed", "failed", "held", "approved", "rejected"}

\* `reported` is history: the worker_status of the envelope that settled the job.
Jobs == [status : JobStatuses, conf : Confidences, reviewed : BOOLEAN,
         reported : {"none", "completed", "failed"}]

ReviewTasks == [status : {"none", "pending", "approved", "rejected"},
                by : Signatures, waived : BOOLEAN]

Envelopes == [status : {"completed", "failed"}, ok : BOOLEAN, nodes : SUBSET Nodes]

\* Where no envelope was returned.
NoEnvelope == [status |-> "none", ok |-> FALSE, nodes |-> {}]

Retried == IF RetryAllowed THEN BOOLEAN ELSE {FALSE}

-----------------------------------------------------------------------------
Content == UNION {produced[s] : s \in Slots}

Spawned(s) == jobs[s] # << >>
First(s) == jobs[s][1]
Latest(s) == jobs[s][Len(jobs[s])]

\* The jobs with the g-th job node of slot s replaced.
WithJob(s, g, job) == [jobs EXCEPT ![s][g] = job]

\* What the gate sees of a job: spawn fills every required field.
JobView(job) ==
  [type |-> "extraction_job", complete |-> TRUE, sourced |-> TRUE,
   conf |-> job.conf, reviewed |-> job.reviewed, entailed |-> TRUE]

\* What the gate sees of a task: approve_review refuses a waiver with no
\* reason, and both reviews mark the task human_reviewed.
TaskView(t) ==
  [waived |-> t.waived, status |-> t.status, reasoned |-> t.waived, by |-> t.by,
   reviewed |-> t.status \in {"approved", "rejected"}]

Contested(nodes, conflicts) == \E pair \in conflicts : pair \cap nodes # {}

\* Mutant of Unlocked: a job answers for itself alone, not for its nodes.
UnlockedAlone(job, t, nodes, conflicts) ==
  CanProceed(JobView(job), TaskView(t), FALSE)

Unlocked(job, t, nodes, conflicts) ==
  CanProceed(JobView(job), TaskView(t), Contested(nodes, conflicts))

\* Mutant of NewConflicts: only pairs within the arriving nodes are compared.
NewConflictsWithinEnvelope(nodes) ==
  {pair \in Opposed : pair \subseteq nodes \ Content}
    \ (openConflicts \cup resolvedConflicts)

\* detect_conflicts_in_graph over all the content, less what is on record.
NewConflicts(nodes) ==
  {pair \in Opposed : pair \subseteq nodes} \ (openConflicts \cup resolvedConflicts)

\* Mutant of Verified: ids already in the graph are not looked up.
VerifiedBlind(env) == env.ok

\* _verify_envelope: no error in the envelope, and no id already in the graph.
Verified(env) == env.ok /\ env.nodes \cap Content = {}

-----------------------------------------------------------------------------
(* Initial state and operations. *)

Init ==
  /\ jobs = [s \in Slots |-> << >>]
  /\ task = [s \in Slots |-> [status |-> "none", by |-> Anonymous, waived |-> FALSE]]
  /\ produced = [s \in Slots |-> {}]
  /\ reviewed = {}
  /\ openConflicts = {}
  /\ resolvedConflicts = {}
  /\ admits = [s \in Slots |-> 0]

Spawn(s) ==
  /\ Len(jobs[s]) < MaxSpawns
  /\ jobs' = [jobs EXCEPT ![s] = Append(@, [status |-> "queued", conf |-> FullConfidence,
                                            reviewed |-> FALSE, reported |-> "none"])]
  /\ UNCHANGED <<task, produced, reviewed, openConflicts, resolvedConflicts, admits>>

\* admit looks the job up by id: an unknown id raises, the latest node is found.
Delivered(s) ==
  /\ Spawned(s)
  /\ admits[s] < MaxAdmits
  /\ admits' = [admits EXCEPT ![s] = @ + 1]

Fail(s, status) ==
  /\ jobs' = WithJob(s, Len(jobs[s]),
                     [Latest(s) EXCEPT !.status = "failed", !.reported = status])
  /\ UNCHANGED <<task, produced, reviewed, openConflicts, resolvedConflicts>>

\* The worker itself reports failure: nothing else of the envelope is read.
AdmitWorkerFailure(s) ==
  /\ Delivered(s)
  /\ Fail(s, "failed")

\* Mutant of AdmitRejected: what does not collide lands all the same.
AdmitRejectedPartially(s, env, retried) ==
  /\ Delivered(s)
  /\ env.status = "failed" => retried
  /\ ~Verified(env)
  /\ jobs' = WithJob(s, Len(jobs[s]), [Latest(s) EXCEPT !.status = "failed"])
  /\ produced' = [produced EXCEPT ![s] = @ \cup (env.nodes \ Content)]
  /\ UNCHANGED <<task, reviewed, openConflicts, resolvedConflicts>>

\* The envelope put last, the first one or the last of its retries, is
\* refused.  worker_status is read from the first envelope only.
AdmitRejected(s, env, retried) ==
  /\ Delivered(s)
  /\ env.status = "failed" => retried
  /\ ~Verified(env)
  /\ Fail(s, env.status)

\* Mutant of OpenReview: no task is opened.
OpenReviewNever(t) == t

\* _open_review keeps an existing task as it is but for its gate_reason text.
OpenReview(t) == IF t.status = "none" THEN [t EXCEPT !.status = "pending"] ELSE t

\* The envelope put last is accepted: its nodes land, conflicts are looked
\* for, and the gate decides whether the job is held.
AdmitAccepted(s, env, retried) ==
  /\ Delivered(s)
  /\ env.status = "failed" => retried
  /\ Verified(env)
  /\ LET landed  == produced[s] \cup env.nodes
         found   == NewConflicts(Content \cup env.nodes)
         settled == [Latest(s) EXCEPT !.status = "completed", !.reported = env.status,
                                      !.conf = AvgConf[env.nodes]]
         held    == ~Unlocked(settled, task[s], landed, openConflicts \cup found)
     IN /\ produced' = [produced EXCEPT ![s] = landed]
        /\ openConflicts' = openConflicts \cup found
        /\ jobs' = WithJob(s, Len(jobs[s]),
                           IF held THEN [settled EXCEPT !.status = "held"] ELSE settled)
        /\ task' = [task EXCEPT ![s] = IF held THEN OpenReview(@) ELSE @]
  /\ UNCHANGED <<reviewed, resolvedConflicts>>

\* Mutant of Endorsed: every node is marked, whichever job produced it.
EndorsedAll(s) == Content

Endorsed(s) == reviewed \cup produced[s]

\* An approval asks the gate again.  Neither the task's nor the job's status
\* is looked at first, and a waiver once given stays on the task.
ApproveReview(s, by, waive) ==
  /\ task[s].status # "none"
  /\ LET answered == [task[s] EXCEPT !.status = "approved", !.by = by,
                                     !.waived = @ \/ waive]
         job      == [First(s) EXCEPT !.reviewed = TRUE]
         unlocked == Unlocked(job, answered, produced[s], openConflicts)
     IN /\ task' = [task EXCEPT ![s] = answered]
        /\ jobs' = WithJob(s, 1, [job EXCEPT !.status = IF unlocked THEN "approved"
                                                                     ELSE "held"])
  /\ reviewed' = Endorsed(s)
  /\ UNCHANGED <<produced, openConflicts, resolvedConflicts, admits>>

RejectReview(s, by) ==
  /\ task[s].status # "none"
  /\ task' = [task EXCEPT ![s].status = "rejected", ![s].by = by]
  /\ jobs' = WithJob(s, 1, [First(s) EXCEPT !.status = "rejected"])
  /\ UNCHANGED <<produced, reviewed, openConflicts, resolvedConflicts, admits>>

\* A human settles a contradiction; no code under src/ does.
ResolveConflict(pair) ==
  /\ openConflicts' = openConflicts \ {pair}
  /\ resolvedConflicts' = resolvedConflicts \cup {pair}
  /\ UNCHANGED <<jobs, task, produced, reviewed, admits>>

\* admit without a retry_with, as the modules that build on this one call it.
Admit(s, env) ==
  \/ env.status = "failed" /\ AdmitWorkerFailure(s)
  \/ AdmitRejected(s, env, FALSE)
  \/ AdmitAccepted(s, env, FALSE)

\* What humans do.
Review ==
  \/ \E s \in Slots, by \in Signatures :
       RejectReview(s, by) \/ \E waive \in BOOLEAN : ApproveReview(s, by, waive)
  \/ \E pair \in openConflicts : ResolveConflict(pair)

Next ==
  \/ Review
  \/ \E s \in Slots :
       \/ Spawn(s)
       \/ AdmitWorkerFailure(s)
       \/ \E env \in Envelopes, retried \in Retried :
            AdmitRejected(s, env, retried) \/ AdmitAccepted(s, env, retried)

Spec == Init /\ [][Next]_vars

-----------------------------------------------------------------------------
(* Invariants. *)

TypeOK ==
  /\ jobs \in [Slots -> Seq(Jobs)]
  /\ task \in [Slots -> ReviewTasks]
  /\ produced \in [Slots -> SUBSET Nodes]
  /\ reviewed \subseteq Nodes
  /\ openConflicts \subseteq Opposed
  /\ resolvedConflicts \subseteq Opposed
  /\ admits \in [Slots -> Nat]

(* No node is claimed by two jobs: an envelope that names content another   *)
(* job landed is refused, so every PRODUCES edge into a node starts from    *)
(* the one job that answers for it (_verify_envelope).                      *)
SoleProducer ==
  \A s, t \in Slots : s # t => produced[s] \cap produced[t] = {}

(* A contradiction cannot slip in: as soon as both its claims are in the    *)
(* graph, in whatever order and from whichever jobs, it is on record, and   *)
(* one a human resolved is never reported open again (admit, which reruns   *)
(* the detector on the whole graph and keeps only what is new).             *)
ConflictsRecorded ==
  /\ \A pair \in Opposed :
       pair \subseteq Content => pair \in openConflicts \cup resolvedConflicts
  /\ openConflicts \cap resolvedConflicts = {}

(* A held job always has a review task: what the gate stopped, a human can  *)
(* find and answer (admit and _open_review).                                *)
HeldHasReview ==
  \A s \in Slots : \A g \in DOMAIN jobs[s] :
    jobs[s][g].status = "held" => task[s].status # "none"

(* Content is marked human_reviewed only when its own job's review was      *)
(* answered; no worker, and no review of another job, marks it              *)
(* (approve_review).                                                        *)
ReviewedMeansAnswered ==
  \A s \in Slots :
    produced[s] \cap reviewed # {} => task[s].status \in {"approved", "rejected"}

(* As long as a reviewed job stands approved, what let it through stands    *)
(* too: it was reviewed, its task is still approved, and its confidence     *)
(* meets the threshold or is waived, above the floor, under a reviewer's    *)
(* name (approve_review, reject_review, _find_waiver).                      *)
ApprovedIsBacked ==
  \A s \in Slots : Spawned(s) /\ First(s).status = "approved" =>
    /\ First(s).reviewed
    /\ task[s].status = "approved"
    /\ \/ First(s).conf >= Threshold
       \/ /\ HonorWaivers
          /\ task[s].waived /\ task[s].by \in Reviewers
          /\ First(s).conf >= WaiverFloor

(* A failed job owns nothing in the graph: envelopes land whole or not at   *)
(* all (admit).                                                             *)
FailedOwnsNothing ==
  \A s \in Slots : Spawned(s) /\ Latest(s).status = "failed" => produced[s] = {}

(* A job whose worker reported failure is not treated as one that produced  *)
(* a result: it fails and stays failed (admit).                             *)
ReportedFailureFails ==
  \A s \in Slots : Spawned(s) /\ Latest(s).reported = "failed" =>
    Latest(s).status = "failed"

(* Admission never advances content on its own: a job stands completed or   *)
(* approved only when a human reviewed everything it produced (admit).  Not *)
(* so where a second envelope lands on the review of the first: README.md.  *)
AdvancedIsReviewed ==
  RequireReview =>
    \A s \in Slots : Spawned(s) /\ Latest(s).status \in {"completed", "approved"} =>
      produced[s] \subseteq reviewed

(* Approving does not clear a low confidence: when a job's review unlocks   *)
(* it without any waiver, the job that landed the nodes met the threshold   *)
(* (approve_review).                                                        *)
LowConfidenceNeedsWaiver ==
  \A s \in Slots :
    /\ Spawned(s) /\ First(s).status = "approved"
    /\ Latest(s).status \in {"completed", "held", "approved"}
    /\ Latest(s).conf < Threshold
    => task[s].waived

-----------------------------------------------------------------------------
(* Action properties. *)

\* The g-th job node of slot s comes to stand completed or approved, or still
\* does after an envelope of it landed.
Advances(s, g) ==
  /\ jobs'[s][g].status \in {"completed", "approved"}
  /\ jobs'[s][g] # jobs[s][g] \/ (g = Len(jobs[s]) /\ produced'[s] # produced[s])

(* Whenever a job is let advance, by an approving review or by an admission *)
(* that does not hold it, all the gate asks of a job holds after the step:  *)
(* it was reviewed, nothing it produced, also by earlier envelopes, sits on *)
(* a contradiction nobody resolved, and its confidence meets the threshold  *)
(* or is waived, above the floor, by a named reviewer on a task that stands *)
(* approved.  An approval also leaves all the job's content reviewed        *)
(* (admit, approve_review, should_unlock_next_stage).                       *)
UnlockIsClean ==
  [][\A s \in Slots : \A g \in DOMAIN jobs[s] : Advances(s, g) =>
       LET job == jobs'[s][g] IN
       /\ RequireReview => job.reviewed
       /\ DetectConflicts => ~Contested(produced'[s], openConflicts')
       /\ \/ job.conf >= Threshold
          \/ /\ HonorWaivers /\ job.conf >= WaiverFloor
             /\ task'[s].waived /\ task'[s].status = "approved"
             /\ task'[s].by \in Reviewers
       /\ job.status = "approved" =>
            task'[s].status = "approved" /\ produced'[s] \subseteq reviewed']_vars

-----------------------------------------------------------------------------
(* The workflow keeps the content ledger's promise. *)

Ledger == INSTANCE ContentLedger WITH holdings <- produced, endorsed <- reviewed

LedgerSpec == Ledger!Spec
=============================================================================
