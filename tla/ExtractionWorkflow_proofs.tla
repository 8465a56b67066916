---------------------- MODULE ExtractionWorkflow_proofs ----------------------
(***************************************************************************)
(* Proofs about ExtractionWorkflow, for every set of slots, nodes and       *)
(* reviewers, every conflict relation and every setting of the gate.        *)
(***************************************************************************)
EXTENDS ExtractionWorkflow, TLAPS

-----------------------------------------------------------------------------
(* The job nodes of a slot. *)

\* A review task exists only for a slot that was spawned.
TaskHasJob == \A s \in Slots : task[s].status # "none" => Spawned(s)

Safe == TypeOK /\ TaskHasJob

LEMMA SpawnedJobs ==
  ASSUME TypeOK, NEW s \in Slots, Spawned(s)
  PROVE  /\ 1 \in 1 .. Len(jobs[s]) /\ First(s) \in Jobs
         /\ Len(jobs[s]) \in 1 .. Len(jobs[s]) /\ Latest(s) \in Jobs
  BY DEF TypeOK, Spawned, Latest, First

LEMMA WithJobFacts ==
  ASSUME TypeOK, NEW s \in Slots, NEW g \in 1 .. Len(jobs[s]), NEW job \in Jobs
  PROVE  /\ WithJob(s, g, job) \in [Slots -> Seq(Jobs)]
         /\ Len(WithJob(s, g, job)[s]) = Len(jobs[s])
         /\ WithJob(s, g, job)[s][g] = job
         /\ \A k \in 1 .. Len(jobs[s]) : k # g => WithJob(s, g, job)[s][k] = jobs[s][k]
         /\ \A t \in Slots : t # s => WithJob(s, g, job)[t] = jobs[t]
<1>1. jobs \in [Slots -> Seq(Jobs)]
  BY DEF TypeOK
<1>2. jobs[s] \in Seq(Jobs)
  BY <1>1
<1>3. [jobs[s] EXCEPT ![g] = job] \in Seq(Jobs)
  BY <1>2
<1>4. WithJob(s, g, job) = [jobs EXCEPT ![s] = [jobs[s] EXCEPT ![g] = job]]
  BY <1>1 DEF WithJob
<1> QED
  BY <1>1, <1>2, <1>3, <1>4

LEMMA JobReplaced ==
  ASSUME TypeOK, NEW s \in Slots, NEW g \in 1 .. Len(jobs[s]), NEW job \in Jobs,
         jobs' = WithJob(s, g, job)
  PROVE  /\ jobs' \in [Slots -> Seq(Jobs)]
         /\ \A t \in Slots : Len(jobs'[t]) = Len(jobs[t])
         /\ \A t \in Slots : Spawned(t)' <=> Spawned(t)
         /\ jobs'[s][g] = job
         /\ \A k \in 1 .. Len(jobs[s]) : k # g => jobs'[s][k] = jobs[s][k]
         /\ \A t \in Slots : t # s => jobs'[t] = jobs[t]
<1>1. /\ jobs' \in [Slots -> Seq(Jobs)]
      /\ Len(jobs'[s]) = Len(jobs[s])
      /\ jobs'[s][g] = job
      /\ \A k \in 1 .. Len(jobs[s]) : k # g => jobs'[s][k] = jobs[s][k]
      /\ \A t \in Slots : t # s => jobs'[t] = jobs[t]
  BY WithJobFacts
<1>2. \A t \in Slots : Len(jobs'[t]) = Len(jobs[t])
  BY <1>1
<1>3. \A t \in Slots : Spawned(t)' <=> Spawned(t)
  BY <1>1, <1>2 DEF Spawned, TypeOK
<1> QED
  BY <1>1, <1>2, <1>3

-----------------------------------------------------------------------------
(* Type correctness, with TaskHasJob: a review acts on a job that exists. *)

LEMMA InitSafe == Init => Safe
  BY DEF Init, Safe, TypeOK, TaskHasJob, Spawned, ReviewTasks, Signatures

LEMMA SpawnSafe ==
  ASSUME Safe, NEW s \in Slots, Spawn(s)
  PROVE  Safe'
<1> DEFINE job == [status |-> "queued", conf |-> FullConfidence, reviewed |-> FALSE,
                   reported |-> "none"]
<1>1. job \in Jobs
  BY DEF Jobs, JobStatuses, Confidences, FullConfidence
<1>2. jobs' = [jobs EXCEPT ![s] = Append(jobs[s], job)]
  BY DEF Spawn
<1> HIDE DEF job
<1>3. /\ jobs' \in [Slots -> Seq(Jobs)]
      /\ \A t \in Slots : Spawned(t) => Spawned(t)'
  BY <1>1, <1>2 DEF Safe, TypeOK, Spawned
<1> QED
  BY <1>3 DEF Safe, TypeOK, TaskHasJob, Spawn

LEMMA FailSafe ==
  ASSUME Safe, NEW s \in Slots, NEW status \in {"completed", "failed"},
         Delivered(s), Fail(s, status)
  PROVE  Safe'
<1> DEFINE job == [Latest(s) EXCEPT !.status = "failed", !.reported = status]
<1>1. Len(jobs[s]) \in 1 .. Len(jobs[s]) /\ job \in Jobs
  BY SpawnedJobs DEF Safe, Delivered, Jobs, JobStatuses
<1>2. jobs' = WithJob(s, Len(jobs[s]), job)
  BY DEF Fail
<1> HIDE DEF job
<1>3. jobs' \in [Slots -> Seq(Jobs)] /\ \A t \in Slots : Spawned(t)' <=> Spawned(t)
  BY <1>1, <1>2, JobReplaced DEF Safe
<1>4. admits' \in [Slots -> Nat]
  BY DEF Safe, TypeOK, Delivered
<1> QED
  BY <1>3, <1>4 DEF Safe, TypeOK, TaskHasJob, Fail

LEMMA AcceptSafe ==
  ASSUME Safe, NEW s \in Slots, NEW env \in Envelopes, NEW retried \in BOOLEAN,
         AdmitAccepted(s, env, retried)
  PROVE  Safe'
<1> USE WorkflowAssumption
<1> DEFINE landed  == produced[s] \cup env.nodes
           found   == NewConflicts(Content \cup env.nodes)
           settled == [Latest(s) EXCEPT !.status = "completed", !.reported = env.status,
                                        !.conf = AvgConf[env.nodes]]
           held    == ~Unlocked(settled, task[s], landed, openConflicts \cup found)
           job     == IF held THEN [settled EXCEPT !.status = "held"] ELSE settled
<1>0. env.nodes \in SUBSET Nodes /\ env.status \in {"completed", "failed"}
  BY DEF Envelopes
<1>1. Len(jobs[s]) \in 1 .. Len(jobs[s]) /\ job \in Jobs
  <2>1. Latest(s) \in Jobs /\ Len(jobs[s]) \in 1 .. Len(jobs[s])
    BY SpawnedJobs DEF Safe, AdmitAccepted, Delivered
  <2>2. AvgConf[env.nodes] \in Confidences
    BY <1>0
  <2>3. settled \in Jobs
    BY <1>0, <2>1, <2>2 DEF Jobs, JobStatuses
  <2> QED
    BY <2>1, <2>3 DEF Jobs, JobStatuses
<1>2. /\ jobs' = WithJob(s, Len(jobs[s]), job)
      /\ produced' = [produced EXCEPT ![s] = landed]
      /\ openConflicts' = openConflicts \cup found
      /\ task' = [task EXCEPT ![s] = IF held THEN OpenReview(@) ELSE @]
      /\ UNCHANGED <<reviewed, resolvedConflicts>>
      /\ Delivered(s)
  BY DEF AdmitAccepted
<1>3. landed \in SUBSET Nodes /\ found \subseteq Opposed
  BY <1>0 DEF Safe, TypeOK, NewConflicts
<1> HIDE DEF job, landed, found, held
<1>4. jobs' \in [Slots -> Seq(Jobs)] /\ \A t \in Slots : Spawned(t)' <=> Spawned(t)
  BY <1>1, <1>2, JobReplaced DEF Safe
<1>5. /\ task' \in [Slots -> ReviewTasks]
      /\ \A t \in Slots : t # s => task'[t] = task[t]
  BY <1>2 DEF Safe, TypeOK, OpenReview, ReviewTasks
<1>6. admits' \in [Slots -> Nat]
  BY <1>2 DEF Safe, TypeOK, Delivered
<1>7. TaskHasJob'
  BY <1>2, <1>4, <1>5 DEF Safe, TaskHasJob, Delivered
<1> QED
  BY <1>2, <1>3, <1>4, <1>5, <1>6, <1>7 DEF Safe, TypeOK

LEMMA ApproveSafe ==
  ASSUME Safe, NEW s \in Slots, NEW by \in Signatures, NEW waive \in BOOLEAN,
         ApproveReview(s, by, waive)
  PROVE  Safe'
<1> DEFINE answered == [task[s] EXCEPT !.status = "approved", !.by = by,
                                       !.waived = @ \/ waive]
           reviewedJob == [First(s) EXCEPT !.reviewed = TRUE]
           unlocked == Unlocked(reviewedJob, answered, produced[s], openConflicts)
           job == [reviewedJob EXCEPT !.status = IF unlocked THEN "approved" ELSE "held"]
<1>0. Spawned(s)
  BY DEF Safe, TaskHasJob, ApproveReview
<1>1. 1 \in 1 .. Len(jobs[s]) /\ job \in Jobs
  BY <1>0, SpawnedJobs DEF Safe, Jobs, JobStatuses
<1>2. answered \in ReviewTasks
  BY DEF Safe, TypeOK, ReviewTasks
<1>3. /\ jobs' = WithJob(s, 1, job)
      /\ task' = [task EXCEPT ![s] = answered]
      /\ reviewed' = Endorsed(s)
      /\ UNCHANGED <<produced, openConflicts, resolvedConflicts, admits>>
  BY DEF ApproveReview
<1> HIDE DEF job, answered
<1>4. jobs' \in [Slots -> Seq(Jobs)] /\ \A t \in Slots : Spawned(t)' <=> Spawned(t)
  BY <1>1, <1>3, JobReplaced DEF Safe
<1>5. /\ task' \in [Slots -> ReviewTasks]
      /\ \A t \in Slots : t # s => task'[t] = task[t]
  BY <1>2, <1>3 DEF Safe, TypeOK
<1>6. reviewed' \subseteq Nodes
  BY <1>3 DEF Safe, TypeOK, Endorsed
<1>7. TaskHasJob'
  BY <1>0, <1>4, <1>5 DEF Safe, TaskHasJob
<1> QED
  BY <1>3, <1>4, <1>5, <1>6, <1>7 DEF Safe, TypeOK

LEMMA RejectSafe ==
  ASSUME Safe, NEW s \in Slots, NEW by \in Signatures, RejectReview(s, by)
  PROVE  Safe'
<1> DEFINE job == [First(s) EXCEPT !.status = "rejected"]
<1>0. Spawned(s)
  BY DEF Safe, TaskHasJob, RejectReview
<1>1. 1 \in 1 .. Len(jobs[s]) /\ job \in Jobs
  BY <1>0, SpawnedJobs DEF Safe, Jobs, JobStatuses
<1>2. jobs' = WithJob(s, 1, job)
  BY DEF RejectReview
<1> HIDE DEF job
<1>3. jobs' \in [Slots -> Seq(Jobs)] /\ \A t \in Slots : Spawned(t)' <=> Spawned(t)
  BY <1>1, <1>2, JobReplaced DEF Safe
<1>4. /\ task' \in [Slots -> ReviewTasks]
      /\ \A t \in Slots : t # s => task'[t] = task[t]
  BY DEF Safe, TypeOK, RejectReview, ReviewTasks
<1>5. TaskHasJob'
  BY <1>0, <1>3, <1>4 DEF Safe, TaskHasJob
<1> QED
  BY <1>3, <1>4, <1>5 DEF Safe, TypeOK, RejectReview

LEMMA StepSafe == Safe /\ [Next]_vars => Safe'
<1> SUFFICES ASSUME Safe, [Next]_vars PROVE Safe'
  OBVIOUS
<1>1. ASSUME NEW s \in Slots, Spawn(s) PROVE Safe'
  BY <1>1, SpawnSafe
<1>2. ASSUME NEW s \in Slots, AdmitWorkerFailure(s) PROVE Safe'
  BY <1>2, FailSafe DEF AdmitWorkerFailure
<1>3. ASSUME NEW s \in Slots, NEW env \in Envelopes, NEW retried \in Retried,
             AdmitRejected(s, env, retried)
      PROVE  Safe'
  BY <1>3, FailSafe DEF AdmitRejected, Envelopes
<1>4. ASSUME NEW s \in Slots, NEW env \in Envelopes, NEW retried \in Retried,
             AdmitAccepted(s, env, retried)
      PROVE  Safe'
  BY <1>4, AcceptSafe DEF Retried
<1>5. ASSUME NEW s \in Slots, NEW by \in Signatures, RejectReview(s, by)
      PROVE  Safe'
  BY <1>5, RejectSafe
<1>6. ASSUME NEW s \in Slots, NEW by \in Signatures, NEW waive \in BOOLEAN,
             ApproveReview(s, by, waive)
      PROVE  Safe'
  BY <1>6, ApproveSafe
<1>7. ASSUME NEW pair \in openConflicts, ResolveConflict(pair) PROVE Safe'
  BY <1>7 DEF ResolveConflict, Safe, TypeOK, TaskHasJob, Spawned
<1>8. CASE UNCHANGED vars
  BY <1>8 DEF vars, Safe, TypeOK, TaskHasJob, Spawned
<1> QED
  BY <1>1, <1>2, <1>3, <1>4, <1>5, <1>6, <1>7, <1>8 DEF Next, Review

LEMMA AlwaysSafe == Spec => []Safe
  BY InitSafe, StepSafe, PTL DEF Spec

(* Every variable keeps its type, whatever the workers return and the       *)
(* reviewers do (spawn, admit, approve_review, reject_review).              *)
THEOREM TypeCorrect == Spec => []TypeOK
<1>1. Safe => TypeOK
  BY DEF Safe
<1> QED
  BY <1>1, AlwaysSafe, PTL

-----------------------------------------------------------------------------
(* Content and its reviews.  What a step does to them, job nodes aside:     *)
(* new content lands on one slot, a review of one slot is answered, or      *)
(* nothing moves but a task being opened.                                   *)

\* No task is answered or withdrawn; one may be opened.
TasksKept ==
  \A t \in Slots : task'[t].status = task[t].status \/ task[t].status = "none"

ContentLands(s, new) ==
  /\ new \subseteq Nodes /\ new \cap Content = {}
  /\ produced' = [produced EXCEPT ![s] = @ \cup new]
  /\ UNCHANGED reviewed
  /\ TasksKept

ReviewAnswered(s) ==
  /\ task'[s].status \in {"approved", "rejected"}
  /\ \A t \in Slots : t # s => task'[t] = task[t]
  /\ reviewed' = reviewed \/ reviewed' = reviewed \cup produced[s]
  /\ UNCHANGED produced

LEMMA AcceptLands ==
  ASSUME Safe, NEW s \in Slots, NEW env \in Envelopes, NEW retried \in BOOLEAN,
         AdmitAccepted(s, env, retried)
  PROVE  ContentLands(s, env.nodes)
<1>1. env.nodes \subseteq Nodes /\ env.nodes \cap Content = {}
  BY DEF Envelopes, AdmitAccepted, Verified
<1>2. produced' = [produced EXCEPT ![s] = @ \cup env.nodes] /\ UNCHANGED reviewed
  BY DEF AdmitAccepted
<1>3. TasksKept
  BY DEF AdmitAccepted, OpenReview, TasksKept, Safe, TypeOK, ReviewTasks
<1> QED
  BY <1>1, <1>2, <1>3 DEF ContentLands

LEMMA ContentStep ==
  ASSUME Safe, [Next]_vars
  PROVE  \/ \E s \in Slots : ReviewAnswered(s)
         \/ \E s \in Slots, new \in SUBSET Nodes : ContentLands(s, new)
         \/ UNCHANGED <<produced, reviewed>> /\ TasksKept
<1>1. CASE \E s \in Slots : Spawn(s)
  BY <1>1 DEF Spawn, TasksKept
<1>2. CASE \E s \in Slots : AdmitWorkerFailure(s)
  BY <1>2 DEF AdmitWorkerFailure, Fail, TasksKept
<1>3. CASE \E s \in Slots, env \in Envelopes, retried \in Retried :
             AdmitRejected(s, env, retried)
  BY <1>3 DEF AdmitRejected, Fail, TasksKept
<1>4. CASE \E s \in Slots, env \in Envelopes, retried \in Retried :
             AdmitAccepted(s, env, retried)
  <2>1. PICK s \in Slots, env \in Envelopes, retried \in Retried :
          AdmitAccepted(s, env, retried)
    BY <1>4
  <2>2. ContentLands(s, env.nodes) /\ env.nodes \in SUBSET Nodes
    BY <2>1, AcceptLands DEF Retried, Envelopes
  <2> QED
    BY <2>2
<1>5. CASE \E s \in Slots, by \in Signatures : RejectReview(s, by)
  <2>1. PICK s \in Slots, by \in Signatures : RejectReview(s, by)
    BY <1>5
  <2>2. ReviewAnswered(s)
    BY <2>1 DEF RejectReview, ReviewAnswered, Safe, TypeOK, ReviewTasks
  <2> QED
    BY <2>2
<1>6. CASE \E s \in Slots, by \in Signatures, waive \in BOOLEAN :
             ApproveReview(s, by, waive)
  <2>1. PICK s \in Slots, by \in Signatures, waive \in BOOLEAN :
          ApproveReview(s, by, waive)
    BY <1>6
  <2>2. /\ task'[s].status = "approved"
        /\ \A t \in Slots : t # s => task'[t] = task[t]
    BY <2>1 DEF ApproveReview, Safe, TypeOK, ReviewTasks
  <2>3. reviewed' = reviewed \cup produced[s] /\ UNCHANGED produced
    BY <2>1 DEF ApproveReview, Endorsed
  <2> QED
    BY <2>2, <2>3 DEF ReviewAnswered
<1>7. CASE \E pair \in openConflicts : ResolveConflict(pair)
  BY <1>7 DEF ResolveConflict, TasksKept
<1>8. CASE UNCHANGED vars
  BY <1>8 DEF vars, TasksKept
<1> QED
  BY <1>1, <1>2, <1>3, <1>4, <1>5, <1>6, <1>7, <1>8 DEF Next, Review

\* Only content in the graph is marked reviewed: what lands later is not.
ReviewedLanded == reviewed \subseteq Content

ContentInv == SoleProducer /\ ReviewedLanded /\ ReviewedMeansAnswered

LEMMA InitContent == Init => ContentInv
  BY DEF Init, ContentInv, SoleProducer, ReviewedLanded, ReviewedMeansAnswered

LEMMA StepContent == Safe /\ ContentInv /\ [Next]_vars => ContentInv'
<1> SUFFICES ASSUME Safe, ContentInv, [Next]_vars PROVE ContentInv'
  OBVIOUS
<1> USE DEF ContentInv, SoleProducer, ReviewedLanded, ReviewedMeansAnswered, Content
<1>1. ASSUME NEW s \in Slots, ReviewAnswered(s) PROVE ContentInv'
  BY <1>1 DEF ReviewAnswered
<1>2. ASSUME NEW s \in Slots, NEW new \in SUBSET Nodes, ContentLands(s, new)
      PROVE  ContentInv'
  <2>1. produced \in [Slots -> SUBSET Nodes]
    BY DEF Safe, TypeOK
  <2>2. /\ produced'[s] = produced[s] \cup new
        /\ \A t \in Slots : t # s => produced'[t] = produced[t]
    BY <1>2, <2>1 DEF ContentLands
  <2>3. \A t \in Slots : produced[t] \cap new = {}
    BY <1>2 DEF ContentLands
  <2>4. SoleProducer'
    BY <2>2, <2>3
  <2>5. reviewed' = reviewed /\ reviewed \cap new = {}
    BY <1>2 DEF ContentLands
  <2>6. ReviewedLanded'
    BY <2>2, <2>5
  <2>7. ReviewedMeansAnswered'
    BY <1>2, <2>2, <2>5 DEF ContentLands, TasksKept
  <2> QED
    BY <2>4, <2>6, <2>7
<1>3. CASE UNCHANGED <<produced, reviewed>> /\ TasksKept
  BY <1>3 DEF TasksKept
<1> QED
  BY <1>1, <1>2, <1>3, ContentStep

LEMMA AlwaysContent == Spec => []ContentInv
  BY InitContent, StepContent, AlwaysSafe, PTL DEF Spec

(* Every content node answers to exactly one job, however many envelopes    *)
(* name it (_verify_envelope).                                              *)
THEOREM ProducersSole == Spec => []SoleProducer
<1>1. ContentInv => SoleProducer
  BY DEF ContentInv
<1> QED
  BY <1>1, AlwaysContent, PTL

(* Content is marked human_reviewed only once its own job's review was      *)
(* answered (approve_review).                                               *)
THEOREM ReviewsAnswered == Spec => []ReviewedMeansAnswered
<1>1. ContentInv => ReviewedMeansAnswered
  BY DEF ContentInv
<1> QED
  BY <1>1, AlwaysContent, PTL

(* The workflow implements the content ledger.                              *)
THEOREM ImplementsLedger == Spec => LedgerSpec
<1>1. Init => Ledger!Init
  BY DEF Init, Ledger!Init
<1>2. Safe /\ [Next]_vars => [Ledger!Next]_(Ledger!vars)
  <2> SUFFICES ASSUME Safe, [Next]_vars PROVE [Ledger!Next]_(Ledger!vars)
    OBVIOUS
  <2>1. ASSUME NEW s \in Slots, ReviewAnswered(s) PROVE [Ledger!Next]_(Ledger!vars)
    BY <2>1 DEF ReviewAnswered, Ledger!Next, Ledger!vars, Ledger!Endorse
  <2>2. ASSUME NEW s \in Slots, NEW new \in SUBSET Nodes, ContentLands(s, new)
        PROVE  Ledger!Next
    BY <2>2 DEF ContentLands, Content, Ledger!Next, Ledger!Land, Ledger!Landed
  <2>3. CASE UNCHANGED <<produced, reviewed>>
    BY <2>3 DEF Ledger!vars
  <2> QED
    BY <2>1, <2>2, <2>3, ContentStep
<1> QED
  BY <1>1, <1>2, AlwaysSafe, PTL DEF Spec, LedgerSpec, Ledger!Spec

-----------------------------------------------------------------------------
(* Approved jobs.  A step leaves the first job node of a slot and an        *)
(* approved task alone, or leaves that job not approved, or is the approval *)
(* of its review.                                                           *)

\* What ApprovedIsBacked says of one slot.
Backed(s) ==
  Spawned(s) /\ First(s).status = "approved" =>
    /\ First(s).reviewed
    /\ task[s].status = "approved"
    /\ \/ First(s).conf >= Threshold
       \/ /\ HonorWaivers
          /\ task[s].waived /\ task[s].by \in Reviewers
          /\ First(s).conf >= WaiverFloor

Undisturbed(s) ==
  /\ Spawned(s) /\ First(s)' = First(s)
  /\ task[s].status = "approved" => task'[s] = task[s]

NotApproved(s) == Spawned(s) => First(s).status # "approved"

LEMMA BackedKept ==
  ASSUME NEW s \in Slots, Backed(s), Undisturbed(s) \/ NotApproved(s)'
  PROVE  Backed(s)'
  BY DEF Backed, Undisturbed, NotApproved

LEMMA SpawnFirst ==
  ASSUME Safe, NEW s \in Slots, Spawn(s), NEW t \in Slots
  PROVE  Undisturbed(t) \/ NotApproved(t)'
<1> DEFINE job == [status |-> "queued", conf |-> FullConfidence, reviewed |-> FALSE,
                   reported |-> "none"]
<1>1. jobs' = [jobs EXCEPT ![s] = Append(jobs[s], job)] /\ task' = task
  BY DEF Spawn
<1>2. job.status # "approved" /\ job \in Jobs
  BY DEF Jobs, JobStatuses, Confidences, FullConfidence
<1> HIDE DEF job
<1>3. jobs[t] \in Seq(Jobs) /\ jobs \in [Slots -> Seq(Jobs)]
  BY DEF Safe, TypeOK
<1>4. CASE Spawned(t)
  BY <1>1, <1>2, <1>3, <1>4 DEF Undisturbed, First, Spawned
<1>5. CASE ~Spawned(t)
  BY <1>1, <1>2, <1>3, <1>5 DEF NotApproved, First, Spawned
<1> QED
  BY <1>4, <1>5

\* Replacing the latest job node by one that is not approved.
LEMMA LatestReplacedFirst ==
  ASSUME Safe, NEW s \in Slots, Spawned(s), NEW job \in Jobs, job.status # "approved",
         jobs' = WithJob(s, Len(jobs[s]), job),
         task[s].status = "approved" => task'[s] = task[s],
         \A t \in Slots : t # s => task'[t] = task[t],
         NEW t \in Slots
  PROVE  Undisturbed(t) \/ NotApproved(t)'
<1>1. Len(jobs[s]) \in 1 .. Len(jobs[s]) /\ 1 \in 1 .. Len(jobs[s])
  BY SpawnedJobs DEF Safe
<1>2. /\ \A u \in Slots : Spawned(u)' <=> Spawned(u)
      /\ jobs'[s][Len(jobs[s])] = job
      /\ \A k \in 1 .. Len(jobs[s]) : k # Len(jobs[s]) => jobs'[s][k] = jobs[s][k]
      /\ \A u \in Slots : u # s => jobs'[u] = jobs[u]
  BY <1>1, JobReplaced DEF Safe
<1>3. CASE t = s /\ Len(jobs[s]) = 1
  BY <1>2, <1>3 DEF NotApproved, First
<1>4. CASE t = s /\ Len(jobs[s]) # 1
  BY <1>1, <1>2, <1>4 DEF Undisturbed, First
<1>5. CASE t # s
  BY <1>2, <1>5 DEF Undisturbed, NotApproved, First
<1> QED
  BY <1>3, <1>4, <1>5

LEMMA FailFirst ==
  ASSUME Safe, NEW s \in Slots, NEW status \in {"completed", "failed"},
         Delivered(s), Fail(s, status), NEW t \in Slots
  PROVE  Undisturbed(t) \/ NotApproved(t)'
<1> DEFINE job == [Latest(s) EXCEPT !.status = "failed", !.reported = status]
<1>1. job \in Jobs /\ job.status # "approved"
  BY SpawnedJobs DEF Safe, Delivered, Jobs, JobStatuses
<1>2. jobs' = WithJob(s, Len(jobs[s]), job) /\ task' = task /\ Spawned(s)
  BY DEF Fail, Delivered
<1> HIDE DEF job
<1> QED
  BY <1>1, <1>2, LatestReplacedFirst

LEMMA AcceptFirst ==
  ASSUME Safe, NEW s \in Slots, NEW env \in Envelopes, NEW retried \in BOOLEAN,
         AdmitAccepted(s, env, retried), NEW t \in Slots
  PROVE  Undisturbed(t) \/ NotApproved(t)'
<1> USE WorkflowAssumption
<1> DEFINE settled == [Latest(s) EXCEPT !.status = "completed", !.reported = env.status,
                                        !.conf = AvgConf[env.nodes]]
           held    == ~Unlocked(settled, task[s], produced[s] \cup env.nodes,
                                openConflicts \cup NewConflicts(Content \cup env.nodes))
           job     == IF held THEN [settled EXCEPT !.status = "held"] ELSE settled
<1>1. Spawned(s) /\ Latest(s) \in Jobs
  BY SpawnedJobs DEF Safe, AdmitAccepted, Delivered
<1>2. AvgConf[env.nodes] \in Confidences /\ env.status \in {"completed", "failed"}
  BY DEF Envelopes
<1>3. settled \in Jobs /\ settled.status = "completed"
  BY <1>1, <1>2 DEF Jobs, JobStatuses
<1>4. job \in Jobs /\ job.status # "approved"
  BY <1>3 DEF Jobs, JobStatuses
<1>5. /\ jobs' = WithJob(s, Len(jobs[s]), job)
      /\ task' = [task EXCEPT ![s] = IF held THEN OpenReview(@) ELSE @]
  BY DEF AdmitAccepted
<1> HIDE DEF job, held
<1>6. /\ task[s].status = "approved" => task'[s] = task[s]
      /\ \A u \in Slots : u # s => task'[u] = task[u]
  BY <1>5 DEF OpenReview, Safe, TypeOK
<1> QED
  BY <1>1, <1>4, <1>5, <1>6, LatestReplacedFirst

LEMMA RejectFirst ==
  ASSUME Safe, NEW s \in Slots, NEW by \in Signatures, RejectReview(s, by),
         NEW t \in Slots
  PROVE  Undisturbed(t) \/ NotApproved(t)'
<1> DEFINE job == [First(s) EXCEPT !.status = "rejected"]
<1>1. Spawned(s)
  BY DEF Safe, TaskHasJob, RejectReview
<1>2. 1 \in 1 .. Len(jobs[s]) /\ job \in Jobs /\ job.status # "approved"
  BY <1>1, SpawnedJobs DEF Safe, Jobs, JobStatuses
<1>3. jobs' = WithJob(s, 1, job) /\ \A u \in Slots : u # s => task'[u] = task[u]
  BY DEF RejectReview, Safe, TypeOK
<1> HIDE DEF job
<1>4. /\ \A u \in Slots : Spawned(u)' <=> Spawned(u)
      /\ jobs'[s][1] = job
      /\ \A u \in Slots : u # s => jobs'[u] = jobs[u]
  BY <1>2, <1>3, JobReplaced DEF Safe
<1> QED
  BY <1>2, <1>3, <1>4 DEF Undisturbed, NotApproved, First

\* The gate lets a job through only with the confidence or an intact waiver.
LEMMA UnlockedBacked ==
  ASSUME NEW job, NEW t, t.by \in Signatures, NEW nodes, NEW conflicts,
         Unlocked(job, t, nodes, conflicts)
  PROVE  \/ job.conf >= Threshold
         \/ /\ HonorWaivers
            /\ t.waived /\ t.by \in Reviewers
            /\ job.conf >= WaiverFloor
  BY DEF Unlocked, CanProceed, ConfidencePassed, Confident, Waived, WaiverIntact,
         JobView, TaskView, Signatures

LEMMA ApproveBacked ==
  ASSUME Safe, NEW s \in Slots, NEW by \in Signatures, NEW waive \in BOOLEAN,
         ApproveReview(s, by, waive), NEW t \in Slots, Backed(t)
  PROVE  Backed(t)'
<1> DEFINE answered == [task[s] EXCEPT !.status = "approved", !.by = by,
                                       !.waived = @ \/ waive]
           endorsedJob == [First(s) EXCEPT !.reviewed = TRUE]
           unlocked == Unlocked(endorsedJob, answered, produced[s], openConflicts)
           job == [endorsedJob EXCEPT !.status = IF unlocked THEN "approved" ELSE "held"]
<1>1. Spawned(s)
  BY DEF Safe, TaskHasJob, ApproveReview
<1>2. 1 \in 1 .. Len(jobs[s]) /\ job \in Jobs
  BY <1>1, SpawnedJobs DEF Safe, Jobs, JobStatuses
<1>3. answered \in ReviewTasks /\ answered.status = "approved" /\ answered.by = by
  BY DEF Safe, TypeOK, ReviewTasks
<1>4. job.reviewed /\ job.conf = endorsedJob.conf
  BY <1>1, SpawnedJobs DEF Safe, Jobs
<1>5. job.status = "approved" => unlocked
  BY <1>1, SpawnedJobs DEF Safe, Jobs
<1>6. jobs' = WithJob(s, 1, job) /\ task' = [task EXCEPT ![s] = answered]
  BY DEF ApproveReview
<1>7. unlocked => \/ endorsedJob.conf >= Threshold
                  \/ /\ HonorWaivers
                     /\ answered.waived /\ answered.by \in Reviewers
                     /\ endorsedJob.conf >= WaiverFloor
  BY <1>3, UnlockedBacked
<1> HIDE DEF job, answered, endorsedJob, unlocked
<1>8. /\ \A u \in Slots : Spawned(u)' <=> Spawned(u)
      /\ jobs'[s][1] = job
      /\ \A u \in Slots : u # s => jobs'[u] = jobs[u]
  BY <1>2, <1>6, JobReplaced DEF Safe
<1>9. task'[s] = answered /\ \A u \in Slots : u # s => task'[u] = task[u]
  BY <1>6 DEF Safe, TypeOK
<1>10. CASE t = s
  BY <1>3, <1>4, <1>5, <1>7, <1>8, <1>9, <1>10 DEF Backed, First
<1>11. CASE t # s
  BY <1>8, <1>9, <1>11 DEF Backed, First
<1> QED
  BY <1>10, <1>11

LEMMA StepBacked ==
  ASSUME Safe, [Next]_vars, NEW t \in Slots, Backed(t)
  PROVE  Backed(t)'
<1>1. ASSUME NEW s \in Slots, Spawn(s) PROVE Backed(t)'
  BY <1>1, SpawnFirst, BackedKept
<1>2. ASSUME NEW s \in Slots, AdmitWorkerFailure(s) PROVE Backed(t)'
  BY <1>2, FailFirst, BackedKept DEF AdmitWorkerFailure
<1>3. ASSUME NEW s \in Slots, NEW env \in Envelopes, NEW retried \in Retried,
             AdmitRejected(s, env, retried)
      PROVE  Backed(t)'
  BY <1>3, FailFirst, BackedKept DEF AdmitRejected, Envelopes
<1>4. ASSUME NEW s \in Slots, NEW env \in Envelopes, NEW retried \in Retried,
             AdmitAccepted(s, env, retried)
      PROVE  Backed(t)'
  BY <1>4, AcceptFirst, BackedKept DEF Retried
<1>5. ASSUME NEW s \in Slots, NEW by \in Signatures, RejectReview(s, by)
      PROVE  Backed(t)'
  BY <1>5, RejectFirst, BackedKept
<1>6. ASSUME NEW s \in Slots, NEW by \in Signatures, NEW waive \in BOOLEAN,
             ApproveReview(s, by, waive)
      PROVE  Backed(t)'
  BY <1>6, ApproveBacked
<1>7. ASSUME NEW pair \in openConflicts, ResolveConflict(pair) PROVE Backed(t)'
  BY <1>7 DEF ResolveConflict, Backed, Spawned, First
<1>8. CASE UNCHANGED vars
  BY <1>8 DEF vars, Backed, Spawned, First
<1> QED
  BY <1>1, <1>2, <1>3, <1>4, <1>5, <1>6, <1>7, <1>8 DEF Next, Review

(* An approved job stays backed by its review and by its confidence or an   *)
(* accountable waiver above the floor (approve_review, reject_review).      *)
THEOREM ApprovalsBacked == Spec => []ApprovedIsBacked
<1>1. ApprovedIsBacked <=> \A s \in Slots : Backed(s)
  BY DEF ApprovedIsBacked, Backed
<1>2. Init => \A s \in Slots : Backed(s)
  BY DEF Init, Backed, Spawned
<1>3. Safe /\ (\A s \in Slots : Backed(s)) /\ [Next]_vars => (\A s \in Slots : Backed(s))'
  BY StepBacked
<1> QED
  BY <1>1, <1>2, <1>3, AlwaysSafe, PTL DEF Spec

-----------------------------------------------------------------------------
(* Letting a job advance. *)

\* What UnlockIsClean says of the g-th job node of slot s after a step.
CleanAfter(s, g) ==
  LET job == jobs'[s][g] IN
  /\ RequireReview => job.reviewed
  /\ DetectConflicts => ~Contested(produced'[s], openConflicts')
  /\ \/ job.conf >= Threshold
     \/ /\ HonorWaivers /\ job.conf >= WaiverFloor
        /\ task'[s].waived /\ task'[s].status = "approved"
        /\ task'[s].by \in Reviewers
  /\ job.status = "approved" =>
       task'[s].status = "approved" /\ produced'[s] \subseteq reviewed'

\* What the gate has seen to of a job it lets through.
LEMMA UnlockedClean ==
  ASSUME NEW job, NEW t, t.by \in Signatures, NEW nodes, NEW conflicts,
         Unlocked(job, t, nodes, conflicts)
  PROVE  /\ RequireReview => job.reviewed
         /\ DetectConflicts => ~Contested(nodes, conflicts)
         /\ \/ job.conf >= Threshold
            \/ /\ HonorWaivers /\ job.conf >= WaiverFloor
               /\ t.waived /\ t.status = "approved" /\ t.by \in Reviewers
  BY DEF Unlocked, CanProceed, HumanReviewed, NoConflicts, ConfidencePassed, Confident,
         Waived, WaiverIntact, JobView, TaskView, Signatures

\* An operation on one job node lets no other job node advance.
LEMMA OnlyThereAdvances ==
  ASSUME TypeOK, NEW s \in Slots, NEW g \in 1 .. Len(jobs[s]), NEW job \in Jobs,
         jobs' = WithJob(s, g, job),
         g = Len(jobs[s]) \/ produced' = produced,
         \A u \in Slots : u # s => produced'[u] = produced[u],
         NEW t \in Slots, NEW h \in DOMAIN jobs[t], Advances(t, h)
  PROVE  t = s /\ h = g /\ jobs'[s][g] = job /\ job.status \in {"completed", "approved"}
<1>1. /\ jobs'[s][g] = job
      /\ \A k \in 1 .. Len(jobs[s]) : k # g => jobs'[s][k] = jobs[s][k]
      /\ \A u \in Slots : u # s => jobs'[u] = jobs[u]
  BY JobReplaced
<1>2. h \in 1 .. Len(jobs[t])
  BY DEF TypeOK
<1>3. t = s
  BY <1>1 DEF Advances
<1>4. h = g
  BY <1>1, <1>2, <1>3 DEF Advances
<1> QED
  BY <1>1, <1>3, <1>4 DEF Advances

\* Without a job node replaced or content landed, nothing advances.
LEMMA StillNothingAdvances ==
  ASSUME NEW t \in Slots, NEW h \in DOMAIN jobs[t], jobs'[t][h] = jobs[t][h],
         produced' = produced
  PROVE  ~Advances(t, h)
  BY DEF Advances

LEMMA FailAdvancesNothing ==
  ASSUME Safe, NEW s \in Slots, NEW status \in {"completed", "failed"},
         Delivered(s), Fail(s, status), NEW t \in Slots, NEW h \in DOMAIN jobs[t]
  PROVE  ~Advances(t, h)
<1> DEFINE job == [Latest(s) EXCEPT !.status = "failed", !.reported = status]
<1>1. Len(jobs[s]) \in 1 .. Len(jobs[s]) /\ job \in Jobs /\ job.status = "failed"
  BY SpawnedJobs DEF Safe, Delivered, Jobs, JobStatuses
<1>2. jobs' = WithJob(s, Len(jobs[s]), job) /\ produced' = produced
  BY DEF Fail
<1> HIDE DEF job
<1> QED
  BY <1>1, <1>2, OnlyThereAdvances DEF Safe

LEMMA AcceptAdvances ==
  ASSUME Safe, NEW s \in Slots, NEW env \in Envelopes, NEW retried \in BOOLEAN,
         AdmitAccepted(s, env, retried),
         NEW t \in Slots, NEW h \in DOMAIN jobs[t], Advances(t, h)
  PROVE  CleanAfter(t, h)
<1> USE WorkflowAssumption
<1> DEFINE landed    == produced[s] \cup env.nodes
           conflicts == openConflicts \cup NewConflicts(Content \cup env.nodes)
           settled   == [Latest(s) EXCEPT !.status = "completed", !.reported = env.status,
                                          !.conf = AvgConf[env.nodes]]
           held      == ~Unlocked(settled, task[s], landed, conflicts)
           job       == IF held THEN [settled EXCEPT !.status = "held"] ELSE settled
<1>1. Len(jobs[s]) \in 1 .. Len(jobs[s]) /\ Latest(s) \in Jobs
  BY SpawnedJobs DEF Safe, AdmitAccepted, Delivered
<1>2. AvgConf[env.nodes] \in Confidences /\ env.status \in {"completed", "failed"}
  BY DEF Envelopes
<1>3. settled \in Jobs /\ settled.status = "completed"
  BY <1>1, <1>2 DEF Jobs, JobStatuses
<1>4. job \in Jobs /\ (held => job.status = "held") /\ (~held => job = settled)
  BY <1>3 DEF Jobs, JobStatuses
<1>5. /\ jobs' = WithJob(s, Len(jobs[s]), job)
      /\ produced' = [produced EXCEPT ![s] = landed]
      /\ openConflicts' = conflicts
      /\ task' = [task EXCEPT ![s] = IF held THEN OpenReview(@) ELSE @]
  BY DEF AdmitAccepted
<1>6. ~held => /\ RequireReview => settled.reviewed
               /\ DetectConflicts => ~Contested(landed, conflicts)
               /\ \/ settled.conf >= Threshold
                  \/ /\ HonorWaivers /\ settled.conf >= WaiverFloor
                     /\ task[s].waived /\ task[s].status = "approved"
                     /\ task[s].by \in Reviewers
  BY UnlockedClean DEF Safe, TypeOK, ReviewTasks
<1> HIDE DEF job, held, settled, landed, conflicts
<1>7. produced'[s] = landed /\ \A u \in Slots : u # s => produced'[u] = produced[u]
  BY <1>5 DEF Safe, TypeOK
<1>8. ~held => task'[s] = task[s]
  BY <1>5 DEF Safe, TypeOK
<1>9. /\ t = s /\ h = Len(jobs[s]) /\ jobs'[s][Len(jobs[s])] = job
      /\ job.status \in {"completed", "approved"}
  BY <1>1, <1>4, <1>5, <1>7, OnlyThereAdvances DEF Safe
<1> QED
  BY <1>3, <1>4, <1>5, <1>6, <1>7, <1>8, <1>9 DEF CleanAfter

LEMMA ApproveAdvances ==
  ASSUME Safe, NEW s \in Slots, NEW by \in Signatures, NEW waive \in BOOLEAN,
         ApproveReview(s, by, waive),
         NEW t \in Slots, NEW h \in DOMAIN jobs[t], Advances(t, h)
  PROVE  CleanAfter(t, h)
<1> DEFINE answered == [task[s] EXCEPT !.status = "approved", !.by = by,
                                       !.waived = @ \/ waive]
           endorsedJob == [First(s) EXCEPT !.reviewed = TRUE]
           unlocked == Unlocked(endorsedJob, answered, produced[s], openConflicts)
           job == [endorsedJob EXCEPT !.status = IF unlocked THEN "approved" ELSE "held"]
<1>1. 1 \in 1 .. Len(jobs[s]) /\ First(s) \in Jobs
  BY SpawnedJobs DEF Safe, TaskHasJob, ApproveReview
<1>2. /\ job \in Jobs /\ job.reviewed /\ job.conf = endorsedJob.conf
      /\ unlocked \/ job.status = "held"
  BY <1>1 DEF Jobs, JobStatuses
<1>3. answered.status = "approved" /\ answered.by \in Signatures
  BY DEF Safe, TypeOK, ReviewTasks
<1>4. /\ jobs' = WithJob(s, 1, job) /\ task' = [task EXCEPT ![s] = answered]
      /\ produced' = produced /\ reviewed' = reviewed \cup produced[s]
      /\ openConflicts' = openConflicts
  BY DEF ApproveReview, Endorsed
<1>5. unlocked => /\ DetectConflicts => ~Contested(produced[s], openConflicts)
                  /\ \/ endorsedJob.conf >= Threshold
                     \/ /\ HonorWaivers /\ endorsedJob.conf >= WaiverFloor
                        /\ answered.waived /\ answered.status = "approved"
                        /\ answered.by \in Reviewers
  BY <1>3, UnlockedClean
<1> HIDE DEF job, answered, endorsedJob, unlocked
<1>6. /\ t = s /\ h = 1 /\ jobs'[s][1] = job
      /\ job.status \in {"completed", "approved"}
  BY <1>1, <1>2, <1>4, OnlyThereAdvances DEF Safe
<1>7. task'[s] = answered
  BY <1>4 DEF Safe, TypeOK
<1> QED
  BY <1>2, <1>3, <1>4, <1>5, <1>6, <1>7 DEF CleanAfter

LEMMA StepAdvancesClean ==
  ASSUME Safe, [Next]_vars, NEW t \in Slots, NEW h \in DOMAIN jobs[t], Advances(t, h)
  PROVE  CleanAfter(t, h)
<1>1. ASSUME NEW s \in Slots, Spawn(s) PROVE FALSE
  <2> DEFINE job == [status |-> "queued", conf |-> FullConfidence, reviewed |-> FALSE,
                     reported |-> "none"]
  <2>1. /\ jobs' = [jobs EXCEPT ![s] = Append(jobs[s], job)] /\ produced' = produced
        /\ jobs \in [Slots -> Seq(Jobs)] /\ job \in Jobs
    BY <1>1 DEF Spawn, Safe, TypeOK, Jobs, JobStatuses, Confidences, FullConfidence
  <2> HIDE DEF job
  <2>2. h \in 1 .. Len(jobs[t]) /\ jobs'[t][h] = jobs[t][h]
    BY <2>1
  <2> QED
    BY <2>1, <2>2, StillNothingAdvances
<1>2. ASSUME NEW s \in Slots, AdmitWorkerFailure(s) PROVE FALSE
  BY <1>2, FailAdvancesNothing DEF AdmitWorkerFailure
<1>3. ASSUME NEW s \in Slots, NEW env \in Envelopes, NEW retried \in Retried,
             AdmitRejected(s, env, retried)
      PROVE  FALSE
  BY <1>3, FailAdvancesNothing DEF AdmitRejected, Envelopes
<1>4. ASSUME NEW s \in Slots, NEW env \in Envelopes, NEW retried \in Retried,
             AdmitAccepted(s, env, retried)
      PROVE  CleanAfter(t, h)
  BY <1>4, AcceptAdvances DEF Retried
<1>5. ASSUME NEW s \in Slots, NEW by \in Signatures, RejectReview(s, by)
      PROVE  FALSE
  <2> DEFINE job == [First(s) EXCEPT !.status = "rejected"]
  <2>1. 1 \in 1 .. Len(jobs[s]) /\ job \in Jobs /\ job.status = "rejected"
    BY <1>5, SpawnedJobs DEF Safe, TaskHasJob, RejectReview, Jobs, JobStatuses
  <2>2. jobs' = WithJob(s, 1, job) /\ produced' = produced
    BY <1>5 DEF RejectReview
  <2> HIDE DEF job
  <2> QED
    BY <2>1, <2>2, OnlyThereAdvances DEF Safe
<1>6. ASSUME NEW s \in Slots, NEW by \in Signatures, NEW waive \in BOOLEAN,
             ApproveReview(s, by, waive)
      PROVE  CleanAfter(t, h)
  BY <1>6, ApproveAdvances
<1>7. ASSUME UNCHANGED <<jobs, produced>> PROVE FALSE
  BY <1>7, StillNothingAdvances
<1> QED
  BY <1>1, <1>2, <1>3, <1>4, <1>5, <1>6, <1>7 DEF Next, Review, ResolveConflict, vars

(* Whenever an approval or an admission lets a job advance, it was          *)
(* reviewed, nothing it produced is on an open contradiction, and its       *)
(* confidence is earned or accountably waived (admit, approve_review).      *)
THEOREM UnlocksAreClean == Spec => UnlockIsClean
<1> DEFINE Clean == \A s \in Slots : \A g \in DOMAIN jobs[s] :
                      Advances(s, g) => CleanAfter(s, g)
<1>1. Safe /\ [Next]_vars => Clean
  BY StepAdvancesClean
<1> QED
  BY <1>1, AlwaysSafe, PTL DEF Spec, UnlockIsClean, CleanAfter

-----------------------------------------------------------------------------
(* Conflicts. *)

LEMMA StepConflicts == Safe /\ ConflictsRecorded /\ [Next]_vars => ConflictsRecorded'
<1> SUFFICES ASSUME Safe, ConflictsRecorded, [Next]_vars PROVE ConflictsRecorded'
  OBVIOUS
<1>1. CASE UNCHANGED <<produced, openConflicts, resolvedConflicts>>
  BY <1>1 DEF ConflictsRecorded, Content
<1>2. ASSUME NEW s \in Slots, NEW env \in Envelopes, NEW retried \in Retried,
             AdmitAccepted(s, env, retried)
      PROVE  ConflictsRecorded'
  <2>1. produced \in [Slots -> SUBSET Nodes]
    BY DEF Safe, TypeOK
  <2>2. /\ produced' = [produced EXCEPT ![s] = @ \cup env.nodes]
        /\ openConflicts' = openConflicts \cup NewConflicts(Content \cup env.nodes)
        /\ UNCHANGED resolvedConflicts
    BY <1>2 DEF AdmitAccepted
  <2>3. Content' = Content \cup env.nodes
    BY <2>1, <2>2 DEF Content
  <2> QED
    BY <2>2, <2>3 DEF ConflictsRecorded, NewConflicts
<1>3. ASSUME NEW pair \in openConflicts, ResolveConflict(pair) PROVE ConflictsRecorded'
  BY <1>3 DEF ResolveConflict, ConflictsRecorded, Content
<1>4. CASE \E s \in Slots : Spawn(s) \/ AdmitWorkerFailure(s)
  BY <1>1, <1>4 DEF Spawn, AdmitWorkerFailure, Fail
<1>5. CASE \E s \in Slots, env \in Envelopes, retried \in Retried :
             AdmitRejected(s, env, retried)
  BY <1>1, <1>5 DEF AdmitRejected, Fail
<1>6. CASE \E s \in Slots, by \in Signatures :
             RejectReview(s, by) \/ \E waive \in BOOLEAN : ApproveReview(s, by, waive)
  BY <1>1, <1>6 DEF RejectReview, ApproveReview
<1>7. CASE UNCHANGED vars
  BY <1>1, <1>7 DEF vars
<1> QED
  BY <1>2, <1>3, <1>4, <1>5, <1>6, <1>7 DEF Next, Review

(* No contradiction between claims in the graph goes unrecorded, and none   *)
(* that was resolved is open again (admit, detect_conflicts_in_graph).      *)
THEOREM ContradictionsRecorded == Spec => []ConflictsRecorded
<1>1. Init => ConflictsRecorded
  <2> SUFFICES ASSUME Init PROVE ConflictsRecorded
    OBVIOUS
  <2>1. Content = {}
    BY DEF Init, Content
  <2>2. \A pair \in Opposed : ~(pair \subseteq Content)
    BY <2>1, WorkflowAssumption
  <2> QED
    BY <2>2 DEF Init, ConflictsRecorded
<1> QED
  BY <1>1, StepConflicts, AlwaysSafe, PTL DEF Spec

-----------------------------------------------------------------------------
(* Held jobs. *)

Reviewable(s) ==
  \A g \in 1 .. Len(jobs[s]) : jobs[s][g].status = "held" => task[s].status # "none"

\* Replacing a job node by one that is not held, or held with a review task.
LEMMA ReviewableKept ==
  ASSUME Safe, \A t \in Slots : Reviewable(t),
         NEW s \in Slots, NEW g \in 1 .. Len(jobs[s]), NEW job \in Jobs,
         jobs' = WithJob(s, g, job),
         job.status = "held" => task'[s].status # "none",
         \A t \in Slots : task[t].status # "none" => task'[t].status # "none"
  PROVE  \A t \in Slots : Reviewable(t)'
<1>1. /\ \A t \in Slots : Len(jobs'[t]) = Len(jobs[t])
      /\ jobs'[s][g] = job
      /\ \A k \in 1 .. Len(jobs[s]) : k # g => jobs'[s][k] = jobs[s][k]
      /\ \A t \in Slots : t # s => jobs'[t] = jobs[t]
  BY JobReplaced DEF Safe
<1> QED
  BY <1>1 DEF Reviewable

LEMMA StepReviewable ==
  ASSUME Safe, [Next]_vars, \A t \in Slots : Reviewable(t)
  PROVE  \A t \in Slots : Reviewable(t)'
<1>1. ASSUME NEW s \in Slots, Spawn(s) PROVE \A t \in Slots : Reviewable(t)'
  <2> DEFINE job == [status |-> "queued", conf |-> FullConfidence, reviewed |-> FALSE,
                     reported |-> "none"]
  <2>1. jobs' = [jobs EXCEPT ![s] = Append(jobs[s], job)] /\ task' = task
    BY <1>1 DEF Spawn
  <2>2. job.status # "held" /\ job \in Jobs
    BY DEF Jobs, JobStatuses, Confidences, FullConfidence
  <2> HIDE DEF job
  <2>3. jobs \in [Slots -> Seq(Jobs)]
    BY DEF Safe, TypeOK
  <2> QED
    BY <2>1, <2>2, <2>3 DEF Reviewable
<1>2. ASSUME NEW s \in Slots, NEW status \in {"completed", "failed"},
             Delivered(s), Fail(s, status)
      PROVE  \A t \in Slots : Reviewable(t)'
  <2> DEFINE job == [Latest(s) EXCEPT !.status = "failed", !.reported = status]
  <2>1. /\ Len(jobs[s]) \in 1 .. Len(jobs[s])
        /\ job \in Jobs /\ job.status # "held"
    BY <1>2, SpawnedJobs DEF Safe, Delivered, Jobs, JobStatuses
  <2>2. jobs' = WithJob(s, Len(jobs[s]), job) /\ task' = task
    BY <1>2 DEF Fail
  <2> HIDE DEF job
  <2> QED
    BY <2>1, <2>2, ReviewableKept
<1>3. ASSUME NEW s \in Slots, NEW env \in Envelopes, NEW retried \in Retried,
             AdmitAccepted(s, env, retried)
      PROVE  \A t \in Slots : Reviewable(t)'
  <2> USE WorkflowAssumption
  <2> DEFINE settled == [Latest(s) EXCEPT !.status = "completed", !.reported = env.status,
                                          !.conf = AvgConf[env.nodes]]
             held    == ~Unlocked(settled, task[s], produced[s] \cup env.nodes,
                                  openConflicts \cup NewConflicts(Content \cup env.nodes))
             job     == IF held THEN [settled EXCEPT !.status = "held"] ELSE settled
  <2>1. Latest(s) \in Jobs /\ Len(jobs[s]) \in 1 .. Len(jobs[s])
    BY <1>3, SpawnedJobs DEF Safe, AdmitAccepted, Delivered
  <2>2. AvgConf[env.nodes] \in Confidences /\ env.status \in {"completed", "failed"}
    BY DEF Envelopes
  <2>3. settled \in Jobs /\ settled.status = "completed"
    BY <2>1, <2>2 DEF Jobs, JobStatuses
  <2>4. job \in Jobs /\ (job.status = "held" => held)
    BY <2>3 DEF Jobs, JobStatuses
  <2>5. /\ jobs' = WithJob(s, Len(jobs[s]), job)
        /\ task' = [task EXCEPT ![s] = IF held THEN OpenReview(@) ELSE @]
    BY <1>3 DEF AdmitAccepted
  <2> HIDE DEF job, held
  <2>6. /\ held => task'[s].status # "none"
        /\ \A t \in Slots : task[t].status # "none" => task'[t].status # "none"
    BY <2>5 DEF OpenReview, Safe, TypeOK, ReviewTasks
  <2> QED
    BY <2>1, <2>4, <2>5, <2>6, ReviewableKept
<1>4. ASSUME NEW s \in Slots, NEW by \in Signatures, RejectReview(s, by)
      PROVE  \A t \in Slots : Reviewable(t)'
  <2> DEFINE job == [First(s) EXCEPT !.status = "rejected"]
  <2>1. Spawned(s)
    BY <1>4 DEF Safe, TaskHasJob, RejectReview
  <2>2. 1 \in 1 .. Len(jobs[s]) /\ job \in Jobs /\ job.status # "held"
    BY <2>1, SpawnedJobs DEF Safe, Jobs, JobStatuses
  <2>3. /\ jobs' = WithJob(s, 1, job)
        /\ \A t \in Slots : task[t].status # "none" => task'[t].status # "none"
    BY <1>4 DEF RejectReview, Safe, TypeOK, ReviewTasks
  <2> HIDE DEF job
  <2> QED
    BY <2>2, <2>3, ReviewableKept
<1>5. ASSUME NEW s \in Slots, NEW by \in Signatures, NEW waive \in BOOLEAN,
             ApproveReview(s, by, waive)
      PROVE  \A t \in Slots : Reviewable(t)'
  <2> DEFINE answered == [task[s] EXCEPT !.status = "approved", !.by = by,
                                         !.waived = @ \/ waive]
             endorsedJob == [First(s) EXCEPT !.reviewed = TRUE]
             unlocked == Unlocked(endorsedJob, answered, produced[s], openConflicts)
             job == [endorsedJob EXCEPT !.status = IF unlocked THEN "approved" ELSE "held"]
  <2>1. Spawned(s)
    BY <1>5 DEF Safe, TaskHasJob, ApproveReview
  <2>2. 1 \in 1 .. Len(jobs[s]) /\ job \in Jobs
    BY <2>1, SpawnedJobs DEF Safe, Jobs, JobStatuses
  <2>3. answered.status = "approved"
    BY DEF Safe, TypeOK, ReviewTasks
  <2>4. jobs' = WithJob(s, 1, job) /\ task' = [task EXCEPT ![s] = answered]
    BY <1>5 DEF ApproveReview
  <2> HIDE DEF job, answered
  <2>5. \A t \in Slots : task[t].status # "none" => task'[t].status # "none"
    BY <2>3, <2>4 DEF Safe, TypeOK
  <2>6. task'[s].status # "none"
    BY <2>3, <2>4 DEF Safe, TypeOK
  <2> QED
    BY <2>2, <2>4, <2>5, <2>6, ReviewableKept
<1>6. CASE UNCHANGED <<jobs, task>>
  BY <1>6 DEF Reviewable
<1>7. ASSUME NEW pair \in openConflicts, ResolveConflict(pair)
      PROVE  \A t \in Slots : Reviewable(t)'
  BY <1>6, <1>7 DEF ResolveConflict
<1>8. CASE UNCHANGED vars
  BY <1>6, <1>8 DEF vars
<1>9. ASSUME NEW s \in Slots, AdmitWorkerFailure(s)
      PROVE  \A t \in Slots : Reviewable(t)'
  BY <1>2, <1>9 DEF AdmitWorkerFailure
<1>10. ASSUME NEW s \in Slots, NEW env \in Envelopes, NEW retried \in Retried,
              AdmitRejected(s, env, retried)
       PROVE  \A t \in Slots : Reviewable(t)'
  BY <1>2, <1>10 DEF AdmitRejected, Envelopes
<1> QED
  BY <1>1, <1>3, <1>4, <1>5, <1>7, <1>8, <1>9, <1>10 DEF Next, Review

(* What the gate holds, a human can find: a held job has a review task      *)
(* (admit, _open_review).                                                   *)
THEOREM HoldsReviewable == Spec => []HeldHasReview
<1>1. Safe => (HeldHasReview <=> \A s \in Slots : Reviewable(s))
  <2> SUFFICES ASSUME Safe PROVE HeldHasReview <=> \A s \in Slots : Reviewable(s)
    OBVIOUS
  <2>1. \A s \in Slots : DOMAIN jobs[s] = 1 .. Len(jobs[s])
    BY DEF Safe, TypeOK
  <2> QED
    BY <2>1 DEF HeldHasReview, Reviewable
<1>2. Init => \A s \in Slots : Reviewable(s)
  BY DEF Init, Reviewable
<1>3. Safe /\ (\A s \in Slots : Reviewable(s)) /\ [Next]_vars
        => (\A s \in Slots : Reviewable(s))'
  BY StepReviewable
<1> QED
  BY <1>1, <1>2, <1>3, AlwaysSafe, PTL DEF Spec

-----------------------------------------------------------------------------
(* Everything the spawner promises, in one formula, so that what only calls *)
(* the spawner can be shown to keep all of it.                              *)

SpawnerPromises ==
  /\ [](/\ SoleProducer /\ ReviewedMeansAnswered /\ ApprovedIsBacked
        /\ ConflictsRecorded /\ HeldHasReview)
  /\ UnlockIsClean
  /\ LedgerSpec

LEMMA PromisesTogether == Spec => SpawnerPromises
<1>1. Spec => [](/\ SoleProducer /\ ReviewedMeansAnswered /\ ApprovedIsBacked
                 /\ ConflictsRecorded /\ HeldHasReview)
  BY ProducersSole, ReviewsAnswered, ApprovalsBacked, ContradictionsRecorded,
     HoldsReviewable, PTL
<1> QED
  BY <1>1, UnlocksAreClean, ImplementsLedger DEF SpawnerPromises
=============================================================================
