------------------------- MODULE SpecialistPipeline -------------------------
(***************************************************************************)
(* specialist_review.py: an extraction run through four specialists, the    *)
(* tasks of a DAG: extract, then conflict_check and schema_validate side by *)
(* side, then reviewer_judge, which admits the envelope.  A run that fails  *)
(* part way is diagnosed and resumed, from the start or, when only the      *)
(* judge failed, with the envelope and the verdicts of the report it left.  *)
(*                                                                          *)
(* What the spawner does is ExtractionWorkflow.  Callers run one pipeline   *)
(* at a time and humans review between them.  Each task is an action; how   *)
(* the scheduler orders them is TaskScheduler's subject, and shows here as  *)
(* `Ready`.  conflict_check and schema_validate do not raise.  A judge that *)
(* raises does so before admit has changed the graph, and before or after   *)
(* it recorded a disagreement: `admit` raises for a job it does not know.   *)
(***************************************************************************)
EXTENDS ExtractionWorkflow, FiniteSets

CONSTANTS MaxReports,       \* bound on the pipelines run and resumed
          DetectDivergence  \* callers give a divergence_threshold

ASSUME PipelineAssumption == MaxReports \in Nat /\ DetectDivergence \in BOOLEAN

VARIABLES reports,        \* the SpecialistPipelineReports; the last may be running
          disagreements   \* the REVIEWER_DISAGREEMENT records in graph memory

pipeline == <<reports, disagreements>>
pipelineVars == <<vars, pipeline>>

Roles == {"extract", "conflict_check", "schema_validate", "reviewer_judge"}

\* _build_dag.
DependenciesOf(t) ==
  CASE t = "extract" -> {}
    [] t = "reviewer_judge" -> {"conflict_check", "schema_validate"}
    [] OTHER -> {"extract"}

Verdicts == {"none", "pass", "fail"}

\* `existing` is the content at the start of the run, `compared` whether it has
\* a divergence_threshold; "absent" is a task the run_result has no span of.
Reports ==
  [slot : Slots, existing : SUBSET Nodes, compared : BOOLEAN,
   env : Envelopes \cup {NoEnvelope}, valid : BOOLEAN, schema : Verdicts, conflict : Verdicts,
   status : [Roles -> {"pending", "completed", "failed", "skipped", "absent"}],
   admission : {"none", "admitted", "refused"},
   disagreed : SUBSET Nat, diverged : SUBSET Nodes]

Disagreements == [slot : Slots, schema : Verdicts, conflict : Verdicts]

-----------------------------------------------------------------------------
(* Reports. *)

At(report, s) == {t \in Roles : report.status[t] = s}

\* RunResult.all_succeeded.
AllSucceeded(report) == At(report, "failed") \cup At(report, "skipped") = {}

Current == reports[Len(reports)]
Running == reports # << >> /\ At(Current, "pending") # {}

Ready(t) ==
  /\ Running
  /\ t \in At(Current, "pending")
  /\ DependenciesOf(t) \subseteq At(Current, "completed")

WithDependents(some) == some \cup {t \in Roles : DependenciesOf(t) \cap some # {}}

\* A fixed point: no task of this DAG is more than two edges from another.
Downstream(some) == WithDependents(WithDependents(some))

ResumableTasks(report) == Downstream(At(report, "failed") \cup At(report, "skipped"))

\* What resume redoes when, of the failed tasks, `retried` are of a class worth
\* it: not the others, nor what depends on one of them.
Stale(report, retried) ==
  ResumableTasks(report) \
    UNION {Downstream({t}) : t \in At(report, "failed") \ retried}

\* failed_ancestors: the dependencies of t, and on from those that did not fail.
FailedAncestors(t, failed) ==
  LET walks == {S \in SUBSET Roles :
                  /\ DependenciesOf(t) \subseteq S
                  /\ \A d \in S \ failed : DependenciesOf(d) \subseteq S}
  IN {f \in failed : \A S \in walks : f \in S}

\* Mutant of BlastRadius: only what depends on the failed task directly.
BlastRadiusDirect(report, root) ==
  {t \in At(report, "skipped") : root \in DependenciesOf(t)}

\* diagnose_pipeline_failure: the skipped tasks a failed one answers for.
BlastRadius(report, root) ==
  {t \in At(report, "skipped") : root \in FailedAncestors(t, At(report, "failed"))}

OrchestratorOriginated(report) == "reviewer_judge" \in At(report, "failed")

\* What a resume of the judge alone takes from the report.
Resumable(report) ==
  report.env # NoEnvelope /\ report.schema # "none" /\ report.conflict # "none"

-----------------------------------------------------------------------------
(* Verdicts. *)

\* Mutant of ConflictVerdict: the batch is compared with itself alone.
ConflictVerdictAlone(existing, nodes) ==
  IF \E pair \in Opposed : pair \subseteq nodes THEN "fail" ELSE "pass"

\* verdict_from_conflict_check: only conflicts that touch the batch count.
ConflictVerdict(existing, nodes) ==
  IF \E pair \in Opposed : pair \subseteq existing \cup nodes /\ pair \cap nodes # {}
  THEN "fail" ELSE "pass"

\* verdict_from_schema_validation.
SchemaVerdict(valid) == IF valid THEN "pass" ELSE "fail"

-----------------------------------------------------------------------------
(* Running a pipeline. *)

PipelineInit ==
  Init /\ reports = << >> /\ disagreements = << >>

Blank(s, compared) ==
  [slot |-> s, existing |-> Content, compared |-> compared, env |-> NoEnvelope, valid |-> TRUE,
   schema |-> "none", conflict |-> "none", status |-> [t \in Roles |-> "pending"],
   admission |-> "none", disagreed |-> {}, diverged |-> {}]

RunPipeline(s, compared) ==
  /\ ~Running /\ Len(reports) < MaxReports
  /\ Spawn(s)
  /\ reports' = Append(reports, Blank(s, compared))
  /\ UNCHANGED disagreements

Report(report) == reports' = [reports EXCEPT ![Len(reports)] = report]

ExtractCompletes(env, valid) ==
  /\ Ready("extract")
  /\ env.status = "completed"
  /\ ~valid => ~env.ok /\ env.nodes # {}
  /\ Report([Current EXCEPT !.env = env, !.valid = valid, !.status["extract"] = "completed"])
  /\ UNCHANGED <<vars, disagreements>>

\* What a worker that reports failure returns; nothing but that is read.
FailedEnvelope == [status |-> "failed", ok |-> FALSE, nodes |-> {}]

\* Mutant of ExtractFails: the failure is put on the job too.
ExtractFailsJob(env) ==
  /\ Ready("extract")
  /\ Report([Current EXCEPT !.env = env, !.status["extract"] = "failed"])
  /\ Fail(Current.slot, "failed")
  /\ UNCHANGED <<admits, disagreements>>

\* The worker reports failure, or raises and leaves no envelope.
ExtractFails(env) ==
  /\ Ready("extract")
  /\ Report([Current EXCEPT !.env = env, !.status["extract"] = "failed"])
  /\ UNCHANGED <<vars, disagreements>>

ConflictCheck ==
  /\ Ready("conflict_check")
  /\ Report([Current EXCEPT !.conflict = ConflictVerdict(Current.existing, Current.env.nodes),
                            !.status["conflict_check"] = "completed"])
  /\ UNCHANGED <<vars, disagreements>>

SchemaValidate ==
  /\ Ready("schema_validate")
  /\ Report([Current EXCEPT !.schema = SchemaVerdict(Current.valid),
                            !.status["schema_validate"] = "completed"])
  /\ UNCHANGED <<vars, disagreements>>

\* Mutant of Judged: the judge reports what it was asked, not what admit did.
JudgedBlindly(report) ==
  [report EXCEPT !.status["reviewer_judge"] = "completed",
                 !.disagreed = IF report.schema # report.conflict
                               THEN @ \cup {Len(disagreements) + 1} ELSE @,
                 !.admission = "admitted"]

\* The judge's verdict: whether admit let the envelope in.
Judged(report) ==
  [report EXCEPT !.status["reviewer_judge"] = "completed",
                 !.disagreed = IF report.schema # report.conflict
                               THEN @ \cup {Len(disagreements) + 1} ELSE @,
                 !.admission = IF Verified(report.env) THEN "admitted" ELSE "refused"]

RecordOf(report) ==
  [slot |-> report.slot, schema |-> report.schema, conflict |-> report.conflict]

\* Mutant of Reconcile: a disagreement counts only when the schema failed.
ReconcileOneSided(report) ==
  IF report.schema = "fail" /\ report.conflict = "pass"
  THEN disagreements' = Append(disagreements, RecordOf(report))
  ELSE UNCHANGED disagreements

\* The first half of reconcile_and_admit; prior disagreements are only read.
Reconcile(report) ==
  IF report.schema # report.conflict
  THEN disagreements' = Append(disagreements, RecordOf(report))
  ELSE UNCHANGED disagreements

\* check_confidence_divergence: which of the nodes derived again differ enough
\* in confidence.
Divergences(report) ==
  IF report.compared THEN SUBSET (report.env.nodes \cap report.existing) ELSE {{}}

ReviewerJudge(diverged) ==
  /\ Ready("reviewer_judge")
  /\ diverged \in Divergences(Current)
  /\ Reconcile(Current)
  /\ Admit(Current.slot, Current.env)
  /\ Report([Judged(Current) EXCEPT !.diverged = diverged])

Failed(report) == [report EXCEPT !.status["reviewer_judge"] = "failed"]

\* The report has the divergences the judge got to, and no disagreement, even
\* one that is on record by now: disagreements_box is filled after admit.
ReviewerJudgeRaises(diverged) ==
  /\ Ready("reviewer_judge")
  /\ diverged \in Divergences(Current)
  /\ Report([Failed(Current) EXCEPT !.diverged = diverged])
  /\ Reconcile(Current) \/ UNCHANGED disagreements
  /\ UNCHANGED vars

\* No task is ready: the scheduler skips what is left, and the run is over.
SkipRemaining ==
  /\ Running /\ \A t \in Roles : ~Ready(t)
  /\ Report([Current EXCEPT !.status = [t \in Roles |-> IF @[t] = "pending" THEN "skipped"
                                                                           ELSE @[t]]])
  /\ UNCHANGED <<vars, disagreements>>

-----------------------------------------------------------------------------
(* Resuming one. *)

\* The resume leaves no mark on the report: a caller may resume it again.
Resumes(i) == ~Running /\ Len(reports) < MaxReports /\ ~AllSucceeded(reports[i])

\* The report of a resume lists one span and carries over the rest, but for
\* the divergences.
Carried(i) ==
  [reports[i] EXCEPT !.status = [t \in Roles |-> IF t = "reviewer_judge" THEN "pending"
                                                                        ELSE "absent"],
                     !.diverged = {}]

AdmitAgain(i) ==
  /\ Reconcile(reports[i])
  /\ Admit(reports[i].slot, reports[i].env)
  /\ reports' = Append(reports, Judged(Carried(i)))

RaiseAgain(i) ==
  /\ reports' = Append(reports, Failed(Carried(i)))
  /\ Reconcile(reports[i]) \/ UNCHANGED disagreements
  /\ UNCHANGED vars

\* A full rerun is given the arguments of the first run, so the same slot, but
\* not its divergence_threshold.
Resume(i, stale) ==
  /\ stale # {}
  /\ Resumes(i)
  /\ IF stale = {"reviewer_judge"}
     THEN AdmitAgain(i) \/ RaiseAgain(i)
     ELSE RunPipeline(reports[i].slot, FALSE)

ReviewBetween == ~Running /\ Review /\ UNCHANGED pipeline

PipelineNext ==
  \/ \E s \in Slots : RunPipeline(s, DetectDivergence)
  \/ \E env \in Envelopes, valid \in BOOLEAN : ExtractCompletes(env, valid)
  \/ \E env \in {FailedEnvelope, NoEnvelope} : ExtractFails(env)
  \/ ConflictCheck
  \/ SchemaValidate
  \/ \E diverged \in SUBSET Nodes : ReviewerJudge(diverged)
  \/ \E diverged \in SUBSET Nodes : ReviewerJudgeRaises(diverged)
  \/ SkipRemaining
  \/ \E i \in DOMAIN reports : \E retried \in SUBSET At(reports[i], "failed") :
       Resume(i, Stale(reports[i], retried))
  \/ ReviewBetween

PipelineSpec == PipelineInit /\ [][PipelineNext]_pipelineVars

-----------------------------------------------------------------------------
PipelineTypeOK ==
  /\ TypeOK
  /\ reports \in Seq(Reports)
  /\ disagreements \in Seq(Disagreements)

(* The reports tell what is in the graph: a slot holds exactly what the     *)
(* reports that say `admitted` extracted for it, however often its pipeline *)
(* was run, failed and resumed (reviewer_judge, resume_specialist_pipeline).*)
LandedAsReported ==
  \A s \in Slots :
    produced[s] = UNION {reports[i].env.nodes : i \in
                           {j \in DOMAIN reports : /\ reports[j].slot = s
                                                   /\ reports[j].admission = "admitted"}}

JudgeFailures == {i \in DOMAIN reports : "reviewer_judge" \in At(reports[i], "failed")}

\* The records that are in no report.
Unreported ==
  {k \in DOMAIN disagreements : \A i \in DOMAIN reports : k \notin reports[i].disagreed}

(* No disagreement between the two checks is made up, and none is lost or   *)
(* recorded twice but where a judge failed.  A report whose judge came to   *)
(* an end has a record of its verdicts exactly when they differ, also when  *)
(* a resume took them from an earlier report.  Each record is one of the    *)
(* verdicts of a report that has it, or whose judge failed; and no more     *)
(* records are in no report than judges failed (reconcile_and_admit, which  *)
(* records before admit may raise).                                         *)
DisagreementsReported ==
  /\ \A i \in DOMAIN reports : reports[i].admission # "none" =>
       (reports[i].schema # reports[i].conflict
          <=> \E k \in reports[i].disagreed \cap DOMAIN disagreements :
                disagreements[k] = RecordOf(reports[i]))
  /\ \A k \in DOMAIN disagreements : \E i \in DOMAIN reports :
       /\ disagreements[k] = RecordOf(reports[i])
       /\ k \in reports[i].disagreed \/ i \in JudgeFailures
  /\ Cardinality(Unreported) <= Cardinality(JudgeFailures)

(* Every run that did not succeed is explained: some task failed, each      *)
(* skipped one is in the blast radius of a task that did, and the judge is  *)
(* blamed only where everything before it completed                         *)
(* (diagnose_pipeline_failure, whose last summary is "unexpected").         *)
DiagnosisComplete ==
  \A i \in DOMAIN reports :
    At(reports[i], "pending") = {} /\ ~AllSucceeded(reports[i]) =>
      /\ At(reports[i], "failed") # {}
      /\ \A t \in At(reports[i], "skipped") : \E root \in At(reports[i], "failed") :
           t \in BlastRadius(reports[i], root)
      /\ OrchestratorOriginated(reports[i]) <=> At(reports[i], "skipped") = {}

(* A confidence divergence is never the only trace of an overwrite: a batch *)
(* seen to derive a node again is not admitted, by the judge that saw it or *)
(* by the resume of a run whose judge failed, which compares nothing: the   *)
(* confidence on record stays the one first admitted                        *)
(* (check_confidence_divergence, resume_specialist_pipeline,                *)
(* _verify_envelope).                                                       *)
DivergenceIsRefused ==
  \A i, j \in DOMAIN reports :
    /\ reports[i].diverged # {}
    /\ reports[j].env = reports[i].env /\ reports[j].existing = reports[i].existing
    => reports[j].admission # "admitted"

\* What a full run's judge admits.
JudgeAdmits ==
  /\ Running /\ Current.admission = "none"
  /\ reports'[Len(reports)].admission = "admitted"

(* In a full run the conflict verdict foretells the admission: it fails     *)
(* exactly when an open conflict touches what was admitted                  *)
(* (verdict_from_conflict_check over the nodes the run started with, admit).*)
VerdictForetells ==
  [][JudgeAdmits => (Current.conflict = "fail"
                       <=> Contested(Current.env.nodes, openConflicts'))]_pipelineVars

(* A resume uses a conflict verdict that may be old, and is no worse for    *)
(* it: content that lands on a contradiction is held all the same           *)
(* (resume_specialist_pipeline, admit).                                     *)
ContestedIsHeld ==
  [][\A s \in Slots :
       LET new == produced'[s] \ produced[s]
       IN DetectConflicts /\ (\E pair \in Opposed :
                                pair \subseteq Content' /\ pair \cap new # {})
            => jobs'[s][Len(jobs'[s])].status = "held"]_pipelineVars

(* The pipeline only adds: all it does to the graph the spawner's callers   *)
(* could have done without it (the module's docstring: "Purely additive").  *)
PipelineAdditive == Spec
=============================================================================
