--------------------- MODULE SpecialistPipeline_proofs ---------------------
(***************************************************************************)
(* Proofs about SpecialistPipeline: reports keep what a resume needs, the   *)
(* pipeline only adds to the workflow, whose theorems carry over to it, and *)
(* the reports tell what is in the graph.                                   *)
(***************************************************************************)
EXTENDS SpecialistPipeline, ExtractionWorkflow_proofs, FiniteSetTheorems

-----------------------------------------------------------------------------
(* The DAG: everything leads to the judge.                                  *)

LEMMA JudgeLast ==
  ASSUME NEW t \in Roles
  PROVE  "reviewer_judge" \in Downstream({t})
<1>1. /\ DependenciesOf("conflict_check") = {"extract"}
      /\ DependenciesOf("schema_validate") = {"extract"}
      /\ DependenciesOf("reviewer_judge") = {"conflict_check", "schema_validate"}
  BY DEF DependenciesOf
<1> QED
  BY <1>1 DEF Downstream, WithDependents, Roles

LEMMA DownstreamOfNone == Downstream({}) = {}
  BY DEF Downstream, WithDependents

LEMMA DownstreamKeeps ==
  ASSUME NEW some
  PROVE  some \subseteq Downstream(some)
  BY DEF Downstream, WithDependents

\* Where the judge alone is redone, nothing else went wrong.
LEMMA JudgeAlone ==
  ASSUME NEW report, NEW retried, Stale(report, retried) = {"reviewer_judge"}
  PROVE  At(report, "failed") \cup At(report, "skipped") = {"reviewer_judge"}
<1> DEFINE bad == At(report, "failed") \cup At(report, "skipped")
<1>1. At(report, "failed") \subseteq retried
  <2>1. \A t \in At(report, "failed") : "reviewer_judge" \in Downstream({t})
    BY JudgeLast DEF At
  <2>2. "reviewer_judge" \notin UNION {Downstream({t}) : t \in At(report, "failed") \ retried}
    BY DEF Stale
  <2> QED
    BY <2>1, <2>2
<1>2. Downstream(bad) = {"reviewer_judge"}
  BY <1>1 DEF Stale, ResumableTasks
<1>3. bad \subseteq {"reviewer_judge"} /\ bad # {}
  BY <1>2, DownstreamKeeps, DownstreamOfNone
<1> QED
  BY <1>3

-----------------------------------------------------------------------------
(* What every report keeps: it has the envelope wherever its extractor was  *)
(* not at fault, and an admission only where all its tasks are over.        *)

\* The ways the tasks of a run can stand: none begun; the extractor failed; on
\* the way or over; or a resume of the judge alone.
Shape(status) ==
  \/ \A t \in Roles : status[t] = "pending"
  \/ /\ status["extract"] = "failed"
     /\ \E s \in {"pending", "skipped"} : \A t \in Roles \ {"extract"} : status[t] = s
  \/ /\ status["extract"] = "completed"
     /\ {status["conflict_check"], status["schema_validate"]} \subseteq {"pending", "completed"}
     /\ status["reviewer_judge"] \in {"pending", "completed", "failed"}
     /\ status["reviewer_judge"] # "pending" =>
          status["conflict_check"] = "completed" /\ status["schema_validate"] = "completed"
  \/ /\ \A t \in Roles \ {"reviewer_judge"} : status[t] = "absent"
     /\ status["reviewer_judge"] \in {"pending", "completed", "failed"}

WellFormed(report) ==
  /\ report \in Reports
  /\ report.status["extract"] \in {"completed", "absent"} =>
       report.env \in Envelopes /\ report.env.status = "completed"
  /\ Shape(report.status)
  /\ report.status["conflict_check"] = "completed" =>
       report.conflict = ConflictVerdict(report.existing, report.env.nodes)
  /\ report.status["reviewer_judge"] = "completed" => At(report, "pending") = {}
  /\ report.status["reviewer_judge"] # "completed" => report.admission = "none"

ReportInv ==
  /\ reports \in Seq(Reports)
  /\ \A i \in DOMAIN reports :
       /\ WellFormed(reports[i])
       /\ reports[i].status["extract"] = "absent" => At(reports[i], "pending") = {}
       /\ i # Len(reports) => At(reports[i], "pending") = {}

LEMMA ReportReplaced ==
  ASSUME ReportInv, Running, NEW report, WellFormed(report), Report(report),
         report.status["extract"] = "absent" => At(report, "pending") = {}
  PROVE  /\ ReportInv'
         /\ DOMAIN reports' = DOMAIN reports
         /\ Len(reports) \in DOMAIN reports /\ reports'[Len(reports)] = report
         /\ \A i \in DOMAIN reports : i # Len(reports) => reports'[i] = reports[i]
<1>1. report \in Reports /\ reports \in Seq(Reports) /\ reports # << >>
  BY DEF ReportInv, WellFormed, Running
<1>2. reports' = [reports EXCEPT ![Len(reports)] = report]
  BY DEF Report
<1>3. /\ reports' \in Seq(Reports) /\ Len(reports') = Len(reports)
      /\ DOMAIN reports' = DOMAIN reports
      /\ Len(reports) \in DOMAIN reports /\ reports'[Len(reports)] = report
      /\ \A i \in DOMAIN reports : i # Len(reports) => reports'[i] = reports[i]
  BY <1>1, <1>2
<1> QED
  BY <1>3 DEF ReportInv, WellFormed, At

LEMMA ReportAdded ==
  ASSUME ReportInv, ~Running, NEW report, WellFormed(report),
         reports' = Append(reports, report),
         report.status["extract"] = "absent" => At(report, "pending") = {}
  PROVE  /\ ReportInv'
         /\ DOMAIN reports' = DOMAIN reports \cup {Len(reports) + 1}
         /\ Len(reports) + 1 \notin DOMAIN reports
         /\ reports'[Len(reports) + 1] = report
         /\ \A i \in DOMAIN reports : reports'[i] = reports[i]
<1>1. report \in Reports /\ reports \in Seq(Reports)
  BY DEF ReportInv, WellFormed
<1>2. /\ reports' \in Seq(Reports) /\ Len(reports') = Len(reports) + 1
      /\ DOMAIN reports' = DOMAIN reports \cup {Len(reports) + 1}
      /\ Len(reports) + 1 \notin DOMAIN reports
      /\ reports'[Len(reports) + 1] = report
      /\ \A i \in DOMAIN reports : reports'[i] = reports[i]
  BY <1>1
<1>3. \A i \in DOMAIN reports : At(reports[i], "pending") = {}
  BY DEF ReportInv, Running, Current
<1> QED
  BY <1>2, <1>3 DEF ReportInv, WellFormed, At

-----------------------------------------------------------------------------
(* What the steps write is well formed.  A running report has no admission  *)
(* yet, and when its judge is ready its worker has returned.                *)

LEMMA CurrentKept ==
  ASSUME ReportInv, Running
  PROVE  /\ Len(reports) \in DOMAIN reports /\ WellFormed(Current) /\ Current \in Reports
         /\ Current.status \in [Roles -> {"pending", "completed", "failed", "skipped", "absent"}]
         /\ Current.status["reviewer_judge"] = "pending" /\ Current.admission = "none"
         /\ Current.status["extract"] # "absent"
<1>1. reports \in Seq(Reports) /\ reports # << >>
  BY DEF ReportInv, Running
<1>2. Len(reports) \in DOMAIN reports
  BY <1>1
<1>3. WellFormed(Current) /\ Current \in Reports
  BY <1>2 DEF ReportInv, WellFormed, Current
<1>4. Current.status["extract"] # "absent"
  BY <1>2 DEF ReportInv, Running, Current
<1>5. Current.status["reviewer_judge"] = "pending"
  <2>1. PICK t \in Roles : Current.status[t] = "pending"
    BY DEF Running, At
  <2> QED
    BY <1>3, <1>4, <2>1 DEF WellFormed, Shape, Roles
<1> QED
  BY <1>2, <1>3, <1>4, <1>5 DEF WellFormed, Reports

LEMMA JudgeReady ==
  ASSUME ReportInv, Ready("reviewer_judge")
  PROVE  /\ Running /\ Current.slot \in Slots
         /\ Current.env \in Envelopes /\ Current.env.status = "completed"
         /\ At(Current, "pending") = {"reviewer_judge"}
         /\ Current.status["conflict_check"] = "completed"
<1>1. Running /\ WellFormed(Current) /\ Current \in Reports
  BY CurrentKept DEF Ready
<1>2. {"conflict_check", "schema_validate"} \subseteq At(Current, "completed")
      /\ "reviewer_judge" \in At(Current, "pending")
  BY DEF Ready, DependenciesOf
<1>3. Current.status["extract"] = "completed"
  BY <1>1, <1>2 DEF WellFormed, Shape, At, Roles
<1> QED
  BY <1>1, <1>2, <1>3 DEF WellFormed, At, Roles, Reports

\* The judge keeps the verdicts, and counts a disagreement of its own.
Counted(report, judged) ==
  /\ judged.schema = report.schema /\ judged.conflict = report.conflict
  /\ judged.disagreed = IF report.schema # report.conflict
                        THEN report.disagreed \cup {Len(disagreements) + 1}
                        ELSE report.disagreed

LEMMA JudgedKept ==
  ASSUME NEW report \in Reports, WellFormed(report), Len(disagreements) \in Nat,
         report.env \in Envelopes, report.env.status = "completed",
         At(report, "pending") = {"reviewer_judge"}
  PROVE  /\ WellFormed(Judged(report)) /\ Judged(report).slot = report.slot
         /\ Judged(report).env = report.env /\ Judged(report).existing = report.existing
         /\ Judged(report).diverged = report.diverged /\ Counted(report, Judged(report))
         /\ Judged(report).admission = IF Verified(report.env) THEN "admitted" ELSE "refused"
<1> DEFINE status == [report.status EXCEPT !["reviewer_judge"] = "completed"]
           disagreed == IF report.schema # report.conflict
                        THEN report.disagreed \cup {Len(disagreements) + 1}
                        ELSE report.disagreed
           admission == IF Verified(report.env) THEN "admitted" ELSE "refused"
           new == [report EXCEPT !.status = status, !.disagreed = disagreed,
                                 !.admission = admission]
<1>1. /\ report.status \in [Roles -> {"pending", "completed", "failed", "skipped", "absent"}]
      /\ report.disagreed \subseteq Nat
  BY DEF Reports
<1>2. /\ status \in [Roles -> {"pending", "completed", "failed", "skipped", "absent"}]
      /\ status["reviewer_judge"] = "completed"
      /\ \A t \in Roles : t # "reviewer_judge" => status[t] = report.status[t]
  BY <1>1 DEF Roles
<1>3. disagreed \in SUBSET Nat /\ admission \in {"admitted", "refused"}
  BY <1>1
<1>4. Judged(report) = new
  BY DEF Judged, Reports
<1>5. Shape(status) /\ \A t \in Roles : status[t] # "pending"
  BY <1>2 DEF At, Shape, WellFormed, Roles
<1> HIDE DEF status, disagreed, admission
<1>6. /\ new \in Reports /\ new.status = status /\ new.slot = report.slot
      /\ new.env = report.env /\ new.existing = report.existing
      /\ new.admission = admission /\ new.diverged = report.diverged
      /\ new.disagreed = disagreed
      /\ new.schema = report.schema /\ new.conflict = report.conflict
  BY <1>2, <1>3 DEF Reports
<1> HIDE DEF new
<1>7. status["conflict_check"] = "completed" =>
        new.conflict = ConflictVerdict(new.existing, new.env.nodes)
  BY <1>2, <1>6 DEF WellFormed, Roles
<1>8. WellFormed(new)
  BY <1>2, <1>5, <1>6, <1>7 DEF WellFormed, At, Roles
<1> QED
  BY <1>4, <1>6, <1>8 DEF admission, disagreed, Counted

LEMMA DivergedKept ==
  ASSUME NEW report, WellFormed(report), NEW diverged \in SUBSET Nodes
  PROVE  LET new == [report EXCEPT !.diverged = diverged]
         IN /\ WellFormed(new) /\ new.slot = report.slot /\ new.env = report.env
            /\ new.existing = report.existing /\ new.admission = report.admission
            /\ new.diverged = diverged /\ new.disagreed = report.disagreed
            /\ new.schema = report.schema /\ new.conflict = report.conflict
            /\ new.status = report.status
<1> DEFINE new == [report EXCEPT !.diverged = diverged]
<1>1. /\ new \in Reports /\ new.status = report.status /\ new.slot = report.slot
      /\ new.env = report.env /\ new.existing = report.existing
      /\ new.admission = report.admission /\ new.diverged = diverged
      /\ new.disagreed = report.disagreed
      /\ new.schema = report.schema /\ new.conflict = report.conflict
  BY DEF Reports, WellFormed
<1> HIDE DEF new
<1>2. WellFormed(new)
  BY <1>1 DEF WellFormed, At
<1> QED
  BY <1>1, <1>2 DEF new

LEMMA FailedKept ==
  ASSUME NEW report, WellFormed(report), report.admission = "none",
         At(report, "pending") = {"reviewer_judge"}
  PROVE  /\ WellFormed(Failed(report)) /\ Failed(report).slot = report.slot
         /\ Failed(report).env = report.env /\ Failed(report).existing = report.existing
         /\ Failed(report).admission = "none" /\ Failed(report).diverged = report.diverged
         /\ Failed(report).disagreed = report.disagreed
         /\ Failed(report).schema = report.schema /\ Failed(report).conflict = report.conflict
         /\ At(Failed(report), "pending") = {}
         /\ Failed(report).status["reviewer_judge"] = "failed"
<1> DEFINE status == [report.status EXCEPT !["reviewer_judge"] = "failed"]
           new == [report EXCEPT !.status = status]
<1>1. report \in Reports
      /\ report.status \in [Roles -> {"pending", "completed", "failed", "skipped", "absent"}]
  BY DEF Reports, WellFormed
<1>2. /\ status \in [Roles -> {"pending", "completed", "failed", "skipped", "absent"}]
      /\ status["reviewer_judge"] = "failed"
      /\ \A t \in Roles : t # "reviewer_judge" => status[t] = report.status[t]
  BY <1>1 DEF Roles
<1>3. Failed(report) = new
  BY <1>1 DEF Failed, Reports
<1> HIDE DEF status
<1>4. /\ new \in Reports /\ new.status = status /\ new.slot = report.slot
      /\ new.env = report.env /\ new.existing = report.existing
      /\ new.admission = report.admission /\ new.diverged = report.diverged
      /\ new.disagreed = report.disagreed
      /\ new.schema = report.schema /\ new.conflict = report.conflict
  BY <1>1, <1>2 DEF Reports
<1> HIDE DEF new
<1>5. Shape(status) /\ \A t \in Roles : status[t] # "pending"
  BY <1>2 DEF At, Shape, WellFormed, Roles
<1>6. WellFormed(new)
  BY <1>2, <1>4, <1>5 DEF WellFormed, At, Roles
<1> QED
  BY <1>2, <1>3, <1>4, <1>5, <1>6 DEF At

\* A task before the judge ends, or is skipped.
TaskEnds ==
  /\ Running
  /\ \E report : /\ Report(report) /\ WellFormed(report)
                 /\ report.slot = Current.slot /\ report.existing = Current.existing
                 /\ report.admission = "none" /\ report.diverged = Current.diverged
                 /\ report.disagreed = Current.disagreed
                 /\ report.status["extract"] = "absent" => At(report, "pending") = {}
  /\ UNCHANGED <<vars, disagreements>>

LEMMA ExtractCompletesEnds ==
  ASSUME ReportInv, NEW env \in Envelopes, NEW valid \in BOOLEAN, ExtractCompletes(env, valid)
  PROVE  TaskEnds
<1> DEFINE status == [Current.status EXCEPT !["extract"] = "completed"]
           new == [Current EXCEPT !.env = env, !.valid = valid, !.status = status]
<1>1. /\ Running /\ Current \in Reports /\ WellFormed(Current) /\ Current.admission = "none"
      /\ Current.status \in [Roles -> {"pending", "completed", "failed", "skipped", "absent"}]
      /\ Current.status["reviewer_judge"] # "completed"
      /\ Current.status["extract"] = "pending"
  BY CurrentKept DEF ExtractCompletes, Ready, At
<1>2. /\ status \in [Roles -> {"pending", "completed", "failed", "skipped", "absent"}]
      /\ status["extract"] = "completed"
      /\ \A t \in Roles : t # "extract" => status[t] = Current.status[t]
  BY <1>1 DEF Roles
<1>3. Report(new)
  BY <1>1 DEF ExtractCompletes, Reports
<1>4. env.status = "completed" /\ UNCHANGED <<vars, disagreements>>
  BY DEF ExtractCompletes
<1> HIDE DEF status
<1>5. /\ new \in Reports /\ new.status = status /\ new.env = env
      /\ new.slot = Current.slot /\ new.existing = Current.existing
      /\ new.admission = Current.admission /\ new.diverged = Current.diverged
      /\ new.disagreed = Current.disagreed
  BY <1>1, <1>2 DEF Reports
<1> HIDE DEF new
<1>6. Shape(status) /\ status["conflict_check"] # "completed"
  BY <1>1, <1>2 DEF WellFormed, Shape, Roles
<1>7. WellFormed(new)
  BY <1>1, <1>2, <1>4, <1>5, <1>6 DEF WellFormed, Roles
<1> QED
  BY <1>1, <1>2, <1>3, <1>4, <1>5, <1>7 DEF TaskEnds

LEMMA ExtractFailsEnds ==
  ASSUME ReportInv, NEW env \in {FailedEnvelope, NoEnvelope}, ExtractFails(env)
  PROVE  TaskEnds
<1> DEFINE status == [Current.status EXCEPT !["extract"] = "failed"]
           new == [Current EXCEPT !.env = env, !.status = status]
<1>1. /\ Running /\ Current \in Reports /\ WellFormed(Current) /\ Current.admission = "none"
      /\ Current.status \in [Roles -> {"pending", "completed", "failed", "skipped", "absent"}]
      /\ Current.status["reviewer_judge"] # "completed"
      /\ Current.status["extract"] = "pending"
  BY CurrentKept DEF ExtractFails, Ready, At
<1>2. /\ status \in [Roles -> {"pending", "completed", "failed", "skipped", "absent"}]
      /\ status["extract"] = "failed"
      /\ \A t \in Roles : t # "extract" => status[t] = Current.status[t]
  BY <1>1 DEF Roles
<1>3. Report(new)
  BY <1>1 DEF ExtractFails, Reports
<1>4. /\ env \in Envelopes \cup {NoEnvelope}
      /\ UNCHANGED <<vars, disagreements>>
  <2>1. FailedEnvelope \in Envelopes
    BY DEF Envelopes, FailedEnvelope
  <2>2. UNCHANGED <<vars, disagreements>>
    BY DEF ExtractFails
  <2> QED
    BY <2>1, <2>2
<1> HIDE DEF status
<1>5. /\ new \in Reports /\ new.status = status /\ new.env = env
      /\ new.slot = Current.slot /\ new.existing = Current.existing
      /\ new.admission = Current.admission /\ new.diverged = Current.diverged
      /\ new.disagreed = Current.disagreed
  BY <1>1, <1>2, <1>4 DEF Reports
<1> HIDE DEF new
<1>6. Shape(status) /\ status["conflict_check"] # "completed"
  BY <1>1, <1>2 DEF WellFormed, Shape, Roles
<1>7. WellFormed(new)
  BY <1>1, <1>2, <1>5, <1>6 DEF WellFormed, Roles
<1> QED
  BY <1>1, <1>2, <1>3, <1>4, <1>5, <1>7 DEF TaskEnds

LEMMA ConflictCheckEnds ==
  ASSUME ReportInv, ConflictCheck
  PROVE  TaskEnds
<1> DEFINE status == [Current.status EXCEPT !["conflict_check"] = "completed"]
           verdict == ConflictVerdict(Current.existing, Current.env.nodes)
           new == [Current EXCEPT !.conflict = verdict, !.status = status]
<1>1. /\ Running /\ Current \in Reports /\ WellFormed(Current) /\ Current.admission = "none"
      /\ Current.status \in [Roles -> {"pending", "completed", "failed", "skipped", "absent"}]
      /\ Current.status["reviewer_judge"] # "completed"
  BY CurrentKept DEF ConflictCheck, Ready
<1>2. Current.status["extract"] = "completed" /\ Current.status["conflict_check"] = "pending"
  BY DEF ConflictCheck, Ready, DependenciesOf, At
<1>3. /\ status \in [Roles -> {"pending", "completed", "failed", "skipped", "absent"}]
      /\ \A t \in Roles : t # "conflict_check" => status[t] = Current.status[t]
  BY <1>1 DEF Roles
<1>4. Report(new) /\ UNCHANGED <<vars, disagreements>>
  BY <1>1 DEF ConflictCheck, Reports
<1>5. verdict \in Verdicts
  BY DEF ConflictVerdict, Verdicts
<1> HIDE DEF status, verdict
<1>6. /\ new \in Reports /\ new.status = status /\ new.env = Current.env
      /\ new.slot = Current.slot /\ new.existing = Current.existing
      /\ new.admission = Current.admission /\ new.diverged = Current.diverged
      /\ new.disagreed = Current.disagreed /\ new.conflict = verdict
  BY <1>1, <1>3, <1>5 DEF Reports
<1> HIDE DEF new
<1>7. status["conflict_check"] = "completed"
  BY <1>1 DEF status, Roles
<1>8. Shape(status)
  BY <1>1, <1>2, <1>3, <1>7 DEF WellFormed, Shape, Roles
<1>9. new.conflict = ConflictVerdict(new.existing, new.env.nodes)
  BY <1>6 DEF verdict
<1>10. WellFormed(new)
  BY <1>1, <1>2, <1>3, <1>6, <1>8, <1>9 DEF WellFormed, Roles
<1> QED
  BY <1>1, <1>2, <1>3, <1>4, <1>6, <1>10 DEF TaskEnds, Roles

LEMMA SchemaValidateEnds ==
  ASSUME ReportInv, SchemaValidate
  PROVE  TaskEnds
<1> DEFINE status == [Current.status EXCEPT !["schema_validate"] = "completed"]
           verdict == SchemaVerdict(Current.valid)
           new == [Current EXCEPT !.schema = verdict, !.status = status]
<1>1. /\ Running /\ Current \in Reports /\ WellFormed(Current) /\ Current.admission = "none"
      /\ Current.status \in [Roles -> {"pending", "completed", "failed", "skipped", "absent"}]
      /\ Current.status["reviewer_judge"] # "completed"
      /\ Current.status["extract"] = "completed" /\ Current.status["schema_validate"] = "pending"
  BY CurrentKept DEF SchemaValidate, Ready, DependenciesOf, At
<1>2. /\ status \in [Roles -> {"pending", "completed", "failed", "skipped", "absent"}]
      /\ status["schema_validate"] = "completed"
      /\ \A t \in Roles : t # "schema_validate" => status[t] = Current.status[t]
  BY <1>1 DEF Roles
<1>3. Report(new) /\ UNCHANGED <<vars, disagreements>>
  BY <1>1 DEF SchemaValidate, Reports
<1>4. verdict \in Verdicts
  BY DEF SchemaVerdict, Verdicts
<1> HIDE DEF status, verdict
<1>5. /\ new \in Reports /\ new.status = status /\ new.env = Current.env
      /\ new.slot = Current.slot /\ new.existing = Current.existing
      /\ new.admission = Current.admission /\ new.diverged = Current.diverged
      /\ new.disagreed = Current.disagreed /\ new.conflict = Current.conflict
  BY <1>1, <1>2, <1>4 DEF Reports
<1> HIDE DEF new
<1>6. Shape(status)
  BY <1>1, <1>2 DEF WellFormed, Shape, Roles
<1>7. WellFormed(new)
  BY <1>1, <1>2, <1>5, <1>6 DEF WellFormed, Roles
<1> QED
  BY <1>1, <1>2, <1>3, <1>5, <1>7 DEF TaskEnds, Roles

LEMMA SkipEnds ==
  ASSUME ReportInv, SkipRemaining
  PROVE  TaskEnds
<1> DEFINE status == [t \in Roles |-> IF Current.status[t] = "pending" THEN "skipped"
                                                                    ELSE Current.status[t]]
           new == [Current EXCEPT !.status = status]
<1>1. /\ Running /\ Current \in Reports /\ WellFormed(Current) /\ Current.admission = "none"
      /\ Current.status \in [Roles -> {"pending", "completed", "failed", "skipped", "absent"}]
      /\ Current.status["reviewer_judge"] # "completed"
      /\ Current.status["extract"] # "absent"
  BY CurrentKept DEF SkipRemaining
<1>2. status \in [Roles -> {"pending", "completed", "failed", "skipped", "absent"}]
  BY <1>1
<1>3. /\ Report(new) /\ UNCHANGED <<vars, disagreements>>
  BY <1>1 DEF SkipRemaining, Reports
<1>4. \A t \in Roles : /\ status[t] \in {"completed", "absent"} <=>
                             Current.status[t] \in {"completed", "absent"}
                       /\ status[t] = "completed" <=> Current.status[t] = "completed"
  OBVIOUS
<1>5. Current.status["extract"] = "failed"
  <2>1. At(Current, "pending") # {} /\ \A t \in Roles : ~Ready(t)
    BY DEF SkipRemaining, Running
  <2>2. /\ DependenciesOf("extract") = {}
        /\ DependenciesOf("conflict_check") = {"extract"}
        /\ DependenciesOf("schema_validate") = {"extract"}
        /\ DependenciesOf("reviewer_judge") = {"conflict_check", "schema_validate"}
    BY DEF DependenciesOf
  <2> QED
    BY <1>1, <2>1, <2>2 DEF WellFormed, Shape, Ready, At, Roles
<1>6. Shape(status)
  BY <1>1, <1>5 DEF WellFormed, Shape, Roles
<1> HIDE DEF status
<1>7. /\ new \in Reports /\ new.status = status /\ new.env = Current.env
      /\ new.slot = Current.slot /\ new.existing = Current.existing
      /\ new.admission = Current.admission /\ new.diverged = Current.diverged
      /\ new.disagreed = Current.disagreed /\ new.conflict = Current.conflict
  BY <1>1, <1>2 DEF Reports
<1> HIDE DEF new
<1>8. WellFormed(new)
  BY <1>1, <1>4, <1>6, <1>7 DEF WellFormed, Roles
<1> QED
  BY <1>1, <1>3, <1>4, <1>7, <1>8 DEF TaskEnds, Roles

-----------------------------------------------------------------------------
(* A judge at work, in a full run or in a resume of one, and a run begun.   *)

\* The judge comes to an end with `report`: admit was called on its envelope.
Judges(report) ==
  /\ Reconcile(report) /\ Admit(report.slot, report.env)
  /\ report.slot \in Slots /\ report.env \in Envelopes
  /\ report.env.status = "completed"

Ended(report, judged) ==
  /\ WellFormed(judged)
  /\ judged.slot = report.slot /\ judged.env = report.env
  /\ judged.existing = report.existing
  /\ judged.admission = IF Verified(report.env) THEN "admitted" ELSE "refused"
  /\ Counted(report, judged)

LEMMA EndedIsOver ==
  ASSUME NEW report, NEW judged, Ended(report, judged)
  PROVE  At(judged, "pending") = {}
  BY DEF Ended, WellFormed

\* The judge raises and leaves `failed`, with its disagreement recorded or not.
Fails(report, failed) ==
  /\ WellFormed(failed) /\ At(failed, "pending") = {}
  /\ failed.status["reviewer_judge"] = "failed"
  /\ failed.slot = report.slot /\ failed.env = report.env
  /\ failed.existing = report.existing /\ failed.admission = "none"
  /\ failed.schema = report.schema /\ failed.conflict = report.conflict
  /\ failed.disagreed = report.disagreed
  /\ Reconcile(report) \/ UNCHANGED disagreements
  /\ UNCHANGED vars

RunJudged ==
  /\ Running /\ Judges(Current) /\ Current.admission = "none"
  /\ Current.status["conflict_check"] = "completed"
  /\ \E judged : /\ Report(judged) /\ Ended(Current, judged)
                 /\ judged.diverged \subseteq Current.env.nodes \cap Current.existing

RerunJudged ==
  /\ ~Running
  /\ \E i \in DOMAIN reports : \E judged :
       /\ Judges(reports[i]) /\ reports[i].admission = "none"
       /\ reports' = Append(reports, judged) /\ Ended(reports[i], judged)
       /\ judged.diverged = {}

RunFails ==
  /\ Running
  /\ \E failed : /\ Report(failed) /\ Fails(Current, failed)
                 /\ failed.diverged \subseteq Current.env.nodes \cap Current.existing

RerunFails ==
  /\ ~Running
  /\ \E i \in DOMAIN reports : \E failed :
       /\ reports' = Append(reports, failed) /\ Fails(reports[i], failed)
       /\ failed.diverged = {}

RunStarts ==
  /\ ~Running /\ UNCHANGED disagreements
  /\ \E s \in Slots, compared \in BOOLEAN :
       Spawn(s) /\ reports' = Append(reports, Blank(s, compared))

LEMMA JudgeEnds ==
  ASSUME ReportInv, disagreements \in Seq(Disagreements),
         NEW diverged \in SUBSET Nodes, ReviewerJudge(diverged)
  PROVE  RunJudged
<1>1. Running /\ WellFormed(Current) /\ Current \in Reports /\ Current.admission = "none"
  BY CurrentKept DEF ReviewerJudge, Ready
<1>2. /\ Current.slot \in Slots /\ Current.env \in Envelopes
      /\ Current.env.status = "completed"
      /\ At(Current, "pending") = {"reviewer_judge"}
      /\ Current.status["conflict_check"] = "completed"
  BY JudgeReady DEF ReviewerJudge
<1>3. Judges(Current)
  BY <1>2 DEF ReviewerJudge, Judges
<1>4. Len(disagreements) \in Nat
  OBVIOUS
<1> DEFINE judged == [Judged(Current) EXCEPT !.diverged = diverged]
<1>5. Ended(Current, judged) /\ judged.diverged = diverged
  <2>1. Ended(Current, Judged(Current))
    BY <1>1, <1>2, <1>4, JudgedKept DEF Ended
  <2> QED
    <3> DEFINE done == Judged(Current)
    <3>1. Ended(Current, done) /\ judged = [done EXCEPT !.diverged = diverged]
      BY <2>1
    <3> HIDE DEF done, judged
    <3>2. LET new == [done EXCEPT !.diverged = diverged]
          IN /\ WellFormed(new) /\ new.slot = done.slot /\ new.env = done.env
             /\ new.existing = done.existing /\ new.admission = done.admission
             /\ new.diverged = diverged /\ new.disagreed = done.disagreed
             /\ new.schema = done.schema /\ new.conflict = done.conflict
      BY <3>1, DivergedKept DEF Ended
    <3> QED
      BY <3>1, <3>2 DEF Ended, Counted
<1>6. Report(judged)
  BY DEF ReviewerJudge
<1>7. diverged \subseteq Current.env.nodes \cap Current.existing
  BY DEF ReviewerJudge, Divergences
<1> HIDE DEF judged
<1> QED
  BY <1>1, <1>2, <1>3, <1>5, <1>6, <1>7 DEF RunJudged

LEMMA RaisesEnds ==
  ASSUME ReportInv, NEW diverged \in SUBSET Nodes, ReviewerJudgeRaises(diverged)
  PROVE  RunFails
<1> DEFINE failed == Failed(Current)
           new == [failed EXCEPT !.diverged = diverged]
<1>1. Running /\ WellFormed(Current) /\ Current.admission = "none"
      /\ At(Current, "pending") = {"reviewer_judge"}
  BY CurrentKept, JudgeReady DEF ReviewerJudgeRaises, Ready
<1>2. Report(new) /\ UNCHANGED vars /\ (Reconcile(Current) \/ UNCHANGED disagreements)
  BY DEF ReviewerJudgeRaises
<1>3. diverged \subseteq Current.env.nodes \cap Current.existing
  BY DEF ReviewerJudgeRaises, Divergences
<1>4. /\ WellFormed(failed) /\ failed.slot = Current.slot
      /\ failed.env = Current.env /\ failed.existing = Current.existing
      /\ failed.admission = "none" /\ failed.disagreed = Current.disagreed
      /\ failed.schema = Current.schema /\ failed.conflict = Current.conflict
      /\ At(failed, "pending") = {} /\ failed.status["reviewer_judge"] = "failed"
  BY <1>1, FailedKept
<1> HIDE DEF failed
<1>5. /\ WellFormed(new) /\ new.slot = failed.slot /\ new.env = failed.env
      /\ new.existing = failed.existing /\ new.admission = failed.admission
      /\ new.diverged = diverged /\ new.disagreed = failed.disagreed
      /\ new.schema = failed.schema /\ new.conflict = failed.conflict
      /\ new.status = failed.status
  BY <1>4, DivergedKept
<1> HIDE DEF new
<1>6. At(new, "pending") = {} /\ new.status["reviewer_judge"] = "failed"
  BY <1>4, <1>5 DEF At
<1> QED
  BY <1>1, <1>2, <1>3, <1>4, <1>5, <1>6 DEF RunFails, Fails

LEMMA CarriedKept ==
  ASSUME ReportInv, ~Running, NEW i \in DOMAIN reports, NEW retried,
         Stale(reports[i], retried) = {"reviewer_judge"}
  PROVE  /\ Carried(i) \in Reports /\ WellFormed(Carried(i))
         /\ Carried(i).slot = reports[i].slot /\ Carried(i).env = reports[i].env
         /\ Carried(i).existing = reports[i].existing /\ Carried(i).diverged = {}
         /\ Carried(i).admission = "none" /\ reports[i].admission = "none"
         /\ Carried(i).disagreed = reports[i].disagreed
         /\ Carried(i).schema = reports[i].schema /\ Carried(i).conflict = reports[i].conflict
         /\ reports[i].slot \in Slots /\ reports[i].env \in Envelopes
         /\ reports[i].env.status = "completed"
         /\ At(Carried(i), "pending") = {"reviewer_judge"}
<1> DEFINE status == [t \in Roles |-> IF t = "reviewer_judge" THEN "pending" ELSE "absent"]
           new == [reports[i] EXCEPT !.status = status, !.diverged = {}]
<1>1. WellFormed(reports[i]) /\ reports[i] \in Reports /\ At(reports[i], "pending") = {}
  BY DEF ReportInv, WellFormed, Running, Current
<1>2. At(reports[i], "failed") \cup At(reports[i], "skipped") = {"reviewer_judge"}
  BY JudgeAlone
<1>3. /\ reports[i].status["extract"] \in {"completed", "absent"}
      /\ reports[i].status["reviewer_judge"] # "completed"
  BY <1>1, <1>2 DEF At, Roles, Reports
<1>4. /\ reports[i].env \in Envelopes /\ reports[i].env.status = "completed"
      /\ reports[i].admission = "none" /\ reports[i].slot \in Slots
  BY <1>1, <1>3 DEF WellFormed, Reports
<1>5. /\ status \in [Roles -> {"pending", "completed", "failed", "skipped", "absent"}]
      /\ status["reviewer_judge"] = "pending" /\ status["extract"] = "absent"
      /\ status["conflict_check"] = "absent"
      /\ \A t \in Roles : status[t] = "pending" <=> t = "reviewer_judge"
      /\ Shape(status)
  BY DEF Roles, Shape
<1>6. Carried(i) = new
  BY <1>1 DEF Carried, Reports
<1> HIDE DEF status
<1>7. /\ new \in Reports /\ new.status = status /\ new.env = reports[i].env
      /\ new.slot = reports[i].slot /\ new.existing = reports[i].existing
      /\ new.admission = reports[i].admission /\ new.diverged = {}
      /\ new.disagreed = reports[i].disagreed
      /\ new.schema = reports[i].schema /\ new.conflict = reports[i].conflict
  BY <1>1, <1>5 DEF Reports
<1> HIDE DEF new
<1> QED
  BY <1>4, <1>5, <1>6, <1>7 DEF WellFormed, At, Roles

LEMMA ResumeEnds ==
  ASSUME ReportInv, disagreements \in Seq(Disagreements),
         NEW i \in DOMAIN reports, NEW retried, Resume(i, Stale(reports[i], retried))
  PROVE  RerunJudged \/ RerunFails \/ RunStarts
<1>1. ~Running
  BY DEF Resume, Resumes
<1>2. CASE Stale(reports[i], retried) # {"reviewer_judge"}
  <2>1. RunPipeline(reports[i].slot, FALSE)
    BY <1>2 DEF Resume
  <2>2. reports[i].slot \in Slots
    BY DEF ReportInv, WellFormed, Reports
  <2> QED
    BY <1>1, <2>1, <2>2 DEF RunPipeline, RunStarts
<1>3. CASE Stale(reports[i], retried) = {"reviewer_judge"} /\ AdmitAgain(i)
  <2>1. /\ Carried(i) \in Reports /\ WellFormed(Carried(i))
        /\ Carried(i).env \in Envelopes /\ Carried(i).env.status = "completed"
        /\ At(Carried(i), "pending") = {"reviewer_judge"}
        /\ Carried(i).diverged = {} /\ Carried(i).env = reports[i].env
        /\ Carried(i).slot = reports[i].slot /\ Carried(i).existing = reports[i].existing
        /\ Carried(i).disagreed = reports[i].disagreed
        /\ Carried(i).schema = reports[i].schema /\ Carried(i).conflict = reports[i].conflict
    BY <1>1, <1>3, CarriedKept
  <2>2. Len(disagreements) \in Nat
    OBVIOUS
  <2>3. Ended(reports[i], Judged(Carried(i))) /\ Judged(Carried(i)).diverged = {}
    <3> DEFINE carried == Carried(i)
               judged == Judged(carried)
    <3> HIDE DEF carried, judged
    <3>1. /\ WellFormed(judged) /\ judged.slot = carried.slot /\ judged.env = carried.env
          /\ judged.existing = carried.existing /\ judged.diverged = carried.diverged
          /\ Counted(carried, judged)
          /\ judged.admission = IF Verified(carried.env) THEN "admitted" ELSE "refused"
      BY <2>1, <2>2, JudgedKept DEF carried, judged
    <3>2. /\ carried.env = reports[i].env /\ carried.slot = reports[i].slot
          /\ carried.existing = reports[i].existing /\ carried.diverged = {}
          /\ carried.disagreed = reports[i].disagreed
          /\ carried.schema = reports[i].schema /\ carried.conflict = reports[i].conflict
      BY <2>1 DEF carried
    <3>3. Counted(reports[i], judged)
      BY <3>1, <3>2 DEF Counted
    <3>4. Ended(reports[i], judged) /\ judged.diverged = {}
      BY <3>1, <3>2, <3>3 DEF Ended
    <3> QED
      BY <3>4 DEF judged, carried
  <2>4. Judges(reports[i]) /\ reports[i].admission = "none"
    BY <1>1, <1>3, CarriedKept DEF AdmitAgain, Judges
  <2> QED
    BY <1>1, <1>3, <2>3, <2>4 DEF AdmitAgain, RerunJudged
<1>4. CASE Stale(reports[i], retried) = {"reviewer_judge"} /\ RaiseAgain(i)
  <2> DEFINE carried == Carried(i)
             failed == Failed(carried)
  <2>1. /\ WellFormed(carried) /\ carried.slot = reports[i].slot
        /\ carried.env = reports[i].env /\ carried.existing = reports[i].existing
        /\ carried.admission = "none" /\ carried.diverged = {}
        /\ carried.disagreed = reports[i].disagreed
        /\ carried.schema = reports[i].schema /\ carried.conflict = reports[i].conflict
        /\ At(carried, "pending") = {"reviewer_judge"}
    BY <1>1, <1>4, CarriedKept
  <2>2. /\ reports' = Append(reports, failed) /\ UNCHANGED vars
        /\ Reconcile(reports[i]) \/ UNCHANGED disagreements
    BY <1>4 DEF RaiseAgain
  <2> HIDE DEF carried
  <2>3. /\ WellFormed(failed) /\ failed.slot = carried.slot
        /\ failed.env = carried.env /\ failed.existing = carried.existing
        /\ failed.admission = "none" /\ failed.diverged = carried.diverged
        /\ failed.disagreed = carried.disagreed
        /\ failed.schema = carried.schema /\ failed.conflict = carried.conflict
        /\ At(failed, "pending") = {} /\ failed.status["reviewer_judge"] = "failed"
    BY <2>1, FailedKept
  <2> HIDE DEF failed
  <2>4. Fails(reports[i], failed) /\ failed.diverged = {}
    BY <2>1, <2>2, <2>3 DEF Fails
  <2> QED
    BY <1>1, <2>2, <2>4 DEF RerunFails
<1> QED
  BY <1>2, <1>3, <1>4 DEF Resume

(* Every step is one of these, a review, or a stutter.                      *)
LEMMA PipelineStep ==
  ASSUME ReportInv, disagreements \in Seq(Disagreements), [PipelineNext]_pipelineVars
  PROVE  \/ TaskEnds \/ RunJudged \/ RunFails
         \/ RerunJudged \/ RerunFails \/ RunStarts
         \/ [Review]_vars /\ UNCHANGED <<reports, disagreements>>
<1>1. ASSUME NEW s \in Slots, RunPipeline(s, DetectDivergence) PROVE RunStarts
  BY <1>1, PipelineAssumption DEF RunPipeline, RunStarts
<1>2. ASSUME NEW env \in Envelopes, NEW valid \in BOOLEAN, ExtractCompletes(env, valid)
      PROVE  TaskEnds
  BY <1>2, ExtractCompletesEnds
<1>3. ASSUME NEW env \in {FailedEnvelope, NoEnvelope}, ExtractFails(env) PROVE TaskEnds
  BY <1>3, ExtractFailsEnds
<1>4. ASSUME NEW diverged \in SUBSET Nodes, ReviewerJudge(diverged) PROVE RunJudged
  BY <1>4, JudgeEnds
<1>5. ASSUME NEW i \in DOMAIN reports, NEW retried \in SUBSET At(reports[i], "failed"),
             Resume(i, Stale(reports[i], retried))
      PROVE  RerunJudged \/ RerunFails \/ RunStarts
  BY <1>5, ResumeEnds
<1>6. ASSUME ReviewBetween \/ UNCHANGED pipelineVars
      PROVE  [Review]_vars /\ UNCHANGED <<reports, disagreements>>
  BY <1>6 DEF ReviewBetween, pipelineVars, pipeline
<1>7. ASSUME NEW diverged \in SUBSET Nodes, ReviewerJudgeRaises(diverged) PROVE RunFails
  BY <1>7, RaisesEnds
<1> QED
  BY <1>1, <1>2, <1>3, <1>4, <1>5, <1>6, <1>7, ConflictCheckEnds, SchemaValidateEnds,
     SkipEnds DEF PipelineNext

-----------------------------------------------------------------------------
(* Typing, and the pipeline as a user of the workflow.                      *)

LEMMA AdmitIsNext ==
  ASSUME NEW s \in Slots, NEW env \in Envelopes, Admit(s, env)
  PROVE  Next
<1>1. FALSE \in Retried
  BY DEF Retried
<1> QED
  BY <1>1 DEF Admit, Next

LEMMA StepIsNext ==
  ASSUME ReportInv, disagreements \in Seq(Disagreements), [PipelineNext]_pipelineVars
  PROVE  [Next]_vars
<1>1. TaskEnds \/ RunFails \/ RerunFails => UNCHANGED vars
  BY DEF TaskEnds, RunFails, RerunFails, Fails
<1>2. RunJudged \/ RerunJudged => Next
  BY AdmitIsNext DEF RunJudged, RerunJudged, Judges
<1>3. RunStarts => Next
  BY DEF RunStarts, Next
<1>4. [Review]_vars => [Next]_vars
  BY DEF Next
<1> QED
  BY <1>1, <1>2, <1>3, <1>4, PipelineStep

LEMMA BlankKept ==
  ASSUME TypeOK, NEW s \in Slots, NEW compared \in BOOLEAN
  PROVE  /\ WellFormed(Blank(s, compared)) /\ Blank(s, compared).existing = Content
         /\ Blank(s, compared).admission = "none" /\ Blank(s, compared).diverged = {}
         /\ Blank(s, compared).disagreed = {}
         /\ Blank(s, compared).status["extract"] = "pending"
<1> DEFINE status == [t \in Roles |-> "pending"]
           new == [slot |-> s, existing |-> Content, compared |-> compared,
                   env |-> NoEnvelope, valid |-> TRUE, schema |-> "none",
                   conflict |-> "none", status |-> status, admission |-> "none",
                   disagreed |-> {}, diverged |-> {}]
<1>1. Content \in SUBSET Nodes
  BY DEF TypeOK, Content
<1>2. status \in [Roles -> {"pending", "completed", "failed", "skipped", "absent"}]
      /\ \A t \in Roles : status[t] = "pending"
      /\ Shape(status)
  BY DEF Shape
<1>3. Blank(s, compared) = new
  BY DEF Blank
<1> HIDE DEF status
<1>4. new \in Reports /\ new.status = status /\ new.existing = Content
      /\ new.admission = "none" /\ new.diverged = {} /\ new.disagreed = {}
  BY <1>1, <1>2 DEF Reports, Verdicts
<1> HIDE DEF new
<1>5. WellFormed(new)
  BY <1>2, <1>4 DEF WellFormed, Roles
<1> QED
  BY <1>2, <1>3, <1>4, <1>5 DEF Roles

\* What a step does to the list of reports: the last is replaced, or one added.
LEMMA StepReports ==
  ASSUME TypeOK, ReportInv, disagreements \in Seq(Disagreements),
         [PipelineNext]_pipelineVars
  PROVE  ReportInv' /\ DOMAIN reports \subseteq DOMAIN reports'
<1>1. CASE TaskEnds \/ RunJudged \/ RunFails
  <2>1. PICK report : /\ Running /\ Report(report) /\ WellFormed(report)
                      /\ report.status["extract"] = "absent" => At(report, "pending") = {}
    BY <1>1, EndedIsOver DEF TaskEnds, RunJudged, RunFails, Ended, Fails
  <2> QED
    BY <2>1, ReportReplaced
<1>2. CASE RerunJudged \/ RerunFails
  BY <1>2, EndedIsOver, ReportAdded DEF RerunJudged, RerunFails, Ended, Fails
<1>3. CASE RunStarts
  BY <1>3, ReportAdded, BlankKept DEF RunStarts
<1>4. CASE UNCHANGED reports
  BY <1>4 DEF ReportInv
<1> QED
  BY <1>1, <1>2, <1>3, <1>4, PipelineStep

LEMMA ReconcileKept ==
  ASSUME disagreements \in Seq(Disagreements), NEW report \in Reports, Reconcile(report)
  PROVE  disagreements' \in Seq(Disagreements)
<1> DEFINE new == RecordOf(report)
<1>1. new \in Disagreements
  BY DEF Reports, Disagreements, RecordOf
<1> HIDE DEF new
<1>2. disagreements' = Append(disagreements, new) \/ UNCHANGED disagreements
  BY DEF Reconcile, new
<1> QED
  BY <1>1, <1>2

LEMMA StepDisagreements ==
  ASSUME ReportInv, disagreements \in Seq(Disagreements), [PipelineNext]_pipelineVars
  PROVE  disagreements' \in Seq(Disagreements)
<1>1. CASE RunJudged \/ RunFails
  <2>1. Current \in Reports /\ (Reconcile(Current) \/ UNCHANGED disagreements)
    BY <1>1, CurrentKept DEF RunJudged, RunFails, Judges, Fails
  <2> QED
    BY <2>1, ReconcileKept
<1>2. CASE RerunJudged \/ RerunFails
  <2>1. PICK i \in DOMAIN reports : Reconcile(reports[i]) \/ UNCHANGED disagreements
    BY <1>2 DEF RerunJudged, RerunFails, Judges, Fails
  <2>2. reports[i] \in Reports
    BY <2>1 DEF ReportInv, WellFormed
  <2> QED
    BY <2>1, <2>2, ReconcileKept
<1> QED
  BY <1>1, <1>2, PipelineStep DEF TaskEnds, RunStarts

PipelineInv ==
  /\ Safe
  /\ ReportInv
  /\ disagreements \in Seq(Disagreements)

LEMMA InitPipeline == PipelineInit => PipelineInv
  BY InitSafe DEF PipelineInit, PipelineInv, ReportInv

LEMMA StepPipeline == PipelineInv /\ [PipelineNext]_pipelineVars => PipelineInv' /\ [Next]_vars
<1> SUFFICES ASSUME PipelineInv, [PipelineNext]_pipelineVars
             PROVE  PipelineInv' /\ [Next]_vars
  OBVIOUS
<1>1. TypeOK /\ ReportInv /\ disagreements \in Seq(Disagreements)
  BY DEF PipelineInv, Safe
<1>2. [Next]_vars
  BY <1>1, StepIsNext
<1>3. Safe'
  BY <1>2, StepSafe DEF PipelineInv
<1>4. ReportInv' /\ DOMAIN reports \subseteq DOMAIN reports'
  BY <1>1, StepReports
<1>5. disagreements' \in Seq(Disagreements)
  BY <1>1, StepDisagreements
<1> QED
  BY <1>2, <1>3, <1>4, <1>5 DEF PipelineInv

LEMMA AlwaysPipeline == PipelineSpec => []PipelineInv
  BY InitPipeline, StepPipeline, PTL DEF PipelineSpec

(* Reports and records are of their types, over every way a pipeline runs,  *)
(* fails and is resumed (SpecialistPipelineReport).                         *)
THEOREM PipelineTyped == PipelineSpec => []PipelineTypeOK
<1>1. PipelineInv => PipelineTypeOK
  BY DEF PipelineInv, PipelineTypeOK, Safe, ReportInv
<1> QED
  BY <1>1, AlwaysPipeline, PTL

(* The pipeline does nothing to the graph the spawner's callers could not   *)
(* have done without it (specialist_review.py, "Purely additive").          *)
THEOREM PipelineIsAdditive == PipelineSpec => PipelineAdditive
<1>1. PipelineInit => Init
  BY DEF PipelineInit
<1> QED
  BY <1>1, StepPipeline, AlwaysPipeline, PTL DEF PipelineSpec, PipelineAdditive, Spec

(* So all the workflow promises holds of what pipelines admit and resume:   *)
(* one producer a node, no review but its own, no approval that nothing     *)
(* backs, no contradiction off the record, no hold without a review, no job *)
(* unlocked against its gate, and the content ledger (admit,                *)
(* approve_review).                                                         *)
THEOREM PipelinePromises == PipelineSpec => SpawnerPromises
  BY PipelineIsAdditive, PromisesTogether DEF PipelineAdditive

-----------------------------------------------------------------------------
(* The reports and the graph.  An admission lands the whole envelope or     *)
(* nothing of it, and its report says which.                                *)

Landed(s, i, n) ==
  /\ reports[i].slot = s /\ reports[i].admission = "admitted"
  /\ n \in reports[i].env.nodes

Told == \A s \in Slots : \A n : n \in produced[s] <=> \E i \in DOMAIN reports : Landed(s, i, n)

\* A judge notes a divergence only in a batch with a node that was there when
\* its run started, and admits none with such a node.
Compared(report) ==
  /\ At(report, "pending") # {} => report.diverged = {}
  /\ report.diverged # {} => report.env.nodes \cap report.existing # {}
  /\ report.admission = "admitted" => report.env.nodes \cap report.existing = {}

Refused == \A i \in DOMAIN reports :
  reports[i].existing \subseteq Content /\ Compared(reports[i])

LEMMA AdmitLands ==
  ASSUME TypeOK, NEW s \in Slots, NEW env \in Envelopes, env.status = "completed",
         Admit(s, env)
  PROVE  /\ \A t \in Slots : produced'[t] = IF t = s /\ Verified(env)
                                            THEN produced[t] \cup env.nodes ELSE produced[t]
         /\ Content \subseteq Content'
<1>1. produced \in [Slots -> SUBSET Nodes]
  BY DEF TypeOK
<1>2. \/ Verified(env) /\ AdmitAccepted(s, env, FALSE)
      \/ ~Verified(env) /\ UNCHANGED produced
  BY DEF Admit, AdmitRejected, AdmitAccepted, Fail
<1>3. AdmitAccepted(s, env, FALSE) => produced' = [produced EXCEPT ![s] = produced[s] \cup env.nodes]
  BY DEF AdmitAccepted
<1>4. \A t \in Slots : produced'[t] = IF t = s /\ Verified(env)
                                      THEN produced[t] \cup env.nodes ELSE produced[t]
  BY <1>1, <1>2, <1>3
<1> QED
  BY <1>4 DEF Content

\* A step that admits `report` writes the report of it at place k.
LEMMA JudgedTold ==
  ASSUME TypeOK, Told, Refused, NEW report, Judges(report), NEW judged, Ended(report, judged),
         report.existing \subseteq Content,
         judged.diverged \subseteq report.env.nodes \cap report.existing,
         NEW k, k \in DOMAIN reports => reports[k].admission = "none",
         DOMAIN reports' = DOMAIN reports \cup {k}, reports'[k] = judged,
         \A i \in DOMAIN reports : i # k => reports'[i] = reports[i]
  PROVE  Told' /\ Refused'
<1>1. report.slot \in Slots /\ report.env \in Envelopes /\ report.env.status = "completed"
      /\ Admit(report.slot, report.env)
  BY DEF Judges
<1>2. /\ \A t \in Slots : produced'[t] = IF t = report.slot /\ Verified(report.env)
                                         THEN produced[t] \cup report.env.nodes
                                         ELSE produced[t]
      /\ Content \subseteq Content'
  BY <1>1, AdmitLands
<1>3. /\ judged.slot = report.slot /\ judged.env = report.env
      /\ judged.existing = report.existing
      /\ judged.admission = IF Verified(report.env) THEN "admitted" ELSE "refused"
  BY DEF Ended
<1>4. ASSUME NEW s \in Slots, NEW n
      PROVE  n \in produced'[s] <=> \E i \in DOMAIN reports' : Landed(s, i, n)'
  <2>1. \A i \in DOMAIN reports : i # k => (Landed(s, i, n)' <=> Landed(s, i, n))
    BY DEF Landed
  <2>2. k \in DOMAIN reports => ~Landed(s, k, n)
    BY DEF Landed
  <2>3. Landed(s, k, n)' <=> /\ s = report.slot /\ Verified(report.env)
                            /\ n \in report.env.nodes
    BY <1>3 DEF Landed
  <2>4. n \in produced[s] <=> \E i \in DOMAIN reports : Landed(s, i, n)
    BY DEF Told
  <2>5. (\E i \in DOMAIN reports' : Landed(s, i, n)')
          <=> (\E i \in DOMAIN reports : Landed(s, i, n)) \/ Landed(s, k, n)'
    BY <2>1, <2>2
  <2> QED
    BY <1>2, <2>3, <2>4, <2>5
<1>5. Compared(judged)
  BY <1>3, EndedIsOver DEF Verified, Compared
<1>6. Refused'
  BY <1>2, <1>3, <1>5 DEF Refused
<1> QED
  BY <1>4, <1>6 DEF Told

\* A step that admits nothing writes a report that says so at place k.
LEMMA OthersTold ==
  ASSUME Told, Refused, UNCHANGED produced, NEW report, report.admission = "none",
         report.existing \subseteq Content, Compared(report),
         NEW k, k \in DOMAIN reports => reports[k].admission = "none",
         DOMAIN reports' = DOMAIN reports \cup {k}, reports'[k] = report,
         \A i \in DOMAIN reports : i # k => reports'[i] = reports[i]
  PROVE  Told' /\ Refused'
<1>1. ASSUME NEW s \in Slots, NEW n
      PROVE  n \in produced'[s] <=> \E i \in DOMAIN reports' : Landed(s, i, n)'
  <2>1. \A i \in DOMAIN reports : i # k => (Landed(s, i, n)' <=> Landed(s, i, n))
    BY DEF Landed
  <2>2. (k \in DOMAIN reports => ~Landed(s, k, n)) /\ ~Landed(s, k, n)'
    BY DEF Landed
  <2>3. n \in produced[s] <=> \E i \in DOMAIN reports : Landed(s, i, n)
    BY DEF Told
  <2> QED
    BY <2>1, <2>2, <2>3
<1>2. Content' = Content
  BY DEF Content
<1>3. Refused'
  BY <1>2 DEF Refused
<1> QED
  BY <1>1, <1>3 DEF Told

LEMMA StepTold ==
  ASSUME PipelineInv, Told, Refused, [PipelineNext]_pipelineVars
  PROVE  Told' /\ Refused'
<1>0. TypeOK /\ ReportInv /\ disagreements \in Seq(Disagreements)
  BY DEF PipelineInv, Safe
<1>1. CASE TaskEnds
  <2>1. Running /\ Current.admission = "none" /\ Len(reports) \in DOMAIN reports
    BY <1>0, <1>1, CurrentKept DEF TaskEnds
  <2>2. PICK report : /\ Report(report) /\ WellFormed(report)
                      /\ report.existing = Current.existing
                      /\ report.admission = "none" /\ report.diverged = Current.diverged
                      /\ report.status["extract"] = "absent" => At(report, "pending") = {}
    BY <1>1 DEF TaskEnds
  <2>3. /\ DOMAIN reports' = DOMAIN reports \cup {Len(reports)}
        /\ reports'[Len(reports)] = report
        /\ \A i \in DOMAIN reports : i # Len(reports) => reports'[i] = reports[i]
    BY <1>0, <2>1, <2>2, ReportReplaced
  <2>4. report.existing \subseteq Content /\ Compared(report)
    BY <1>1, <2>1, <2>2 DEF Refused, Current, Compared, TaskEnds, Running
  <2>5. UNCHANGED produced
    BY <1>1 DEF TaskEnds, vars
  <2> QED
    BY <2>1, <2>2, <2>3, <2>4, <2>5, OthersTold DEF Current
<1>2. CASE RunJudged
  <2>1. Running /\ Current.admission = "none" /\ Len(reports) \in DOMAIN reports
    BY <1>0, <1>2, CurrentKept DEF RunJudged
  <2>2. PICK judged : /\ Report(judged) /\ Ended(Current, judged)
                      /\ judged.diverged \subseteq Current.env.nodes \cap Current.existing
    BY <1>2 DEF RunJudged
  <2>3. /\ DOMAIN reports' = DOMAIN reports \cup {Len(reports)}
        /\ reports'[Len(reports)] = judged
        /\ \A i \in DOMAIN reports : i # Len(reports) => reports'[i] = reports[i]
    BY <1>0, <2>1, <2>2, EndedIsOver, ReportReplaced DEF Ended
  <2>4. Judges(Current) /\ Current.existing \subseteq Content
    BY <1>2, <2>1 DEF RunJudged, Refused, Current
  <2>5. reports[Len(reports)].admission = "none"
    BY <2>1 DEF Current
  <2> QED
    BY <1>0, <2>2, <2>3, <2>4, <2>5, JudgedTold
<1>3. CASE RerunJudged
  <2>1. PICK i, judged :
          /\ i \in DOMAIN reports
          /\ Judges(reports[i]) /\ reports' = Append(reports, judged)
          /\ Ended(reports[i], judged) /\ judged.diverged = {}
    BY <1>3 DEF RerunJudged
  <2>2. /\ DOMAIN reports' = DOMAIN reports \cup {Len(reports) + 1}
        /\ Len(reports) + 1 \notin DOMAIN reports
        /\ reports'[Len(reports) + 1] = judged
        /\ \A j \in DOMAIN reports : reports'[j] = reports[j]
    BY <1>0, <1>3, <2>1, ReportAdded DEF RerunJudged, Ended
  <2>3. reports[i].existing \subseteq Content
    BY <2>1 DEF Refused
  <2> QED
    BY <1>0, <2>1, <2>2, <2>3, JudgedTold
<1>4. CASE RerunFails
  <2>1. PICK i, failed :
          /\ i \in DOMAIN reports
          /\ reports' = Append(reports, failed) /\ WellFormed(failed)
          /\ At(failed, "pending") = {} /\ failed.existing = reports[i].existing
          /\ failed.admission = "none" /\ failed.diverged = {} /\ UNCHANGED vars
    BY <1>4 DEF RerunFails, Fails
  <2>2. /\ DOMAIN reports' = DOMAIN reports \cup {Len(reports) + 1}
        /\ Len(reports) + 1 \notin DOMAIN reports
        /\ reports'[Len(reports) + 1] = failed
        /\ \A j \in DOMAIN reports : reports'[j] = reports[j]
    BY <1>0, <1>4, <2>1, ReportAdded DEF RerunFails
  <2>3. failed.existing \subseteq Content /\ Compared(failed) /\ UNCHANGED produced
    BY <2>1 DEF Refused, Compared, vars
  <2> QED
    BY <2>1, <2>2, <2>3, OthersTold
<1>5. CASE RunStarts
  <2>1. PICK s \in Slots, compared \in BOOLEAN :
          Spawn(s) /\ reports' = Append(reports, Blank(s, compared))
    BY <1>5 DEF RunStarts
  <2> DEFINE blank == Blank(s, compared)
  <2>2. /\ WellFormed(blank) /\ blank.existing = Content
        /\ blank.admission = "none" /\ blank.diverged = {}
    BY <1>0, BlankKept
  <2>3. UNCHANGED produced /\ ~Running
    BY <1>5, <2>1 DEF Spawn, RunStarts
  <2> HIDE DEF blank
  <2>4. /\ DOMAIN reports' = DOMAIN reports \cup {Len(reports) + 1}
        /\ Len(reports) + 1 \notin DOMAIN reports
        /\ reports'[Len(reports) + 1] = blank
        /\ \A j \in DOMAIN reports : reports'[j] = reports[j]
    BY <1>0, <2>1, <2>2, <2>3, ReportAdded DEF blank
  <2>5. Compared(blank)
    BY <2>2 DEF Compared
  <2> QED
    BY <2>2, <2>3, <2>4, <2>5, OthersTold
<1>6. CASE RunFails
  <2>1. Running /\ Current.admission = "none" /\ Len(reports) \in DOMAIN reports
    BY <1>0, <1>6, CurrentKept DEF RunFails
  <2>2. PICK failed : /\ Report(failed) /\ WellFormed(failed) /\ At(failed, "pending") = {}
                      /\ failed.env = Current.env /\ failed.existing = Current.existing
                      /\ failed.admission = "none" /\ UNCHANGED vars
                      /\ failed.diverged \subseteq Current.env.nodes \cap Current.existing
    BY <1>6 DEF RunFails, Fails
  <2>3. /\ DOMAIN reports' = DOMAIN reports \cup {Len(reports)}
        /\ reports'[Len(reports)] = failed
        /\ \A i \in DOMAIN reports : i # Len(reports) => reports'[i] = reports[i]
    BY <1>0, <2>1, <2>2, ReportReplaced
  <2>4. failed.existing \subseteq Content /\ Compared(failed) /\ UNCHANGED produced
    BY <2>1, <2>2 DEF Refused, Current, Compared, vars
  <2> QED
    BY <2>1, <2>2, <2>3, <2>4, OthersTold DEF Current
<1>7. CASE [Review]_vars /\ UNCHANGED reports
  <2>1. UNCHANGED produced
    BY <1>7 DEF Review, RejectReview, ApproveReview, ResolveConflict, vars
  <2> QED
    BY <1>7, <2>1 DEF Told, Landed, Refused, Content, Compared, At
<1> QED
  BY <1>0, <1>1, <1>2, <1>3, <1>4, <1>5, <1>6, <1>7, PipelineStep

LEMMA AlwaysTold == PipelineSpec => [](Told /\ Refused)
<1>1. PipelineInit => Told /\ Refused
  <2> SUFFICES ASSUME PipelineInit PROVE Told /\ Refused
    OBVIOUS
  <2>1. reports = << >> /\ produced = [s \in Slots |-> {}]
    BY DEF PipelineInit, Init
  <2> QED
    BY <2>1 DEF Told, Refused
<1> QED
  BY <1>1, StepTold, AlwaysPipeline, PTL DEF PipelineSpec

(* A slot holds exactly what the reports that say `admitted` extracted for  *)
(* it, over any sequence of runs, failures and resumes (reviewer_judge,     *)
(* resume_specialist_pipeline).                                             *)
THEOREM ReportsTell == PipelineSpec => []LandedAsReported
<1>1. Told => LandedAsReported
  <2> SUFFICES ASSUME Told, NEW s \in Slots
               PROVE  produced[s] = UNION {reports[i].env.nodes : i \in
                                             {j \in DOMAIN reports :
                                                /\ reports[j].slot = s
                                                /\ reports[j].admission = "admitted"}}
    BY DEF LandedAsReported
  <2>1. \A n : n \in produced[s] <=> \E i \in DOMAIN reports : Landed(s, i, n)
    BY DEF Told
  <2> QED
    BY <2>1 DEF Landed
<1> QED
  BY <1>1, AlwaysTold, PTL

(* A batch noted for diverging in confidence is not admitted, by its own    *)
(* judge or by a resume, so what it was compared with stays on record       *)
(* (check_confidence_divergence, resume_specialist_pipeline, admit).        *)
THEOREM DivergentIsRefused == PipelineSpec => []DivergenceIsRefused
<1>1. Refused => DivergenceIsRefused
  BY DEF Refused, Compared, DivergenceIsRefused
<1> QED
  BY <1>1, AlwaysTold, PTL

-----------------------------------------------------------------------------
(* Disagreements.  A record is in the report of the judge that made it, or  *)
(* that judge failed; each failure leaves one record at most behind.        *)

Recorded(report) ==
  \E k \in report.disagreed \cap DOMAIN disagreements : disagreements[k] = RecordOf(report)

Attributed(k, i) ==
  /\ disagreements[k] = RecordOf(reports[i])
  /\ k \in reports[i].disagreed \/ i \in JudgeFailures

DisagreementInv ==
  /\ \A k \in DOMAIN disagreements : disagreements[k].schema # disagreements[k].conflict
  /\ \A k \in DOMAIN disagreements : \E i \in DOMAIN reports : Attributed(k, i)
  /\ \A i \in DOMAIN reports :
       /\ reports[i].admission # "none" /\ reports[i].schema # reports[i].conflict =>
            Recorded(reports[i])
       /\ At(reports[i], "pending") # {} => reports[i].disagreed = {}
  /\ Cardinality(Unreported) <= Cardinality(JudgeFailures)

\* What a step that writes the report `after` does to the records.
Counts(after) ==
  \/ UNCHANGED disagreements /\ (after.schema = after.conflict \/ after.admission = "none")
  \/ /\ disagreements' = Append(disagreements, RecordOf(after))
     /\ after.schema # after.conflict
     /\ \/ Len(disagreements) + 1 \in after.disagreed
        \/ after.status["reviewer_judge"] = "failed" /\ after.admission = "none"

LEMMA JudgedCounts ==
  ASSUME NEW report, NEW judged, Reconcile(report), Ended(report, judged)
  PROVE  Counts(judged)
<1>1. RecordOf(judged) = RecordOf(report)
  BY DEF Ended, Counted, RecordOf
<1> QED
  BY <1>1 DEF Ended, Counted, Reconcile, Counts

LEMMA FailedCounts ==
  ASSUME NEW report, NEW failed, Fails(report, failed)
  PROVE  Counts(failed)
<1>1. RecordOf(failed) = RecordOf(report)
  BY DEF Fails, RecordOf
<1> QED
  BY <1>1 DEF Fails, Reconcile, Counts

\* At most one more of what is counted, and of what bounds it.
LEMMA BoundKept ==
  ASSUME NEW A, NEW B, NEW A2, NEW B2, IsFiniteSet(A), IsFiniteSet(B2),
         Cardinality(A) <= Cardinality(B), B \subseteq B2,
         \/ A2 \subseteq A
         \/ \E a, b : A2 \subseteq A \cup {a} /\ b \in B2 \ B
  PROVE  Cardinality(A2) <= Cardinality(B2)
<1>1. /\ IsFiniteSet(B) /\ Cardinality(B) <= Cardinality(B2)
      /\ Cardinality(A) \in Nat /\ Cardinality(B) \in Nat /\ Cardinality(B2) \in Nat
  BY FS_Subset, FS_CardinalityType
<1>2. CASE A2 \subseteq A
  <2>1. Cardinality(A2) <= Cardinality(A) /\ Cardinality(A2) \in Nat
    BY <1>2, FS_Subset, FS_CardinalityType
  <2> QED
    BY <1>1, <2>1
<1>3. ASSUME NEW a, NEW b, A2 \subseteq A \cup {a}, b \in B2 \ B
      PROVE  Cardinality(A2) <= Cardinality(B2)
  <2>1. IsFiniteSet(A \cup {a}) /\ Cardinality(A \cup {a}) <= Cardinality(A) + 1
        /\ Cardinality(A \cup {a}) \in Nat
    <3>1. /\ IsFiniteSet(A \cup {a})
          /\ Cardinality(A \cup {a}) = IF a \in A THEN Cardinality(A) ELSE Cardinality(A) + 1
      BY FS_AddElement
    <3> QED
      BY <1>1, <3>1
  <2>2. Cardinality(A2) <= Cardinality(A \cup {a}) /\ Cardinality(A2) \in Nat
    BY <1>3, <2>1, FS_Subset, FS_CardinalityType
  <2>3. Cardinality(B \cup {b}) = Cardinality(B) + 1 /\ B \cup {b} \subseteq B2
    BY <1>1, <1>3, FS_AddElement
  <2>4. Cardinality(B \cup {b}) <= Cardinality(B2)
    BY <2>3, FS_Subset
  <2> QED
    BY <1>1, <2>1, <2>2, <2>3, <2>4
<1> QED
  BY <1>2, <1>3

LEMMA FiniteDomain ==
  ASSUME NEW S, NEW s \in Seq(S), NEW T \in SUBSET (DOMAIN s)
  PROVE  IsFiniteSet(T)
<1>1. DOMAIN s = 1 .. Len(s) /\ 1 \in Int /\ Len(s) \in Int
  OBVIOUS
<1>2. IsFiniteSet(DOMAIN s)
  BY <1>1, FS_Interval
<1> QED
  BY <1>2, FS_Subset

\* A step writes `after` at place k, over a running report or beyond the last.
LEMMA WriteCounted ==
  ASSUME disagreements \in Seq(Disagreements), DisagreementInv,
         reports' \in Seq(Reports), NEW after \in Reports, Counts(after),
         At(after, "pending") # {} => after.disagreed = {},
         NEW k, k \in DOMAIN reports =>
                  reports[k].disagreed = {} /\ k \notin JudgeFailures,
         DOMAIN reports' = DOMAIN reports \cup {k}, reports'[k] = after,
         \A i \in DOMAIN reports : i # k => reports'[i] = reports[i]
  PROVE  DisagreementInv'
<1> DEFINE new == RecordOf(after)
           last == Len(disagreements) + 1
           grows == disagreements' = Append(disagreements, new)
<1>1. new \in Disagreements /\ new.schema = after.schema /\ new.conflict = after.conflict
  BY DEF Reports, Disagreements, RecordOf
<1>2. /\ \A n \in DOMAIN disagreements :
           n \in DOMAIN disagreements' /\ disagreements'[n] = disagreements[n]
      /\ last \notin DOMAIN disagreements
      /\ \/ DOMAIN disagreements' = DOMAIN disagreements /\ UNCHANGED disagreements
         \/ grows /\ DOMAIN disagreements' = DOMAIN disagreements \cup {last}
            /\ disagreements'[last] = new
  <2>1. CASE UNCHANGED disagreements
    BY <2>1
  <2>2. CASE grows
    <3> HIDE DEF new
    <3> QED
      BY <1>1, <2>2
  <2> QED
    BY <2>1, <2>2 DEF Counts
<1>3. grows => /\ after.schema # after.conflict
               /\ \/ last \in after.disagreed
                  \/ after.status["reviewer_judge"] = "failed" /\ after.admission = "none"
  <2>1. ~(grows /\ UNCHANGED disagreements)
    BY <1>1
  <2> QED
    BY <2>1 DEF Counts
<1>4. UNCHANGED disagreements => after.schema = after.conflict \/ after.admission = "none"
  <2>1. ~(grows /\ UNCHANGED disagreements)
    BY <1>1
  <2> QED
    BY <2>1 DEF Counts
<1> HIDE DEF new, last, grows
<1>5. /\ JudgeFailures \subseteq JudgeFailures'
      /\ after.status["reviewer_judge"] = "failed" => k \in JudgeFailures' \ JudgeFailures
  BY DEF JudgeFailures, At, Roles
<1>6. \A n \in DOMAIN disagreements' : disagreements'[n].schema # disagreements'[n].conflict
  BY <1>1, <1>2, <1>3 DEF DisagreementInv
<1>7. ASSUME NEW n \in DOMAIN disagreements'
      PROVE  \E i \in DOMAIN reports' : Attributed(n, i)'
  <2>1. CASE n \in DOMAIN disagreements
    <3>1. PICK i \in DOMAIN reports : Attributed(n, i)
      BY <2>1 DEF DisagreementInv
    <3>2. i # k /\ i \in DOMAIN reports' /\ reports'[i] = reports[i]
      BY <3>1 DEF Attributed
    <3> QED
      BY <1>2, <1>5, <2>1, <3>1, <3>2 DEF Attributed, RecordOf
  <2>2. CASE n \notin DOMAIN disagreements
    <3>1. n = last /\ grows /\ disagreements'[n] = new
      BY <1>2, <2>2
    <3>2. k \in DOMAIN reports' /\ new = RecordOf(reports'[k])
      BY DEF new
    <3>3. n \in reports'[k].disagreed \/ k \in JudgeFailures'
      BY <1>3, <1>5, <3>1
    <3>4. Attributed(n, k)'
      BY <3>1, <3>2, <3>3 DEF Attributed, RecordOf
    <3> QED
      BY <3>2, <3>4
  <2> QED
    BY <2>1, <2>2
<1>8. ASSUME NEW i \in DOMAIN reports', reports'[i].admission # "none",
             reports'[i].schema # reports'[i].conflict
      PROVE  Recorded(reports[i])'
  <2>1. CASE i = k
    <3>1. grows /\ last \in after.disagreed
      BY <1>2, <1>3, <1>4, <1>8, <2>1
    <3>2. last \in DOMAIN disagreements' /\ disagreements'[last] = RecordOf(reports'[k])
      BY <1>1, <1>2, <3>1 DEF new, grows
    <3> QED
      BY <2>1, <3>1, <3>2 DEF Recorded, RecordOf
  <2>2. CASE i # k
    <3>1. i \in DOMAIN reports /\ reports'[i] = reports[i]
      BY <2>2
    <3>2. Recorded(reports[i])
      BY <1>8, <3>1 DEF DisagreementInv
    <3> QED
      BY <1>2, <3>1, <3>2 DEF Recorded, RecordOf
  <2> QED
    BY <2>1, <2>2
<1>9. ASSUME NEW i \in DOMAIN reports', At(reports'[i], "pending") # {}
      PROVE  reports'[i].disagreed = {}
  BY <1>9 DEF DisagreementInv
<1>10. Cardinality(Unreported') <= Cardinality(JudgeFailures')
  <2>1. IsFiniteSet(Unreported) /\ IsFiniteSet(JudgeFailures')
    BY FiniteDomain DEF Unreported, JudgeFailures
  <2>2. Unreported' \cap DOMAIN disagreements \subseteq Unreported
    <3> SUFFICES ASSUME NEW n \in DOMAIN disagreements, n \in Unreported',
                        NEW i \in DOMAIN reports
                 PROVE  n \notin reports[i].disagreed
      BY DEF Unreported
    <3>1. n \notin reports'[i].disagreed
      BY DEF Unreported
    <3> QED
      BY <3>1
  <2>3. Unreported' \subseteq DOMAIN disagreements' /\ k \in DOMAIN reports'
    BY DEF Unreported
  <2>4. CASE UNCHANGED disagreements
    <3>1. Unreported' \subseteq Unreported
      BY <1>2, <2>2, <2>3, <2>4
    <3> QED
      BY <1>5, <2>1, <3>1, BoundKept DEF DisagreementInv
  <2>5. CASE grows /\ last \in after.disagreed
    <3>1. last \notin Unreported'
      BY <2>3, <2>5 DEF Unreported
    <3>2. Unreported' \subseteq Unreported
      BY <1>2, <2>2, <2>3, <3>1
    <3> QED
      BY <1>5, <2>1, <3>2, BoundKept DEF DisagreementInv
  <2>6. CASE grows /\ after.status["reviewer_judge"] = "failed"
    <3>1. Unreported' \subseteq Unreported \cup {last} /\ k \in JudgeFailures' \ JudgeFailures
      BY <1>2, <1>5, <2>2, <2>3, <2>6
    <3> QED
      BY <1>5, <2>1, <3>1, BoundKept DEF DisagreementInv
  <2> QED
    BY <1>2, <1>3, <2>4, <2>5, <2>6
<1> QED
  BY <1>6, <1>7, <1>8, <1>9, <1>10 DEF DisagreementInv

LEMMA StepCounted ==
  ASSUME PipelineInv, DisagreementInv, [PipelineNext]_pipelineVars
  PROVE  DisagreementInv'
<1>0. /\ TypeOK /\ ReportInv /\ disagreements \in Seq(Disagreements)
      /\ reports' \in Seq(Reports)
  BY StepPipeline DEF PipelineInv, Safe, ReportInv
<1>1. ASSUME Running, NEW report, Report(report), WellFormed(report),
             report.status["extract"] = "absent" => At(report, "pending") = {},
             At(report, "pending") # {} => report.disagreed = {}, Counts(report)
      PROVE  DisagreementInv'
  <2>1. /\ DOMAIN reports' = DOMAIN reports \cup {Len(reports)}
        /\ reports'[Len(reports)] = report
        /\ \A i \in DOMAIN reports : i # Len(reports) => reports'[i] = reports[i]
    BY <1>0, <1>1, ReportReplaced
  <2>2. reports[Len(reports)].disagreed = {} /\ Len(reports) \notin JudgeFailures
    BY <1>0, <1>1, CurrentKept DEF DisagreementInv, JudgeFailures, At, Current, Running
  <2> QED
    BY <1>0, <1>1, <2>1, <2>2, WriteCounted DEF WellFormed
<1>2. ASSUME ~Running, NEW report, reports' = Append(reports, report), WellFormed(report),
             report.status["extract"] = "absent" => At(report, "pending") = {},
             At(report, "pending") # {} => report.disagreed = {}, Counts(report)
      PROVE  DisagreementInv'
  <2>1. /\ DOMAIN reports' = DOMAIN reports \cup {Len(reports) + 1}
        /\ Len(reports) + 1 \notin DOMAIN reports
        /\ reports'[Len(reports) + 1] = report
        /\ \A j \in DOMAIN reports : reports'[j] = reports[j]
    BY <1>0, <1>2, ReportAdded
  <2> QED
    BY <1>0, <1>2, <2>1, WriteCounted DEF WellFormed
<1>3. CASE TaskEnds
  <2>1. PICK report : /\ Report(report) /\ WellFormed(report)
                      /\ report.admission = "none" /\ report.disagreed = Current.disagreed
                      /\ report.status["extract"] = "absent" => At(report, "pending") = {}
    BY <1>3 DEF TaskEnds
  <2>2. Current.disagreed = {} /\ Running /\ UNCHANGED disagreements
    BY <1>0, <1>3, CurrentKept DEF TaskEnds, DisagreementInv, Current, Running
  <2> QED
    BY <1>1, <2>1, <2>2 DEF Counts
<1>4. CASE RunJudged
  <2>1. PICK judged : Report(judged) /\ Ended(Current, judged)
    BY <1>4 DEF RunJudged
  <2>2. Running /\ Reconcile(Current)
    BY <1>4 DEF RunJudged, Judges
  <2>3. At(judged, "pending") = {} /\ Counts(judged) /\ WellFormed(judged)
    BY <2>1, <2>2, EndedIsOver, JudgedCounts DEF Ended
  <2> QED
    BY <1>1, <2>1, <2>2, <2>3
<1>5. CASE RunFails
  <2>1. PICK failed : Report(failed) /\ Fails(Current, failed)
    BY <1>5 DEF RunFails
  <2>2. At(failed, "pending") = {} /\ Counts(failed) /\ WellFormed(failed) /\ Running
    BY <1>5, <2>1, FailedCounts DEF Fails, RunFails
  <2> QED
    BY <1>1, <2>1, <2>2
<1>6. CASE RerunJudged
  <2>1. PICK i, judged :
          /\ i \in DOMAIN reports
          /\ Judges(reports[i]) /\ reports' = Append(reports, judged)
          /\ Ended(reports[i], judged)
    BY <1>6 DEF RerunJudged
  <2>2. ~Running /\ Reconcile(reports[i])
    BY <1>6, <2>1 DEF RerunJudged, Judges
  <2>3. At(judged, "pending") = {} /\ Counts(judged) /\ WellFormed(judged)
    BY <2>1, <2>2, EndedIsOver, JudgedCounts DEF Ended
  <2> QED
    BY <1>2, <2>1, <2>2, <2>3
<1>7. CASE RerunFails
  <2>1. PICK i, failed : reports' = Append(reports, failed) /\ Fails(reports[i], failed)
    BY <1>7 DEF RerunFails
  <2>2. At(failed, "pending") = {} /\ Counts(failed) /\ WellFormed(failed) /\ ~Running
    BY <1>7, <2>1, FailedCounts DEF Fails, RerunFails
  <2> QED
    BY <1>2, <2>1, <2>2
<1>8. CASE RunStarts
  <2>1. PICK s \in Slots, compared \in BOOLEAN :
          Spawn(s) /\ reports' = Append(reports, Blank(s, compared))
    BY <1>8 DEF RunStarts
  <2> DEFINE blank == Blank(s, compared)
  <2>2. /\ WellFormed(blank) /\ blank.disagreed = {} /\ blank.admission = "none"
        /\ blank.status["extract"] = "pending"
    BY <1>0, BlankKept
  <2>3. reports' = Append(reports, blank) /\ ~Running /\ UNCHANGED disagreements
    BY <1>8, <2>1 DEF RunStarts
  <2> HIDE DEF blank
  <2> QED
    BY <1>2, <2>2, <2>3 DEF Counts
<1>9. CASE UNCHANGED <<reports, disagreements>>
  BY <1>9 DEF DisagreementInv, Recorded, Attributed, RecordOf, Unreported, JudgeFailures, At
<1> QED
  BY <1>0, <1>3, <1>4, <1>5, <1>6, <1>7, <1>8, <1>9, PipelineStep

(* No disagreement between the two checks is made up, and none is lost or   *)
(* recorded twice but by a judge that failed, at most one each, over any    *)
(* sequence of runs, failures and resumes (reconcile_and_admit).            *)
THEOREM DisagreementsKept == PipelineSpec => []DisagreementsReported
<1>1. PipelineInit => DisagreementInv
  <2> SUFFICES ASSUME PipelineInit PROVE DisagreementInv
    OBVIOUS
  <2>1. reports = << >> /\ disagreements = << >>
    BY DEF PipelineInit
  <2>2. Unreported = {} /\ JudgeFailures = {}
    BY <2>1 DEF Unreported, JudgeFailures
  <2> QED
    BY <2>1, <2>2, FS_EmptySet DEF DisagreementInv
<1>2. DisagreementInv => DisagreementsReported
  <2> SUFFICES ASSUME DisagreementInv, NEW i \in DOMAIN reports,
                      reports[i].admission # "none"
               PROVE  reports[i].schema # reports[i].conflict <=> Recorded(reports[i])
    BY DEF DisagreementInv, DisagreementsReported, Recorded, Attributed
  <2>1. Recorded(reports[i]) => reports[i].schema # reports[i].conflict
    BY DEF Recorded, RecordOf, DisagreementInv
  <2> QED
    BY <2>1 DEF DisagreementInv
<1> QED
  BY <1>1, <1>2, StepCounted, AlwaysPipeline, PTL DEF PipelineSpec

-----------------------------------------------------------------------------
(* Contradictions.  A conflict is on record only when both its claims are   *)
(* in the graph, so one that a new claim makes is new, and stops the gate.  *)

RecordedLanded == \A pair \in openConflicts \cup resolvedConflicts : pair \subseteq Content

LEMMA AcceptChanges ==
  ASSUME Safe, NEW s \in Slots, NEW env \in Envelopes, NEW retried,
         AdmitAccepted(s, env, retried)
  PROVE  /\ env.nodes \cap Content = {} /\ Content' = Content \cup env.nodes
         /\ \A t \in Slots : produced'[t] = IF t = s THEN produced[t] \cup env.nodes
                                                     ELSE produced[t]
         /\ openConflicts' = openConflicts \cup NewConflicts(Content \cup env.nodes)
<1>1. produced \in [Slots -> SUBSET Nodes]
  BY DEF Safe, TypeOK
<1>2. produced' = [produced EXCEPT ![s] = produced[s] \cup env.nodes]
  BY DEF AdmitAccepted
<1>3. \A t \in Slots : produced'[t] = IF t = s THEN produced[t] \cup env.nodes
                                               ELSE produced[t]
  BY <1>1, <1>2
<1>4. Content' = Content \cup env.nodes
  BY <1>3 DEF Content
<1> QED
  BY <1>3, <1>4 DEF AdmitAccepted, Verified

\* Nothing but an accepted envelope lands content or puts a conflict on record.
LEMMA OthersQuiet ==
  ASSUME [Next]_vars
  PROVE  \/ \E s \in Slots, env \in Envelopes, retried \in Retried :
              AdmitAccepted(s, env, retried)
         \/ /\ UNCHANGED produced
            /\ openConflicts' \cup resolvedConflicts' \subseteq openConflicts \cup resolvedConflicts
<1>1. CASE Review
  BY <1>1 DEF Review, RejectReview, ApproveReview, ResolveConflict
<1> QED
  BY <1>1 DEF Next, Spawn, AdmitWorkerFailure, AdmitRejected, Fail, vars

LEMMA StepRecorded == Safe /\ RecordedLanded /\ [Next]_vars => RecordedLanded'
<1> SUFFICES ASSUME Safe, RecordedLanded, [Next]_vars PROVE RecordedLanded'
  OBVIOUS
<1>1. ASSUME NEW s \in Slots, NEW env \in Envelopes, NEW retried,
             AdmitAccepted(s, env, retried)
      PROVE  RecordedLanded'
  <2>1. /\ Content' = Content \cup env.nodes
        /\ openConflicts' = openConflicts \cup NewConflicts(Content \cup env.nodes)
    BY <1>1, AcceptChanges
  <2>2. UNCHANGED resolvedConflicts
    BY <1>1 DEF AdmitAccepted
  <2> QED
    BY <2>1, <2>2 DEF RecordedLanded, NewConflicts
<1>2. CASE /\ UNCHANGED produced
           /\ openConflicts' \cup resolvedConflicts' \subseteq openConflicts \cup resolvedConflicts
  BY <1>2 DEF RecordedLanded, Content
<1> QED
  BY <1>1, <1>2, OthersQuiet

LEMMA AcceptHolds ==
  ASSUME Safe, RecordedLanded, DetectConflicts, NEW s \in Slots, NEW env \in Envelopes,
         NEW retried, AdmitAccepted(s, env, retried),
         NEW pair \in Opposed, pair \subseteq Content', pair \cap env.nodes # {}
  PROVE  jobs'[s][Len(jobs'[s])].status = "held"
<1> USE WorkflowAssumption
<1> DEFINE landed  == produced[s] \cup env.nodes
           found   == NewConflicts(Content \cup env.nodes)
           settled == [Latest(s) EXCEPT !.status = "completed", !.reported = env.status,
                                        !.conf = AvgConf[env.nodes]]
           held    == [settled EXCEPT !.status = "held"]
           heldup  == ~Unlocked(settled, task[s], landed, openConflicts \cup found)
<1>1. env.nodes \cap Content = {} /\ Content' = Content \cup env.nodes
  BY AcceptChanges
<1>2. pair \in found
  BY <1>1 DEF RecordedLanded, NewConflicts
<1>3. Contested(landed, openConflicts \cup found)
  BY <1>2 DEF Contested
<1>4. jobs' = WithJob(s, Len(jobs[s]), IF heldup THEN held ELSE settled)
  BY DEF AdmitAccepted
<1>5. heldup
  BY <1>3 DEF Unlocked, CanProceed, NoConflicts
<1>6. Len(jobs[s]) \in 1 .. Len(jobs[s]) /\ Latest(s) \in Jobs
  BY SpawnedJobs DEF Safe, AdmitAccepted, Delivered
<1>7. env.status \in {"completed", "failed"} /\ AvgConf[env.nodes] \in Confidences
  BY DEF Envelopes
<1>8. held \in Jobs /\ held.status = "held"
  BY <1>6, <1>7 DEF Jobs, JobStatuses
<1> HIDE DEF held, heldup
<1>9. jobs' = WithJob(s, Len(jobs[s]), held)
  BY <1>4, <1>5
<1> QED
  BY <1>6, <1>8, <1>9, JobReplaced DEF Safe

LEMMA AlwaysRecorded == PipelineSpec => []RecordedLanded
<1>1. PipelineInit => RecordedLanded
  BY DEF PipelineInit, Init, RecordedLanded
<1>2. PipelineInv => Safe
  BY DEF PipelineInv
<1> QED
  BY <1>1, <1>2, StepPipeline, StepRecorded, AlwaysPipeline, PTL DEF PipelineSpec

(* Content that lands on a contradiction leaves its job held, though the    *)
(* verdict its judge was given may be older than the other claim            *)
(* (resume_specialist_pipeline, admit).                                     *)
THEOREM ContestedHeld == PipelineSpec => ContestedIsHeld
<1> DEFINE Holds == \A s \in Slots :
                      LET new == produced'[s] \ produced[s]
                      IN DetectConflicts /\ (\E pair \in Opposed :
                                               pair \subseteq Content' /\ pair \cap new # {})
                           => jobs'[s][Len(jobs'[s])].status = "held"
<1>1. Safe /\ RecordedLanded /\ [Next]_vars => Holds
  <2> SUFFICES ASSUME Safe, RecordedLanded, [Next]_vars, NEW s \in Slots, DetectConflicts,
                      NEW pair \in Opposed, pair \subseteq Content',
                      pair \cap (produced'[s] \ produced[s]) # {}
               PROVE  jobs'[s][Len(jobs'[s])].status = "held"
    OBVIOUS
  <2>1. PICK t \in Slots, env \in Envelopes, retried \in Retried :
          AdmitAccepted(t, env, retried)
    BY OthersQuiet
  <2>2. t = s /\ pair \cap env.nodes # {}
    BY <2>1, AcceptChanges
  <2> QED
    BY <2>1, <2>2, AcceptHolds
<1>2. PipelineInv => Safe
  BY DEF PipelineInv
<1>3. PipelineInv /\ RecordedLanded /\ [PipelineNext]_pipelineVars => Holds
  BY <1>1, <1>2, StepPipeline
<1> QED
  BY <1>3, AlwaysPipeline, AlwaysRecorded, PTL DEF PipelineSpec, ContestedIsHeld

-----------------------------------------------------------------------------
(* The verdict of a full run.  Nobody else is at the graph while it runs,   *)
(* so its verdict on conflicts is one on the graph its judge admits into.   *)

Abreast == Running => Current.existing = Content

LEMMA CurrentReplaced ==
  ASSUME ReportInv, Running, NEW report, Report(report)
  PROVE  Current' = report
<1>1. reports \in Seq(Reports) /\ Len(reports) \in DOMAIN reports
  BY DEF ReportInv, Running
<1> QED
  BY <1>1 DEF Report, Current

LEMMA StepAbreast == PipelineInv /\ Abreast /\ [PipelineNext]_pipelineVars => Abreast'
<1> SUFFICES ASSUME PipelineInv, Abreast, [PipelineNext]_pipelineVars PROVE Abreast'
  OBVIOUS
<1>0. ReportInv /\ TypeOK /\ disagreements \in Seq(Disagreements)
  BY DEF PipelineInv, Safe
<1>1. CASE TaskEnds
  <2>1. PICK report : /\ Running /\ Report(report) /\ WellFormed(report)
                      /\ report.existing = Current.existing
                      /\ report.status["extract"] = "absent" => At(report, "pending") = {}
    BY <1>1 DEF TaskEnds
  <2>2. Current' = report
    BY <1>0, <2>1, CurrentReplaced
  <2>3. Content' = Content
    BY <1>1 DEF TaskEnds, vars, Content
  <2> QED
    BY <2>1, <2>2, <2>3 DEF Abreast
<1>2. CASE RunJudged \/ RunFails
  <2>1. PICK report : Running /\ Report(report) /\ At(report, "pending") = {}
    BY <1>2, EndedIsOver DEF RunJudged, RunFails, Fails
  <2>2. Current' = report
    BY <1>0, <2>1, CurrentReplaced
  <2> QED
    BY <2>1, <2>2 DEF Abreast, Running, At
<1>3. CASE RerunJudged \/ RerunFails
  <2>1. PICK report : reports' = Append(reports, report) /\ At(report, "pending") = {}
    BY <1>3, EndedIsOver DEF RerunJudged, RerunFails, Fails
  <2>2. Current' = report
    BY <1>0, <2>1 DEF Current, ReportInv
  <2> QED
    BY <2>1, <2>2 DEF Abreast, Running, At
<1>4. CASE RunStarts
  <2>1. PICK s \in Slots, compared \in BOOLEAN :
          Spawn(s) /\ reports' = Append(reports, Blank(s, compared))
    BY <1>4 DEF RunStarts
  <2>2. Current' = Blank(s, compared)
    BY <1>0, <2>1 DEF Current, ReportInv
  <2>3. Content' = Content
    BY <2>1 DEF Spawn, Content
  <2> QED
    BY <1>0, <2>2, <2>3, BlankKept DEF Abreast
<1>5. CASE [Review]_vars /\ UNCHANGED <<reports, disagreements>>
  <2>1. UNCHANGED produced
    BY <1>5 DEF Review, RejectReview, ApproveReview, ResolveConflict, vars
  <2> QED
    BY <1>5, <2>1 DEF Abreast, Running, Current, At, Content
<1> QED
  BY <1>0, <1>1, <1>2, <1>3, <1>4, <1>5, PipelineStep

\* What lands makes a conflict just when it contradicts itself or the content.
LEMMA AcceptForetold ==
  ASSUME Safe, RecordedLanded, NEW s \in Slots, NEW env \in Envelopes, NEW retried,
         AdmitAccepted(s, env, retried)
  PROVE  Contested(env.nodes, openConflicts') <=> ConflictVerdict(Content, env.nodes) = "fail"
<1>1. /\ env.nodes \cap Content = {}
      /\ openConflicts' = openConflicts \cup NewConflicts(Content \cup env.nodes)
  BY AcceptChanges
<1>2. ASSUME NEW pair \in openConflicts', pair \cap env.nodes # {}
      PROVE  pair \in Opposed /\ pair \subseteq Content \cup env.nodes
  BY <1>1, <1>2 DEF RecordedLanded, NewConflicts
<1>3. ASSUME NEW pair \in Opposed, pair \subseteq Content \cup env.nodes,
             pair \cap env.nodes # {}
      PROVE  pair \in openConflicts'
  BY <1>1, <1>3 DEF RecordedLanded, NewConflicts
<1>4. Contested(env.nodes, openConflicts') <=>
        \E pair \in Opposed : pair \subseteq Content \cup env.nodes /\ pair \cap env.nodes # {}
  BY <1>2, <1>3 DEF Contested
<1> QED
  BY <1>4 DEF ConflictVerdict

(* The verdict of the conflict check of a full run is the one the admission *)
(* bears out: it fails exactly when what the judge admits is in a conflict  *)
(* afterwards (verdict_from_conflict_check, admit).                         *)
THEOREM VerdictBornOut == PipelineSpec => VerdictForetells
<1> DEFINE Holds == JudgeAdmits => (Current.conflict = "fail"
                                      <=> Contested(Current.env.nodes, openConflicts'))
<1>1. ASSUME PipelineInv, RecordedLanded, Abreast, [PipelineNext]_pipelineVars, JudgeAdmits
      PROVE  Holds
  <2>0. ReportInv /\ Safe /\ TypeOK /\ disagreements \in Seq(Disagreements)
    BY <1>1 DEF PipelineInv, Safe
  <2>1. RunJudged
    <3>1. Running /\ reports'[Len(reports)].admission = "admitted"
      BY <1>1 DEF JudgeAdmits
    <3>2. ~TaskEnds /\ ~RunFails
      <4> SUFFICES ASSUME TaskEnds \/ RunFails PROVE FALSE
        OBVIOUS
      <4>1. PICK report : /\ Report(report) /\ WellFormed(report) /\ report.admission = "none"
                          /\ report.status["extract"] = "absent" => At(report, "pending") = {}
        BY DEF TaskEnds, RunFails, Fails
      <4>2. reports'[Len(reports)] = report
        BY <2>0, <3>1, <4>1, ReportReplaced
      <4> QED
        BY <3>1, <4>1, <4>2
    <3>3. reports' # reports
      BY <1>1, <3>1 DEF JudgeAdmits, Current
    <3> QED
      BY <1>1, <2>0, <3>1, <3>2, <3>3, PipelineStep DEF RerunJudged, RerunFails, RunStarts
  <2>2. PICK judged : /\ Running /\ Judges(Current) /\ Report(judged) /\ Ended(Current, judged)
                      /\ Current.status["conflict_check"] = "completed"
    BY <2>1 DEF RunJudged
  <2>3. reports'[Len(reports)] = judged
    BY <2>0, <2>2, EndedIsOver, ReportReplaced DEF Ended
  <2>4. Verified(Current.env)
    BY <1>1, <2>2, <2>3 DEF JudgeAdmits, Ended
  <2>5. AdmitAccepted(Current.slot, Current.env, FALSE)
    BY <2>2, <2>4 DEF Judges, Admit, AdmitRejected
  <2>6. Current.conflict = ConflictVerdict(Content, Current.env.nodes)
    BY <1>1, <2>0, <2>2, CurrentKept DEF WellFormed, Abreast
  <2>7. Current.slot \in Slots /\ Current.env \in Envelopes
    BY <2>2 DEF Judges
  <2> QED
    BY <1>1, <2>0, <2>5, <2>6, <2>7, AcceptForetold
<1>2. PipelineInit => Abreast
  BY DEF PipelineInit, Abreast, Running
<1>3. PipelineInv /\ RecordedLanded /\ Abreast /\ [PipelineNext]_pipelineVars => Holds
  BY <1>1
<1> QED
  BY <1>2, <1>3, StepAbreast, AlwaysPipeline, AlwaysRecorded, PTL
     DEF PipelineSpec, VerdictForetells

-----------------------------------------------------------------------------
(* Diagnosis.  Only the extractor and the judge fail, and never both.       *)

\* Whatever waits for the extractor, directly or through another task, has it
\* for a failed ancestor.
LEMMA AllBlameTheExtractor ==
  ASSUME NEW t \in Roles \ {"extract"}
  PROVE  "extract" \in FailedAncestors(t, {"extract"})
<1>1. /\ DependenciesOf("conflict_check") = {"extract"}
      /\ DependenciesOf("schema_validate") = {"extract"}
      /\ DependenciesOf("reviewer_judge") = {"conflict_check", "schema_validate"}
  BY DEF DependenciesOf
<1>2. ASSUME NEW S \in SUBSET Roles, DependenciesOf(t) \subseteq S,
             \A d \in S \ {"extract"} : DependenciesOf(d) \subseteq S
      PROVE  "extract" \in S
  BY <1>1, <1>2 DEF Roles
<1> QED
  BY <1>2 DEF FailedAncestors

(* Every run and resume that did not succeed is diagnosed without anything  *)
(* left over: a task that failed, behind each task that was skipped, and    *)
(* the judge only when nothing was skipped (diagnose_pipeline_failure).     *)
THEOREM EveryFailureDiagnosed == PipelineSpec => []DiagnosisComplete
<1>1. ASSUME NEW report, WellFormed(report), At(report, "pending") = {},
             ~AllSucceeded(report)
      PROVE  /\ At(report, "failed") # {}
             /\ \A t \in At(report, "skipped") : \E root \in At(report, "failed") :
                  t \in BlastRadius(report, root)
             /\ OrchestratorOriginated(report) <=> At(report, "skipped") = {}
  <2> DEFINE failed  == At(report, "failed")
             skipped == At(report, "skipped")
  <2>1. \/ failed = {"extract"} /\ skipped = Roles \ {"extract"}
        \/ failed = {"reviewer_judge"} /\ skipped = {}
    BY <1>1 DEF WellFormed, Shape, AllSucceeded, At, Roles
  <2>2. CASE failed = {"extract"} /\ skipped = Roles \ {"extract"}
    BY <2>2, AllBlameTheExtractor DEF BlastRadius, OrchestratorOriginated, Roles
  <2>3. CASE failed = {"reviewer_judge"} /\ skipped = {}
    BY <2>3 DEF OrchestratorOriginated
  <2> QED
    BY <2>1, <2>2, <2>3
<1>2. PipelineInv => DiagnosisComplete
  BY <1>1 DEF PipelineInv, ReportInv, DiagnosisComplete
<1> QED
  BY <1>2, AlwaysPipeline, PTL
=============================================================================
