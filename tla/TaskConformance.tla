--------------------------- MODULE TaskConformance ---------------------------
(***************************************************************************)
(* check_conformance (task_conformance.py): what the conformance gate finds *)
(* to complain about in a run of the scheduler.  The executor's return may  *)
(* carry a confidence or nothing (Scheduler.run); it ends up on the span of *)
(* the task, and only the confidence a task returned last can: one that     *)
(* raises has none.  Clocks are left out, and the check of them with them.  *)
(***************************************************************************)
EXTENDS TaskScheduler

VARIABLE confident    \* tasks whose span carries a confidence

cvars == <<vars, confident>>

ConformInit == Init /\ confident = {}

ReturnsWith(t) ==
  /\ ExecutorReturns(t)
  /\ confident' \in {confident, confident \cup {t}}

Unreported(t) ==
  /\ Begin(t) \/ (\E c \in Labels : ExecutorRaises(t, c)) \/ Record(t)
  /\ UNCHANGED confident

ReportingThread(t) == ReturnsWith(t) \/ Unreported(t)

MainReporting == MainThread /\ UNCHANGED confident

ConformNext ==
  \/ Plan /\ UNCHANGED confident
  \/ MainReporting
  \/ \E t \in Tasks : ReportingThread(t)

\* The fairness of TaskScheduler, of the same threads.
ConformSpec ==
  /\ ConformInit /\ [][ConformNext]_cvars
  /\ WF_cvars(MainReporting) /\ \A t \in Tasks : WF_cvars(ReportingThread(t))

-----------------------------------------------------------------------------
(* The checks, on the dag and the result a run has left. *)

SpansOf(t) == {spans[t][i] : i \in 1..Len(spans[t])}

EachHasOneSpan == \A t \in tasks : Len(spans[t]) = 1

SpansMatchTasks == \A t \in tasks : \A span \in SpansOf(t) : span.status = status[t]

ResultPartitions ==
  /\ completed \cap failed = {} /\ completed \cap skipped = {} /\ failed \cap skipped = {}
  /\ completed \cup failed \cup skipped = tasks

\* Mutant of CompletedReported: every span is asked for a confidence.
AllReported == \A t \in tasks : SpansOf(t) # {} => t \in confident

CompletedReported ==
  \A t \in tasks : \A span \in SpansOf(t) : span.status = "completed" => t \in confident

FailingChecks ==
  {name \in {"one span", "status", "partition", "cycles", "confidence"} :
     CASE name = "one span"   -> ~EachHasOneSpan
       [] name = "status"     -> ~SpansMatchTasks
       [] name = "partition"  -> ~ResultPartitions
       [] name = "cycles"     -> HasCycle
       [] name = "confidence" -> ~CompletedReported}

(* The gate complains of a finished run for one reason only: a task that    *)
(* completed had reported no confidence.  Failures, retries and skips, in   *)
(* whatever order the threads record them, never make a run of the real     *)
(* scheduler look corrupted (check_conformance on what run returns).        *)
ConformanceExact ==
  phase = "done" =>
    FailingChecks = IF completed \subseteq confident THEN {} ELSE {"confidence"}
=============================================================================
