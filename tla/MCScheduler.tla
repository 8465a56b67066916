----------------------------- MODULE MCScheduler -----------------------------
(***************************************************************************)
(* Model-checking instance of TaskConformance and the scheduler under it:   *)
(* every relation over three of the specialist pipeline's tasks             *)
(* (specialist_review.py), the DAGs among them and those that are none.     *)
(***************************************************************************)
EXTENDS TaskConformance, TLC

CONSTANTS extract, conflictCheck, reviewerJudge,  \* tasks
          transient, structural                   \* labels

ThreeTasks == {extract, conflictCheck, reviewerJudge}
AnyEdge == ThreeTasks \X ThreeTasks

RetryByClass == (transient :> 2) @@ (structural :> 0)
=============================================================================
