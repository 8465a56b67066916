------------------------------- MODULE TaskRun -------------------------------
(***************************************************************************)
(* What a run of a task DAG promises, whatever threads, rounds and retries  *)
(* it uses: a task starts only when everything it depends on has completed, *)
(* a started task settles once, and only when nothing can run any more are  *)
(* the tasks left over skipped, each because of one that failed or is       *)
(* skipped with it.                                                         *)
(***************************************************************************)
CONSTANT Tasks

VARIABLES tasks,   \* the tasks of the DAG
          deps,    \* <<t, d>>: t depends on d
          state    \* where each task stands

vars == <<tasks, deps, state>>

Waiting == {t \in tasks : state[t] = "pending"}
In(s) == {t \in tasks : state[t] = s}
Needs(t) == {d \in tasks : <<t, d>> \in deps}

Init ==
  /\ tasks = {} /\ deps = {}
  /\ state = [t \in Tasks |-> "pending"]

\* The DAG is drawn up before anything starts.
Plan ==
  /\ Waiting = tasks
  /\ tasks' \in SUBSET Tasks
  /\ deps' \in SUBSET (tasks' \X tasks')
  /\ UNCHANGED state

Start(t) ==
  /\ t \in Waiting
  /\ Needs(t) \subseteq In("completed")
  /\ state' = [state EXCEPT ![t] = "running"]
  /\ UNCHANGED <<tasks, deps>>

Settle(t) ==
  /\ t \in In("running")
  /\ \E s \in {"completed", "failed"} : state' = [state EXCEPT ![t] = s]
  /\ UNCHANGED <<tasks, deps>>

SkipWaiting ==
  /\ In("running") = {}
  /\ \A t \in Waiting : Needs(t) \cap (In("failed") \cup Waiting) # {}
  /\ state' = [t \in Tasks |-> IF t \in Waiting THEN "skipped" ELSE state[t]]
  /\ UNCHANGED <<tasks, deps>>

Next == Plan \/ SkipWaiting \/ \E t \in Tasks : Start(t) \/ Settle(t)

Spec == Init /\ [][Next]_vars
=============================================================================
