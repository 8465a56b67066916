---------------------------- MODULE TaskScheduler ----------------------------
(***************************************************************************)
(* TaskDAG and Scheduler (task_graph.py).  A caller adds tasks and          *)
(* dependencies, then calls run: after a cycle check the main thread, round *)
(* by round, hands every ready task to a pool of MaxWorkers threads, waits  *)
(* for all of them (the merge barrier), and skips what is left once no task *)
(* is ready.  A pool thread runs the executor on its task, retrying while   *)
(* the failure's budget lasts, and records the outcome under the lock.      *)
(*                                                                          *)
(* An action of a pool thread ends where another thread may see or overtake *)
(* it: at a lock section and at each return of the executor.  A DAG object  *)
(* is run once, as all its callers do.                                      *)
(***************************************************************************)
EXTENDS Naturals, Sequences, FiniteSets

CONSTANTS Tasks,        \* the ids tasks may be added under
          MayDepend,    \* the dependencies a caller may add
          MaxWorkers,   \* threads of the pool
          MaxRetries,   \* Scheduler.max_retries
          Classes,      \* labels the failure classifier may give
          NoClass,      \* no label: no classifier, or it returned None or raised
          RetryPolicy   \* Scheduler.retry_policy: labels to retry counts

ASSUME SchedulerAssumption ==
  /\ IsFiniteSet(Tasks)
  /\ MayDepend \subseteq Tasks \X Tasks
  /\ MaxWorkers \in Nat \ {0}
  /\ MaxRetries \in Nat
  /\ NoClass \notin Classes
  /\ DOMAIN RetryPolicy \subseteq Classes /\ IsFiniteSet(DOMAIN RetryPolicy)
  /\ \A c \in DOMAIN RetryPolicy : RetryPolicy[c] \in Nat

VARIABLES phase,      \* where the caller and the main thread are
          tasks,      \* TaskDAG.nodes
          deps,       \* TaskDAG.edges: <<t, d>> when t depends on d
          status,     \* TaskNode.status
          remaining,  \* tasks no round has finished with
          round,      \* the ready tasks handed to the pool
          thread,     \* where the pool is with each task of the round
          attempts,   \* executor calls made for each task
          class,      \* label of each task's last failure
          completed,  \* RunResult.completed
          failed,     \* RunResult.failed
          skipped,    \* RunResult.skipped
          spans       \* RunResult.spans, by task

dag == <<tasks, deps>>
local == <<thread, attempts, class>>
result == <<completed, failed, skipped, spans>>
vars == <<phase, dag, status, remaining, round, local, result>>

Labels == Classes \cup {NoClass}
Statuses == {"pending", "running", "completed", "failed", "skipped"}
Places == {"idle", "queued", "executing", "succeeded", "exhausted"}

Spans == [status : {"completed", "failed", "skipped"}, attempts : Nat,
          class : Labels, culprits : SUBSET Tasks]

-----------------------------------------------------------------------------
(* TaskDAG. *)

DependenciesOf(t) == {d \in tasks : <<t, d>> \in deps}

\* detect_cycles finds a cycle exactly when some tasks each depend on one another.
HasCycle ==
  \E S \in SUBSET tasks : S # {} /\ \A t \in S : DependenciesOf(t) \cap S # {}

\* Mutant of ReadyTasks: one completed dependency is enough.
ReadyTasksEarly ==
  {t \in remaining : DependenciesOf(t) = {} \/ DependenciesOf(t) \cap completed # {}}

ReadyTasks == {t \in remaining : DependenciesOf(t) \subseteq completed}

\* failed_ancestors walks the dependencies of t, and on from each task it
\* meets unless that one failed; it returns the failed tasks it met.
FailedAncestors(t) ==
  LET walks == {S \in SUBSET tasks :
                  /\ DependenciesOf(t) \subseteq S
                  /\ \A d \in S \ failed : DependenciesOf(d) \subseteq S}
  IN {f \in failed : \A S \in walks : f \in S}

-----------------------------------------------------------------------------
(* The caller draws up the DAG and calls run. *)

Init ==
  /\ phase = "building"
  /\ tasks = {} /\ deps = {}
  /\ status = [t \in Tasks |-> "pending"]
  /\ remaining = {} /\ round = {}
  /\ thread = [t \in Tasks |-> "idle"]
  /\ attempts = [t \in Tasks |-> 0]
  /\ class = [t \in Tasks |-> NoClass]
  /\ completed = {} /\ failed = {} /\ skipped = {}
  /\ spans = [t \in Tasks |-> << >>]

AddTask(t) ==
  /\ phase = "building"
  /\ t \notin tasks
  /\ tasks' = tasks \cup {t}
  /\ UNCHANGED <<phase, deps, status, remaining, round, local, result>>

AddDependency(t, d) ==
  /\ phase = "building"
  /\ {t, d} \subseteq tasks
  /\ deps' = deps \cup {<<t, d>>}
  /\ UNCHANGED <<phase, tasks, status, remaining, round, local, result>>

Run ==
  /\ phase = "building"
  /\ IF HasCycle
     THEN phase' = "refused" /\ UNCHANGED remaining
     ELSE phase' = "running" /\ remaining' = tasks
  /\ UNCHANGED <<dag, status, round, local, result>>

-----------------------------------------------------------------------------
(* The main thread. *)

StartRound ==
  /\ phase = "running" /\ round = {}
  /\ ReadyTasks # {}
  /\ round' = ReadyTasks
  /\ thread' = [t \in Tasks |-> IF t \in ReadyTasks THEN "queued" ELSE thread[t]]
  /\ UNCHANGED <<phase, dag, status, remaining, attempts, class, result>>

\* Mutant of EndRound: the main thread does not wait for the running tasks.
EndRoundUnjoined ==
  /\ phase = "running" /\ round # {}
  /\ \A t \in round : thread[t] # "queued"
  /\ remaining' = remaining \ round
  /\ round' = {}
  /\ UNCHANGED <<phase, dag, status, local, result>>

\* The pool is left when every task of the round has been recorded.
EndRound ==
  /\ phase = "running" /\ round # {}
  /\ \A t \in round : thread[t] = "idle"
  /\ remaining' = remaining \ round
  /\ round' = {}
  /\ UNCHANGED <<phase, dag, status, local, result>>

SkipRemaining ==
  /\ phase = "running" /\ round = {}
  /\ remaining # {} /\ ReadyTasks = {}
  /\ status' = [t \in Tasks |-> IF t \in remaining THEN "skipped" ELSE status[t]]
  /\ skipped' = remaining
  /\ spans' = [t \in Tasks |->
                 IF t \in remaining
                 THEN Append(spans[t], [status |-> "skipped", attempts |-> 1,
                                        class |-> NoClass,
                                        culprits |-> FailedAncestors(t)])
                 ELSE spans[t]]
  /\ phase' = "done"
  /\ UNCHANGED <<dag, remaining, round, local, completed, failed>>

Return ==
  /\ phase = "running" /\ round = {} /\ remaining = {}
  /\ phase' = "done"
  /\ UNCHANGED <<dag, status, remaining, round, local, result>>

-----------------------------------------------------------------------------
(* run_one, in a thread of the pool. *)

Busy == {t \in Tasks : thread[t] \in {"executing", "succeeded", "exhausted"}}

Begin(t) ==
  /\ thread[t] = "queued"
  /\ Cardinality(Busy) < MaxWorkers
  /\ status' = [status EXCEPT ![t] = "running"]
  /\ thread' = [thread EXCEPT ![t] = "executing"]
  /\ attempts' = [attempts EXCEPT ![t] = 1]
  /\ UNCHANGED <<phase, dag, remaining, round, class, result>>

ExecutorReturns(t) ==
  /\ thread[t] = "executing"
  /\ thread' = [thread EXCEPT ![t] = "succeeded"]
  /\ UNCHANGED <<phase, dag, status, remaining, round, attempts, class, result>>

\* The retries a failure labelled c may have had.
LimitFor(c) == IF c \in DOMAIN RetryPolicy THEN RetryPolicy[c] ELSE MaxRetries

\* Mutant of ExecutorRaises: attempts are compared without the first one.
ExecutorRaisesOnceMore(t, c) ==
  /\ thread[t] = "executing"
  /\ class' = [class EXCEPT ![t] = c]
  /\ IF attempts[t] - 1 <= LimitFor(c)
     THEN attempts' = [attempts EXCEPT ![t] = @ + 1] /\ UNCHANGED thread
     ELSE thread' = [thread EXCEPT ![t] = "exhausted"] /\ UNCHANGED attempts
  /\ UNCHANGED <<phase, dag, status, remaining, round, result>>

\* Mutant of ExecutorRaises: the retry loop does not count.
ExecutorRaisesUncounted(t, c) ==
  /\ thread[t] = "executing"
  /\ class' = [class EXCEPT ![t] = c]
  /\ IF attempts[t] - 1 < LimitFor(c)
     THEN UNCHANGED thread
     ELSE thread' = [thread EXCEPT ![t] = "exhausted"]
  /\ UNCHANGED <<phase, dag, status, remaining, round, attempts, result>>

ExecutorRaises(t, c) ==
  /\ thread[t] = "executing"
  /\ class' = [class EXCEPT ![t] = c]
  /\ IF attempts[t] - 1 < LimitFor(c)
     THEN attempts' = [attempts EXCEPT ![t] = @ + 1] /\ UNCHANGED thread
     ELSE thread' = [thread EXCEPT ![t] = "exhausted"] /\ UNCHANGED attempts
  /\ UNCHANGED <<phase, dag, status, remaining, round, result>>

Outcome(t) == IF thread[t] = "succeeded" THEN "completed" ELSE "failed"

Record(t) ==
  /\ thread[t] \in {"succeeded", "exhausted"}
  /\ status' = [status EXCEPT ![t] = Outcome(t)]
  /\ completed' = IF Outcome(t) = "completed" THEN completed \cup {t} ELSE completed
  /\ failed' = IF Outcome(t) = "completed" THEN failed ELSE failed \cup {t}
  /\ spans' = [spans EXCEPT ![t] =
                 Append(@, [status |-> Outcome(t), attempts |-> attempts[t],
                            class |-> class[t], culprits |-> {}])]
  /\ thread' = [thread EXCEPT ![t] = "idle"]
  /\ UNCHANGED <<phase, dag, remaining, round, attempts, class, skipped>>

-----------------------------------------------------------------------------
Plan ==
  \/ \E t \in Tasks : AddTask(t)
  \/ \E edge \in MayDepend : AddDependency(edge[1], edge[2])
  \/ Run

MainThread == StartRound \/ EndRound \/ SkipRemaining \/ Return

PoolThread(t) ==
  \/ Begin(t)
  \/ ExecutorReturns(t)
  \/ \E c \in Labels : ExecutorRaises(t, c)
  \/ Record(t)

Next == Plan \/ MainThread \/ \E t \in Tasks : PoolThread(t)

\* Every thread is scheduled, and every call of the executor ends.
Fairness == WF_vars(MainThread) /\ \A t \in Tasks : WF_vars(PoolThread(t))

Spec == Init /\ [][Next]_vars /\ Fairness

-----------------------------------------------------------------------------
(* Properties. *)

TypeOK ==
  /\ phase \in {"building", "refused", "running", "done"}
  /\ tasks \subseteq Tasks
  /\ deps \subseteq tasks \X tasks
  /\ status \in [Tasks -> Statuses]
  /\ remaining \subseteq tasks /\ round \subseteq tasks
  /\ thread \in [Tasks -> Places]
  /\ attempts \in [Tasks -> Nat]
  /\ class \in [Tasks -> Labels]
  /\ completed \subseteq tasks /\ failed \subseteq tasks /\ skipped \subseteq tasks
  /\ spans \in [Tasks -> Seq(Spans)]

(* A task runs, and is let succeed or fail, only after everything it        *)
(* depends on has completed: no thread gets ahead of the round before it    *)
(* (ready_tasks and the merge barrier of run).                              *)
NoEarlyStart ==
  \A t \in tasks :
    status[t] \in {"running", "completed", "failed"} => DependenciesOf(t) \subseteq completed

(* Every task is accounted for exactly once: it has one span once it is     *)
(* settled and none before, the span, the node and the result sets agree,   *)
(* and a finished run leaves no task out (run, run_one).                    *)
OneSpanEach ==
  /\ \A t \in Tasks :
       IF t \in completed \cup failed \cup skipped
       THEN /\ Len(spans[t]) = 1
            /\ spans[t][1].status = status[t]
            /\ status[t] = "completed" <=> t \in completed
            /\ status[t] = "failed" <=> t \in failed
            /\ status[t] = "skipped" <=> t \in skipped
       ELSE Len(spans[t]) = 0
  /\ phase = "done" => tasks = completed \cup failed \cup skipped

(* Every skipped task names at least one culprit, and only tasks that       *)
(* failed: the fallback message "a dependency failed" never has to be used  *)
(* (failed_ancestors, with cycles ruled out by run).                        *)
SkippedHaveCulprits ==
  \A t \in skipped : spans[t][1].culprits # {} /\ spans[t][1].culprits \subseteq failed

(* A finished run skipped exactly the tasks that could not run: those that  *)
(* depend on one that failed or was skipped itself.  Nothing runs past a    *)
(* failure and nothing independent of it is lost (run).                     *)
SkippedIffUnreachable ==
  phase = "done" =>
    \A t \in tasks :
      t \in skipped <=> DependenciesOf(t) \cap (failed \cup skipped) # {}

(* A task is given up only when the budget of its last failure is spent,    *)
(* the label's own where the policy lists one and MaxRetries otherwise, and *)
(* no task is tried more often than some budget allows (run_one).           *)
RetriesAsBudgeted ==
  /\ \A t \in failed :
       LET span == spans[t][1]
       IN IF span.class \in DOMAIN RetryPolicy
          THEN span.attempts > RetryPolicy[span.class]
          ELSE span.attempts > MaxRetries
  /\ \A t \in Tasks :
       \E budget \in {MaxRetries} \cup {RetryPolicy[c] : c \in DOMAIN RetryPolicy} :
         attempts[t] <= budget + 1

(* A run that starts ends: whatever fails, no round waits for ever and no   *)
(* task is retried for ever (run).                                          *)
RunEnds == phase = "running" ~> phase = "done"

(* The threads and rounds keep the promise of an abstract task run.         *)
Abstract == INSTANCE TaskRun WITH state <- status

RunSpec == Abstract!Spec
=============================================================================
