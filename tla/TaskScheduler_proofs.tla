------------------------ MODULE TaskScheduler_proofs ------------------------
(***************************************************************************)
(* Proofs about TaskScheduler and the conformance check of its runs, for    *)
(* every DAG over any finite set of tasks, any number of threads and any    *)
(* retry policy.                                                            *)
(***************************************************************************)
EXTENDS TaskConformance, TLAPS, FiniteSetTheorems

-----------------------------------------------------------------------------
(* Types.  A thread only ever has a task of the round, hence of the DAG.    *)

InPool == \A t \in Tasks : thread[t] # "idle" => t \in round

Typed == TypeOK /\ InPool

LEMMA Subsets ==
  /\ ReadyTasks \subseteq remaining
  /\ \A t : DependenciesOf(t) \subseteq tasks
  /\ \A t : FailedAncestors(t) \subseteq failed
  BY DEF ReadyTasks, DependenciesOf, FailedAncestors

LEMMA InitTyped == Init => Typed
  BY DEF Init, Typed, TypeOK, InPool, Statuses, Places, Labels

LEMMA RaiseTyped ==
  ASSUME Typed, NEW t \in Tasks, NEW c \in Labels, ExecutorRaises(t, c)
  PROVE  Typed'
<1>1. class' \in [Tasks -> Labels]
  BY DEF ExecutorRaises, Typed, TypeOK
<1>2. attempts' \in [Tasks -> Nat]
  BY DEF ExecutorRaises, Typed, TypeOK
<1>3. thread' \in [Tasks -> Places] /\ InPool'
  BY DEF ExecutorRaises, Typed, TypeOK, InPool, Places
<1> QED
  BY <1>1, <1>2, <1>3 DEF ExecutorRaises, Typed, TypeOK, dag, result

LEMMA RecordTyped ==
  ASSUME Typed, NEW t \in Tasks, Record(t)
  PROVE  Typed'
<1>1. t \in round /\ t \in tasks
  BY DEF Record, Typed, TypeOK, InPool
<1>2. Outcome(t) \in {"completed", "failed"}
  BY DEF Outcome
<1>3. completed' \subseteq tasks /\ failed' \subseteq tasks
  BY <1>1 DEF Record, Typed, TypeOK
<1>4. status' \in [Tasks -> Statuses]
  BY <1>2 DEF Record, Typed, TypeOK, Statuses
<1>5. thread' \in [Tasks -> Places] /\ InPool'
  BY DEF Record, Typed, TypeOK, InPool, Places
<1>6. spans' \in [Tasks -> Seq(Spans)]
  <2> DEFINE span == [status |-> Outcome(t), attempts |-> attempts[t],
                      class |-> class[t], culprits |-> {}]
  <2>1. span \in Spans
    BY <1>2 DEF Spans, Typed, TypeOK
  <2>2. spans' = [spans EXCEPT ![t] = Append(spans[t], span)]
    BY DEF Record
  <2> HIDE DEF span
  <2> QED
    BY <2>1, <2>2 DEF Typed, TypeOK
<1> QED
  BY <1>3, <1>4, <1>5, <1>6 DEF Record, Typed, TypeOK, dag

LEMMA SkipTyped ==
  ASSUME Typed, SkipRemaining
  PROVE  Typed'
<1>1. status' \in [Tasks -> Statuses]
  BY DEF SkipRemaining, Typed, TypeOK, Statuses
<1>2. spans' \in [Tasks -> Seq(Spans)]
  <2> DEFINE span(t) == [status |-> "skipped", attempts |-> 1, class |-> NoClass,
                         culprits |-> FailedAncestors(t)]
  <2>1. \A t \in Tasks : span(t) \in Spans
    BY Subsets DEF Spans, Labels, Typed, TypeOK
  <2>2. spans' = [t \in Tasks |-> IF t \in remaining THEN Append(spans[t], span(t))
                                                     ELSE spans[t]]
    BY DEF SkipRemaining
  <2> HIDE DEF span
  <2> QED
    BY <2>1, <2>2 DEF Typed, TypeOK
<1> QED
  BY <1>1, <1>2 DEF SkipRemaining, Typed, TypeOK, InPool, dag, local

LEMMA NextTyped == Typed /\ [Next]_vars => Typed'
<1> SUFFICES ASSUME Typed, [Next]_vars PROVE Typed'
  OBVIOUS
<1>1. ASSUME NEW t \in Tasks, AddTask(t) PROVE Typed'
  BY <1>1 DEF AddTask, Typed, TypeOK, InPool, local, result
<1>2. ASSUME NEW edge \in MayDepend, AddDependency(edge[1], edge[2]) PROVE Typed'
  BY <1>2 DEF AddDependency, Typed, TypeOK, InPool, local, result
<1>3. CASE Run
  BY <1>3 DEF Run, Typed, TypeOK, InPool, dag, local, result
<1>4. CASE StartRound
  <2>1. thread' \in [Tasks -> Places] /\ InPool'
    BY <1>4 DEF StartRound, Typed, TypeOK, InPool, Places
  <2>2. round' \subseteq tasks
    BY <1>4, Subsets DEF StartRound, Typed, TypeOK
  <2> QED
    BY <1>4, <2>1, <2>2 DEF StartRound, Typed, TypeOK, dag, result
<1>5. CASE EndRound
  BY <1>5 DEF EndRound, Typed, TypeOK, InPool, dag, local, result
<1>6. CASE SkipRemaining
  BY <1>6, SkipTyped
<1>7. CASE Return
  BY <1>7 DEF Return, Typed, TypeOK, InPool, dag, local, result
<1>8. ASSUME NEW t \in Tasks, Begin(t) PROVE Typed'
  BY <1>8 DEF Begin, Typed, TypeOK, InPool, Statuses, Places, dag, result
<1>9. ASSUME NEW t \in Tasks, ExecutorReturns(t) PROVE Typed'
  BY <1>9 DEF ExecutorReturns, Typed, TypeOK, InPool, Places, dag, result
<1>10. ASSUME NEW t \in Tasks, NEW c \in Labels, ExecutorRaises(t, c) PROVE Typed'
  BY <1>10, RaiseTyped
<1>11. ASSUME NEW t \in Tasks, Record(t) PROVE Typed'
  BY <1>11, RecordTyped
<1>12. CASE UNCHANGED vars
  BY <1>12 DEF Typed, TypeOK, InPool, vars, dag, local, result
<1> QED
  BY <1>1, <1>2, <1>3, <1>4, <1>5, <1>6, <1>7, <1>8, <1>9, <1>10, <1>11, <1>12
     DEF Next, Plan, MainThread, PoolThread

LEMMA AlwaysTyped == Spec => []Typed
<1>1. Init => Typed
  BY InitTyped
<1>2. Typed /\ [Next]_vars => Typed'
  BY NextTyped
<1> QED
  BY <1>1, <1>2, PTL DEF Spec

(* Every variable keeps its type, whatever order the threads run in: a task *)
(* that is recorded completed or failed is always one of the DAG.           *)
THEOREM TypeCorrect == Spec => []TypeOK
<1>1. Typed => TypeOK
  BY DEF Typed
<1> QED
  BY <1>1, AlwaysTyped, PTL

-----------------------------------------------------------------------------
(* Where each task stands: nothing before the run; during it a task is      *)
(* settled behind the rounds, pending ahead of them, and in the round it    *)
(* stands where its thread does; after it everything is settled.            *)

Settled == {"completed", "failed"}

InRound(t) ==
  \/ thread[t] = "queued" /\ status[t] = "pending"
  \/ thread[t] \in {"executing", "succeeded", "exhausted"} /\ status[t] = "running"
  \/ thread[t] = "idle" /\ status[t] \in Settled

Stands(t) ==
  /\ t \notin remaining => status[t] \in Settled
  /\ t \in remaining \ round => status[t] = "pending"
  /\ t \in round => InRound(t)

Recorded(t) ==
  /\ t \in completed <=> status[t] = "completed"
  /\ t \in failed <=> status[t] = "failed"
  /\ t \in skipped <=> status[t] = "skipped"

Standing ==
  /\ phase # "running" => round = {}
  /\ phase \in {"building", "refused"} =>
       remaining = {} /\ \A t \in Tasks : status[t] = "pending"
  /\ round \subseteq remaining
  /\ \A t \in Tasks : Recorded(t)
  /\ \A t \in Tasks \ tasks : status[t] = "pending"
  /\ phase = "running" => \A t \in tasks : Stands(t)
  /\ phase = "done" => \A t \in tasks : status[t] \in Settled \cup {"skipped"}

\* A pool thread holds a task of the round of a running run.
LEMMA PoolRuns ==
  ASSUME Typed, Standing, NEW t \in Tasks, thread[t] # "idle"
  PROVE  phase = "running" /\ t \in round /\ t \in tasks /\ InRound(t)
  BY DEF Typed, TypeOK, InPool, Standing, Stands

LEMMA BeginStanding ==
  ASSUME Typed, Standing, NEW t \in Tasks, Begin(t)
  PROVE  Standing'
<1>1. phase = "running" /\ t \in round /\ t \in tasks /\ InRound(t)
  BY PoolRuns DEF Begin
<1>2. \A u \in Tasks : Recorded(u)'
  BY <1>1 DEF Begin, Standing, Recorded, InRound, Typed, TypeOK, result
<1>3. \A u \in tasks : Stands(u)'
  BY <1>1 DEF Begin, Standing, Stands, InRound, Typed, TypeOK, Settled
<1> QED
  BY <1>1, <1>2, <1>3 DEF Begin, Standing, Typed, TypeOK, dag

LEMMA ReturnsStanding ==
  ASSUME Typed, Standing, NEW t \in Tasks, ExecutorReturns(t)
  PROVE  Standing'
<1>1. phase = "running" /\ t \in round /\ t \in tasks /\ InRound(t)
  BY PoolRuns DEF ExecutorReturns
<1>2. \A u \in tasks : Stands(u)'
  BY <1>1 DEF ExecutorReturns, Standing, Stands, InRound, Typed, TypeOK, Settled
<1> QED
  BY <1>1, <1>2 DEF ExecutorReturns, Standing, Recorded, dag, result

LEMMA RaisesStanding ==
  ASSUME Typed, Standing, NEW t \in Tasks, NEW c \in Labels, ExecutorRaises(t, c)
  PROVE  Standing'
<1>1. phase = "running" /\ t \in round /\ t \in tasks /\ InRound(t)
  BY PoolRuns DEF ExecutorRaises
<1>2. \A u \in tasks : Stands(u)'
  BY <1>1 DEF ExecutorRaises, Standing, Stands, InRound, Typed, TypeOK, Settled
<1> QED
  BY <1>1, <1>2 DEF ExecutorRaises, Standing, Recorded, dag, result

LEMMA RecordStanding ==
  ASSUME Typed, Standing, NEW t \in Tasks, Record(t)
  PROVE  Standing'
<1>1. phase = "running" /\ t \in round /\ t \in tasks /\ InRound(t)
  BY PoolRuns DEF Record
<1>2. Outcome(t) \in Settled
  BY DEF Outcome, Settled
<1>3. status[t] = "running"
  BY <1>1 DEF Record, InRound
<1>4. \A u \in Tasks : Recorded(u)'
  BY <1>1, <1>2, <1>3 DEF Record, Standing, Recorded, Settled, Typed, TypeOK
<1>5. \A u \in tasks : Stands(u)'
  BY <1>1, <1>2 DEF Record, Standing, Stands, InRound, Typed, TypeOK, Settled
<1> QED
  BY <1>1, <1>4, <1>5 DEF Record, Standing, Typed, TypeOK, dag

LEMMA SkipStanding ==
  ASSUME Typed, Standing, SkipRemaining
  PROVE  Standing'
<1>1. \A t \in remaining : status[t] = "pending"
  BY DEF SkipRemaining, Standing, Stands, Typed, TypeOK
<1>2. \A t \in tasks : status'[t] \in Settled \cup {"skipped"}
  BY DEF SkipRemaining, Standing, Stands, Typed, TypeOK, Settled
<1>3. \A t \in Tasks : t \notin skipped
  BY DEF SkipRemaining, Standing, Stands, Recorded, Typed, TypeOK, Settled
<1>4. \A t \in Tasks : Recorded(t)'
  BY <1>1, <1>3 DEF SkipRemaining, Standing, Recorded, Typed, TypeOK
<1> QED
  BY <1>2, <1>4 DEF SkipRemaining, Standing, Typed, TypeOK, dag

LEMMA InitStanding == Init => Standing
  BY DEF Init, Standing, Recorded

LEMMA NextStanding == Typed /\ Standing /\ [Next]_vars => Standing'
<1> SUFFICES ASSUME Typed, Standing, [Next]_vars PROVE Standing'
  OBVIOUS
<1>1. ASSUME NEW t \in Tasks, AddTask(t) PROVE Standing'
  BY <1>1 DEF AddTask, Standing, Recorded, local, result
<1>2. ASSUME NEW edge \in MayDepend, AddDependency(edge[1], edge[2]) PROVE Standing'
  BY <1>2 DEF AddDependency, Standing, Recorded, local, result
<1>3. CASE Run
  <2>1. phase' = "running" => \A t \in tasks : Stands(t)'
    BY <1>3 DEF Run, Standing, Stands, Typed, TypeOK, local
  <2> QED
    BY <1>3, <2>1 DEF Run, Standing, Recorded, dag, local, result
<1>4. CASE StartRound
  <2>1. \A t \in tasks : Stands(t)'
    BY <1>4, Subsets DEF StartRound, Standing, Stands, InRound, Typed, TypeOK
  <2> QED
    BY <1>4, <2>1, Subsets DEF StartRound, Standing, Recorded, dag, result
<1>5. CASE EndRound
  <2>1. \A t \in tasks : Stands(t)'
    BY <1>5 DEF EndRound, Standing, Stands, InRound, Typed, TypeOK, local
  <2> QED
    BY <1>5, <2>1 DEF EndRound, Standing, Recorded, dag, result
<1>6. CASE SkipRemaining
  BY <1>6, SkipStanding
<1>7. CASE Return
  BY <1>7 DEF Return, Standing, Stands, Recorded, dag, local, result
<1>8. ASSUME NEW t \in Tasks, Begin(t) PROVE Standing'
  BY <1>8, BeginStanding
<1>9. ASSUME NEW t \in Tasks, ExecutorReturns(t) PROVE Standing'
  BY <1>9, ReturnsStanding
<1>10. ASSUME NEW t \in Tasks, NEW c \in Labels, ExecutorRaises(t, c) PROVE Standing'
  BY <1>10, RaisesStanding
<1>11. ASSUME NEW t \in Tasks, Record(t) PROVE Standing'
  BY <1>11, RecordStanding
<1>12. CASE UNCHANGED vars
  BY <1>12 DEF Standing, Stands, InRound, Recorded, vars, dag, local, result
<1> QED
  BY <1>1, <1>2, <1>3, <1>4, <1>5, <1>6, <1>7, <1>8, <1>9, <1>10, <1>11, <1>12
     DEF Next, Plan, MainThread, PoolThread

-----------------------------------------------------------------------------
(* A task joins a round only with all its dependencies completed.           *)

DepsDone ==
  \A t \in tasks :
    t \in round \/ status[t] \in Settled \cup {"running"}
      => DependenciesOf(t) \subseteq completed

LEMMA NextDepsDone == Typed /\ Standing /\ DepsDone /\ [Next]_vars => DepsDone'
<1> SUFFICES ASSUME Typed, Standing, DepsDone, [Next]_vars PROVE DepsDone'
  OBVIOUS
<1>1. ASSUME NEW t \in Tasks, AddTask(t) PROVE DepsDone'
  BY <1>1 DEF AddTask, DepsDone, Standing, Settled, Typed, TypeOK, result
<1>2. ASSUME NEW edge \in MayDepend, AddDependency(edge[1], edge[2]) PROVE DepsDone'
  BY <1>2 DEF AddDependency, DepsDone, Standing, Settled, Typed, TypeOK, result
<1>3. CASE Run
  BY <1>3 DEF Run, DepsDone, DependenciesOf, dag, result
<1>4. CASE StartRound
  BY <1>4 DEF StartRound, DepsDone, DependenciesOf, ReadyTasks, dag, result
<1>5. CASE EndRound
  BY <1>5 DEF EndRound, DepsDone, DependenciesOf, dag, result
<1>6. CASE SkipRemaining
  BY <1>6 DEF SkipRemaining, DepsDone, DependenciesOf, Typed, TypeOK, Settled, dag
<1>7. CASE Return
  BY <1>7 DEF Return, DepsDone, DependenciesOf, dag, result
<1>8. ASSUME NEW t \in Tasks, Begin(t) PROVE DepsDone'
  <2>1. t \in round
    BY <1>8, PoolRuns DEF Begin
  <2> QED
    BY <1>8, <2>1 DEF Begin, DepsDone, DependenciesOf, Typed, TypeOK, dag, result
<1>9. ASSUME NEW t \in Tasks, ExecutorReturns(t) PROVE DepsDone'
  BY <1>9 DEF ExecutorReturns, DepsDone, DependenciesOf, dag, result
<1>10. ASSUME NEW t \in Tasks, NEW c \in Labels, ExecutorRaises(t, c) PROVE DepsDone'
  BY <1>10 DEF ExecutorRaises, DepsDone, DependenciesOf, dag, result
<1>11. ASSUME NEW t \in Tasks, Record(t) PROVE DepsDone'
  <2>1. t \in round
    BY <1>11, PoolRuns DEF Record
  <2>2. completed \subseteq completed'
    BY <1>11 DEF Record
  <2> QED
    BY <1>11, <2>1, <2>2 DEF Record, DepsDone, DependenciesOf, Typed, TypeOK, dag
<1>12. CASE UNCHANGED vars
  BY <1>12 DEF DepsDone, DependenciesOf, vars, dag, local, result
<1> QED
  BY <1>1, <1>2, <1>3, <1>4, <1>5, <1>6, <1>7, <1>8, <1>9, <1>10, <1>11, <1>12
     DEF Next, Plan, MainThread, PoolThread

Ordered == Typed /\ Standing /\ DepsDone

LEMMA AlwaysOrdered == Spec => []Ordered
<1>1. Init => Ordered
  BY InitTyped, InitStanding DEF Ordered, Init, DepsDone
<1>2. Ordered /\ [Next]_vars => Ordered'
  BY NextTyped, NextStanding, NextDepsDone DEF Ordered
<1> QED
  BY <1>1, <1>2, PTL DEF Spec

(* No thread gets ahead of the round before it: a task that runs or has     *)
(* run found everything it depends on completed (the merge barrier of run). *)
THEOREM NothingStartsEarly == Spec => []NoEarlyStart
<1>1. Ordered => NoEarlyStart
  BY DEF Ordered, DepsDone, NoEarlyStart, Settled
<1> QED
  BY <1>1, AlwaysOrdered, PTL

-----------------------------------------------------------------------------
(* A finished run stays as it is, and no task is skipped before the end.    *)

LEMMA DoneStays ==
  ASSUME Typed, Standing, phase = "done", [Next]_vars
  PROVE  UNCHANGED vars
<1>1. \A t \in Tasks : thread[t] = "idle"
  BY DEF Typed, InPool, Standing
<1> QED
  BY <1>1 DEF Next, Plan, MainThread, PoolThread, AddTask, AddDependency, Run,
     StartRound, EndRound, SkipRemaining, Return, Begin, ExecutorReturns,
     ExecutorRaises, Record

LEMMA SkippedAtEnd ==
  ASSUME Typed, Standing, phase # "done"
  PROVE  skipped = {}
  BY DEF Typed, TypeOK, Standing, Stands, InRound, Recorded, Settled

\* Each action but these two leaves the spans alone.
LEMMA SpansChange ==
  ASSUME [Next]_vars, ~SkipRemaining, \A t \in Tasks : ~Record(t)
  PROVE  spans' = spans /\ completed' = completed /\ failed' = failed /\ skipped' = skipped
  BY DEF Next, Plan, MainThread, PoolThread, AddTask, AddDependency, Run, StartRound,
     EndRound, Return, Begin, ExecutorReturns, ExecutorRaises, vars, dag, local, result

-----------------------------------------------------------------------------
(* One span for each settled task. *)

SpanFits(t) ==
  IF t \in completed \cup failed \cup skipped
  THEN Len(spans[t]) = 1 /\ spans[t][1].status = status[t]
  ELSE Len(spans[t]) = 0

SpansFit == \A t \in Tasks : SpanFits(t)

LEMMA FirstAppended ==
  ASSUME NEW s \in Seq(Spans), NEW e \in Spans, Len(s) = 0
  PROVE  Len(Append(s, e)) = 1 /\ Append(s, e)[1] = e
  OBVIOUS

LEMMA RecordSpan ==
  ASSUME Ordered, SpansFit, NEW t \in Tasks, Record(t)
  PROVE  /\ Len(spans'[t]) = 1
         /\ spans'[t][1] = [status |-> Outcome(t), attempts |-> attempts[t],
                            class |-> class[t], culprits |-> {}]
         /\ \A u \in Tasks \ {t} : spans'[u] = spans[u]
         /\ status[t] = "running" /\ status'[t] = Outcome(t)
         /\ t \notin completed \cup failed \cup skipped
<1> DEFINE span == [status |-> Outcome(t), attempts |-> attempts[t],
                    class |-> class[t], culprits |-> {}]
<1>1. span \in Spans
  BY DEF Outcome, Spans, Ordered, Typed, TypeOK
<1>2. status[t] = "running"
  BY PoolRuns DEF Ordered, Record, InRound
<1>3. t \notin completed \cup failed \cup skipped
  BY <1>2 DEF Ordered, Standing, Recorded
<1>4. spans[t] \in Seq(Spans) /\ Len(spans[t]) = 0
  BY <1>3 DEF SpansFit, SpanFits, Ordered, Typed, TypeOK
<1>5. /\ spans'[t] = Append(spans[t], span)
      /\ \A u \in Tasks \ {t} : spans'[u] = spans[u]
      /\ status'[t] = Outcome(t)
  BY DEF Record, Ordered, Typed, TypeOK
<1> HIDE DEF span
<1>6. Len(spans'[t]) = 1 /\ spans'[t][1] = span
  BY <1>1, <1>4, <1>5, FirstAppended
<1> QED
  BY <1>2, <1>3, <1>5, <1>6 DEF span

LEMMA SkipSpan ==
  ASSUME Ordered, SpansFit, SkipRemaining
  PROVE  /\ \A t \in remaining :
              /\ Len(spans'[t]) = 1
              /\ spans'[t][1] = [status |-> "skipped", attempts |-> 1, class |-> NoClass,
                                 culprits |-> FailedAncestors(t)]
              /\ t \notin completed \cup failed \cup skipped
         /\ \A t \in Tasks \ remaining : spans'[t] = spans[t] /\ status'[t] = status[t]
<1>1. ASSUME NEW t \in remaining
      PROVE  /\ Len(spans'[t]) = 1
             /\ spans'[t][1] = [status |-> "skipped", attempts |-> 1, class |-> NoClass,
                                culprits |-> FailedAncestors(t)]
             /\ t \notin completed \cup failed \cup skipped
  <2> DEFINE span == [status |-> "skipped", attempts |-> 1, class |-> NoClass,
                      culprits |-> FailedAncestors(t)]
  <2>1. t \in Tasks
    BY DEF Ordered, Typed, TypeOK
  <2>2. span \in Spans
    BY Subsets DEF Spans, Labels, Ordered, Typed, TypeOK
  <2>3. t \notin completed \cup failed \cup skipped
    BY <2>1 DEF SkipRemaining, Ordered, Standing, Stands, Recorded, Typed, TypeOK
  <2>4. spans[t] \in Seq(Spans) /\ Len(spans[t]) = 0
    BY <2>1, <2>3 DEF SpansFit, SpanFits, Ordered, Typed, TypeOK
  <2>5. spans'[t] = Append(spans[t], span)
    BY <2>1 DEF SkipRemaining
  <2> HIDE DEF span
  <2>6. Len(spans'[t]) = 1 /\ spans'[t][1] = span
    BY <2>2, <2>4, <2>5, FirstAppended
  <2> QED
    BY <2>3, <2>6 DEF span
<1>2. \A t \in Tasks \ remaining : spans'[t] = spans[t] /\ status'[t] = status[t]
  BY DEF SkipRemaining
<1> QED
  BY <1>1, <1>2

LEMMA NextSpansFit == Ordered /\ Ordered' /\ SpansFit /\ [Next]_vars => SpansFit'
<1> SUFFICES ASSUME Ordered, Ordered', SpansFit, [Next]_vars PROVE SpansFit'
  OBVIOUS
<1>1. ASSUME NEW t \in Tasks, Record(t) PROVE SpansFit'
  <2>1. Outcome(t) \in Settled
    BY DEF Outcome, Settled
  <2>2. t \in (completed \cup failed \cup skipped)'
    BY <1>1, <2>1 DEF Record, Settled
  <2>3. SpanFits(t)'
    <3>1. /\ Len(spans'[t]) = 1 /\ status'[t] = Outcome(t)
          /\ spans'[t][1] = [status |-> Outcome(t), attempts |-> attempts[t],
                             class |-> class[t], culprits |-> {}]
      BY <1>1, RecordSpan
    <3> QED
      BY <2>2, <3>1 DEF SpanFits
  <2>4. \A u \in Tasks \ {t} : SpanFits(u)'
    BY <1>1, RecordSpan DEF SpanFits, SpansFit, Record, Ordered, Typed, TypeOK
  <2> QED
    BY <2>3, <2>4 DEF SpansFit
<1>2. CASE SkipRemaining
  <2>1. ASSUME NEW t \in remaining PROVE SpanFits(t)'
    <3>1. t \in skipped' /\ status'[t] = "skipped"
      BY <1>2 DEF SkipRemaining, Ordered, Typed, TypeOK
    <3>2. /\ Len(spans'[t]) = 1
          /\ spans'[t][1] = [status |-> "skipped", attempts |-> 1, class |-> NoClass,
                             culprits |-> FailedAncestors(t)]
      BY <1>2, SkipSpan
    <3> QED
      BY <3>1, <3>2 DEF SpanFits
  <2>2. skipped = {}
    BY <1>2, SkippedAtEnd DEF SkipRemaining, Ordered
  <2>3. \A t \in Tasks \ remaining : SpanFits(t)'
    BY <1>2, <2>2, SkipSpan DEF SpanFits, SpansFit, SkipRemaining
  <2> QED
    BY <2>1, <2>3 DEF SpansFit, Ordered, Typed, TypeOK
<1>3. CASE ~SkipRemaining /\ \A t \in Tasks : ~Record(t)
  <2>1. /\ spans' = spans /\ completed' = completed
        /\ failed' = failed /\ skipped' = skipped
    BY <1>3, SpansChange
  <2>2. \A t \in completed \cup failed \cup skipped : status'[t] = status[t]
    BY <2>1 DEF Ordered, Standing, Recorded, Typed, TypeOK
  <2> QED
    BY <2>1, <2>2 DEF SpansFit, SpanFits
<1> QED
  BY <1>1, <1>2, <1>3

LEMMA AlwaysFit == Spec => [](Ordered /\ SpansFit)
<1>1. Init => SpansFit
  BY DEF Init, SpansFit, SpanFits
<1>2. Ordered /\ Ordered' /\ SpansFit /\ [Next]_vars => SpansFit'
  BY NextSpansFit
<1> QED
  BY <1>1, <1>2, AlwaysOrdered, PTL DEF Spec

(* Every task is accounted for exactly once, and a finished run leaves none *)
(* out: the threads never record a task twice and never lose one.           *)
THEOREM TasksAccountedOnce == Spec => []OneSpanEach
<1>1. Ordered /\ SpansFit => OneSpanEach
  BY DEF Ordered, Typed, TypeOK, Standing, Recorded, Settled, SpansFit, SpanFits,
     OneSpanEach
<1> QED
  BY <1>1, AlwaysFit, PTL

-----------------------------------------------------------------------------
(* Why a task is skipped.                                                   *)

Acyclic == phase \in {"running", "done"} => ~HasCycle

LEMMA NextAcyclic == Acyclic /\ [Next]_vars => Acyclic'
<1> SUFFICES ASSUME Acyclic, [Next]_vars PROVE Acyclic'
  OBVIOUS
<1>1. CASE Plan
  BY <1>1 DEF Plan, AddTask, AddDependency, Run, Acyclic, HasCycle, DependenciesOf, dag
<1>2. CASE MainThread \/ (\E t \in Tasks : PoolThread(t)) \/ UNCHANGED vars
  <2>1. tasks' = tasks /\ deps' = deps
    BY <1>2 DEF MainThread, PoolThread, StartRound, EndRound, SkipRemaining, Return,
       Begin, ExecutorReturns, ExecutorRaises, Record, vars, dag
  <2>2. phase' \in {"running", "done"} => phase \in {"running", "done"}
    BY <1>2 DEF MainThread, PoolThread, StartRound, EndRound, SkipRemaining, Return,
       Begin, ExecutorReturns, ExecutorRaises, Record, vars
  <2> QED
    BY <2>1, <2>2 DEF Acyclic, HasCycle, DependenciesOf
<1> QED
  BY <1>1, <1>2 DEF Next

\* When nothing is ready, a task that remains waits for one that failed or remains.
LEMMA Blocked ==
  ASSUME Ordered, SkipRemaining, NEW t \in remaining
  PROVE  DependenciesOf(t) \cap (failed \cup remaining) # {}
<1>1. PICK d \in DependenciesOf(t) : d \notin completed
  BY DEF SkipRemaining, ReadyTasks
<1>2. d \in tasks
  BY DEF DependenciesOf
<1>3. d \in failed \/ d \in remaining
  BY <1>1, <1>2 DEF SkipRemaining, Ordered, Typed, TypeOK, Standing, Stands, Recorded,
     Settled
<1> QED
  BY <1>1, <1>3

\* If no walk from t met a failed task, the remaining tasks it meets, t among
\* them, would each depend on one another: a cycle, which run has refused.
LEMMA CulpritFound ==
  ASSUME Ordered, Acyclic, SkipRemaining, NEW t \in remaining
  PROVE  FailedAncestors(t) # {}
<1> DEFINE walks == {S \in SUBSET tasks :
                       /\ DependenciesOf(t) \subseteq S
                       /\ \A d \in S \ failed : DependenciesOf(d) \subseteq S}
           met == {d \in tasks : \A S \in walks : d \in S}
           loop == (met \cup {t}) \cap remaining
<1> SUFFICES ASSUME FailedAncestors(t) = {} PROVE FALSE
  OBVIOUS
<1>1. met \cap failed = {}
  BY DEF FailedAncestors
<1>2. DependenciesOf(t) \subseteq met
  BY Subsets
<1>3. ASSUME NEW d \in met PROVE DependenciesOf(d) \subseteq met
  <2>1. d \notin failed
    BY <1>1
  <2>2. ASSUME NEW S \in walks PROVE DependenciesOf(d) \subseteq S
    BY <2>1
  <2> QED
    BY <2>2, Subsets
<1>4. t \in loop /\ loop \in SUBSET tasks
  BY DEF Ordered, Typed, TypeOK
<1>5. ASSUME NEW d \in loop PROVE DependenciesOf(d) \cap loop # {}
  <2>1. DependenciesOf(d) \subseteq met
    BY <1>2, <1>3
  <2>2. DependenciesOf(d) \cap (failed \cup remaining) # {}
    BY Blocked
  <2> QED
    BY <1>1, <2>1, <2>2
<1> HIDE DEF loop
<1>6. HasCycle
  BY <1>4, <1>5 DEF HasCycle
<1> QED
  BY <1>6 DEF Acyclic, SkipRemaining

Explained ==
  /\ Acyclic
  /\ \A t \in skipped : spans[t][1].culprits # {} /\ spans[t][1].culprits \subseteq failed
  /\ \A t \in skipped : DependenciesOf(t) \cap (failed \cup skipped) # {}

LEMMA NextExplained == Ordered /\ Ordered' /\ SpansFit /\ Explained /\ [Next]_vars => Explained'
<1> SUFFICES ASSUME Ordered, Ordered', SpansFit, Explained, [Next]_vars PROVE Explained'
  OBVIOUS
<1>1. Acyclic'
  BY NextAcyclic DEF Explained
<1>2. CASE SkipRemaining
  <2>1. skipped' = remaining /\ failed' = failed /\ tasks' = tasks /\ deps' = deps
    BY <1>2 DEF SkipRemaining, dag
  <2>2. ASSUME NEW t \in remaining
        PROVE  /\ spans'[t][1].culprits # {}
               /\ spans'[t][1].culprits \subseteq failed
               /\ DependenciesOf(t) \cap (failed \cup remaining) # {}
    <3>1. spans'[t][1] = [status |-> "skipped", attempts |-> 1, class |-> NoClass,
                          culprits |-> FailedAncestors(t)]
      BY <1>2, SkipSpan
    <3>2. spans'[t][1].culprits = FailedAncestors(t)
      BY <3>1
    <3> QED
      BY <1>2, <3>2, Subsets, CulpritFound, Blocked DEF Explained
  <2> QED
    BY <1>1, <2>1, <2>2 DEF Explained, DependenciesOf
<1>3. CASE ~SkipRemaining /\ phase = "done"
  <2>1. UNCHANGED vars
    BY <1>3, DoneStays DEF Ordered
  <2> QED
    BY <1>1, <2>1 DEF Explained, DependenciesOf, vars, dag, result
<1>4. CASE ~SkipRemaining /\ phase # "done"
  <2>1. skipped = {}
    BY <1>4, SkippedAtEnd DEF Ordered
  <2>2. skipped' = skipped
    BY <1>4 DEF Next, Plan, MainThread, PoolThread, AddTask, AddDependency, Run,
       StartRound, EndRound, Return, Begin, ExecutorReturns, ExecutorRaises, Record,
       vars, result
  <2> QED
    BY <1>1, <2>1, <2>2 DEF Explained
<1> QED
  BY <1>2, <1>3, <1>4

LEMMA AlwaysExplained == Spec => [](Ordered /\ SpansFit /\ Explained)
<1>1. Init => Explained
  BY DEF Init, Explained, Acyclic
<1>2. Ordered /\ Ordered' /\ SpansFit /\ Explained /\ [Next]_vars => Explained'
  BY NextExplained
<1> QED
  BY <1>1, <1>2, AlwaysFit, PTL DEF Spec

(* Every skipped task names a failed task it depends on, directly or not:   *)
(* failed_ancestors never comes back empty-handed.                          *)
THEOREM CulpritsNamed == Spec => []SkippedHaveCulprits
<1>1. Explained => SkippedHaveCulprits
  BY DEF Explained, SkippedHaveCulprits
<1> QED
  BY <1>1, AlwaysExplained, PTL

(* A finished run skipped exactly what a failure made unreachable.          *)
THEOREM OnlyUnreachableSkipped == Spec => []SkippedIffUnreachable
<1>1. Ordered /\ Explained => SkippedIffUnreachable
  BY DEF Ordered, Typed, TypeOK, Standing, Recorded, DepsDone, Settled, Explained,
     SkippedIffUnreachable, DependenciesOf
<1> QED
  BY <1>1, AlwaysExplained, PTL

-----------------------------------------------------------------------------
(* Retries.                                                                 *)

Budgets == {MaxRetries} \cup {RetryPolicy[c] : c \in DOMAIN RetryPolicy}

WithinBudget(t) == \E budget \in Budgets : attempts[t] <= budget + 1

Spent(t) == thread[t] = "exhausted" => attempts[t] > LimitFor(class[t])

GivenUp(t) == t \in failed => spans[t][1].attempts > LimitFor(spans[t][1].class)

Budgeted == \A t \in Tasks : WithinBudget(t) /\ Spent(t) /\ GivenUp(t)

LEMMA BudgetTypes ==
  /\ Budgets \subseteq Nat
  /\ \A c \in Labels : LimitFor(c) \in Budgets
  BY SchedulerAssumption DEF Budgets, LimitFor, Labels

LEMMA RaiseBudgeted ==
  ASSUME Ordered, Budgeted, NEW t \in Tasks, NEW c \in Labels, ExecutorRaises(t, c)
  PROVE  Budgeted'
<1>1. attempts[t] \in Nat /\ LimitFor(c) \in Budgets /\ LimitFor(c) \in Nat
  BY BudgetTypes DEF Ordered, Typed, TypeOK
<1>2. /\ class'[t] = c
      /\ \A u \in Tasks \ {t} : /\ class'[u] = class[u] /\ thread'[u] = thread[u]
                                /\ attempts'[u] = attempts[u]
  BY DEF ExecutorRaises, Ordered, Typed, TypeOK
<1>3. WithinBudget(t)' /\ Spent(t)'
  <2>1. CASE attempts[t] - 1 < LimitFor(c)
    <3>1. attempts'[t] = attempts[t] + 1 /\ thread'[t] = "executing"
      BY <2>1 DEF ExecutorRaises, Ordered, Typed, TypeOK
    <3>2. attempts'[t] <= LimitFor(c) + 1
      BY <1>1, <2>1, <3>1
    <3> QED
      BY <1>1, <3>1, <3>2 DEF WithinBudget, Spent, Budgets
  <2>2. CASE ~(attempts[t] - 1 < LimitFor(c))
    <3>1. attempts' = attempts
      BY <2>2 DEF ExecutorRaises
    <3>2. attempts'[t] > LimitFor(c)
      BY <1>1, <2>2, <3>1
    <3> QED
      BY <1>2, <3>1, <3>2 DEF WithinBudget, Spent, Budgeted, LimitFor
  <2> QED
    BY <2>1, <2>2
<1>4. \A u \in Tasks \ {t} : WithinBudget(u)' /\ Spent(u)'
  BY <1>2 DEF WithinBudget, Spent, Budgeted, LimitFor
<1>5. \A u \in Tasks : GivenUp(u)'
  BY DEF GivenUp, Budgeted, ExecutorRaises, LimitFor, result
<1> QED
  BY <1>3, <1>4, <1>5 DEF Budgeted

LEMMA RecordBudgeted ==
  ASSUME Ordered, SpansFit, Budgeted, NEW t \in Tasks, Record(t)
  PROVE  Budgeted'
<1>1. attempts' = attempts /\ class' = class
  BY DEF Record
<1>2. \A u \in Tasks : WithinBudget(u)' /\ Spent(u)'
  BY <1>1 DEF WithinBudget, Spent, Budgeted, Record, LimitFor, Ordered, Typed, TypeOK
<1>3. GivenUp(t)'
  <2>1. spans'[t][1] = [status |-> Outcome(t), attempts |-> attempts[t],
                        class |-> class[t], culprits |-> {}]
    BY RecordSpan
  <2>2. spans'[t][1].attempts = attempts[t] /\ spans'[t][1].class = class[t]
    BY <2>1
  <2>3. t \in failed' => thread[t] = "exhausted"
    BY RecordSpan DEF Record, Outcome
  <2> QED
    BY <2>2, <2>3 DEF GivenUp, Budgeted, Spent, LimitFor
<1>4. \A u \in Tasks \ {t} : GivenUp(u)'
  BY RecordSpan DEF GivenUp, Budgeted, Record, LimitFor
<1> QED
  BY <1>2, <1>3, <1>4 DEF Budgeted

LEMMA NextBudgeted == Ordered /\ SpansFit /\ Budgeted /\ [Next]_vars => Budgeted'
<1> SUFFICES ASSUME Ordered, SpansFit, Budgeted, [Next]_vars PROVE Budgeted'
  OBVIOUS
<1>1. ASSUME NEW t \in Tasks, Record(t) PROVE Budgeted'
  BY <1>1, RecordBudgeted
<1>2. ASSUME NEW t \in Tasks, NEW c \in Labels, ExecutorRaises(t, c) PROVE Budgeted'
  BY <1>2, RaiseBudgeted
<1>3. ASSUME NEW t \in Tasks, Begin(t) PROVE Budgeted'
  <2>1. attempts'[t] = 1 /\ \A u \in Tasks \ {t} : attempts'[u] = attempts[u]
    BY <1>3 DEF Begin, Ordered, Typed, TypeOK
  <2>2. MaxRetries \in Budgets /\ 1 <= MaxRetries + 1
    BY SchedulerAssumption DEF Budgets
  <2>3. \A u \in Tasks : WithinBudget(u)'
    BY <2>1, <2>2 DEF WithinBudget, Budgeted, Budgets
  <2>4. \A u \in Tasks : Spent(u)'
    BY <1>3 DEF Begin, Spent, Budgeted, LimitFor, Ordered, Typed, TypeOK
  <2>5. \A u \in Tasks : GivenUp(u)'
    BY <1>3 DEF Begin, GivenUp, Budgeted, LimitFor, result
  <2> QED
    BY <2>3, <2>4, <2>5 DEF Budgeted
<1>4. ASSUME NEW t \in Tasks, ExecutorReturns(t) PROVE Budgeted'
  BY <1>4 DEF ExecutorReturns, Budgeted, WithinBudget, Spent, GivenUp, LimitFor,
     Ordered, Typed, TypeOK, result
<1>5. CASE StartRound
  BY <1>5 DEF StartRound, Budgeted, WithinBudget, Spent, GivenUp, LimitFor, result
<1>6. CASE SkipRemaining
  <2>1. \A t \in failed : spans'[t] = spans[t]
    BY <1>6, SkipSpan DEF Ordered, Typed, TypeOK
  <2> QED
    BY <1>6, <2>1 DEF SkipRemaining, Budgeted, WithinBudget, Spent, GivenUp, LimitFor,
       local
<1>7. CASE Plan \/ EndRound \/ Return \/ UNCHANGED vars
  <2>1. UNCHANGED <<local, failed, spans>>
    BY <1>7 DEF Plan, AddTask, AddDependency, Run, EndRound, Return, vars, result
  <2> QED
    BY <2>1 DEF Budgeted, WithinBudget, Spent, GivenUp, LimitFor, local
<1> QED
  BY <1>1, <1>2, <1>3, <1>4, <1>5, <1>6, <1>7 DEF Next, MainThread, PoolThread

(* A failure is retried as often as its class allows and no more, and a     *)
(* task is given up only when the budget of its last failure is spent.      *)
THEOREM RetriesBudgeted == Spec => []RetriesAsBudgeted
<1>1. Init => Budgeted
  BY SchedulerAssumption DEF Init, Budgeted, WithinBudget, Spent, GivenUp, Budgets
<1>2. Ordered /\ SpansFit /\ Budgeted /\ [Next]_vars => Budgeted'
  BY NextBudgeted
<1>3. Ordered /\ Budgeted => RetriesAsBudgeted
  BY DEF Ordered, Typed, TypeOK, Budgeted, WithinBudget, Budgets, GivenUp, LimitFor,
     RetriesAsBudgeted
<1> QED
  BY <1>1, <1>2, <1>3, AlwaysFit, PTL DEF Spec

-----------------------------------------------------------------------------
(* Why a run ends.  StepsLeft are the steps of the five kinds that tasks    *)
(* still have ahead of them, TriesLeft the executor calls some budget still *)
(* grants: both finite, and a step adds to neither and takes from one.      *)

StepKinds == {"handout", "begin", "execute", "record", "join"}

Due(kind, t) ==
  CASE kind = "handout" -> t \in remaining \ round
    [] kind = "begin"    -> status[t] = "pending"
    [] kind = "execute"  -> status[t] = "pending" \/ thread[t] = "executing"
    [] kind = "record"   -> status[t] \in {"pending", "running"}
    [] kind = "join"     -> t \in remaining

StepsLeft == {step \in StepKinds \X tasks : Due(step[1], step[2])}

\* Failures a budget distinguishes: each class of the policy, and all others.
Budgeting == {NoClass} \cup DOMAIN RetryPolicy

CallsUnder == [c \in Budgeting |-> 1..(LimitFor(c) + 1)]

Calls == UNION {CallsUnder[c] : c \in Budgeting}

TriesLeft ==
  {try \in tasks \X Calls : status[try[1]] = "pending" \/ try[2] > attempts[try[1]]}

Effort == Cardinality(StepsLeft) + Cardinality(TriesLeft)

LEMMA CallsFinite == IsFiniteSet(Calls) /\ Calls \subseteq Nat
<1> DEFINE ranges == {CallsUnder[c] : c \in Budgeting}
<1>1. IsFiniteSet(Budgeting)
  BY SchedulerAssumption, FS_AddElement DEF Budgeting
<1>2. \A c \in Budgeting : LimitFor(c) \in Nat
  BY SchedulerAssumption DEF LimitFor
<1>3. CallsUnder \in Surjection(Budgeting, ranges)
  BY DEF CallsUnder, Surjection
<1>4. IsFiniteSet(ranges)
  BY <1>1, <1>3, FS_Surjection
<1>5. ASSUME NEW r \in ranges PROVE IsFiniteSet(r)
  <2>1. PICK c \in Budgeting : r = 1..(LimitFor(c) + 1)
    BY DEF CallsUnder
  <2> QED
    BY <1>2, <2>1, FS_Interval
<1> HIDE DEF ranges
<1>6. IsFiniteSet(UNION ranges)
  BY <1>4, <1>5, FS_UNION
<1>7. IsFiniteSet(Calls)
  BY <1>6 DEF ranges, Calls
<1>8. ASSUME NEW n \in Calls PROVE n \in Nat
  <2>1. PICK c \in Budgeting : n \in CallsUnder[c]
    BY DEF Calls
  <2> QED
    BY <1>2, <2>1 DEF CallsUnder
<1> QED
  BY <1>7, <1>8

\* A retry that is granted is one of the calls some budget grants.
LEMMA RetryGranted ==
  ASSUME NEW c \in Labels, NEW n \in Nat, n - 1 < LimitFor(c)
  PROVE  n + 1 \in Calls
<1>1. PICK b \in Budgeting : LimitFor(b) = LimitFor(c)
  <2>1. CASE c \in DOMAIN RetryPolicy
    BY <2>1 DEF Budgeting
  <2>2. CASE c \notin DOMAIN RetryPolicy
    <3>1. LimitFor(NoClass) = LimitFor(c)
      BY <2>2, SchedulerAssumption DEF LimitFor
    <3> QED
      BY <3>1 DEF Budgeting
  <2> QED
    BY <2>1, <2>2
<1>2. LimitFor(b) \in Nat
  BY SchedulerAssumption DEF LimitFor
<1>3. n + 1 \in CallsUnder[b]
  BY <1>1, <1>2 DEF CallsUnder
<1> QED
  BY <1>3 DEF Calls

LEMMA LeftFinite ==
  ASSUME Typed
  PROVE  IsFiniteSet(StepsLeft) /\ IsFiniteSet(TriesLeft)
<1>1. IsFiniteSet(tasks)
  BY SchedulerAssumption, FS_Subset DEF Typed, TypeOK
<1>2. IsFiniteSet(StepKinds)
  <2> DEFINE main == {"handout"} \cup {"join"}
             pool == {"begin"} \cup {"execute"} \cup {"record"}
  <2>1. \A kind : IsFiniteSet({kind})
    BY FS_Singleton
  <2>2. IsFiniteSet(main) /\ IsFiniteSet(pool)
    BY <2>1, FS_Union
  <2>3. StepKinds = main \cup pool
    BY DEF StepKinds
  <2> HIDE DEF main, pool
  <2> QED
    BY <2>2, <2>3, FS_Union
<1>3. IsFiniteSet(StepKinds \X tasks) /\ IsFiniteSet(tasks \X Calls)
  BY <1>1, <1>2, CallsFinite, FS_Product
<1> QED
  BY <1>3, FS_Subset DEF StepsLeft, TriesLeft

\* A step that only takes from the two, and takes from one, is effort spent.
LEMMA EffortSpent ==
  ASSUME Typed, StepsLeft' \subseteq StepsLeft, TriesLeft' \subseteq TriesLeft,
         StepsLeft' # StepsLeft \/ TriesLeft' # TriesLeft
  PROVE  Effort' < Effort
<1>1. IsFiniteSet(StepsLeft) /\ IsFiniteSet(TriesLeft)
  BY LeftFinite
<1>2. /\ Cardinality(StepsLeft') <= Cardinality(StepsLeft)
      /\ Cardinality(StepsLeft) = Cardinality(StepsLeft') => StepsLeft = StepsLeft'
      /\ IsFiniteSet(StepsLeft')
  BY <1>1, FS_Subset
<1>3. /\ Cardinality(TriesLeft') <= Cardinality(TriesLeft)
      /\ Cardinality(TriesLeft) = Cardinality(TriesLeft') => TriesLeft = TriesLeft'
      /\ IsFiniteSet(TriesLeft')
  BY <1>1, FS_Subset
<1>4. /\ Cardinality(StepsLeft) \in Nat /\ Cardinality(StepsLeft') \in Nat
      /\ Cardinality(TriesLeft) \in Nat /\ Cardinality(TriesLeft') \in Nat
  BY <1>1, <1>2, <1>3, FS_CardinalityType
<1> HIDE DEF StepsLeft, TriesLeft
<1> QED
  BY <1>2, <1>3, <1>4 DEF Effort

\* A pool thread's step, on the two sets.
LEMMA PoolWearsDown ==
  ASSUME Ordered, NEW t \in Tasks, PoolThread(t)
  PROVE  /\ StepsLeft' \subseteq StepsLeft /\ TriesLeft' \subseteq TriesLeft
         /\ StepsLeft' # StepsLeft \/ TriesLeft' # TriesLeft
<1>1. t \in tasks /\ t \in round /\ InRound(t)
  BY PoolRuns DEF Ordered, PoolThread, Begin, ExecutorReturns, ExecutorRaises, Record
<1>2. CASE Begin(t)
  <2>1. StepsLeft' \subseteq StepsLeft
    BY <1>1, <1>2 DEF Begin, StepsLeft, Due, InRound, Ordered, Typed, TypeOK, StepKinds, dag
  <2>2. TriesLeft' \subseteq TriesLeft
    BY <1>1, <1>2 DEF Begin, TriesLeft, InRound, Ordered, Typed, TypeOK, dag
  <2>3. <<"begin", t>> \in StepsLeft /\ <<"begin", t>> \notin StepsLeft'
    BY <1>1, <1>2 DEF Begin, StepsLeft, StepKinds, Due, InRound, Ordered, Typed, TypeOK
  <2> QED
    BY <2>1, <2>2, <2>3
<1>3. CASE ExecutorReturns(t)
  <2>1. StepsLeft' \subseteq StepsLeft
    BY <1>1, <1>3 DEF ExecutorReturns, StepsLeft, Due, Ordered, Typed, TypeOK, StepKinds, dag
  <2>2. TriesLeft' = TriesLeft
    BY <1>3 DEF ExecutorReturns, TriesLeft, dag
  <2>3. <<"execute", t>> \in StepsLeft /\ <<"execute", t>> \notin StepsLeft'
    BY <1>1, <1>3 DEF ExecutorReturns, StepsLeft, StepKinds, Due, InRound, Ordered, Typed, TypeOK
  <2> QED
    BY <2>1, <2>2, <2>3
<1>4. ASSUME NEW c \in Labels, ExecutorRaises(t, c)
      PROVE  /\ StepsLeft' \subseteq StepsLeft /\ TriesLeft' \subseteq TriesLeft
             /\ StepsLeft' # StepsLeft \/ TriesLeft' # TriesLeft
  <2>1. attempts[t] \in Nat /\ status[t] = "running"
    BY <1>1, <1>4 DEF ExecutorRaises, InRound, Ordered, Typed, TypeOK
  <2>2. CASE attempts[t] - 1 < LimitFor(c)
    <3>1. StepsLeft' = StepsLeft
      BY <1>4, <2>2 DEF ExecutorRaises, StepsLeft, Due, dag
    <3>2. attempts' = [attempts EXCEPT ![t] = @ + 1] /\ status' = status /\ tasks' = tasks
      BY <1>4, <2>2 DEF ExecutorRaises, dag
    <3>3. Calls \subseteq Nat
      BY CallsFinite
    <3>4. TriesLeft' \subseteq TriesLeft
      <4>1. \A u \in tasks : /\ attempts[u] \in Nat
                             /\ attempts'[u] = attempts[u] \/ attempts'[u] = attempts[u] + 1
        BY <3>2 DEF Ordered, Typed, TypeOK
      <4>2. \A u \in tasks, n \in Calls : n > attempts'[u] => n > attempts[u]
        <5> SUFFICES ASSUME NEW u \in tasks, NEW n \in Calls, n > attempts'[u]
                     PROVE  n > attempts[u]
          OBVIOUS
        <5>1. n \in Nat
          BY <3>3
        <5> QED
          BY <4>1, <5>1
      <4> QED
        BY <3>2, <4>2 DEF TriesLeft
    <3>5. attempts[t] + 1 \in Calls
      BY <2>1, <2>2, RetryGranted
    <3>6. <<t, attempts[t] + 1>> \in TriesLeft /\ <<t, attempts[t] + 1>> \notin TriesLeft'
      BY <1>1, <2>1, <3>2, <3>5 DEF TriesLeft, Ordered, Typed, TypeOK
    <3> QED
      BY <3>1, <3>4, <3>6
  <2>3. CASE ~(attempts[t] - 1 < LimitFor(c))
    <3>1. thread' = [thread EXCEPT ![t] = "exhausted"] /\ attempts' = attempts
      BY <1>4, <2>3 DEF ExecutorRaises
    <3>2. StepsLeft' \subseteq StepsLeft
      BY <1>4, <3>1 DEF ExecutorRaises, StepsLeft, Due, Ordered, Typed, TypeOK, StepKinds, dag
    <3>3. TriesLeft' = TriesLeft
      BY <1>4, <3>1 DEF ExecutorRaises, TriesLeft, dag
    <3>4. <<"execute", t>> \in StepsLeft /\ <<"execute", t>> \notin StepsLeft'
      BY <1>1, <1>4, <2>1, <3>1
         DEF ExecutorRaises, StepsLeft, StepKinds, Due, Ordered, Typed, TypeOK
    <3> QED
      BY <3>2, <3>3, <3>4
  <2> QED
    BY <2>2, <2>3
<1>5. CASE Record(t)
  <2>1. Outcome(t) \in {"completed", "failed"}
    BY DEF Outcome
  <2>2. StepsLeft' \subseteq StepsLeft
    BY <1>1, <1>5, <2>1 DEF Record, StepsLeft, Due, Ordered, Typed, TypeOK, StepKinds, dag
  <2>3. TriesLeft' \subseteq TriesLeft
    BY <1>1, <1>5, <2>1 DEF Record, TriesLeft, Ordered, Typed, TypeOK, dag
  <2>4. <<"record", t>> \in StepsLeft /\ <<"record", t>> \notin StepsLeft'
    BY <1>1, <1>5, <2>1
       DEF Record, StepsLeft, StepKinds, Due, InRound, Ordered, Typed, TypeOK
  <2> QED
    BY <2>2, <2>3, <2>4
<1> QED
  BY <1>2, <1>3, <1>4, <1>5 DEF PoolThread

\* The main thread's, when it does not end the run.
LEMMA RoundsWearDown ==
  ASSUME Ordered, StartRound \/ EndRound
  PROVE  /\ StepsLeft' \subseteq StepsLeft /\ TriesLeft' \subseteq TriesLeft
         /\ StepsLeft' # StepsLeft
<1>1. TriesLeft' = TriesLeft
  BY DEF StartRound, EndRound, TriesLeft, dag, local
<1>2. CASE StartRound
  <2>1. PICK t \in tasks : t \in ReadyTasks /\ t \in remaining /\ t \notin round
    BY <1>2, Subsets DEF StartRound, Ordered, Typed, TypeOK
  <2>2. StepsLeft' \subseteq StepsLeft
    BY <1>2 DEF StartRound, StepsLeft, Due, Ordered, Typed, TypeOK, StepKinds, dag
  <2>3. <<"handout", t>> \in StepsLeft /\ <<"handout", t>> \notin StepsLeft'
    BY <1>2, <2>1 DEF StartRound, StepsLeft, StepKinds, Due
  <2> QED
    BY <1>1, <2>2, <2>3
<1>3. CASE EndRound
  <2>1. PICK t \in tasks : t \in round /\ t \in remaining
    BY <1>3 DEF EndRound, Ordered, Typed, TypeOK, Standing
  <2>2. StepsLeft' \subseteq StepsLeft
    BY <1>3 DEF EndRound, StepsLeft, Due, StepKinds, dag, local
  <2>3. <<"join", t>> \in StepsLeft /\ <<"join", t>> \notin StepsLeft'
    BY <1>3, <2>1 DEF EndRound, StepsLeft, StepKinds, Due
  <2> QED
    BY <1>1, <2>2, <2>3
<1> QED
  BY <1>2, <1>3

(* Every step of a run either ends it or uses up some of a finite effort:   *)
(* however the threads interleave and whatever fails, is retried under      *)
(* whichever label, or is skipped, no run goes on for ever (run, run_one).  *)
THEOREM RunWearsDown ==
  Spec => [](Effort \in Nat)
          /\ [][phase = "running" => phase' = "done" \/ Effort' < Effort]_vars
<1>1. Ordered => Effort \in Nat
  BY LeftFinite, FS_CardinalityType DEF Ordered, Effort
<1>2. Ordered /\ [Next]_vars
        => [phase = "running" => phase' = "done" \/ Effort' < Effort]_vars
  <2> SUFFICES ASSUME Ordered, Next, phase = "running", phase' # "done"
               PROVE  Effort' < Effort
    OBVIOUS
  <2>1. StartRound \/ EndRound \/ \E t \in Tasks : PoolThread(t)
    BY DEF Next, Plan, AddTask, AddDependency, Run, MainThread, SkipRemaining, Return
  <2>2. CASE StartRound \/ EndRound
    BY <2>2, RoundsWearDown, EffortSpent DEF Ordered
  <2>3. CASE \E t \in Tasks : PoolThread(t)
    BY <2>3, PoolWearsDown, EffortSpent DEF Ordered
  <2> QED
    BY <2>1, <2>2, <2>3
<1> QED
  BY <1>1, <1>2, AlwaysOrdered, PTL DEF Spec

\* Some pool thread has a step to take with task t.
ThreadReady(t) ==
  \/ thread[t] \in {"executing", "succeeded", "exhausted"}
  \/ thread[t] = "queued" /\ Cardinality(Busy) < MaxWorkers

(* No round is stuck: with a round handed out, either the main thread's     *)
(* wait is over or a pool thread has a step to take, however few threads    *)
(* there are for the tasks of the round (the merge barrier of run).         *)
THEOREM NoRoundStalls ==
  Spec => [](round # {} => \/ phase = "running" /\ \A t \in round : thread[t] = "idle"
                           \/ \E t \in round : ThreadReady(t))
<1>1. ASSUME Ordered, round # {}
      PROVE  \/ phase = "running" /\ \A t \in round : thread[t] = "idle"
             \/ \E t \in round : ThreadReady(t)
  <2>1. phase = "running"
    BY <1>1 DEF Ordered, Standing
  <2>2. CASE \E t \in Busy : TRUE
    <3>1. PICK t \in Busy : TRUE
      BY <2>2
    <3>2. t \in round
      BY <1>1, PoolRuns DEF Ordered, Busy
    <3> QED
      BY <3>2 DEF Busy, ThreadReady
  <2>3. CASE Busy = {}
    <3>1. Cardinality(Busy) < MaxWorkers
      BY <2>3, FS_EmptySet, SchedulerAssumption
    <3>2. \A t \in round : thread[t] \in {"idle", "queued"}
      BY <1>1, <2>3 DEF Busy, Ordered, Typed, TypeOK, Places
    <3> QED
      BY <2>1, <3>1, <3>2 DEF ThreadReady
  <2> QED
    BY <2>2, <2>3
<1> QED
  BY <1>1, AlwaysOrdered, PTL

-----------------------------------------------------------------------------
(* The scheduler implements the abstract task run.                          *)

LEMMA AbstractSets ==
  ASSUME Ordered
  PROVE  /\ Abstract!In("completed") = completed /\ Abstract!In("failed") = failed
         /\ Abstract!Waiting = {t \in tasks : status[t] = "pending"}
         /\ \A t : Abstract!Needs(t) = DependenciesOf(t)
  BY DEF Ordered, Typed, TypeOK, Standing, Recorded, DependenciesOf, Abstract!In,
     Abstract!Waiting, Abstract!Needs

LEMMA StepsMap == Ordered /\ Ordered' /\ [Next]_vars => [Abstract!Next]_(Abstract!vars)
<1> SUFFICES ASSUME Ordered, Ordered', [Next]_vars
             PROVE  [Abstract!Next]_(Abstract!vars)
  OBVIOUS
<1>1. CASE Plan
  <2>1. tasks' \in SUBSET Tasks /\ deps' \in SUBSET (tasks' \X tasks')
    BY DEF Ordered, Typed, TypeOK
  <2>2. status' = status
    BY <1>1 DEF Plan, AddTask, AddDependency, Run
  <2>3. phase = "building"
    BY <1>1 DEF Plan, AddTask, AddDependency, Run
  <2>4. Abstract!Waiting = tasks
    BY <2>3 DEF Ordered, Typed, TypeOK, Standing, Abstract!Waiting
  <2> QED
    BY <2>1, <2>2, <2>4 DEF Abstract!Next, Abstract!Plan
<1>2. ASSUME NEW t \in Tasks, Begin(t) PROVE Abstract!Start(t)
  <2>1. t \in tasks /\ t \in round /\ status[t] = "pending"
    BY <1>2, PoolRuns DEF Ordered, Begin, InRound
  <2>2. DependenciesOf(t) \subseteq completed
    BY <2>1 DEF Ordered, DepsDone
  <2> QED
    BY <1>2, <2>1, <2>2, AbstractSets DEF Begin, Abstract!Start, dag
<1>3. ASSUME NEW t \in Tasks, Record(t) PROVE Abstract!Settle(t)
  <2>1. t \in tasks /\ status[t] = "running"
    BY <1>3, PoolRuns DEF Ordered, Record, InRound
  <2>2. t \in Abstract!In("running")
    BY <2>1 DEF Abstract!In
  <2> QED
    BY <1>3, <2>2 DEF Record, Outcome, Abstract!Settle, dag
<1>4. CASE SkipRemaining
  <2>1. Abstract!In("running") = {}
    BY <1>4 DEF SkipRemaining, Ordered, Typed, TypeOK, Standing, Stands, Settled,
       Abstract!In
  <2>2. Abstract!Waiting = remaining
    BY <1>4 DEF SkipRemaining, Ordered, Typed, TypeOK, Standing, Stands, Settled,
       Abstract!Waiting
  <2>3. \A t \in remaining : Abstract!Needs(t) \cap (Abstract!In("failed") \cup remaining) # {}
    BY <1>4, Blocked, AbstractSets
  <2> QED
    BY <1>4, <2>1, <2>2, <2>3 DEF SkipRemaining, Abstract!Next, Abstract!SkipWaiting, dag
<1>5. CASE \/ StartRound \/ EndRound \/ Return \/ UNCHANGED vars
           \/ \E t \in Tasks : \/ ExecutorReturns(t)
                               \/ \E c \in Labels : ExecutorRaises(t, c)
  BY <1>5 DEF StartRound, EndRound, Return, ExecutorReturns, ExecutorRaises, vars, dag,
     Abstract!vars
<1> QED
  BY <1>1, <1>2, <1>3, <1>4, <1>5
     DEF Next, MainThread, PoolThread, Abstract!Next

(* Whatever the threads do, a run of the scheduler is a run of the abstract *)
(* specification: tasks start with their dependencies completed, settle     *)
(* once, and are skipped together and only when nothing can run.            *)
THEOREM ImplementsTaskRun == Spec => RunSpec
<1>1. Init => Abstract!Init
  BY DEF Init, Abstract!Init
<1>2. Ordered /\ Ordered' /\ [Next]_vars => [Abstract!Next]_(Abstract!vars)
  BY StepsMap
<1> QED
  BY <1>1, <1>2, AlwaysOrdered, PTL DEF Spec, RunSpec, Abstract!Spec
-----------------------------------------------------------------------------
(* The conformance check.                                                   *)

LEMMA ReportingSteps == [ConformNext]_cvars => [Next]_vars
  BY DEF ConformNext, MainReporting, ReportingThread, ReturnsWith, Unreported, Next,
     PoolThread, cvars

LEMMA RunsFit == ConformSpec => [](Ordered /\ SpansFit /\ Acyclic)
<1>1. ConformInit => Ordered /\ SpansFit /\ Acyclic
  BY InitTyped, InitStanding
     DEF ConformInit, Init, Ordered, DepsDone, SpansFit, SpanFits, Acyclic
<1>2. Ordered /\ [Next]_vars => Ordered'
  BY NextTyped, NextStanding, NextDepsDone DEF Ordered
<1>3. Ordered /\ Ordered' /\ SpansFit /\ [Next]_vars => SpansFit'
  BY NextSpansFit
<1>4. Acyclic /\ [Next]_vars => Acyclic'
  BY NextAcyclic
<1>5. [ConformNext]_cvars => [Next]_vars
  BY ReportingSteps
<1> QED
  BY <1>1, <1>2, <1>3, <1>4, <1>5, PTL DEF ConformSpec

\* What the six checks come to on the spans of a finished run.
LEMMA FinishedChecks ==
  ASSUME Ordered, SpansFit, Acyclic, phase = "done"
  PROVE  /\ EachHasOneSpan /\ SpansMatchTasks /\ ResultPartitions /\ ~HasCycle
         /\ CompletedReported <=> completed \subseteq confident
<1>1. \A t \in tasks : t \in completed \cup failed \cup skipped
  BY DEF Ordered, Typed, TypeOK, Standing, Recorded, Settled
<1>2. \A t \in tasks : Len(spans[t]) = 1 /\ spans[t][1].status = status[t]
  BY <1>1 DEF SpansFit, SpanFits, Ordered, Typed, TypeOK
<1>3. \A t \in tasks : SpansOf(t) = {spans[t][1]}
  BY <1>2 DEF SpansOf
<1>4. \A t \in tasks : \A span \in SpansOf(t) : span.status = status[t]
  BY <1>2, <1>3
<1>5. ResultPartitions
  BY <1>1 DEF ResultPartitions, Ordered, Typed, TypeOK, Standing, Recorded
<1>6. completed = {t \in tasks : status[t] = "completed"}
  BY DEF Ordered, Typed, TypeOK, Standing, Recorded
<1>7. CompletedReported <=> completed \subseteq confident
  BY <1>2, <1>3, <1>6 DEF CompletedReported
<1> QED
  BY <1>2, <1>4, <1>5, <1>7 DEF EachHasOneSpan, SpansMatchTasks, Acyclic

(* Whatever fails, is retried or is skipped, and however the threads        *)
(* interleave, the gate finds a finished run wanting exactly when a         *)
(* completed task reported no confidence (check_conformance).               *)
THEOREM GateFindsOnlySilence == ConformSpec => []ConformanceExact
<1>1. Ordered /\ SpansFit /\ Acyclic => ConformanceExact
  <2> SUFFICES ASSUME Ordered, SpansFit, Acyclic, phase = "done"
               PROVE  FailingChecks = IF completed \subseteq confident THEN {}
                                                                     ELSE {"confidence"}
    BY DEF ConformanceExact
  <2> QED
    BY FinishedChecks DEF FailingChecks
<1> QED
  BY <1>1, RunsFit, PTL
=============================================================================
