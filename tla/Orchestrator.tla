----------------------------- MODULE Orchestrator -----------------------------
(***************************************************************************)
(* Orchestrator.run_paper (graph_orchestrator.py): for each extraction type *)
(* asked of a paper it spawns a job, runs the worker on the directive and   *)
(* admits the envelope, and it collects the outcomes into a report.  The    *)
(* spawner's operations are those of ExtractionWorkflow, the worker's those *)
(* of Workers.  run_paper is one call in one thread: nobody else comes at   *)
(* the graph between its steps, which are actions of their own because the  *)
(* worker may raise between them.                                           *)
(*                                                                          *)
(* Before and after, humans review, and other callers of the spawner use    *)
(* slots of their own.                                                      *)
(***************************************************************************)
EXTENDS ExtractionWorkflow, Workers, FiniteSets

CONSTANTS Papers,
          NoPaper,
          FanOut,      \* the slots of each paper, in the order of their types
          TypeOf,      \* the extraction type of each slot
          Texts,       \* what a worker may find in the text for a slot
          Floors,      \* the confidence floors run_paper may be called with
          Caps         \* the values of max_results, NoCap among them

Orchestrated == UNION {Elements(FanOut[p]) : p \in Papers}

ASSUME OrchestratorAssumption ==
  /\ NoPaper \notin Papers
  /\ FanOut \in [Papers -> Seq(Slots)]
  /\ \A p \in Papers : \A i, j \in DOMAIN FanOut[p] :
       FanOut[p][i] = FanOut[p][j] => i = j
  /\ \A p, q \in Papers :
       p # q => Elements(FanOut[p]) \cap Elements(FanOut[q]) = {}
  /\ DOMAIN TypeOf = Slots
  /\ Texts \in [Slots -> SUBSET Seq(Items(Nodes))]
  /\ Floors \subseteq Int
  /\ Caps \subseteq Nat \cup {NoCap}

VARIABLES stage,     \* where run_paper is
          call,      \* its arguments, and the slots it has still to do
          reports,   \* OrchestrationReport.admissions
          outcome    \* how the last run_paper of each paper ended

orchestrator == <<stage, call, reports, outcome>>
allVars == <<vars, worker, work, orchestrator>>

NoCall == [paper |-> NoPaper, rest |-> << >>, floor |-> 0, cap |-> NoCap]

Slot == Head(call.rest)

-----------------------------------------------------------------------------
\* The worker between two directives.
AtRest == Called("none", 0, NoCap, << >>)

OrchestratorInit ==
  /\ Init
  /\ worker = "none"
  /\ asked = [type |-> "none", floor |-> 0, cap |-> NoCap]
  /\ items = << >> /\ emitted = << >> /\ traces = << >>
  /\ stage = "idle" /\ call = NoCall
  /\ reports = [p \in Papers |-> << >>]
  /\ outcome = [p \in Papers |-> "none"]

\* A caller makes an Orchestrator with the worker of its choice and calls it.
\* MaxSpawns and MaxAdmits must leave room for the whole call.
RunPaper(p, w, floor, cap) ==
  /\ stage = "idle"
  /\ \A s \in Elements(FanOut[p]) : Len(jobs[s]) < MaxSpawns /\ admits[s] < MaxAdmits
  /\ stage' = "spawning" /\ worker' = w
  /\ call' = [paper |-> p, rest |-> FanOut[p], floor |-> floor, cap |-> cap]
  /\ reports' = [reports EXCEPT ![p] = << >>]
  /\ outcome' = [outcome EXCEPT ![p] = "running"]
  /\ UNCHANGED <<vars, work>>

SpawnNext ==
  /\ stage = "spawning" /\ call.rest # << >>
  /\ Spawn(Slot)
  /\ UNCHANGED <<worker, call, reports, outcome>>

SpawnAndWork(text) ==
  /\ SpawnNext
  /\ TypeOf[Slot] \in Supported /\ Finds(TypeOf[Slot], text)
  /\ Called(TypeOf[Slot], call.floor, call.cap, text)
  /\ stage' = "working"

\* An unsupported type, or the model's call or the parse of its answer failed.
SpawnAndFail ==
  /\ SpawnNext
  /\ TypeOf[Slot] \in Supported => worker = "llm"
  /\ stage' = "failed"
  /\ UNCHANGED work

WorkerTurn ==
  /\ stage = "working"
  /\ Turn
  /\ UNCHANGED <<vars, orchestrator>>

\* Mutant of AdmissionOf: what was put is reported, landed or not.
AdmissionOfPut(env) == [slot |-> Slot, admitted |-> TRUE, nodes |-> Cardinality(env.nodes)]

\* AdmissionResult.  An envelope that passes repeats no id.
AdmissionOf(env) ==
  IF env.status = "completed" /\ Verified(env)
  THEN [slot |-> Slot, admitted |-> TRUE, nodes |-> Cardinality(env.nodes)]
  ELSE [slot |-> Slot, admitted |-> FALSE, nodes |-> 0]

AdmitAndCollect(env) ==
  /\ Admit(Slot, env)
  /\ reports' = [reports EXCEPT ![call.paper] = Append(@, AdmissionOf(env))]
  /\ call' = [call EXCEPT !.rest = Tail(@)]
  /\ stage' = "spawning"
  /\ AtRest
  /\ UNCHANGED <<worker, outcome>>

\* The envelope as the spawner's checks see it.
Returned == [status |-> "completed", ok |-> FaultsIn({}) = {}, nodes |-> Ids(emitted)]

AdmitNext ==
  \/ stage = "working" /\ items = << >> /\ AdmitAndCollect(Returned)
  \/ stage = "failed" /\ AdmitAndCollect([status |-> "failed", ok |-> FALSE, nodes |-> {}])

Leave(how) ==
  /\ stage' = "idle" /\ call' = NoCall /\ worker' = "none"
  /\ outcome' = [outcome EXCEPT ![call.paper] = how]
  /\ AtRest
  /\ UNCHANGED reports

\* Mutant of RunRaises: what was emitted before the exception is kept.
RunRaisesKeeping ==
  /\ stage = "working" /\ Raises
  /\ produced' = [produced EXCEPT ![Slot] = @ \cup Ids(emitted)]
  /\ UNCHANGED <<jobs, task, reviewed, openConflicts, resolvedConflicts, admits>>
  /\ Leave("raised")

\* The worker's exception passes through run_paper: no report, a job left
\* queued, and the types after it never spawned.
RunRaises ==
  /\ stage = "working" /\ Raises
  /\ Leave("raised")
  /\ UNCHANGED vars

RunReturns ==
  /\ stage = "spawning" /\ call.rest = << >>
  /\ Leave("returned")
  /\ UNCHANGED vars

\* Humans, and callers of the spawner with slots of their own.
Beside ==
  /\ stage = "idle"
  /\ \/ Review
     \/ \E s \in Slots \ Orchestrated :
          \/ Spawn(s)
          \/ AdmitWorkerFailure(s)
          \/ \E env \in Envelopes, retried \in Retried :
               AdmitRejected(s, env, retried) \/ AdmitAccepted(s, env, retried)
  /\ UNCHANGED <<worker, work, orchestrator>>

OrchestratorNext ==
  \/ \E p \in Papers, w \in {"reference", "llm"}, floor \in Floors, cap \in Caps :
       RunPaper(p, w, floor, cap)
  \/ stage = "spawning" /\ call.rest # << >> /\ \E text \in Texts[Slot] : SpawnAndWork(text)
  \/ SpawnAndFail
  \/ WorkerTurn
  \/ AdmitNext
  \/ RunRaises
  \/ RunReturns
  \/ Beside

OrchestratorSpec == OrchestratorInit /\ [][OrchestratorNext]_allVars

-----------------------------------------------------------------------------
(* What the spawner will hold against an envelope of the run can be told    *)
(* from the text (FaultsForeseen, here for every envelope about to be       *)
(* admitted, with what the graph holds at that moment).                     *)
RefusedAsForeseen ==
  stage = "working" /\ items = << >> => FaultsForeseen(Content)

(* The report of a finished run is true of the graph, and stays true after  *)
(* reviews: it has one admission for each type in order, with the nodes the *)
(* job holds, and lists as failed the jobs that failed.  A run that raised  *)
(* left one job queued and the types after it untouched (run_paper,         *)
(* OrchestrationReport.total_nodes_admitted and failed_job_ids).            *)
ReportIsTrue ==
  \A p \in Papers : outcome[p] \in {"returned", "raised"} =>
    /\ outcome[p] = "returned" <=> Len(reports[p]) = Len(FanOut[p])
    /\ \A i \in DOMAIN FanOut[p] :
         LET s == FanOut[p][i]
             done == Len(reports[p])
         IN /\ i <= done =>
                 /\ reports[p][i].slot = s
                 /\ reports[p][i].nodes = Cardinality(produced[s])
                 /\ Spawned(s) /\ Latest(s).status # "queued"
                 /\ Latest(s).status = "failed" <=> ~reports[p][i].admitted
            /\ i = done + 1 => Spawned(s) /\ Latest(s).status = "queued"
            /\ i > done + 1 => ~Spawned(s)

(* The orchestrator only calls the spawner: whatever it and its workers do  *)
(* to the graph, callers of the spawner could have done without it, so all  *)
(* the spawner promises still holds (run_paper: "the unchanged              *)
(* WorkerSpawner/gate path").                                               *)
OrchestratorAdditive == Spec
=============================================================================
