-------------------------- MODULE PolicedExtraction --------------------------
(***************************************************************************)
(* action_policy.py: an ActionPolicy put before the spawner.  A proposed    *)
(* extraction is judged by a list of rules before it is spawned and, on the *)
(* closed-loop path, the worker's envelope by a second list before it is    *)
(* admitted.  A rule has no opinion, escalates or blocks; what is escalated *)
(* is held until a human approves it.  Each judgement is kept in the        *)
(* policy's list of decisions and, as an audit record, in graph memory.     *)
(*                                                                          *)
(* The spawner's own operations are those of ExtractionWorkflow.  Callers   *)
(* of authorize_then_spawn and approve_escalated_action run the worker and  *)
(* call admit themselves, once: the open path.  Rules are pure functions.   *)
(***************************************************************************)
EXTENDS ExtractionWorkflow, SequencesExt

CONSTANTS Rules,         \* ActionPolicy.rules
          OutcomeRules,  \* ActionPolicy.post_execution_rules
          MaxDecisions   \* bound on ActionPolicy.decisions

\* max_results is seen through whether it is above the ceiling; no rule of the
\* module reads confidence_floor.
Actions == [slot : Slots, large : BOOLEAN]

\* A rule that returns ALLOWED changes nothing: it is one without an opinion.
Opinions == {"none", "escalated", "blocked"}

ASSUME PolicyAssumption ==
  /\ Rules \in Seq([Actions -> Opinions])
  /\ OutcomeRules \in Seq([Actions \X Envelopes -> Opinions])
  /\ MaxDecisions \in Nat
  /\ "none" \notin Slots

VARIABLES decisions,   \* ActionPolicy.decisions
          executions,  \* the directives handed out, and what became of each
          evidence     \* the ACTION_POLICY_DECISION records in graph memory

policy == <<decisions, executions, evidence>>
policedVars == <<vars, policy>>

Verdicts == {"allowed", "escalated", "blocked"}
Decisions == [stage : {"action", "outcome"}, action : Actions, verdict : Verdicts]

\* `approved`: a human approved the action.
Executions == [action : Actions, approved : BOOLEAN, closed : BOOLEAN,
               place : {"running", "admitted", "escalated", "blocked", "approved"},
               env : Envelopes \cup {NoEnvelope}]

\* `job` is what the record's DERIVED_FROM edge leads to, if it has one.
Evidence == [job : Slots \cup {"none"}, stage : {"action", "outcome"},
             verdict : Verdicts, rule : {"policy", "human_approval"}]

-----------------------------------------------------------------------------
(* The rules the module offers, but for deny_extraction_types and            *)
(* max_nodes_produced_ceiling, which block as two others of them do.         *)

RequireEscalationFor(slots) ==
  [action \in Actions |-> IF action.slot \in slots THEN "escalated" ELSE "none"]

MaxResultsCeiling ==
  [action \in Actions |-> IF action.large THEN "blocked" ELSE "none"]

BlockLowAverageConfidence(floor) ==
  [realized \in Actions \X Envelopes |->
     IF realized[2].nodes # {} /\ AvgConf[realized[2].nodes] < floor
     THEN "blocked" ELSE "none"]

EscalateOnWorkerFailure ==
  [realized \in Actions \X Envelopes |->
     IF realized[2].status = "failed" THEN "escalated" ELSE "none"]

\* Mutant of Weigh: the first rule with an opinion decides.
WeighFirst(verdict, opinion) ==
  IF verdict = "allowed" /\ opinion # "none" THEN opinion ELSE verdict

\* One turn of the loop of authorize and authorize_outcome: a block returns at
\* once, the first escalation is kept in case none follows.
Weigh(verdict, opinion) ==
  IF verdict = "blocked" \/ opinion = "blocked" THEN "blocked"
  ELSE IF verdict = "allowed" /\ opinion = "escalated" THEN "escalated"
  ELSE verdict

Authorize(action) ==
  FoldLeft(LAMBDA verdict, rule : Weigh(verdict, rule[action]), "allowed", Rules)

AuthorizeOutcome(action, env) ==
  FoldLeft(LAMBDA verdict, rule : Weigh(verdict, rule[<<action, env>>]), "allowed",
           OutcomeRules)

-----------------------------------------------------------------------------
PolicedInit ==
  /\ Init
  /\ decisions = << >> /\ executions = << >> /\ evidence = << >>

Decided(stage, action, verdict) ==
  /\ Len(decisions) < MaxDecisions
  /\ decisions' = Append(decisions, [stage |-> stage, action |-> action,
                                     verdict |-> verdict])

\* Mutant of Recorded: the record names no job.
RecordedUnlinked(job, stage, verdict, rule) ==
  evidence' = Append(evidence, [job |-> "none", stage |-> stage,
                                verdict |-> verdict, rule |-> rule])

Recorded(job, stage, verdict, rule) ==
  evidence' = Append(evidence, [job |-> job, stage |-> stage,
                                verdict |-> verdict, rule |-> rule])

Started(action, approved, closed) ==
  /\ Spawn(action.slot)
  /\ executions' = Append(executions, [action |-> action, approved |-> approved,
                                       closed |-> closed, place |-> "running",
                                       env |-> NoEnvelope])

\* authorize_then_spawn, on its own or as the start of the closed loop.
AuthorizeThenSpawn(action, closed) ==
  LET verdict == Authorize(action)
  IN /\ Decided("action", action, verdict)
     /\ IF verdict = "allowed"
        THEN /\ Started(action, FALSE, closed)
             /\ Recorded(action.slot, "action", verdict, "policy")
        ELSE /\ Recorded("none", "action", verdict, "policy")
             /\ UNCHANGED <<vars, executions>>

\* The decision may be old, approved before, or about an outcome: nothing but
\* its verdict is looked at.
ApproveEscalatedAction(d) ==
  /\ decisions[d].verdict = "escalated"
  /\ Started(decisions[d].action, TRUE, FALSE)
  /\ Recorded(decisions[d].action.slot, "action", "allowed", "human_approval")
  /\ UNCHANGED decisions

Moved(i, place, env) ==
  executions' = [executions EXCEPT ![i].place = place, ![i].env = env]

\* On the open path the caller admits what the worker returned.
AdmitByCaller(i, env) ==
  /\ executions[i].place = "running" /\ ~executions[i].closed
  /\ Admit(executions[i].action.slot, env)
  /\ Moved(i, "admitted", env)
  /\ UNCHANGED <<decisions, evidence>>

\* Mutant of Withhold: a withheld outcome marks its job rejected.
WithholdRejecting(s) ==
  /\ jobs' = WithJob(s, Len(jobs[s]), [Latest(s) EXCEPT !.status = "rejected"])
  /\ UNCHANGED <<task, produced, reviewed, openConflicts, resolvedConflicts, admits>>

\* Nothing of a withheld envelope reaches the graph; its job stays queued.
Withhold(s) == UNCHANGED vars

\* Mutant of ExecuteThenAdmit: the envelope is admitted before it is judged.
ExecuteThenAdmitEarly(i, env) ==
  LET action == executions[i].action
      verdict == AuthorizeOutcome(action, env)
  IN /\ executions[i].place = "running" /\ executions[i].closed
     /\ Decided("outcome", action, verdict)
     /\ Admit(action.slot, env)
     /\ Moved(i, IF verdict = "allowed" THEN "admitted" ELSE verdict, env)
     /\ Recorded(action.slot, "outcome", verdict, "policy")

\* The rest of authorize_execute_then_admit, from the worker's return.
ExecuteThenAdmit(i, env) ==
  LET action == executions[i].action
      verdict == AuthorizeOutcome(action, env)
  IN /\ executions[i].place = "running" /\ executions[i].closed
     /\ Decided("outcome", action, verdict)
     /\ IF verdict = "allowed"
        THEN Admit(action.slot, env) /\ Moved(i, "admitted", env)
        ELSE Withhold(action.slot) /\ Moved(i, verdict, env)
     /\ Recorded(action.slot, "outcome", verdict, "policy")

\* Nothing stops a second approval of the same outcome.
ApproveEscalatedOutcome(i) ==
  /\ executions[i].place \in {"escalated", "approved"}
  /\ Admit(executions[i].action.slot, executions[i].env)
  /\ Moved(i, "approved", executions[i].env)
  /\ Recorded(executions[i].action.slot, "outcome", "allowed", "human_approval")
  /\ UNCHANGED decisions

\* Reviews and conflict resolution are no business of the policy.
ReviewBeside == Review /\ UNCHANGED policy

PolicedNext ==
  \/ \E action \in Actions, closed \in BOOLEAN : AuthorizeThenSpawn(action, closed)
  \/ \E d \in DOMAIN decisions : ApproveEscalatedAction(d)
  \/ \E i \in DOMAIN executions :
       \/ \E env \in Envelopes : AdmitByCaller(i, env) \/ ExecuteThenAdmit(i, env)
       \/ ApproveEscalatedOutcome(i)
  \/ ReviewBeside

PolicedSpec == PolicedInit /\ [][PolicedNext]_policedVars

-----------------------------------------------------------------------------
PolicyTypeOK ==
  /\ TypeOK
  /\ decisions \in Seq(Decisions)
  /\ executions \in Seq(Executions)
  /\ evidence \in Seq(Evidence)

(* Whatever the order of the rules, a worker never runs on an action that   *)
(* one of them blocks, and runs on one that some rule escalates only after  *)
(* a human approved it (authorize, authorize_then_spawn).                   *)
RunsAsRuled ==
  \A i \in DOMAIN executions :
    LET said == {Rules[r][executions[i].action] : r \in DOMAIN Rules}
    IN "blocked" \notin said /\ ("escalated" \in said => executions[i].approved)

(* What a job holds came from an envelope that may hold it: one a caller    *)
(* admitted on the open path, or one no outcome rule blocked and, if some   *)
(* rule escalated it, a human approved (authorize_execute_then_admit).      *)
ContentAsRuled ==
  \A s \in Slots : \A n \in produced[s] : \E i \in DOMAIN executions :
    LET said == {OutcomeRules[r][<<executions[i].action, executions[i].env>>] :
                   r \in DOMAIN OutcomeRules}
    IN /\ executions[i].action.slot = s /\ n \in executions[i].env.nodes
       /\ executions[i].place \in {"admitted", "approved"}
       /\ executions[i].closed =>
            /\ "blocked" \notin said
            /\ "escalated" \in said => executions[i].place = "approved"

(* Why a job was allowed to start can be answered from the job: each of its *)
(* job nodes has one audit record that allowed it, and a record never leads *)
(* to a job that was never spawned (record_action_policy_decision).         *)
JobsAccountedFor ==
  \A s \in Slots :
    LET linked == {i \in DOMAIN evidence : evidence[i].job = s}
    IN /\ Len(jobs[s]) = Cardinality({i \in linked : /\ evidence[i].stage = "action"
                                                     /\ evidence[i].verdict = "allowed"})
       /\ linked # {} => Spawned(s)

(* The policy only adds: whatever policed callers do to the graph, callers  *)
(* of the spawner could have done without it, so all it promises still      *)
(* holds (the module's docstring: "Purely additive").                       *)
Additive == Spec
=============================================================================
