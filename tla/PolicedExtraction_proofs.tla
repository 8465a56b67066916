---------------------- MODULE PolicedExtraction_proofs ----------------------
(***************************************************************************)
(* Proofs about PolicedExtraction, for any two lists of rules: the policy   *)
(* only adds to the workflow, whose theorems carry over to policed callers, *)
(* its records account for every job, and no worker runs and no content     *)
(* lands that the rules, in whatever order, are against.                    *)
(*                                                                          *)
(* Like the policy the gate makes one verdict of a list of judgements; the  *)
(* last part is about GateLog, whose loop stops at the first that fails.    *)
(***************************************************************************)
EXTENDS PolicedExtraction, ExtractionWorkflow_proofs, GateLog, FiniteSetTheorems,
        WellFoundedInduction

-----------------------------------------------------------------------------
(* The loop over the rules.  FoldLeft is a recursive function on the sets of *)
(* positions, which takes the last position off.  The verdict read off the   *)
(* set of opinions satisfies the same recursion, so it is a witness that     *)
(* such a function exists; and it is the only one, since a smallest set of   *)
(* positions on which another function differs cannot be.                    *)

Before == {p \in Nat \X Nat : p[1] < p[2]}

\* Every set of numbers has a least one.
LEMMA LeastNat ==
  ASSUME NEW T \in SUBSET Nat, T # {}
  PROVE  \E x \in T : \A y \in T : x <= y
<1>1. IsWellFoundedOn(Before, Nat)
  BY NatLessThanWellFounded, Zenon DEF OpToRel, Before
<1>2. \E x \in T : \A y \in T : <<y, x>> \notin Before
  BY <1>1, WFMin
<1>3. \A x, y \in T : <<y, x>> \notin Before => x <= y
  BY DEF Before
<1> QED
  BY <1>2, <1>3

\* What FoldLeft takes next from a set of positions is in the set.
LEMMA LastOfPositions ==
  ASSUME NEW n \in Nat, NEW ps \in SUBSET (1 .. n), ps # {}
  PROVE  Max(ps) \in ps
<1> DEFINE gaps == {n - p : p \in ps}
<1>1. gaps \in SUBSET Nat /\ gaps # {}
  <2>1. \A p \in ps : n - p \in Nat
    OBVIOUS
  <2> QED
    BY <2>1
<1>2. PICK g \in gaps : \A h \in gaps : g <= h
  BY <1>1, LeastNat
<1>3. PICK p \in ps : g = n - p
  BY <1>2
<1>4. \A q \in ps : p >= q
  <2> TAKE q \in ps
  <2>1. n - p <= n - q
    BY <1>2, <1>3
  <2> QED
    BY <2>1
<1> QED
  BY <1>3, <1>4 DEF Max

\* What a set of opinions comes to.
Verdict(said) ==
  IF "blocked" \in said THEN "blocked"
  ELSE IF "escalated" \in said THEN "escalated" ELSE "allowed"

\* The loop over n rules.
Loop(n, said) ==
  CHOOSE f : f = [ps \in SUBSET (1 .. n) |->
                    IF ps = {} THEN "allowed" ELSE Weigh(f[ps \ {Max(ps)}], said[Max(ps)])]

LEMMA LoopVerdict ==
  ASSUME NEW n \in Nat, NEW said \in [1 .. n -> Opinions]
  PROVE  Loop(n, said)[1 .. n] = Verdict({said[r] : r \in 1 .. n})
<1> DEFINE Turn(f, ps) == IF ps = {} THEN "allowed"
                          ELSE Weigh(f[ps \ {Max(ps)}], said[Max(ps)])
           Claim(ps) == Verdict({said[r] : r \in ps})
           closed == [ps \in SUBSET (1 .. n) |-> Claim(ps)]
<1>1. ASSUME NEW f, NEW ps \in SUBSET (1 .. n),
             ps # {} => f[ps \ {Max(ps)}] = Claim(ps \ {Max(ps)})
      PROVE  Turn(f, ps) = Claim(ps)
  <2>1. CASE ps = {}
    <3>1. Claim(ps) = "allowed"
      BY <2>1 DEF Verdict
    <3> QED
      BY <2>1, <3>1
  <2>2. CASE ps # {}
    <3> DEFINE x == Max(ps)
               was == {said[r] : r \in ps \ {x}}
    <3>1. x \in ps
      BY <2>2, LastOfPositions
    <3>2. {said[r] : r \in ps} = was \cup {said[x]}
      BY <3>1
    <3>3. said[x] \in {"none", "escalated", "blocked"}
      BY <3>1 DEF Opinions
    <3>4. Turn(f, ps) = Weigh(Verdict(was), said[x])
      BY <1>1, <2>2
    <3> HIDE DEF x, was
    <3>5. Weigh(Verdict(was), said[x]) = Verdict(was \cup {said[x]})
      BY <3>3 DEF Weigh, Verdict
    <3> QED
      BY <3>2, <3>4, <3>5
  <2> QED
    BY <2>1, <2>2
<1>2. closed = [ps \in SUBSET (1 .. n) |-> Turn(closed, ps)]
  <2>1. \A ps \in SUBSET (1 .. n) : closed[ps] = Claim(ps) /\ ps \ {Max(ps)} \in SUBSET (1 .. n)
    OBVIOUS
  <2>2. \A ps \in SUBSET (1 .. n) : closed[ps \ {Max(ps)}] = Claim(ps \ {Max(ps)})
    BY <2>1
  <2> HIDE DEF Claim, Turn, closed
  <2>3. \A ps \in SUBSET (1 .. n) : closed[ps] = Turn(closed, ps)
    BY <1>1, <2>1, <2>2
  <2>4. closed = [ps \in SUBSET (1 .. n) |-> closed[ps]]
    BY DEF closed
  <2> QED
    BY <2>3, <2>4
<1> DEFINE f == Loop(n, said)
<1>3. f = [ps \in SUBSET (1 .. n) |-> Turn(f, ps)]
  <2>1. \E h : h = [ps \in SUBSET (1 .. n) |-> Turn(h, ps)]
    BY <1>2
  <2> QED
    BY <2>1, Zenon DEF Loop
<1> HIDE DEF f, Claim, closed
<1> DEFINE wrong == {ps \in SUBSET (1 .. n) : f[ps] # Claim(ps)}
<1>4. ASSUME wrong # {} PROVE FALSE
  <2> DEFINE R == StrictSubsetOrdering(1 .. n)
  <2>1. wrong \subseteq FiniteSubsetsOf(1 .. n)
    <3>1. IsFiniteSet(1 .. n)
      BY FS_Interval
    <3> QED
      BY <3>1, FS_Subset DEF FiniteSubsetsOf
  <2>2. IsWellFoundedOn(R, FiniteSubsetsOf(1 .. n))
    BY FS_StrictSubsetOrderingWellFounded
  <2> HIDE DEF R
  <2>3. PICK ps \in wrong : \A qs \in wrong : <<qs, ps>> \notin R
    BY <1>4, <2>1, <2>2, WFMin
  <2>4. ps # {} => ps \ {Max(ps)} \notin wrong
    BY <2>3, LastOfPositions DEF StrictSubsetOrdering, R
  <2>5. f[ps] = Turn(f, ps)
    BY <1>3
  <2>6. ps # {} => f[ps \ {Max(ps)}] = Claim(ps \ {Max(ps)})
    BY <2>4
  <2>7. ps \in SUBSET (1 .. n) /\ f[ps] # Claim(ps)
    BY <2>3
  <2> HIDE DEF Turn, wrong
  <2> QED
    BY <1>1, <2>5, <2>6, <2>7
<1> QED
  BY <1>4 DEF f, Claim

\* What FoldLeft makes of one column of a list of rules.
LEMMA FoldVerdict ==
  ASSUME NEW Matter, NEW x \in Matter, NEW rules \in Seq([Matter -> Opinions])
  PROVE  FoldLeft(LAMBDA verdict, rule : Weigh(verdict, rule[x]), "allowed", rules)
           = Verdict({rules[r][x] : r \in DOMAIN rules})
<1> DEFINE n == Len(rules)
           said == [r \in 1 .. n |-> rules[r][x]]
           fold == FoldLeft(LAMBDA verdict, rule : Weigh(verdict, rule[x]), "allowed", rules)
           Turn(f, ps) == IF ps = {} THEN "allowed"
                          ELSE Weigh(f[ps \ {Max(ps)}], rules[Max(ps)][x])
<1>1. /\ n \in Nat /\ DOMAIN rules = 1 .. n
      /\ \A r \in 1 .. n : rules[r] \in [Matter -> Opinions]
  OBVIOUS
<1>2. said \in [1 .. n -> Opinions]
  BY <1>1
<1>3. fold = (CHOOSE f : f = [ps \in SUBSET (1 .. n) |-> Turn(f, ps)])[1 .. n]
  BY <1>1 DEF FoldLeft, MapThenFoldSet
<1>4. \A f : [ps \in SUBSET (1 .. n) |-> Turn(f, ps)]
               = [ps \in SUBSET (1 .. n) |->
                    IF ps = {} THEN "allowed" ELSE Weigh(f[ps \ {Max(ps)}], said[Max(ps)])]
  <2>1. \A ps \in SUBSET (1 .. n) : ps # {} => Max(ps) \in 1 .. n
    BY <1>1, LastOfPositions
  <2>2. \A ps \in SUBSET (1 .. n) : ps # {} => said[Max(ps)] = rules[Max(ps)][x]
    BY <2>1
  <2> HIDE DEF said
  <2> QED
    BY <2>2
<1>5. {said[r] : r \in 1 .. n} = {rules[r][x] : r \in DOMAIN rules}
  BY <1>1
<1> HIDE DEF said, Turn, fold
<1>6. fold = Loop(n, said)[1 .. n]
  BY <1>3, <1>4, Zenon DEF Loop
<1>7. fold = Verdict({rules[r][x] : r \in DOMAIN rules})
  <2> HIDE DEF n
  <2> QED
    BY <1>1, <1>2, <1>5, <1>6, LoopVerdict
<1> QED
  BY <1>7 DEF fold

\* authorize answers by the set of opinions alone, whatever their order.
LEMMA ActionVerdict ==
  ASSUME NEW action \in Actions
  PROVE  Authorize(action) = Verdict({Rules[r][action] : r \in DOMAIN Rules})
  BY PolicyAssumption, FoldVerdict DEF Authorize

LEMMA OutcomeVerdict ==
  ASSUME NEW action \in Actions, NEW env \in Envelopes
  PROVE  AuthorizeOutcome(action, env)
           = Verdict({OutcomeRules[r][<<action, env>>] : r \in DOMAIN OutcomeRules})
<1> DEFINE x == <<action, env>>
           Matter == Actions \X Envelopes
<1>1. x \in Matter /\ OutcomeRules \in Seq([Matter -> Opinions])
  BY PolicyAssumption
<1>2. AuthorizeOutcome(action, env)
        = FoldLeft(LAMBDA verdict, rule : Weigh(verdict, rule[x]), "allowed", OutcomeRules)
  BY DEF AuthorizeOutcome
<1> HIDE DEF x, Matter
<1>3. AuthorizeOutcome(action, env) = Verdict({OutcomeRules[r][x] : r \in DOMAIN OutcomeRules})
  BY <1>1, <1>2, FoldVerdict
<1> QED
  BY <1>3 DEF x

LEMMA JudgedActions == \A action \in Actions : Authorize(action) \in Verdicts
  BY ActionVerdict DEF Verdict, Verdicts

LEMMA JudgedOutcomes ==
  \A action \in Actions, env \in Envelopes : AuthorizeOutcome(action, env) \in Verdicts
  BY OutcomeVerdict DEF Verdict, Verdicts

-----------------------------------------------------------------------------
(* What the policy keeps. *)

\* An execution that is over has the envelope its worker returned.
PolicyInv ==
  /\ decisions \in Seq(Decisions)
  /\ executions \in Seq(Executions)
  /\ evidence \in Seq(Evidence)
  /\ \A i \in DOMAIN executions :
       executions[i].place # "running" => executions[i].env \in Envelopes

LEMMA InitPolicy == PolicedInit => PolicyInv
  BY DEF PolicedInit, PolicyInv

LEMMA DecisionNames ==
  ASSUME PolicyInv, NEW d \in DOMAIN decisions
  PROVE  decisions[d].action \in Actions /\ decisions[d].action.slot \in Slots
<1>1. decisions[d] \in Decisions
  BY DEF PolicyInv
<1>2. decisions[d].action \in Actions
  BY <1>1 DEF Decisions
<1> QED
  BY <1>2 DEF Actions

LEMMA ExecutionNames ==
  ASSUME PolicyInv, NEW i \in DOMAIN executions
  PROVE  /\ executions[i].action \in Actions /\ executions[i].action.slot \in Slots
         /\ executions[i].place # "running" => executions[i].env \in Envelopes
<1>1. executions[i] \in Executions
  BY DEF PolicyInv
<1>2. executions[i].action \in Actions
  BY <1>1 DEF Executions
<1> QED
  BY <1>2 DEF Actions, PolicyInv

LEMMA DecidedKept ==
  ASSUME PolicyInv, NEW action \in Actions, NEW stage \in {"action", "outcome"},
         NEW verdict \in Verdicts, Decided(stage, action, verdict)
  PROVE  decisions' \in Seq(Decisions)
  BY DEF PolicyInv, Decided, Decisions

LEMMA RecordedKept ==
  ASSUME PolicyInv, NEW job \in Slots \cup {"none"}, NEW stage \in {"action", "outcome"},
         NEW verdict \in Verdicts, NEW rule \in {"policy", "human_approval"},
         Recorded(job, stage, verdict, rule)
  PROVE  evidence' \in Seq(Evidence)
  BY DEF PolicyInv, Recorded, Evidence

LEMMA StartedKept ==
  ASSUME PolicyInv, NEW action \in Actions, NEW approved \in BOOLEAN,
         NEW closed \in BOOLEAN, Started(action, approved, closed)
  PROVE  /\ executions' \in Seq(Executions)
         /\ \A i \in DOMAIN executions' :
              executions'[i].place # "running" => executions'[i].env \in Envelopes
<1> DEFINE new == [action |-> action, approved |-> approved, closed |-> closed,
                   place |-> "running", env |-> NoEnvelope]
<1>1. new \in Executions /\ new.place = "running"
  BY DEF Executions
<1>2. executions' = Append(executions, new)
  BY DEF Started
<1> HIDE DEF new
<1> QED
  BY <1>1, <1>2 DEF PolicyInv

LEMMA MovedKept ==
  ASSUME PolicyInv, NEW i \in DOMAIN executions, NEW env \in Envelopes,
         NEW place \in {"admitted", "escalated", "blocked", "approved"},
         Moved(i, place, env)
  PROVE  /\ executions' \in Seq(Executions)
         /\ \A j \in DOMAIN executions' :
              executions'[j].place # "running" => executions'[j].env \in Envelopes
<1> DEFINE new == [executions[i] EXCEPT !.place = place, !.env = env]
<1>1. executions[i] \in Executions
  BY DEF PolicyInv
<1>2. new \in Executions /\ new.env \in Envelopes
  BY <1>1 DEF Executions
<1>3. executions' = [executions EXCEPT ![i] = new]
  BY <1>1 DEF Moved, Executions, PolicyInv
<1> HIDE DEF new
<1> QED
  BY <1>2, <1>3 DEF PolicyInv

LEMMA StepPolicy == PolicyInv /\ [PolicedNext]_policedVars => PolicyInv'
<1> SUFFICES ASSUME PolicyInv, [PolicedNext]_policedVars PROVE PolicyInv'
  OBVIOUS
<1>1. ASSUME NEW action \in Actions, NEW closed \in BOOLEAN,
             AuthorizeThenSpawn(action, closed)
      PROVE  PolicyInv'
  <2>1. Authorize(action) \in Verdicts
    BY JudgedActions
  <2>2. Decided("action", action, Authorize(action))
    BY <1>1 DEF AuthorizeThenSpawn
  <2>3. decisions' \in Seq(Decisions)
    BY <2>1, <2>2, DecidedKept
  <2>4. action.slot \in Slots
    BY DEF Actions
  <2>5. CASE Authorize(action) = "allowed"
    <3>1. Started(action, FALSE, closed)
          /\ Recorded(action.slot, "action", Authorize(action), "policy")
      BY <1>1, <2>5 DEF AuthorizeThenSpawn
    <3> QED
      BY <3>1, <2>1, <2>3, <2>4, StartedKept, RecordedKept DEF PolicyInv
  <2>6. CASE Authorize(action) # "allowed"
    <3>1. Recorded("none", "action", Authorize(action), "policy")
          /\ UNCHANGED executions
      BY <1>1, <2>6 DEF AuthorizeThenSpawn
    <3>2. evidence' \in Seq(Evidence)
      BY <3>1, <2>1, RecordedKept
    <3> QED
      BY <3>1, <3>2, <2>3 DEF PolicyInv
  <2> QED
    BY <2>5, <2>6
<1>2. ASSUME NEW d \in DOMAIN decisions, ApproveEscalatedAction(d) PROVE PolicyInv'
  <2> DEFINE action == decisions[d].action
  <2>1. action \in Actions /\ action.slot \in Slots
    BY DecisionNames
  <2>2. /\ Started(action, TRUE, FALSE)
        /\ Recorded(action.slot, "action", "allowed", "human_approval")
        /\ UNCHANGED decisions
    BY <1>2 DEF ApproveEscalatedAction
  <2> HIDE DEF action
  <2>3. evidence' \in Seq(Evidence)
    BY <2>1, <2>2, RecordedKept DEF Verdicts
  <2> QED
    BY <2>1, <2>2, <2>3, StartedKept DEF PolicyInv
<1>3. ASSUME NEW i \in DOMAIN executions, NEW env \in Envelopes, AdmitByCaller(i, env)
      PROVE  PolicyInv'
  BY <1>3, MovedKept DEF AdmitByCaller, PolicyInv
<1>4. ASSUME NEW i \in DOMAIN executions, NEW env \in Envelopes, ExecuteThenAdmit(i, env)
      PROVE  PolicyInv'
  <2> DEFINE action == executions[i].action
             verdict == AuthorizeOutcome(action, env)
  <2>1. action \in Actions /\ action.slot \in Slots
    BY ExecutionNames
  <2>2. verdict \in Verdicts
    BY <2>1, JudgedOutcomes
  <2>3. /\ Decided("outcome", action, verdict)
        /\ Recorded(action.slot, "outcome", verdict, "policy")
        /\ \/ Moved(i, "admitted", env)
           \/ verdict # "allowed" /\ Moved(i, verdict, env)
    BY <1>4 DEF ExecuteThenAdmit
  <2> HIDE DEF action, verdict
  <2>4. decisions' \in Seq(Decisions) /\ evidence' \in Seq(Evidence)
    BY <2>1, <2>2, <2>3, DecidedKept, RecordedKept
  <2> QED
    BY <2>2, <2>3, <2>4, MovedKept DEF PolicyInv, Verdicts
<1>5. ASSUME NEW i \in DOMAIN executions, ApproveEscalatedOutcome(i) PROVE PolicyInv'
  <2>1. executions[i].env \in Envelopes /\ executions[i].action.slot \in Slots
    BY <1>5, ExecutionNames DEF ApproveEscalatedOutcome
  <2>2. /\ Moved(i, "approved", executions[i].env)
        /\ Recorded(executions[i].action.slot, "outcome", "allowed", "human_approval")
        /\ UNCHANGED decisions
    BY <1>5 DEF ApproveEscalatedOutcome
  <2>3. evidence' \in Seq(Evidence)
    BY <2>1, <2>2, RecordedKept DEF Verdicts
  <2> QED
    BY <2>1, <2>2, <2>3, MovedKept DEF PolicyInv
<1>6. CASE UNCHANGED policy
  BY <1>6 DEF policy, PolicyInv
<1> QED
  BY <1>1, <1>2, <1>3, <1>4, <1>5, <1>6 DEF PolicedNext, ReviewBeside, policedVars

LEMMA AlwaysPolicy == PolicedSpec => []PolicyInv
  BY InitPolicy, StepPolicy, PTL DEF PolicedSpec

-----------------------------------------------------------------------------
(* Every step of a policed caller is a step of the workflow, or none.       *)

LEMMA AdmitIsStep ==
  ASSUME NEW s \in Slots, NEW env \in Envelopes, Admit(s, env)
  PROVE  Next
<1>1. FALSE \in Retried
  BY DEF Retried
<1> QED
  BY <1>1 DEF Admit, Next

LEMMA StepAdditive == PolicyInv /\ [PolicedNext]_policedVars => [Next]_vars
<1> SUFFICES ASSUME PolicyInv, [PolicedNext]_policedVars PROVE [Next]_vars
  OBVIOUS
<1>1. ASSUME NEW action \in Actions, NEW closed \in BOOLEAN,
             AuthorizeThenSpawn(action, closed)
      PROVE  [Next]_vars
  BY <1>1 DEF AuthorizeThenSpawn, Started, Next, Actions
<1>2. ASSUME NEW d \in DOMAIN decisions, ApproveEscalatedAction(d) PROVE Next
  BY <1>2, DecisionNames DEF ApproveEscalatedAction, Started, Next
<1>3. ASSUME NEW i \in DOMAIN executions, NEW env \in Envelopes, AdmitByCaller(i, env)
      PROVE  Next
  BY <1>3, ExecutionNames, AdmitIsStep DEF AdmitByCaller
<1>4. ASSUME NEW i \in DOMAIN executions, NEW env \in Envelopes, ExecuteThenAdmit(i, env)
      PROVE  [Next]_vars
  BY <1>4, ExecutionNames, AdmitIsStep DEF ExecuteThenAdmit, Withhold
<1>5. ASSUME NEW i \in DOMAIN executions, ApproveEscalatedOutcome(i) PROVE Next
  BY <1>5, ExecutionNames, AdmitIsStep DEF ApproveEscalatedOutcome
<1>6. ASSUME ReviewBeside PROVE Next
  BY <1>6 DEF ReviewBeside, Next
<1>7. CASE UNCHANGED policedVars
  BY <1>7 DEF policedVars
<1> QED
  BY <1>1, <1>2, <1>3, <1>4, <1>5, <1>6, <1>7 DEF PolicedNext

(* Whatever the rules, a policed caller does nothing to the graph that an   *)
(* unpoliced one could not (action_policy.py, "Purely additive").           *)
THEOREM PolicyIsAdditive == PolicedSpec => Additive
<1>1. PolicedInit => Init
  BY DEF PolicedInit
<1> QED
  BY <1>1, StepAdditive, AlwaysPolicy, PTL DEF PolicedSpec, Additive, Spec

(* So all the workflow promises holds under any policy: one producer a      *)
(* node, no review but its own, no approval that nothing backs, no          *)
(* contradiction off the record, no hold without a review, no job unlocked  *)
(* against its gate, and the content ledger (admit, approve_review).        *)
THEOREM PromisesKept == PolicedSpec => SpawnerPromises
  BY PolicyIsAdditive, PromisesTogether DEF Additive

-----------------------------------------------------------------------------
(* The audit records.  A job node is counted by the records that allowed it *)
(* to start, and a record or an execution names only slots with a job.      *)

Starts(s) == {i \in DOMAIN evidence : /\ evidence[i].job = s
                                      /\ evidence[i].stage = "action"
                                      /\ evidence[i].verdict = "allowed"}

AccountInv ==
  /\ \A s \in Slots : Len(jobs[s]) = Cardinality(Starts(s))
  /\ \A i \in DOMAIN evidence :
       evidence[i].job \in Slots => Len(jobs[evidence[i].job]) > 0
  /\ \A i \in DOMAIN executions : Len(jobs[executions[i].action.slot]) > 0

\* No job node comes or goes.
JobsKept == \A s \in Slots : Len(jobs'[s]) = Len(jobs[s])

LEMMA WithJobKeeps ==
  ASSUME TypeOK, NEW s \in Slots, NEW g \in 1 .. Len(jobs[s]), NEW job,
         jobs' = WithJob(s, g, job)
  PROVE  JobsKept
<1>1. jobs \in [Slots -> Seq(Jobs)] /\ jobs[s] \in Seq(Jobs)
  BY DEF TypeOK
<1>2. [jobs[s] EXCEPT ![g] = job] \in Seq(Jobs \cup {job})
  BY <1>1
<1>3. Len([jobs[s] EXCEPT ![g] = job]) = Len(jobs[s])
  BY <1>1, <1>2
<1>4. jobs' = [jobs EXCEPT ![s] = [jobs[s] EXCEPT ![g] = job]]
  BY <1>1 DEF WithJob
<1> QED
  BY <1>1, <1>3, <1>4 DEF JobsKept

LEMMA AdmitKeepsJobs ==
  ASSUME Safe, NEW s \in Slots, NEW env \in Envelopes, Admit(s, env)
  PROVE  JobsKept
<1>1. Spawned(s)
  BY DEF Admit, AdmitWorkerFailure, AdmitRejected, AdmitAccepted, Delivered
<1>2. TypeOK /\ Len(jobs[s]) \in 1 .. Len(jobs[s])
  BY <1>1, SpawnedJobs DEF Safe
<1>3. \E job : jobs' = WithJob(s, Len(jobs[s]), job)
  <2>1. CASE AdmitWorkerFailure(s)
    BY <2>1 DEF AdmitWorkerFailure, Fail
  <2>2. CASE AdmitRejected(s, env, FALSE)
    BY <2>2 DEF AdmitRejected, Fail
  <2>3. CASE AdmitAccepted(s, env, FALSE)
    BY <2>3 DEF AdmitAccepted
  <2> QED
    BY <2>1, <2>2, <2>3 DEF Admit
<1> QED
  BY <1>2, <1>3, WithJobKeeps

LEMMA ReviewKeepsJobs ==
  ASSUME Safe, Review
  PROVE  JobsKept
<1>1. ASSUME NEW s \in Slots, task[s].status # "none",
             \E job : jobs' = WithJob(s, 1, job)
      PROVE  JobsKept
  <2>1. TypeOK /\ 1 \in 1 .. Len(jobs[s])
    BY <1>1, SpawnedJobs DEF Safe, TaskHasJob
  <2> QED
    BY <1>1, <2>1, WithJobKeeps
<1>2. ASSUME NEW s \in Slots, NEW by \in Signatures, RejectReview(s, by) PROVE JobsKept
  BY <1>1, <1>2 DEF RejectReview
<1>3. ASSUME NEW s \in Slots, NEW by \in Signatures, NEW waive \in BOOLEAN,
             ApproveReview(s, by, waive)
      PROVE  JobsKept
  BY <1>1, <1>3 DEF ApproveReview
<1>4. ASSUME NEW pair \in openConflicts, ResolveConflict(pair) PROVE JobsKept
  BY <1>4 DEF ResolveConflict, JobsKept
<1> QED
  BY <1>2, <1>3, <1>4 DEF Review

LEMMA SpawnAddsJob ==
  ASSUME TypeOK, NEW s \in Slots, Spawn(s)
  PROVE  /\ Len(jobs'[s]) = Len(jobs[s]) + 1
         /\ \A t \in Slots : t # s => jobs'[t] = jobs[t]
         /\ \A t \in Slots : Len(jobs[t]) \in Nat
  BY DEF TypeOK, Spawn

LEMMA RecordedCounts ==
  ASSUME PolicyInv, NEW job, NEW stage, NEW verdict, NEW rule,
         Recorded(job, stage, verdict, rule)
  PROVE  /\ \A s : IF job = s /\ stage = "action" /\ verdict = "allowed"
                   THEN Cardinality(Starts(s)') = Cardinality(Starts(s)) + 1
                   ELSE Starts(s)' = Starts(s)
         /\ \A i \in DOMAIN evidence' :
              \/ evidence'[i].job = job
              \/ i \in DOMAIN evidence /\ evidence'[i] = evidence[i]
<1> DEFINE new == [job |-> job, stage |-> stage, verdict |-> verdict, rule |-> rule]
           next == Len(evidence) + 1
<1>1. evidence \in Seq(Evidence) /\ next \in Nat
  BY DEF PolicyInv
<1>2. evidence' = Append(evidence, new)
  BY DEF Recorded
<1>3. /\ DOMAIN evidence = 1 .. Len(evidence)
      /\ DOMAIN evidence' = DOMAIN evidence \cup {next} /\ next \notin DOMAIN evidence
      /\ evidence'[next] = new
      /\ \A i \in DOMAIN evidence : evidence'[i] = evidence[i]
  <2> HIDE DEF new
  <2> QED
    BY <1>1, <1>2
<1>4. new.job = job /\ new.stage = stage /\ new.verdict = verdict
  OBVIOUS
<1> HIDE DEF new, next
<1>5. ASSUME NEW s
      PROVE  Starts(s)' = IF job = s /\ stage = "action" /\ verdict = "allowed"
                          THEN Starts(s) \cup {next} ELSE Starts(s)
  BY <1>3, <1>4 DEF Starts
<1>6. ASSUME NEW s PROVE IsFiniteSet(Starts(s)) /\ next \notin Starts(s)
  <2>1. IsFiniteSet(1 .. Len(evidence))
    BY <1>1, FS_Interval
  <2> QED
    BY <1>3, <2>1, FS_Subset DEF Starts
<1>7. ASSUME NEW s PROVE Cardinality(Starts(s) \cup {next}) = Cardinality(Starts(s)) + 1
  BY <1>6, FS_AddElement
<1> QED
  BY <1>3, <1>4, <1>5, <1>7

LEMMA ExecutionsKeepActions ==
  ASSUME PolicyInv, NEW i \in DOMAIN executions, NEW env, NEW place, Moved(i, place, env)
  PROVE  /\ DOMAIN executions' = DOMAIN executions
         /\ \A j \in DOMAIN executions : executions'[j].action = executions[j].action
<1> DEFINE new == [executions[i] EXCEPT !.place = place, !.env = env]
<1>1. executions[i] \in Executions /\ executions \in Seq(Executions)
  BY DEF PolicyInv
<1>2. new.action = executions[i].action
  BY <1>1 DEF Executions
<1>3. executions' = [executions EXCEPT ![i] = new]
  BY <1>1 DEF Moved, Executions
<1> HIDE DEF new
<1> QED
  BY <1>1, <1>2, <1>3

\* A job starts, and a record allows it.
LEMMA StartAccounted ==
  ASSUME Safe, PolicyInv, AccountInv, NEW action \in Actions, NEW approved, NEW closed,
         NEW rule, Started(action, approved, closed),
         Recorded(action.slot, "action", "allowed", rule)
  PROVE  AccountInv'
<1>1. action.slot \in Slots
  BY DEF Actions
<1>2. /\ Len(jobs'[action.slot]) = Len(jobs[action.slot]) + 1
      /\ \A t \in Slots : t # action.slot => jobs'[t] = jobs[t]
      /\ \A t \in Slots : Len(jobs[t]) \in Nat
  BY <1>1, SpawnAddsJob DEF Started, Safe
<1>3. \A s \in Slots : Len(jobs[s]) > 0 => Len(jobs'[s]) > 0
  BY <1>2
<1>4. \A s \in Slots : Len(jobs'[s]) = Cardinality(Starts(s)')
  BY <1>2, RecordedCounts DEF AccountInv
<1>5. \A i \in DOMAIN evidence' :
        evidence'[i].job \in Slots => Len(jobs'[evidence'[i].job]) > 0
  <2>1. \A i \in DOMAIN evidence' :
          \/ evidence'[i].job = action.slot
          \/ i \in DOMAIN evidence /\ evidence'[i] = evidence[i]
    BY RecordedCounts
  <2>2. Len(jobs'[action.slot]) > 0
    BY <1>1, <1>2
  <2> QED
    BY <2>1, <2>2, <1>3 DEF AccountInv
<1>6. \A i \in DOMAIN executions' : Len(jobs'[executions'[i].action.slot]) > 0
  <2> DEFINE new == [action |-> action, approved |-> approved, closed |-> closed,
                     place |-> "running", env |-> NoEnvelope]
  <2>1. executions' = Append(executions, new) /\ executions \in Seq(Executions)
    BY DEF Started, PolicyInv
  <2>2. new.action = action
    OBVIOUS
  <2> HIDE DEF new
  <2>3. \A i \in DOMAIN executions' :
          \/ executions'[i] = new
          \/ i \in DOMAIN executions /\ executions'[i] = executions[i]
    BY <2>1
  <2> QED
    BY <2>2, <2>3, <1>1, <1>2, <1>3, ExecutionNames DEF AccountInv
<1> QED
  BY <1>4, <1>5, <1>6 DEF AccountInv

\* No job starts, nor does any execution, and what is recorded allows none.
LEMMA OthersAccounted ==
  ASSUME PolicyInv, AccountInv, JobsKept,
         DOMAIN executions' = DOMAIN executions,
         \A j \in DOMAIN executions : executions'[j].action = executions[j].action,
         \/ UNCHANGED evidence
         \/ \E i \in DOMAIN executions : \E verdict, rule :
              Recorded(executions[i].action.slot, "outcome", verdict, rule)
         \/ \E verdict, rule : verdict # "allowed" /\ Recorded("none", "action", verdict, rule)
  PROVE  AccountInv'
<1>1. \A i \in DOMAIN executions' : Len(jobs'[executions'[i].action.slot]) > 0
  BY ExecutionNames DEF AccountInv, JobsKept
<1>2. CASE UNCHANGED evidence
  <2>1. \A s \in Slots : Starts(s)' = Starts(s)
    BY <1>2 DEF Starts
  <2> QED
    BY <1>1, <1>2, <2>1 DEF AccountInv, JobsKept
<1>3. ASSUME NEW job, NEW stage, NEW verdict, NEW rule,
             Recorded(job, stage, verdict, rule),
             stage # "action" \/ verdict # "allowed",
             job \in Slots => Len(jobs[job]) > 0
      PROVE  AccountInv'
  <2>1. \A s \in Slots : Starts(s)' = Starts(s)
    BY <1>3, RecordedCounts
  <2>2. \A i \in DOMAIN evidence' :
          \/ evidence'[i].job = job
          \/ i \in DOMAIN evidence /\ evidence'[i] = evidence[i]
    BY <1>3, RecordedCounts
  <2> QED
    BY <1>1, <1>3, <2>1, <2>2 DEF AccountInv, JobsKept
<1>4. ASSUME NEW i \in DOMAIN executions, NEW verdict, NEW rule,
             Recorded(executions[i].action.slot, "outcome", verdict, rule)
      PROVE  AccountInv'
  BY <1>3, <1>4 DEF AccountInv
<1>5. ASSUME NEW verdict, NEW rule, verdict # "allowed",
             Recorded("none", "action", verdict, rule)
      PROVE  AccountInv'
  BY <1>3, <1>5, PolicyAssumption
<1> QED
  BY <1>2, <1>4, <1>5

LEMMA StepAccounted ==
  Safe /\ PolicyInv /\ AccountInv /\ [PolicedNext]_policedVars => AccountInv'
<1> SUFFICES ASSUME Safe, PolicyInv, AccountInv, [PolicedNext]_policedVars
             PROVE  AccountInv'
  OBVIOUS
<1>1. ASSUME NEW action \in Actions, NEW closed \in BOOLEAN,
             AuthorizeThenSpawn(action, closed)
      PROVE  AccountInv'
  <2>1. CASE Authorize(action) = "allowed"
    BY <1>1, <2>1, StartAccounted DEF AuthorizeThenSpawn
  <2>2. CASE Authorize(action) # "allowed"
    <3>1. Recorded("none", "action", Authorize(action), "policy")
          /\ UNCHANGED <<jobs, executions>>
      BY <1>1, <2>2 DEF AuthorizeThenSpawn, vars
    <3>2. JobsKept
      BY <3>1 DEF JobsKept
    <3> QED
      BY <2>2, <3>1, <3>2, OthersAccounted
  <2> QED
    BY <2>1, <2>2
<1>2. ASSUME NEW d \in DOMAIN decisions, ApproveEscalatedAction(d) PROVE AccountInv'
  BY <1>2, DecisionNames, StartAccounted DEF ApproveEscalatedAction
<1>3. ASSUME NEW i \in DOMAIN executions, NEW env \in Envelopes, AdmitByCaller(i, env)
      PROVE  AccountInv'
  <2>1. JobsKept
    BY <1>3, ExecutionNames, AdmitKeepsJobs DEF AdmitByCaller
  <2> QED
    BY <1>3, <2>1, ExecutionsKeepActions, OthersAccounted DEF AdmitByCaller
<1>4. ASSUME NEW i \in DOMAIN executions, NEW env \in Envelopes, ExecuteThenAdmit(i, env)
      PROVE  AccountInv'
  <2>1. JobsKept
    BY <1>4, ExecutionNames, AdmitKeepsJobs
       DEF ExecuteThenAdmit, Withhold, vars, JobsKept
  <2>2. \E verdict : Recorded(executions[i].action.slot, "outcome", verdict, "policy")
    BY <1>4 DEF ExecuteThenAdmit
  <2>3. \E place : Moved(i, place, env)
    BY <1>4 DEF ExecuteThenAdmit
  <2> QED
    BY <2>1, <2>2, <2>3, ExecutionsKeepActions, OthersAccounted
<1>5. ASSUME NEW i \in DOMAIN executions, ApproveEscalatedOutcome(i) PROVE AccountInv'
  <2>1. JobsKept
    BY <1>5, ExecutionNames, AdmitKeepsJobs DEF ApproveEscalatedOutcome
  <2> QED
    BY <1>5, <2>1, ExecutionsKeepActions, OthersAccounted DEF ApproveEscalatedOutcome
<1>6. ASSUME ReviewBeside PROVE AccountInv'
  BY <1>6, ReviewKeepsJobs, OthersAccounted DEF ReviewBeside, policy
<1>7. CASE UNCHANGED policedVars
  BY <1>7, OthersAccounted DEF policedVars, policy, vars, JobsKept
<1> QED
  BY <1>1, <1>2, <1>3, <1>4, <1>5, <1>6, <1>7 DEF PolicedNext

(* Under any rules, every job node has one record that allowed it to start  *)
(* and no record leads to a job that was never spawned                      *)
(* (authorize_then_spawn, approve_escalated_action).                        *)
THEOREM JobsAreAccountedFor == PolicedSpec => []JobsAccountedFor
<1>1. PolicedInit => AccountInv
  <2> SUFFICES ASSUME PolicedInit PROVE AccountInv
    OBVIOUS
  <2>1. evidence = << >> /\ executions = << >> /\ jobs = [s \in Slots |-> << >>]
    BY DEF PolicedInit, Init
  <2>2. \A s : Starts(s) = {}
    BY <2>1 DEF Starts
  <2>3. Cardinality({}) = 0
    BY FS_EmptySet
  <2>4. \A s \in Slots : Len(jobs[s]) = 0
    BY <2>1
  <2> QED
    BY <2>1, <2>2, <2>3, <2>4 DEF AccountInv
<1>2. Safe /\ AccountInv => JobsAccountedFor
  <2> SUFFICES ASSUME Safe, AccountInv, NEW s \in Slots
               PROVE  LET linked == {i \in DOMAIN evidence : evidence[i].job = s}
                      IN /\ Len(jobs[s])
                              = Cardinality({i \in linked :
                                               /\ evidence[i].stage = "action"
                                               /\ evidence[i].verdict = "allowed"})
                         /\ linked # {} => Spawned(s)
    BY DEF JobsAccountedFor
  <2> DEFINE linked == {i \in DOMAIN evidence : evidence[i].job = s}
  <2>1. {i \in linked : evidence[i].stage = "action" /\ evidence[i].verdict = "allowed"}
          = Starts(s)
    BY DEF Starts
  <2>2. Len(jobs[s]) > 0 => Spawned(s)
    BY DEF Spawned, Safe, TypeOK
  <2> QED
    BY <2>1, <2>2 DEF AccountInv
<1>3. PolicedSpec => []Safe
  BY PolicyIsAdditive, AlwaysSafe, PTL DEF Additive
<1>4. PolicedSpec => []AccountInv
  BY <1>1, <1>3, AlwaysPolicy, StepAccounted, PTL DEF PolicedSpec
<1> QED
  BY <1>2, <1>3, <1>4, PTL

(* A policy's decisions, executions and records are the ones it can make:   *)
(* every verdict is one of the three (authorize, authorize_outcome).        *)
THEOREM PolicyTypeCorrect == PolicedSpec => []PolicyTypeOK
<1>1. PolicyInv /\ TypeOK => PolicyTypeOK
  BY DEF PolicyInv, PolicyTypeOK
<1> QED
  BY <1>1, AlwaysPolicy, PolicyIsAdditive, TypeCorrect, PTL DEF Additive

-----------------------------------------------------------------------------
(* The rules are obeyed.  What a verdict was when it was given it still is:  *)
(* an execution keeps its action, and its envelope once it has one.          *)

\* An outcome is judged of an action that was let run.
DecisionsRuled ==
  \A d \in DOMAIN decisions :
    IF decisions[d].stage = "action"
    THEN decisions[d].verdict = Authorize(decisions[d].action)
    ELSE Authorize(decisions[d].action) \in {"allowed", "escalated"}

\* An execution runs on a verdict that lets it run.
Runs(e) ==
  \/ Authorize(e.action) = "allowed"
  \/ Authorize(e.action) = "escalated" /\ e.approved

\* Where a closed execution is follows from the verdict on its outcome.
Placed(e) ==
  e.closed =>
    /\ e.place = "admitted" => AuthorizeOutcome(e.action, e.env) = "allowed"
    /\ e.place \in {"escalated", "approved"} => AuthorizeOutcome(e.action, e.env) = "escalated"

\* Execution e put node n into the graph, for slot s.
Landed(e, s, n) ==
  e.action.slot = s /\ n \in e.env.nodes /\ e.place \in {"admitted", "approved"}

RuledInv ==
  /\ DecisionsRuled
  /\ \A i \in DOMAIN executions : Runs(executions[i]) /\ Placed(executions[i])
  /\ \A s \in Slots : \A n \in produced[s] :
       \E i \in DOMAIN executions : Landed(executions[i], s, n)

\* One execution becomes e: it keeps its action, and still lands what it landed.
LEMMA MovedRuled ==
  ASSUME PolicyInv, RuledInv, NEW i \in DOMAIN executions, NEW env \in Envelopes,
         NEW place, Moved(i, place, env),
         Placed([executions[i] EXCEPT !.place = place, !.env = env]),
         executions[i].place \in {"admitted", "approved"}
           => place = "approved" /\ env = executions[i].env
  PROVE  /\ \A j \in DOMAIN executions' : Runs(executions'[j]) /\ Placed(executions'[j])
         /\ \A j \in DOMAIN executions, s \in Slots, n \in Nodes :
              Landed(executions[j], s, n) => Landed(executions'[j], s, n)
         /\ DOMAIN executions' = DOMAIN executions
         /\ executions'[i].action = executions[i].action
         /\ executions'[i].place = place /\ executions'[i].env = env
<1> DEFINE new == [executions[i] EXCEPT !.place = place, !.env = env]
<1>1. executions[i] \in Executions /\ executions \in Seq(Executions)
  BY DEF PolicyInv
<1>2. /\ new.action = executions[i].action /\ new.approved = executions[i].approved
      /\ new.place = place /\ new.env = env
  BY <1>1 DEF Executions
<1>3. executions' = [executions EXCEPT ![i] = new]
  BY <1>1 DEF Moved, Executions
<1>4. Runs(new) /\ Placed(new)
  BY <1>2 DEF RuledInv, Runs
<1> HIDE DEF new
<1>5. /\ DOMAIN executions' = DOMAIN executions /\ executions'[i] = new
      /\ \A j \in DOMAIN executions : j # i => executions'[j] = executions[j]
  BY <1>1, <1>3
<1>6. \A s \in Slots, n \in Nodes : Landed(executions[i], s, n) => Landed(new, s, n)
  BY <1>2 DEF Landed
<1> QED
  BY <1>2, <1>4, <1>5, <1>6 DEF RuledInv

\* What an envelope leaves behind: its nodes, in its own slot.
LEMMA AdmitLands ==
  ASSUME TypeOK, NEW s \in Slots, NEW env \in Envelopes, Admit(s, env)
  PROVE  \A t \in Slots : produced'[t] \subseteq IF t = s THEN produced[t] \cup env.nodes
                                                 ELSE produced[t]
  BY DEF TypeOK, Admit, AdmitWorkerFailure, AdmitRejected, AdmitAccepted, Fail

\* An envelope is admitted and its execution is where it lands.
LEMMA AdmitRuled ==
  ASSUME TypeOK, PolicyInv, RuledInv, DecisionsRuled', NEW i \in DOMAIN executions,
         NEW env \in Envelopes, NEW place \in {"admitted", "approved"},
         Admit(executions[i].action.slot, env), Moved(i, place, env),
         Placed([executions[i] EXCEPT !.place = place, !.env = env]),
         executions[i].place \in {"admitted", "approved"}
           => place = "approved" /\ env = executions[i].env
  PROVE  RuledInv'
<1> DEFINE here == executions[i].action.slot
<1>1. here \in Slots
  BY ExecutionNames
<1>2. /\ \A j \in DOMAIN executions' : Runs(executions'[j]) /\ Placed(executions'[j])
      /\ \A j \in DOMAIN executions, s \in Slots, n \in Nodes :
           Landed(executions[j], s, n) => Landed(executions'[j], s, n)
      /\ DOMAIN executions' = DOMAIN executions
      /\ executions'[i].action.slot = here
      /\ executions'[i].place = place /\ executions'[i].env = env
  BY MovedRuled
<1>3. ASSUME NEW s \in Slots, NEW n \in produced'[s]
      PROVE  \E j \in DOMAIN executions' : Landed(executions'[j], s, n)
  <2>1. n \in produced[s] \/ (s = here /\ n \in env.nodes)
    BY <1>1, AdmitLands
  <2>2. CASE n \in produced[s]
    <3>1. n \in Nodes
      BY <2>2 DEF TypeOK
    <3> QED
      BY <1>2, <2>2, <3>1 DEF RuledInv
  <2>3. CASE s = here /\ n \in env.nodes
    BY <1>2, <2>3 DEF Landed
  <2> QED
    BY <2>1, <2>2, <2>3
<1> QED
  BY <1>2, <1>3 DEF RuledInv

\* Nothing lands: executions and content stay as they are.
LEMMA NothingLands ==
  ASSUME RuledInv, DecisionsRuled', UNCHANGED <<executions, produced>>
  PROVE  RuledInv'
  BY DEF RuledInv

LEMMA DecidedRuled ==
  ASSUME PolicyInv, DecisionsRuled, NEW stage, NEW action, NEW verdict,
         IF stage = "action" THEN verdict = Authorize(action)
                             ELSE Authorize(action) \in {"allowed", "escalated"},
         Decided(stage, action, verdict)
  PROVE  DecisionsRuled'
<1> DEFINE new == [stage |-> stage, action |-> action, verdict |-> verdict]
<1>1. new.stage = stage /\ new.action = action /\ new.verdict = verdict
  OBVIOUS
<1>2. decisions' = Append(decisions, new) /\ decisions \in Seq(Decisions)
  BY DEF Decided, PolicyInv
<1> HIDE DEF new
<1>3. \A d \in DOMAIN decisions' :
        decisions'[d] = new \/ (d \in DOMAIN decisions /\ decisions'[d] = decisions[d])
  BY <1>2
<1> QED
  BY <1>1, <1>3 DEF DecisionsRuled

\* A worker is handed a job on a verdict that lets it run.
LEMMA StartedRuled ==
  ASSUME PolicyInv, RuledInv, DecisionsRuled', NEW action \in Actions,
         NEW approved, NEW closed, Started(action, approved, closed),
         Authorize(action) = "allowed" \/ (Authorize(action) = "escalated" /\ approved)
  PROVE  RuledInv'
<1> DEFINE new == [action |-> action, approved |-> approved, closed |-> closed,
                   place |-> "running", env |-> NoEnvelope]
<1>1. Runs(new) /\ Placed(new)
  BY DEF Runs, Placed
<1>2. executions' = Append(executions, new) /\ executions \in Seq(Executions)
      /\ UNCHANGED produced
  BY DEF Started, Spawn, PolicyInv
<1> HIDE DEF new
<1>3. /\ \A i \in DOMAIN executions' :
           executions'[i] = new \/ (i \in DOMAIN executions /\ executions'[i] = executions[i])
      /\ \A i \in DOMAIN executions : i \in DOMAIN executions' /\ executions'[i] = executions[i]
  BY <1>2
<1> QED
  BY <1>1, <1>2, <1>3 DEF RuledInv

LEMMA StepRuled ==
  TypeOK /\ PolicyInv /\ RuledInv /\ [PolicedNext]_policedVars => RuledInv'
<1> SUFFICES ASSUME TypeOK, PolicyInv, RuledInv, [PolicedNext]_policedVars
             PROVE  RuledInv'
  OBVIOUS
<1>1. ASSUME NEW action \in Actions, NEW closed \in BOOLEAN,
             AuthorizeThenSpawn(action, closed)
      PROVE  RuledInv'
  <2>1. DecisionsRuled'
    BY <1>1, DecidedRuled DEF AuthorizeThenSpawn, RuledInv
  <2>2. CASE Authorize(action) = "allowed"
    BY <1>1, <2>1, <2>2, StartedRuled DEF AuthorizeThenSpawn
  <2>3. CASE Authorize(action) # "allowed"
    BY <1>1, <2>1, <2>3, NothingLands DEF AuthorizeThenSpawn, vars
  <2> QED
    BY <2>2, <2>3
<1>2. ASSUME NEW d \in DOMAIN decisions, ApproveEscalatedAction(d) PROVE RuledInv'
  <2> DEFINE action == decisions[d].action
  <2>1. action \in Actions /\ Authorize(action) \in {"allowed", "escalated"}
    BY <1>2, DecisionNames DEF ApproveEscalatedAction, RuledInv, DecisionsRuled
  <2>2. Started(action, TRUE, FALSE) /\ DecisionsRuled'
    BY <1>2 DEF ApproveEscalatedAction, RuledInv, DecisionsRuled
  <2> HIDE DEF action
  <2> QED
    BY <2>1, <2>2, StartedRuled
<1>3. ASSUME NEW i \in DOMAIN executions, NEW env \in Envelopes, AdmitByCaller(i, env)
      PROVE  RuledInv'
  <2>1. DecisionsRuled'
    BY <1>3 DEF AdmitByCaller, RuledInv, DecisionsRuled
  <2>2. Placed([executions[i] EXCEPT !.place = "admitted", !.env = env])
    <3>1. executions[i] \in Executions /\ ~executions[i].closed
      BY <1>3 DEF PolicyInv, AdmitByCaller
    <3> QED
      BY <3>1 DEF Executions, Placed
  <2> QED
    BY <1>3, <2>1, <2>2, AdmitRuled DEF AdmitByCaller
<1>4. ASSUME NEW i \in DOMAIN executions, NEW env \in Envelopes, ExecuteThenAdmit(i, env)
      PROVE  RuledInv'
  <2> DEFINE action == executions[i].action
             verdict == AuthorizeOutcome(action, env)
             new(place) == [executions[i] EXCEPT !.place = place, !.env = env]
  <2>1. /\ Decided("outcome", action, verdict) /\ executions[i].place = "running"
        /\ IF verdict = "allowed"
           THEN Admit(action.slot, env) /\ Moved(i, "admitted", env)
           ELSE Withhold(action.slot) /\ Moved(i, verdict, env)
    BY <1>4 DEF ExecuteThenAdmit
  <2>2. executions[i] \in Executions /\ action \in Actions
    BY ExecutionNames DEF PolicyInv
  <2>3. verdict \in Verdicts
    BY <2>2, JudgedOutcomes
  <2>4. DecisionsRuled'
    <3>1. Authorize(action) \in {"allowed", "escalated"}
      BY DEF RuledInv, Runs
    <3> QED
      BY <2>1, <3>1, DecidedRuled DEF RuledInv
  <2>5. \A place : new(place).action = action /\ new(place).env = env /\ new(place).place = place
    BY <2>2 DEF Executions
  <2>6. CASE verdict = "allowed"
    <3>1. Placed(new("admitted"))
      BY <2>5, <2>6 DEF Placed
    <3> QED
      BY <2>1, <2>4, <2>6, <3>1, AdmitRuled
  <2>7. CASE verdict # "allowed"
    <3>1. Placed(new(verdict))
      BY <2>3, <2>5, <2>7 DEF Placed, Verdicts
    <3>2. Moved(i, verdict, env) /\ UNCHANGED produced
      BY <2>1, <2>7 DEF Withhold, vars
    <3>3. /\ \A j \in DOMAIN executions' : Runs(executions'[j]) /\ Placed(executions'[j])
          /\ \A j \in DOMAIN executions, s \in Slots, n \in Nodes :
               Landed(executions[j], s, n) => Landed(executions'[j], s, n)
          /\ DOMAIN executions' = DOMAIN executions
      <4> HIDE DEF verdict
      <4> QED
        BY <2>1, <3>1, <3>2, MovedRuled
    <3>4. \A s \in Slots : produced[s] \subseteq Nodes
      BY DEF TypeOK
    <3> QED
      BY <2>4, <3>2, <3>3, <3>4 DEF RuledInv
  <2> QED
    BY <2>6, <2>7
<1>5. ASSUME NEW i \in DOMAIN executions, ApproveEscalatedOutcome(i) PROVE RuledInv'
  <2> DEFINE env == executions[i].env
  <2>1. /\ executions[i].place \in {"escalated", "approved"} /\ env \in Envelopes
        /\ Admit(executions[i].action.slot, env) /\ Moved(i, "approved", env)
    BY <1>5, ExecutionNames DEF ApproveEscalatedOutcome
  <2>2. DecisionsRuled'
    BY <1>5 DEF ApproveEscalatedOutcome, RuledInv, DecisionsRuled
  <2>3. Placed([executions[i] EXCEPT !.place = "approved", !.env = env])
    <3>1. executions[i] \in Executions /\ Placed(executions[i])
      BY DEF PolicyInv, RuledInv
    <3> QED
      BY <2>1, <3>1 DEF Executions, Placed
  <2> HIDE DEF env
  <2>4. executions[i].place \in {"admitted", "approved"} => env = executions[i].env
    BY DEF env
  <2> QED
    BY <2>1, <2>2, <2>3, <2>4, AdmitRuled
<1>6. ASSUME ReviewBeside PROVE RuledInv'
  <2>1. UNCHANGED <<decisions, executions, produced>>
    BY <1>6 DEF ReviewBeside, policy, Review, RejectReview, ApproveReview, ResolveConflict
  <2> QED
    BY <2>1, NothingLands DEF RuledInv, DecisionsRuled
<1>7. CASE UNCHANGED policedVars
  BY <1>7, NothingLands DEF policedVars, policy, vars, RuledInv, DecisionsRuled
<1> QED
  BY <1>1, <1>2, <1>3, <1>4, <1>5, <1>6, <1>7 DEF PolicedNext

LEMMA AlwaysRuled == PolicedSpec => [](PolicyInv /\ RuledInv)
<1>1. PolicedInit => RuledInv
  BY DEF PolicedInit, Init, RuledInv, DecisionsRuled
<1>2. PolicedSpec => []TypeOK
  BY PolicyIsAdditive, TypeCorrect, PTL DEF Additive
<1> QED
  BY <1>1, <1>2, StepRuled, AlwaysPolicy, PTL DEF PolicedSpec

(* Under any list of rules in any order, no worker runs on an action that   *)
(* one of them blocks, nor on one that some rule escalates unless a human   *)
(* approved it (authorize, authorize_then_spawn, approve_escalated_action). *)
THEOREM WorkersRunAsRuled == PolicedSpec => []RunsAsRuled
<1>1. PolicyInv /\ RuledInv => RunsAsRuled
  <2> SUFFICES ASSUME PolicyInv, RuledInv, NEW i \in DOMAIN executions
               PROVE  LET said == {Rules[r][executions[i].action] : r \in DOMAIN Rules}
                      IN /\ "blocked" \notin said
                         /\ "escalated" \in said => executions[i].approved
    BY DEF RunsAsRuled
  <2>1. Runs(executions[i]) /\ executions[i].action \in Actions
    BY ExecutionNames DEF RuledInv
  <2> QED
    BY <2>1, ActionVerdict DEF Runs, Verdict
<1> QED
  BY <1>1, AlwaysRuled, PTL

(* Under any outcome rules in any order, whatever a job holds came from an  *)
(* envelope a caller admitted on the open path, or from one that no rule    *)
(* blocked and that a human approved if some rule escalated it              *)
(* (authorize_execute_then_admit, approve_escalated_outcome).               *)
THEOREM ContentLandsAsRuled == PolicedSpec => []ContentAsRuled
<1>1. PolicyInv /\ RuledInv => ContentAsRuled
  <2> SUFFICES ASSUME PolicyInv, RuledInv, NEW s \in Slots, NEW n \in produced[s]
               PROVE  \E i \in DOMAIN executions :
                        LET said == {OutcomeRules[r][<<executions[i].action, executions[i].env>>] :
                                       r \in DOMAIN OutcomeRules}
                        IN /\ executions[i].action.slot = s /\ n \in executions[i].env.nodes
                           /\ executions[i].place \in {"admitted", "approved"}
                           /\ executions[i].closed =>
                                /\ "blocked" \notin said
                                /\ "escalated" \in said => executions[i].place = "approved"
    BY DEF ContentAsRuled
  <2>1. PICK i \in DOMAIN executions : Landed(executions[i], s, n)
    BY DEF RuledInv
  <2>2. executions[i].action \in Actions /\ executions[i].env \in Envelopes
    BY <2>1, ExecutionNames DEF Landed
  <2> DEFINE said == {OutcomeRules[r][<<executions[i].action, executions[i].env>>] :
                        r \in DOMAIN OutcomeRules}
  <2>3. AuthorizeOutcome(executions[i].action, executions[i].env) = Verdict(said)
    BY <2>2, OutcomeVerdict
  <2>4. executions[i].closed =>
          /\ "blocked" \notin said
          /\ "escalated" \in said => executions[i].place = "approved"
    <3>1. Placed(executions[i]) /\ executions[i].place \in {"admitted", "approved"}
      BY <2>1 DEF RuledInv, Landed
    <3> HIDE DEF said
    <3> QED
      BY <2>3, <3>1 DEF Placed, Verdict
  <2> QED
    BY <2>1, <2>4 DEF Landed
<1> QED
  BY <1>1, AlwaysRuled, PTL
-----------------------------------------------------------------------------
(* The gate's verdict. *)

\* Where the loop stops.
LEMMA FirstFailure ==
  ASSUME NEW failing \in SUBSET Nat, failing # {}
  PROVE  Min(failing) \in failing /\ \A i \in failing : Min(failing) <= i
  BY LeastNat DEF Min

\* The checks a question fails.
Fails(q) ==
  {i \in 1 .. 7 : ~Checks(q.node, q.task, q.contested)[i].passed}

\* The question without its review task.
Bare(q) == [q EXCEPT !.task = NoTask]

LEMMA OneToSeven == 1 .. 7 = {1, 2, 3, 4, 5, 6, 7}
  OBVIOUS

\* The seven checks, in their order.
LEMMA ChecksRead ==
  ASSUME NEW n, NEW t, NEW c
  PROVE  /\ Len(Checks(n, t, c)) = 7 /\ DOMAIN Checks(n, t, c) = 1 .. 7
         /\ Checks(n, t, c)[1].passed <=> SchemaValid(n)
         /\ Checks(n, t, c)[2].passed <=> ProvenancePresent(n)
         /\ Checks(n, t, c)[3].passed <=> ClaimEntailed(n)
         /\ Checks(n, t, c)[4].passed <=> ConfidencePassed(n, t)
         /\ Checks(n, t, c)[5].passed <=> HumanReviewed(n)
         /\ Checks(n, t, c)[6].passed <=> NoConflicts(c)
         /\ Checks(n, t, c)[7].passed <=> DownstreamAllowed(n)
<1>1. Len(Checks(n, t, c)) = 7 /\ DOMAIN Checks(n, t, c) = 1 .. 7
  BY DEF Checks
<1>2. Checks(n, t, c)[1].passed <=> SchemaValid(n)
  BY DEF Checks
<1>3. Checks(n, t, c)[2].passed <=> ProvenancePresent(n)
  BY DEF Checks
<1>4. Checks(n, t, c)[3].passed <=> ClaimEntailed(n)
  BY DEF Checks
<1>5. Checks(n, t, c)[4].passed <=> ConfidencePassed(n, t)
  BY DEF Checks
<1>6. Checks(n, t, c)[5].passed <=> HumanReviewed(n)
  BY DEF Checks
<1>7. Checks(n, t, c)[6].passed <=> NoConflicts(c)
  BY DEF Checks
<1>8. Checks(n, t, c)[7].passed <=> DownstreamAllowed(n)
  BY DEF Checks
<1> QED
  BY <1>1, <1>2, <1>3, <1>4, <1>5, <1>6, <1>7, <1>8

\* Their reason codes.
LEMMA CodesRead ==
  ASSUME NEW n, NEW t, NEW c, NEW i \in 1 .. 7
  PROVE  Checks(n, t, c)[i].code =
           <<"SCHEMA_INVALID", "PROVENANCE_MISSING", "CLAIM_NOT_ENTAILED", "LOW_CONFIDENCE",
             "REVIEW_REQUIRED", "CONFLICT_UNRESOLVED", "DOWNSTREAM_NOT_ALLOWED">>[i]
  BY OneToSeven DEF Checks

\* The same checks under another review task differ in the fourth alone.
LEMMA TaskMovesOne ==
  ASSUME NEW n, NEW t, NEW u, NEW c, NEW i \in 1 .. 7
  PROVE  /\ Checks(n, t, c)[i].code = Checks(n, u, c)[i].code
         /\ Checks(n, t, c)[i].code # "ALLOWED"
         /\ i # 4 => (Checks(n, t, c)[i].passed <=> Checks(n, u, c)[i].passed)
         /\ i = 4 => Checks(n, t, c)[i].code = "LOW_CONFIDENCE"
<1>1. /\ Checks(n, t, c)[i].code = Checks(n, u, c)[i].code
      /\ Checks(n, t, c)[i].code # "ALLOWED"
      /\ i = 4 => Checks(n, t, c)[i].code = "LOW_CONFIDENCE"
  BY CodesRead, OneToSeven
<1>2. i # 4 => (Checks(n, t, c)[i].passed <=> Checks(n, u, c)[i].passed)
  BY ChecksRead, OneToSeven
<1> QED
  BY <1>1, <1>2

\* A node proceeds just when it passes all seven checks.
LEMMA AllPassed ==
  ASSUME NEW q
  PROVE  Fails(q) = {} <=> CanProceed(q.node, q.task, q.contested)
<1> DEFINE passed(i) == Checks(q.node, q.task, q.contested)[i].passed
<1>1. Fails(q) = {} <=> /\ passed(1) /\ passed(2) /\ passed(3) /\ passed(4)
                        /\ passed(5) /\ passed(6) /\ passed(7)
  <2>1. Fails(q) = {i \in {1, 2, 3, 4, 5, 6, 7} : ~passed(i)}
    BY OneToSeven DEF Fails
  <2> HIDE DEF passed
  <2> QED
    BY <2>1
<1>2. /\ passed(1) <=> SchemaValid(q.node)
      /\ passed(2) <=> ProvenancePresent(q.node)
      /\ passed(3) <=> ClaimEntailed(q.node)
      /\ passed(4) <=> ConfidencePassed(q.node, q.task)
      /\ passed(5) <=> HumanReviewed(q.node)
      /\ passed(6) <=> NoConflicts(q.contested)
      /\ passed(7) <=> DownstreamAllowed(q.node)
  BY ChecksRead
<1> HIDE DEF passed
<1> QED
  BY <1>1, <1>2 DEF CanProceed

\* The decision, by the checks failed.
LEMMA DecisionRead ==
  ASSUME NEW q
  PROVE  Decision(q) =
           IF Fails(q) # {}
           THEN [canProceed |-> FALSE,
                 reason |-> Checks(q.node, q.task, q.contested)[Min(Fails(q))].code,
                 ran |-> Min(Fails(q))]
           ELSE [canProceed |-> TRUE, ran |-> 7,
                 reason |-> IF Confident(q.node) THEN "ALLOWED" ELSE "ALLOWED_BY_WAIVER"]
<1> DEFINE checks == Checks(q.node, q.task, q.contested)
<1>1. Len(checks) = 7 /\ DOMAIN checks = 1 .. 7
  BY ChecksRead
<1>2. Fails(q) = {i \in DOMAIN checks : ~checks[i].passed}
  BY <1>1 DEF Fails
<1>3. Decision(q) =
        IF {i \in DOMAIN checks : ~checks[i].passed} # {}
        THEN [canProceed |-> FALSE,
              reason |-> checks[Min({i \in DOMAIN checks : ~checks[i].passed})].code,
              ran |-> Min({i \in DOMAIN checks : ~checks[i].passed})]
        ELSE [canProceed |-> TRUE, ran |-> Len(checks),
              reason |-> IF Confident(q.node) THEN "ALLOWED" ELSE "ALLOWED_BY_WAIVER"]
  BY Zenon DEF Decision
<1> HIDE DEF checks
<1>4. Decision(q) =
        IF Fails(q) # {}
        THEN [canProceed |-> FALSE, reason |-> checks[Min(Fails(q))].code,
              ran |-> Min(Fails(q))]
        ELSE [canProceed |-> TRUE, ran |-> 7,
              reason |-> IF Confident(q.node) THEN "ALLOWED" ELSE "ALLOWED_BY_WAIVER"]
  BY <1>1, <1>2, <1>3
<1> QED
  BY <1>4 DEF checks

\* The fourth check alone reads the task: where it alone was failed without one, the
\* waiver rescues; where another failed before it, the answer is the same.
LEMMA DecisionEarned ==
  ASSUME NEW q \in Questions
  PROVE  /\ Decision(q).canProceed <=> CanProceed(q.node, q.task, q.contested)
         /\ \/ Decision(q) = Decision(Bare(q))
            \/ /\ Decision(Bare(q)).reason = "LOW_CONFIDENCE"
               /\ Decision(q).reason # "ALLOWED"
<1> DEFINE b == Bare(q)
           first == Min(Fails(q))
           firstBare == Min(Fails(b))
<1>1. b.node = q.node /\ b.contested = q.contested /\ b.task = NoTask
  BY DEF Bare, Questions
<1>2. \A i \in 1 .. 7 : i # 4 => (i \in Fails(q) <=> i \in Fails(b))
  BY <1>1, TaskMovesOne DEF Fails
<1>3. 4 \in Fails(q) => 4 \in Fails(b)
  <2>1. ConfidencePassed(q.node, NoTask) => ConfidencePassed(q.node, q.task)
    BY DEF ConfidencePassed, Waived, WaiverIntact, NoTask
  <2> QED
    BY <1>1, <2>1, ChecksRead DEF Fails
<1>4. 4 \in Fails(b) => ~Confident(q.node) \/ q.node.conf = NoConfidence
  BY <1>1, ChecksRead DEF Fails, ConfidencePassed
<1>5. /\ Fails(q) \subseteq 1 .. 7 /\ Fails(b) \subseteq 1 .. 7
      /\ Fails(q) # {} => first \in Fails(q) /\ \A i \in Fails(q) : first <= i
      /\ Fails(b) # {} => firstBare \in Fails(b) /\ \A i \in Fails(b) : firstBare <= i
  <2>1. Fails(q) \in SUBSET Nat /\ Fails(b) \in SUBSET Nat
    BY DEF Fails
  <2> QED
    BY <2>1, FirstFailure DEF Fails
<1>6. Decision(q).canProceed <=> CanProceed(q.node, q.task, q.contested)
  BY DecisionRead, AllPassed
<1>7. CASE 4 \notin Fails(b) \/ 4 \in Fails(q)
  <2>1. Fails(q) = Fails(b)
    BY <1>2, <1>3, <1>5, <1>7
  <2>2. Fails(q) # {} => Checks(q.node, q.task, q.contested)[first].code
                           = Checks(b.node, b.task, b.contested)[first].code
    BY <1>1, <1>5, TaskMovesOne
  <2> HIDE DEF b
  <2>3. Decision(q) = Decision(b)
    BY <1>1, <2>1, <2>2, DecisionRead
  <2> QED
    BY <1>6, <2>3 DEF b
<1>8. CASE 4 \in Fails(b) /\ 4 \notin Fails(q)
  <2>1. CASE firstBare = 4
    <3>1. Decision(b).reason = "LOW_CONFIDENCE"
      BY <1>1, <1>8, <2>1, DecisionRead, TaskMovesOne
    <3>2. CASE Fails(q) # {}
      <4>1. first \in 1 .. 7
        BY <3>2, <1>5
      <4>2. Decision(q).reason = Checks(q.node, q.task, q.contested)[first].code
        BY <3>2, DecisionRead
      <4> QED
        BY <3>1, <4>1, <4>2, <1>6, TaskMovesOne
    <3>3. CASE Fails(q) = {}
      <4>1. q.node.conf # NoConfidence
        BY <1>8, ChecksRead DEF Fails, ConfidencePassed
      <4>2. Decision(q).reason = "ALLOWED_BY_WAIVER"
        BY <3>3, <4>1, <1>4, <1>8, DecisionRead
      <4> QED
        BY <3>1, <4>2, <1>6
    <3> QED
      BY <3>2, <3>3
  <2>2. CASE firstBare # 4
    <3>1. firstBare \in Fails(q) /\ first = firstBare
      BY <1>2, <1>3, <1>5, <1>8, <2>2
    <3>2. Checks(q.node, q.task, q.contested)[first].code
            = Checks(b.node, b.task, b.contested)[first].code
      BY <1>1, <1>5, <3>1, TaskMovesOne
    <3> HIDE DEF b
    <3>3. Decision(q) = Decision(b)
      BY <1>1, <1>5, <1>8, <3>1, <3>2, DecisionRead
    <3> QED
      BY <1>6, <3>3 DEF b
  <2> QED
    BY <2>1, <2>2
<1> QED
  BY <1>7, <1>8

\* Each logged decision is the one its question calls for.
LogInv ==
  /\ asked \in Seq(Questions)
  /\ DOMAIN gateDecisions = DOMAIN asked
  /\ \E S : gateDecisions \in Seq(S)
  /\ \A i \in DOMAIN asked : gateDecisions[i] = Decision(asked[i])

(* Whatever is asked, a node proceeds just when it passes all seven checks, *)
(* and the review task changes no answer but LOW_CONFIDENCE, nor turns that  *)
(* into an earned ALLOWED (should_unlock_next_stage,                        *)
(* _check_confidence_above_threshold).                                      *)
THEOREM VerdictsAreEarned == LogSpec => []VerdictIsEarned
<1>1. LogInit => LogInv
  BY DEF LogInit, LogInv
<1>2. LogInv /\ [LogNext]_logVars => LogInv'
  <2> SUFFICES ASSUME LogInv, [LogNext]_logVars PROVE LogInv'
    OBVIOUS
  <2>1. CASE UNCHANGED logVars
    BY <2>1 DEF logVars, LogInv
  <2>2. ASSUME NEW q \in Questions, ShouldUnlockNextStage(q) PROVE LogInv'
    <3>1. PICK S : gateDecisions \in Seq(S)
      BY DEF LogInv
    <3> DEFINE d == Decision(q)
    <3>2. gateDecisions' = Append(gateDecisions, d) /\ asked' = Append(asked, q)
      BY <2>2 DEF ShouldUnlockNextStage
    <3> HIDE DEF d
    <3>3. gateDecisions' \in Seq(S \cup {d}) /\ asked' \in Seq(Questions)
      BY <3>1, <3>2 DEF LogInv
    <3>4. Len(gateDecisions) = Len(asked)
      BY <3>1 DEF LogInv
    <3>5. DOMAIN gateDecisions' = DOMAIN asked'
      BY <3>1, <3>2, <3>4 DEF LogInv
    <3>6. \A i \in DOMAIN asked' : gateDecisions'[i] = Decision(asked'[i])
      <4>1. ASSUME NEW i \in DOMAIN asked' PROVE gateDecisions'[i] = Decision(asked'[i])
        <5>1. CASE i \in DOMAIN asked
          BY <5>1, <3>1, <3>2 DEF LogInv
        <5>2. CASE i \notin DOMAIN asked
          <6>1. asked'[i] = q /\ gateDecisions'[i] = d
            BY <5>2, <3>1, <3>2, <3>4 DEF LogInv
          <6> QED
            BY <6>1 DEF d
        <5> QED
          BY <5>1, <5>2
      <4> QED
        BY <4>1
    <3> QED
      BY <3>3, <3>5, <3>6 DEF LogInv
  <2> QED
    BY <2>1, <2>2 DEF LogNext
<1>3. LogInv => VerdictIsEarned
  <2> SUFFICES ASSUME LogInv, NEW i \in DOMAIN gateDecisions
               PROVE  LET bare == Decision([asked[i] EXCEPT !.task = NoTask])
                      IN /\ gateDecisions[i].canProceed
                              <=> CanProceed(asked[i].node, asked[i].task, asked[i].contested)
                         /\ \/ gateDecisions[i] = bare
                            \/ /\ bare.reason = "LOW_CONFIDENCE"
                               /\ gateDecisions[i].reason # "ALLOWED"
    BY DEF VerdictIsEarned
  <2>1. asked[i] \in Questions /\ gateDecisions[i] = Decision(asked[i])
    BY DEF LogInv
  <2> QED
    BY <2>1, DecisionEarned DEF Bare
<1> QED
  BY <1>1, <1>2, <1>3, PTL DEF LogSpec
=============================================================================
