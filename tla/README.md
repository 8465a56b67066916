# Verification of the research graph engine

TLA+ models of the research graph engine, the TLC runs that check them on small
instances, and TLAPS proofs of what matters most for instances of any size. Every
definition is read off the Python source; `PROJECT.json` says, definition by
definition, which lines it stands for.

## The system

A research graph holds papers, extraction jobs, the content jobs produced, review
tasks, conflicts between claims and memory records. Workers that read papers are not
trusted: what they return becomes part of the graph only through one writer and one
gate.

| component | state | operations | talks to |
|---|---|---|---|
| workflow gate (`research_graph_gates.py`) | the log of decisions | `should_unlock_next_stage`, `report` | reads the graph it is handed |
| worker spawner (`research_graph_workers.py`) | the graph's jobs, tasks, content, conflicts | `spawn`, `admit`, `approve_review`, `reject_review` | asks the gate, calls `detect_conflicts_in_graph` |
| task DAG and scheduler (`task_graph.py`) | nodes, edges, result sets, spans | `add_task`, `add_dependency`, `run` | calls executors from a thread pool |
| specialist pipeline (`specialist_review.py`) | verdicts, the envelope, reports | run, resume, diagnose | spawner, scheduler, memory |
| action policy (`action_policy.py`) | the list of decisions | authorise, approve an escalation | spawner, worker, memory |
| graph memory (`graph_memory.py`) | memory records and their edges | `record_*`, `retract_memory_record`, lookups, trust scores | reads the statuses of nodes |
| governance simulation (`governance_sim.py`) | proposals, audit log, events, canonical state | create, decide, commit, projections | stands alone |
| orchestrator (`graph_orchestrator.py`) | none between calls | `run_paper`: spawn, work and admit per extraction type, a report | spawner, a worker |
| workers (`ReferenceWorker` in `research_graph_workers.py`, `llm_worker.py`) | none between calls | `run`: a loop over what is found in a text | answer a directive with an envelope |
| cycle detection (`graph_algorithms.py`), conformance (`task_conformance.py`), queries (`graph_queries.py`) | none | pure functions | read a graph or a run's result; the blocked-job queries ask the gate |
| verification, evals, web pages, ingestion, reports | none, or files | scoring, printing | feed the spawner or read the graph |

What is hard in it:

* one id can stand for two job nodes after a second `spawn`, and half of the code
  finds the first of them and half the last;
* envelopes arrive late, twice, after retries, and name content that is already
  there; reviewers approve, reject and waive in any order, over one shared task;
* contradictions show up only when the second claim lands, from whatever job;
* tasks of a round run in a pool of threads, with retries whose budget depends on the
  failure, and a failure must stop exactly what depends on it;
* decisions on a proposal keep arriving after it is committed, and an approved
  proposal stays approved;
* a worker may raise half-way through a paper, and the envelope it returns is refused as
  a whole for one bad item;
* a job's status is what the gate said when it was last asked, and queries ask it again;
* a pipeline can fail at any of its four tasks and be resumed from a report whose
  verdicts are older than the graph, or resumed twice;
* what is remembered about a node is judged by what has become of the node since, and
  can be retracted, as can the retraction.

`PROJECT.json` lists these as hazards, each at its line, with the property that would
catch it going wrong.

## The modules

| module | models | checked by |
|---|---|---|
| `Gate` | the seven checks of the gate, in order, and the waiver rules, as operators on what the gate sees of a node and its review task | through the modules that extend it |
| `GateLog` | a gate object in use: any question, every decision logged | `MCGateLog` |
| `ExtractionWorkflow` | the spawner: jobs, review tasks, content, conflicts; each operation one action with the gate's verdict inside it | `MCWorkflow` |
| `ContentLedger` | the abstract promise: content lands whole, has one producer for good, and is endorsed only by a review of that producer | refined by `ExtractionWorkflow` |
| `TaskScheduler` | the DAG's construction and the scheduler's main thread and pool threads | `MCScheduler` |
| `TaskConformance` | the conformance gate over what a run of the scheduler leaves, and the confidences executors report | `MCScheduler` |
| `TaskRun` | the abstract promise: start after what is needed, settle once, skip only what cannot run | refined by `TaskScheduler` |
| `Governance` | proposals, decisions, commits, event store, canonical state, one shadow | `MCGovernance` |
| `CycleSearch` | the depth-first walk of `detect_cycles`, a step for each turn of its loops | `MCCycles` |
| `Envelope` | what `_verify_envelope` finds wrong with an envelope, and how `classify_rejection` classes it; no variables | through `Workers` |
| `Workers` | both workers at work on a directive, a step for each turn of the loop | through `Orchestrator` |
| `Orchestrator` | `run_paper`: it calls the spawner and a worker in turn, as a layer over `ExtractionWorkflow` | `MCOrchestrator` |
| `Inspection` | the queries about what is blocked and what contradicts what, over `ExtractionWorkflow` | `MCOrchestrator` |
| `PolicedExtraction` | an action policy before and after the worker, as a layer over `ExtractionWorkflow` | `MCPoliced` |
| `SpecialistPipeline` | runs, failures, diagnosis and resumes of the four roles, as a layer over `ExtractionWorkflow` | `MCPipeline` |
| `GraphMemory` | memory records and their edges, retraction, the lookups and the tally of trust | `MCMemory` |
| `*_proofs` | the theorems of the module they are named after | TLAPS |

`GateLog` and `ExtractionWorkflow` both extend `Gate`, so the verdict that decides
whether a job is held is the verdict `MCGateLog` examines question by question. The names
of `GateLog` (`gateDecisions`, `LogSpec`) are its own, so that one module can extend it
beside the workflow.
`PolicedExtraction`, `SpecialistPipeline` and `Orchestrator` extend `ExtractionWorkflow`:
what the code calls of the spawner is the spawner's own action there, and what holds of
the spawner carries over because each adds steps of the workflow only (`Additive`,
`PipelineAdditive`, `OrchestratorAdditive`). `CycleSearch!HasCycle` is what
`TaskScheduler!HasCycle` says, with `Edge` for the dependencies: the scheduler's model may use what the walk decides,
because the walk is proved to decide it.

### State and actions against the code

`ExtractionWorkflow` keeps, for each slot (a paper and an extraction type, which
determine the job's id), the sequence `jobs[s]` of job nodes with that id. `First` is
what `approve_review` and `reject_review` find with `next(...)`, `Latest` what
`graph.index()` gives `admit`. `produced[s]` are the PRODUCES edges, shared by all the
job nodes of the slot, and `task[s]` the review task, keyed by the id. Python runs each
of these operations to its end on one thread, so each is one action:
`Spawn`; `AdmitWorkerFailure`, `AdmitRejected` and `AdmitAccepted`, the three ways
through `admit` (`AdmitAccepted` includes landing, conflict detection, the gate's
verdict and `_open_review`); `ApproveReview`; `RejectReview`. `ResolveConflict` is the
human who settles a contradiction: the schema has the field and the gate reads it, but
no code under `src/` sets it. An envelope is seen through its status, the set of nodes
it names, and whether it passes the checks that look at nothing but itself.

`TaskScheduler` splits the pool thread's `run_one` where another thread can see it:
taking the task (`Begin`), each return of the executor (`ExecutorReturns`,
`ExecutorRaises`) and the section under the lock (`Record`). The main thread's round is
`StartRound`, the join `EndRound`, and the two ways out `SkipRemaining` and `Return`.

`TaskConformance` adds what the conformance gate needs besides: the confidence an
executor's last return left on its task's span.

`Workers` goes through the list of items a worker finds in a text. What is found (the
sentences the regular expressions match, the model's answer) is an input, and an item is
seen through the id its node would get, its confidence, and how far the loop gets with
it: a sound node, a skip, a field of the wrong type, an exception. Each turn of the loop
is an action and answers with a trace. `Orchestrator` keeps where `run_paper` is
(`stage`), the slots still to do (`call`), the report so far and how the last run of each
paper ended. Its steps are `RunPaper`, the spawn (`SpawnAndWork`, or `SpawnAndFail` when
the worker fails as a whole), the worker's turns, `AdmitNext`, and the two ways out:
`RunReturns` and `RunRaises`, an exception that neither the worker nor `run_paper`
catches. `run_paper` runs in one thread, so humans and other callers (`Beside`) act
between runs only. `Inspection` has the queries as operators over the workflow's state.

`Governance` follows `create_proposal`, `decide`, `commit`, `shadow_create` and
`shadow_update`; a call that raises changes nothing and is no step. `commit` is handed the
proposal and a decision, and looks at the proposal's status and version only: `Commit`
takes any decision there is, one that denied or is about another proposal included.

`PolicedExtraction` has the list of decisions, the records they leave in memory, and
`executions`: what a caller holds once an action was let through. The open path
(`AuthorizeThenSpawn`, `ApproveEscalatedAction`, then the caller's own `AdmitByCaller`)
and the closed one (`ExecuteThenAdmit`, `Withhold`, `ApproveEscalatedOutcome`) are both
there, with the workflow's reviews in between. An approval of an action looks at the
decision's verdict and at nothing else, so a decision may be approved twice, and one about
an outcome be approved as an action. Rules are functions from actions or
envelopes to an opinion; a verdict is the fold the code makes over them.

`SpecialistPipeline` keeps the reports a caller has been given, the last of them perhaps
of a run in progress. Each task is an action, enabled by the scheduler's rule (`Ready`);
`Resume` is `resume_specialist_pipeline`, with a classifier and its `retryable_classes`
or without, which differ in what they call stale. A judge that raises
(`ReviewerJudgeRaises`, `RaiseAgain`) does so before `admit` has changed the graph, but may
have recorded its disagreement by then. Callers run one pipeline at a time, since the code holds
no lock on the graph. A report may be resumed
any number of times, for a resume leaves no mark on it.

`GraphMemory` numbers the records, which are nodes too and so can be what other records
are about. Each `record_*` is an action and all end in `Write`. `StatusChanges` is what
the spawner does to the nodes meanwhile, claims and other nodes among them; the tally of
trust reads the statuses, and `ValidEdge`, what `validate_edge` asks of an edge, the types. What
is made of the tally, a rounded ratio, is left out.

`CycleSearch` keeps the chain of `visit` calls in progress as `path`, and `at`, how far
each is in its loop. Any key may be the next root, for the order of the keys is the
order in which the edges were added.

## The runs

| run | what it asks | bounds |
|---|---|---|
| `gate_log` | does the short-circuited verdict agree with the seven checks, and can a waiver change anything but LOW_CONFIDENCE? | every question over confidences at, above and below both limits; one decision, since a decision depends on nothing logged before |
| `workflow_orchestrated` | the documented use, with an orchestrator: is its report true also when a worker raises, is every refusal foreseeable, do failures own nothing, does a status part from the gate over contradictions only? | one paper with two types, texts of up to two items of every form, either worker, with and without a cap and a floor; another caller with retries whose claim contradicts the paper's; a reviewer; nodes above, between and below the limits; one spawn and one envelope a slot |
| `workflow_respawned` | what holds however often slots are spawned, envelopes put and reviews changed | two slots whose claims contradict each other, two spawns and two envelopes a slot, one reviewer |
| `respawned_review`, `retried_failure` | findings: see below | the smallest instance that shows them |
| `scheduler` | do threads keep the order, the budgets and the promise of `TaskRun`, does the run end, and does the conformance gate complain for the one reason it should? | every relation over three tasks, also the cyclic ones, on two threads, with budgets by failure class | three tasks give chains, forks, joins and cycles; two threads race; labels with two, no and the default one retry; every task returns with a confidence or without |
| `governance` | stale, repeated and overridden decisions and commits | two proposals, two keys, four audit records: enough for approve, override, approve again, commit |
| `policed` | does anything run or land against a rule, and is every job accounted for? | one free and one escalated slot, two action rules, three outcome rules, three decisions, two envelopes a slot: block, escalate and approve on both paths, and approve an outcome again |
| `pipeline_resumed` | do reports tell what landed, over any failures and resumes? | two slots whose claims contradict each other, three reports: a run, a run of the other slot in between, a resume; or a report resumed twice |
| `memory` | do the ways to look up a record agree, does `validate` accept its edges, is a retraction final, does a dispute have one winner? | three records about a node (a job, a claim or another) or each other: a record, its retraction, the retraction of that |
| `humans_disagree` | a finding: see below | the same with two records and the reviewers' own words |
| `cycles` | does the walk find a cycle just when there is one? | every graph over three nodes, two edges a node, in either order, repeats and self-loops |

`workflow_respawned` and `pipeline_resumed` take the two slots as symmetric: all their
properties are of safety and treat slots alike, and the constants name neither. The
workflow's property that fails once a slot is answered twice, `FailedOwnsNothing`, is asked
in `workflow_orchestrated`, where a slot is not. Up to two items a text are enough for a cap of one to be met and
passed, for an id found twice, and for an exception after a node was emitted; two types
for a run that raises before, between and after admissions. The gate of
`pipeline_resumed` does not require a review, so that a contradiction is the one thing
that can hold a batch.

Deadlock is not checked where the bounds, or the code itself, let the system stop: a
full log, every envelope put, a run or a walk that is done.

Fairness is assumed in one place. `TaskScheduler!Fairness` is weak fairness of the
main thread and of each pool thread: the operating system schedules every thread, and
the executor's call returns or raises. `ConformSpec`, which the run checks, states it of
the same threads with their confidences added. `RunEnds` rests on it. Safety runs need none,
and the violations are all of safety properties.

Proved and not checked again are the type invariants `TypeOK` of the workflow, the
scheduler and governance, `PipelineTypeOK`, `MemoryTypeOK` and `SearchTypeOK`, and
`PathIsGray`, `OneSpanEach`, `SkippedHaveCulprits`, `ReviewedMeansAnswered` and
`SoleProducer` (the last two also follow from `LedgerSpec`) and `PolicyTypeOK`; each can be added to
a run's configuration.

## What is proved

The proofs hold for any sets of slots, nodes, reviewers, tasks, keys and payloads and
any bounds, under the named `ASSUME` of each module only; a theorem that needs more of its
constants says so in its statement. Every property that a passing run checks is stated by
a theorem, but for `RunEnds`.

* `ExtractionWorkflow_proofs`. `Safe` adds to the type invariant that a slot with a
  task or content has a job, which the review actions need to find one. `ContentInv`
  strengthens `SoleProducer` and `ReviewedMeansAnswered` with the fact that only landed
  content is marked reviewed: otherwise a new node could arrive already marked. The
  refinement of `ContentLedger` follows from the same facts about a step.
  `ApprovedIsBacked` is proved from what an approval checks and what other steps leave
  alone; `ConflictsRecorded` and `HeldHasReview` are inductive over `Safe`. `UnlockIsClean`
  is an action property: what a job that advances has then, for reviews and admissions
  alike, is what the gate asked for in that very step, read off the state the step leaves. `SpawnerPromises` puts all of it in one
  formula, which `PromisesKept`, `PipelinePromises` and `OrchestratedPromises` carry over
  to the layers: each layer's steps are steps of the workflow.
* `TaskScheduler_proofs`. `Standing` says how `thread`, `status`, `remaining` and the
  result sets go together; `DepsDone` then gives `NoEarlyStart`, and further parts give
  spans, culprits (by the minimal failing ancestor of an acyclic DAG) and budgets. The
  refinement of `TaskRun` uses all of them, and so does `ConformanceExact`: a run that is
  done has its spans, statuses and result sets in order, so of the gate's checks only the
  one about confidences can fail. `RunWearsDown` is why a run ends: the steps of five
  kinds that the tasks have ahead of them, and the executor calls that some budget still
  grants, are finite sets; no step of a run adds to either, and each takes from one or
  ends the run. That the second set is finite is where the assumption that the retry
  policy, a dict, has finitely many labels is needed: with infinitely many, budgets could
  grow for ever. `NoRoundStalls` adds that a round which is out always has a thread that
  can go on. What is missing to `RunEnds` is that a thread which can go on does,
  the fairness.
* `Orchestrator_proofs`. `Loop` says of a worker amid its loop that every node has its
  trace, traces name nodes only, the limits are kept, and what only a model gets wrong the
  reference worker does not; `RefusedAsForeseen` follows at its end, for any text.
  `InCall` ties `run_paper` to it, and gives that each step is one of the workflow or
  leaves it alone. The properties that fail once a slot is spawned or answered twice are
  proved for the use the orchestrator makes of a new paper: a slot is `Fresh`, `Waiting`
  (spawned, not answered) or `Over`, and `Once` says what its job, its task and its
  content look like in each. That failed jobs own nothing and that drift is a
  contradiction is proved where every slot is used so, `MaxSpawns = 1` and
  `MaxAdmits = 1`: with `MaxAdmits` raised in its cfg, `workflow_orchestrated` fails on
  both. For reports `MaxSpawns = 1` alone is enough: `RunsOnce` asks `Once` of the
  orchestrated slots only, whatever envelopes other callers put to their own.
  `Reporting` says of each slot of a paper where it stands in the run, `Reported`,
  `Midway` or not reached, and that reviews and other callers keep what a report tells.
* `Governance_proofs`. `Typed` adds that events and decisions refer to proposals that
  exist. `History` (the state is the replay of the events, and each proposal is behind
  one event at most, on top of all it had read) is inductive. `Answerable` strengthens
  `CommitsAnswerable` with `ApprovedByGovernor`: an approved proposal is one whose
  latest decision is a governor's approval, whatever decision its commit is given.
* `CycleSearch_proofs`. `Walk` says that the path follows edges, so what is cut out of
  it is a cycle. For the converse, `Explored`: while nothing has been reported, the
  neighbors a node is done with are BLACK or further down the path. So a node is left
  only when its neighbors are BLACK, no set of BLACK nodes waits for itself, and at the
  end all keys are BLACK. This is the whole of the walk's partial correctness, for any
  graph. `SearchEnds` adds that on a finite graph each step leaves fewer nodes unseen,
  fewer unfinished or fewer places of the neighbor lists ahead, so the walk does end.
* `PolicedExtraction_proofs`. Each action of the layer is a step of the workflow or
  leaves it alone, so the workflow's theorems hold of policed callers whatever the rules
  are. `JobsAccountedFor` counts: every job node has one record that let it start.
  `RunsAsRuled` and `ContentAsRuled` rest on what the fold over the rules comes to
  (`FoldVerdict`): blocked if some rule blocks, else escalated if some escalates, else
  allowed, whatever their order. That is an induction over the list, made without the
  library's induction theorems, which take an operator. The fold is a recursive function
  on the sets of positions; the verdict read off a set satisfies the same recursion, so
  such a function exists; and it is the only one, because the strict subset order of a
  finite set is well-founded, and a smallest set where another function differs cannot
  be. `RuledInv` then says of each decision that it is the rules' verdict, of each
  execution that it runs and stands where the verdicts let it, and of each node of a job
  that an execution landed it. `VerdictsAreEarned`, about `GateLog`, is here as well: the
  gate too makes one verdict of a list, and the first check that fails is its reason.
* `SpecialistPipeline_proofs`. Additive in the same way. Reports stay well formed
  (a judge that is all there is to redo left an envelope and both verdicts), and what a
  report says of its judge is what the judge did: `LandedAsReported` is inductive once it
  is known which slots hold what no report tells. `DivergenceIsRefused` follows from a
  divergent node being on record already, so that its batch is refused as a duplicate, by
  its judge and by every resume;
  `ContestedIsHeld` from the gate reading the conflicts after they were recorded.
  `DisagreementsReported` rests on `DisagreementInv`: a report that is not done lists no
  record, so each record is put down to a report that lasts, and the records in no report
  are no more than the judges that failed, which `WriteCounted` counts. `DiagnosisComplete`
  follows from `Shape`, the few ways the tasks of a run can stand, which every step and
  every resume keeps. `VerdictForetells` needs `Abreast`: while a pipeline runs the graph
  has the content it had when the pipeline began, because the judge alone adds to it.
* `GraphMemory_proofs`. `Linking`: of the kinds that are looked up by edge, a record has
  one edge of its type, to its subject. One lemma about `Write` carries it over all
  record functions, and `QueriesAgree` and `RetractionIsFinal` follow. `Standing` says that
  the ends of every edge are there and which records the edges with an endpoint contract
  lead to; nodes do not go away, so it lasts, and it gives `EdgesAreValid`.
  `RetractionDiscounts` compares the votes before and after a retraction as sets, and
  counts what is left. `OneSideIsRight` pairs each decided dispute with the one vote that
  agrees with the outcome. It has a hypothesis: the sides of every dispute say "pass" and
  "fail". `humans_disagree` shows it is needed.

Model-checked only: `RunEnds`, since liveness and `ENABLED` are beyond the prover; what of
it is of safety is proved, as said above. The counterexamples of the findings are TLC's
too.

## Findings

Each has a run that ends in a counterexample.

* `respawned_review`: after a second spawn a review re-evaluates the wrong job node and
  clears a low confidence without a waiver.
* `retried_failure`: an envelope from a retry that reports failure is admitted.
* `humans_disagree`: the trust tally knows the verdicts "pass" and "fail" only, and holds
  any other word to be wrong, such as the "accept" and "reject" of the module's example.

## Observations

What the code also allows, seen while modelling it, and no run shows:

* the judge records a disagreement, calls `admit` and reports after: when `admit` raises,
  the record is in no report, and a resume records the same disagreement once more
  (`specialist_review.py:284`, 396, 422, 673). `DisagreementsReported` allows for one such
  record a failed judge;
* a second envelope of a job that was reviewed advances on the review of the first, though
  nobody has seen what it brought (`research_graph_workers.py:425`); `AdvancedIsReviewed`,
  added to `WorkflowRespawned.cfg`, fails. `UnlockIsClean` says what the gate still asks
  of it: no open conflict, and a confidence that is earned or waived;
* a waiver stays on the task when a later reviewer approves plainly, and the gate then
  credits it to that reviewer (`research_graph_workers.py:493`);
* an escalated outcome approved twice is admitted twice, and the second admission fails
  the job on account of its own nodes (`action_policy.py:467`); `FailedOwnsNothing`, added to
  `Policed.cfg`, fails. A report resumed twice does the same (`specialist_review.py:664`,
  the same property in `PipelineResumed.cfg`);
* `commit` never looks at the decision it is handed, so an event's provenance may cite a
  denial, a decision since overruled, or one about another proposal
  (`governance_sim.py:165`); `CommitsAnswerable` says that a governor's approval stood all
  the same;
* an agent's approval makes a committed proposal tentative again
  (`governance_sim.py:151`);
* a batch that was approved counts as a failure in the trust tally once the paper's
  pipeline is run again, for the repeat is refused and is the last job node with the id
  (`graph_memory.py:518`);
* running `run_paper` again on the same paper fails every job that had output: the ids are
  there already, and the failed node is the one the index then finds
  (`research_graph_workers.py:392`);
* a run that raised leaves its job queued for good (`llm_worker.py:232`): the parse of the
  model's answer is guarded, the loop over its items is not, and the check in between
  looks at the list and not at its items;
* an item the model worker skips leaves a trace with its confidence all the same: one such
  out of range gets the whole envelope refused (`llm_worker.py:234`);
* the reference worker's loop over sentences ignores `max_results`, and gives a sentence
  that occurs twice one id twice (`research_graph_workers.py:625`); each makes the spawner
  refuse the envelope;
* the default extraction types include BENCHMARKS, which the model worker never supports,
  so a report of its defaults never has all admitted (`llm_worker.py:206`);
* a node confidence out of range is classed `capacity_violation`, not the
  `reparable_field_error` the docstring of `classify_rejection` lists it under;
* a second envelope overwrites the traces of the first on the job;
* approve, then reject, leaves `human_reviewed` set on the job: the gate, asked again, lets
  the rejected job through and `blocked_jobs` omits it (`graph_queries.py:132`); the run's
  `DriftExplained` speaks of the statuses that do not end in `rejected`;
* `claims_for_paper` follows PRODUCES edges from the paper, which the spawner only gives
  jobs, so it finds nothing of what the spawner admitted;
* `ResearchGraph.validate` does not notice ids that occur twice, as a respawn makes them;
* `record_claim_decision` asks only that its node is there: a decision on what is no claim
  leaves a `SUPPORTED_BY` or `REJECTED_BECAUSE` edge that `validate` refuses ever after.
  The comment on `EDGE_ENDPOINT_CONTRACT` says memory only ever uses them from claims;
  `EdgesAreValid` says that this is the one way memory can make a graph invalid
  (`graph_memory.py:206`);
* an action a human approved runs outside the closed loop: the outcome rules never see
  what its worker returned (`action_policy.py:367`);
* `detect_cycles` calls itself once per node of a chain, so a chain of about a thousand
  tasks ends in a `RecursionError` (`graph_algorithms.py:33`);
* an unlisted extraction method weighs 0.5 in the weighted trust score, more than three
  listed ones, where the docstring promises the least (`graph_memory.py:605`).

## Not modelled

* `claim_verification.py` scores a text; the gate sees its verdict only, the `entailed`
  field of a node, which is an input.
* `graph_evals.py`, `run_report.py`, `graph_inspector.py`, `graph_roadmap.py` and
  `webapp.py` read a graph, or files, and print; they change no state of the system.
* `arxiv_ingest.py` is HTTP and XML parsing; its one state change is to append papers whose
  ids are new.
* `literature_corpus.py`, the golden fixtures and the stress corpus are data.
* The model's prompts and its call, the regular expressions and their scores: what is found
  in a text is an input of `Workers`.
* Wording, timestamps and ids' spelling: ids are model values.

Not covered within what is modelled: the trust scores' ratios and their weighting by
provenance, the confidence figures that memory records copy, the check of a span's clocks
in `check_conformance`, text search and the router of the queries, the depth Python's
stack allows `detect_cycles`, two memory records written in the same microsecond (their
ids coincide), and pipelines run from several threads over one graph.

## Plan

Done, in this order: the gate, the spawner and its abstract ledger, the scheduler and
its abstract run, governance, the action policy, the specialist pipeline, graph memory,
cycle detection, the orchestrator with its workers, the queries about blocked jobs, and
the conformance gate, with the theorems above. What is left:

1. The schema's `validate` over the spawner's graph, as `EdgesAreValid` does for memory:
   that what the operations build is a valid graph.
2. `SpecialistPipeline` over the real `TaskScheduler` in place of `Ready`, the two roles
   of the middle round on two threads, and a refinement to show that nothing is lost by
   the atomic tasks of the present module.
3. `GraphMemory` written to by the pipeline and the policy in one composition, so that
   trust scores are computed from disagreements a run has recorded.
4. Proofs: that a run of `Orchestrator` and of `SpecialistPipeline` ends, as `RunWearsDown`
   says of the scheduler; what a shadow of `Governance` may hold, to be stated first.
