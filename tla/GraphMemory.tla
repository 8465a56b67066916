------------------------------ MODULE GraphMemory -----------------------------
(***************************************************************************)
(* graph_memory.py: memory records are nodes of the graph, linked by typed  *)
(* edges to what they are about.  Records and edges are only ever added;    *)
(* retracting a record adds one more.  The queries and the tally of trust   *)
(* are computed from the graph each time.                                   *)
(*                                                                          *)
(* A memory record is known by its place among the records, any other node  *)
(* by its id.  A node that is no job has no status, and of such nodes the   *)
(* model tells claims from the rest.  A call that raises changes nothing    *)
(* and is no step.                                                          *)
(***************************************************************************)
EXTENDS Naturals, Sequences, FiniteSets

CONSTANTS Subjects,   \* ids nodes may have that are no memory records
          Roles,      \* reviewers
          Verdicts,   \* the words they use
          Disputes,   \* the disagreements anybody has: two reviewers, a verdict each
          MaxRecords  \* bound on the records

Statements == [role : Roles, verdict : Verdicts]

ASSUME MemoryAssumption ==
  /\ Subjects \cap Nat = {}
  /\ Disputes \subseteq [{"a", "b"} -> Statements]
  /\ MaxRecords \in Nat

VARIABLES status,   \* Node.properties["status"] of the nodes that are no records
          records,  \* the memory records, in the order of writing
          edges     \* the edges memory adds to the graph

vars == <<status, records, edges>>

JobStatuses == {"queued", "completed", "held", "approved", "failed", "rejected"}
NoJob == {"claim", "other"}
Statuses == JobStatuses \cup NoJob \cup {"absent"}

\* Records about a node that may be missing; link only if it is there.
Loose == {"task_outcome", "action_policy_decision", "blocked_reason"}
Decisions == {"claim_accepted", "claim_rejected"}
Kinds == Loose \cup Decisions \cup
         {"confidence_divergence", "reviewer_disagreement", "repair_pattern",
          "memory_retracted"}

NoDispute == <<>>
Ids == Subjects \cup 1..MaxRecords
Records == [kind : Kinds, subject : Ids, dispute : Disputes \cup {NoDispute}]
EdgeTypes == {"supported_by", "rejected_because", "disagreed_on", "repaired_via",
              "derived_from"}
Edges == [source : Ids, target : Ids, type : EdgeTypes]

-----------------------------------------------------------------------------
(* The queries.                                                            *)

\* What a caller can name; of these, what graph.index() has.
Known == Subjects \cup DOMAIN records
Present(id) == id \in Subjects => status[id] # "absent"

Linked(type, id) == {k \in DOMAIN records : [source |-> k, target |-> id, type |-> type] \in edges}
OfKind(kind) == {k \in DOMAIN records : records[k].kind = kind}

MemoryRecordsFor(id) == {k \in DOMAIN records : records[k].subject = id}
PriorDisagreementsOn(id) == Linked("disagreed_on", id)
\* Mutant: DERIVED_FROM is taken to come from divergence records alone.
ConfidenceDivergenceUnfiltered(id) == Linked("derived_from", id)
ConfidenceDivergenceFor(id) ==
  Linked("derived_from", id) \cap OfKind("confidence_divergence")
ActionPolicyDecisionsFor(id) == MemoryRecordsFor(id) \cap OfKind("action_policy_decision")
RepairPatterns == OfKind("repair_pattern")

\* Mutant: a retraction that is itself retracted no longer holds.
IsRetractedUnlessUndone(id) ==
  \E k \in Linked("derived_from", id) \cap OfKind("memory_retracted") :
    Linked("derived_from", k) \cap OfKind("memory_retracted") = {}
IsRetracted(id) == Linked("derived_from", id) \cap OfKind("memory_retracted") # {}
ActiveMemoryRecordsFor(id) == {k \in MemoryRecordsFor(id) : ~IsRetracted(k)}

-----------------------------------------------------------------------------
(* The validator of edges (validate_edge over graph.index()).  The strength *)
(* of an edge, which it also looks at, is always the default.               *)

Indexed(id) == IF id \in Subjects THEN status[id] # "absent" ELSE id \in DOMAIN records
IsClaim(id) == id \in Subjects /\ status[id] = "claim"

\* EDGE_ENDPOINT_CONTRACT, of the types memory uses.
Contracted == {"supported_by", "rejected_because"}

ValidEdge(e) ==
  /\ Indexed(e.source) /\ Indexed(e.target)
  /\ e.type \in Contracted => IsClaim(e.source) /\ e.target \in DOMAIN records

-----------------------------------------------------------------------------
(* The tally of trust (specialist_trust_scores).                           *)

OutcomeSide(id) ==
  IF id \notin Subjects THEN "open"
  ELSE IF status[id] \in {"completed", "approved"} THEN "pass"
  ELSE IF status[id] \in {"failed", "rejected"} THEN "fail"
  ELSE "open"

\* Mutant: the tally takes retracted disagreements for evidence.
CountedAll == OfKind("reviewer_disagreement")
Counted == {k \in OfKind("reviewer_disagreement") : ~IsRetracted(k)}

\* What r said, one vote a record and side.
Votes(r) == {vote \in Counted \X {"a", "b"} :
               records[vote[1]].dispute[vote[2]].role = r}
SideOf(vote) == OutcomeSide(records[vote[1]].subject)
\* Mutant: both reviewers are held to the first one's verdict.
WordOfFirst(vote) == records[vote[1]].dispute["a"].verdict
Word(vote) == records[vote[1]].dispute[vote[2]].verdict

Undecided(r) == {vote \in Votes(r) : SideOf(vote) = "open"}
Agreements(r) == {vote \in Votes(r) \ Undecided(r) : Word(vote) = SideOf(vote)}
Disagreements(r) == {vote \in Votes(r) \ Undecided(r) : Word(vote) # SideOf(vote)}

-----------------------------------------------------------------------------
(* Writing.                                                                *)

Edge(source, target, type) == [source |-> source, target |-> target, type |-> type]
Fresh == Len(records) + 1

\* The new record and its edges: what every record_* ends with.
Write(kind, id, dispute, links) ==
  /\ Len(records) < MaxRecords
  /\ records' = Append(records, [kind |-> kind, subject |-> id, dispute |-> dispute])
  /\ edges' = edges \cup links
  /\ UNCHANGED status

\* Mutant: the edge is added before anybody looks for the node.
LinkAlways(id) == {Edge(Fresh, id, "derived_from")}
LinkIfPresent(id) == IF Present(id) THEN {Edge(Fresh, id, "derived_from")} ELSE {}

RecordLoose(kind, id) == Write(kind, id, NoDispute, LinkIfPresent(id))

RecordTaskOutcome(id) == RecordLoose("task_outcome", id)
RecordActionPolicyDecision(id) == RecordLoose("action_policy_decision", id)
RecordBlockedReason(id) == RecordLoose("blocked_reason", id)

RecordClaimDecision(kind, id) ==
  /\ Present(id)
  /\ Write(kind, id, NoDispute,
           {Edge(id, Fresh, IF kind = "claim_accepted" THEN "supported_by"
                                                       ELSE "rejected_because")})

RecordDisagreement(id, dispute) ==
  /\ Present(id)
  /\ Write("reviewer_disagreement", id, dispute, {Edge(Fresh, id, "disagreed_on")})

RecordConfidenceDivergence(id) ==
  /\ Present(id)
  /\ Write("confidence_divergence", id, NoDispute, {Edge(Fresh, id, "derived_from")})

RecordRepairPattern(before, after) ==
  /\ Present(after)
  /\ Write("repair_pattern", after, NoDispute,
           {Edge(after, Fresh, "repaired_via")} \cup LinkIfPresent(before))

RetractMemoryRecord(k) ==
  Write("memory_retracted", k, NoDispute, {Edge(Fresh, k, "derived_from")})

\* The workers: a node is added, a job is spawned (also again), admitted or reviewed.
StatusChanges(id, new) ==
  /\ status[id] # new
  /\ status[id] # "absent" => {status[id], new} \subseteq JobStatuses
  /\ status[id] = "absent" => new \in NoJob \cup {"queued"}
  /\ status' = [status EXCEPT ![id] = new]
  /\ UNCHANGED <<records, edges>>

Init ==
  /\ status = [id \in Subjects |-> "absent"]
  /\ records = <<>>
  /\ edges = {}

Next ==
  \/ \E id \in Known : \/ RecordTaskOutcome(id)
                       \/ RecordActionPolicyDecision(id)
                       \/ RecordBlockedReason(id)
  \/ \E kind \in Decisions, id \in Known : RecordClaimDecision(kind, id)
  \/ \E id \in Known, dispute \in Disputes : RecordDisagreement(id, dispute)
  \/ \E id \in Known : RecordConfidenceDivergence(id)
  \/ \E before, after \in Known : RecordRepairPattern(before, after)
  \/ \E k \in DOMAIN records : RetractMemoryRecord(k)
  \/ \E id \in Subjects, new \in Statuses : StatusChanges(id, new)

Spec == Init /\ [][Next]_vars

-----------------------------------------------------------------------------
MemoryTypeOK ==
  /\ status \in [Subjects -> Statuses]
  /\ records \in Seq(Records)
  /\ Len(records) <= MaxRecords
  /\ edges \subseteq Edges

\* Two ways lead from a node to the records about it, by the edge and by the subject
\* the record names, and they lead to the same ones: the disagreements and divergences
\* on a node are those that name it, and a record is retracted just when a retraction
\* names it.  Six kinds of records share the edge DERIVED_FROM.
QueriesAgree ==
  \A id \in Ids :
    /\ PriorDisagreementsOn(id) = MemoryRecordsFor(id) \cap OfKind("reviewer_disagreement")
    /\ ConfidenceDivergenceFor(id) =
         MemoryRecordsFor(id) \cap OfKind("confidence_divergence")
    /\ IsRetracted(id) <=> MemoryRecordsFor(id) \cap OfKind("memory_retracted") # {}

\* What memory adds to a graph leaves it valid, but for one kind of call: the edges
\* validate refuses are those of the decisions that were recorded, as decisions on a
\* claim, about a node that is none (record_claim_decision asks only that it is there).
\* No edge dangles, also where a node came after its first record.
Misfiled == {k \in OfKind("claim_accepted") \cup OfKind("claim_rejected") :
               ~IsClaim(records[k].subject)}
EdgesAreValid ==
  \A e \in edges : ValidEdge(e) <=> ~(e.type \in Contracted /\ e.target \in Misfiled)

\* Nothing brings a retracted record back, a retraction of its retraction included:
\* the lists of active records grow only by the record just written and shrink only
\* by the one just retracted.
ActiveMove(id) ==
  LET gained == ActiveMemoryRecordsFor(id)' \ ActiveMemoryRecordsFor(id)
      lost == ActiveMemoryRecordsFor(id) \ ActiveMemoryRecordsFor(id)'
      new == Len(records')
  IN /\ gained \subseteq {new} \ DOMAIN records
     /\ lost # {} => /\ records'[new].kind = "memory_retracted"
                     /\ lost = {records'[new].subject}
RetractionIsFinal == [][\A id \in Ids : ActiveMove(id)]_vars

\* Who a retraction takes a vote from: the reviewers of the record it names, if that
\* still counted, a vote for each side.  No other reviewer's tally moves.
Takes(r) ==
  LET k == records'[Len(records')].subject
  IN Cardinality({vote \in Votes(r) : vote[1] = k})
RetractionDiscounts ==
  [][/\ Len(records') > Len(records)
     /\ records'[Len(records')].kind = "memory_retracted"
     => \A r \in Roles :
          /\ Cardinality(Votes(r)') = Cardinality(Votes(r)) - Takes(r)
          /\ Agreements(r)' \subseteq Agreements(r)
          /\ Disagreements(r)' \subseteq Disagreements(r)]_vars

\* A dispute has a winner: once the disputed node is settled, one of the two reviewers
\* gains an agreement and the other a disagreement.
Decided(k) == k \in Counted /\ OutcomeSide(records[k].subject) # "open"
OneSideIsRight ==
  Cardinality(UNION {Agreements(r) : r \in Roles})
    = Cardinality({k \in DOMAIN records : Decided(k)})

=============================================================================
