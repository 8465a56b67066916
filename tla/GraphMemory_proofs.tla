-------------------------- MODULE GraphMemory_proofs --------------------------
(***************************************************************************)
(* Every record_* ends with Write, so one lemma carries the invariant over  *)
(* all of them.  The invariant, Linking, says what the edges of a record    *)
(* tell: of the kinds that are looked up by edge, a record has one edge of  *)
(* its type, to its subject.  Standing says that the ends of edges are      *)
(* there, and which records the edges with a contract lead to.  The last    *)
(* part counts votes: what a retraction takes away, and who was right.      *)
(***************************************************************************)
EXTENDS GraphMemory, FiniteSetTheorems, TLAPS

\* The kinds that are looked up by the edge to their subject.
Tied == {"reviewer_disagreement", "confidence_divergence", "memory_retracted"}
Tie(kind) == IF kind = "reviewer_disagreement" THEN "disagreed_on" ELSE "derived_from"
Ties == {"disagreed_on", "derived_from"}

SourcesWritten == \A e \in edges : e.type \in Ties => e.source \in DOMAIN records
DisagreedOnly ==
  \A e \in edges : e.type = "disagreed_on" =>
    records[e.source].kind = "reviewer_disagreement"
TiedToSubject ==
  \A k \in DOMAIN records : records[k].kind \in Tied =>
    \A x \in Ids : Edge(k, x, Tie(records[k].kind)) \in edges <=> x = records[k].subject
Linking == MemoryTypeOK /\ SourcesWritten /\ DisagreedOnly /\ TiedToSubject

\* What the edges of a new record must be for the invariant to last.
Proper(kind, id, links) ==
  /\ links \subseteq Edges
  /\ \A e \in links : e.type \in Ties => e.source = Fresh
  /\ \A e \in links : e.type = "disagreed_on" => kind = "reviewer_disagreement"
  /\ kind \in Tied => \A x \in Ids : Edge(Fresh, x, Tie(kind)) \in links <=> x = id

-----------------------------------------------------------------------------
\* Records and their places.
LEMMA RecordsAreTyped ==
  ASSUME MemoryTypeOK
  PROVE /\ Len(records) \in Nat /\ DOMAIN records = 1..Len(records)
        /\ \A k \in DOMAIN records : records[k] \in Records
        /\ DOMAIN records \subseteq Ids /\ Known \subseteq Ids
        /\ Len(records) < MaxRecords => Fresh \in Ids
        /\ Fresh \notin DOMAIN records
  BY MemoryAssumption DEF MemoryTypeOK, Ids, Known, Fresh

\* The records after one is written.
LEMMA Appended ==
  ASSUME MemoryTypeOK, NEW kind, NEW id, NEW dispute, NEW links,
         Write(kind, id, dispute, links)
  PROVE /\ Len(records') = Fresh
        /\ DOMAIN records' = DOMAIN records \cup {Fresh}
        /\ \A k \in DOMAIN records : records'[k] = records[k]
        /\ records'[Fresh].kind = kind /\ records'[Fresh].subject = id
        /\ records'[Fresh].dispute = dispute
        /\ edges' = edges \cup links
  <1>1. records' = Append(records, [kind |-> kind, subject |-> id, dispute |-> dispute])
    BY DEF Write
  <1>2. records \in Seq(Records)
    BY DEF MemoryTypeOK
  <1>3. /\ Len(records') = Fresh
        /\ DOMAIN records' = DOMAIN records \cup {Fresh}
        /\ \A k \in DOMAIN records : records'[k] = records[k]
        /\ records'[Fresh] = [kind |-> kind, subject |-> id, dispute |-> dispute]
    BY <1>1, <1>2 DEF Fresh
  <1> QED BY <1>3 DEF Write

LEMMA WriteKeeps ==
  ASSUME Linking, NEW kind \in Kinds, NEW id \in Known,
         NEW dispute \in Disputes \cup {NoDispute}, NEW links,
         Proper(kind, id, links), Write(kind, id, dispute, links)
  PROVE Linking'
  <1>1. MemoryTypeOK
    BY DEF Linking
  <1>2. MemoryTypeOK'
    <2>1. [kind |-> kind, subject |-> id, dispute |-> dispute] \in Records
      BY <1>1, RecordsAreTyped DEF Records
    <2>2. records' \in Seq(Records) /\ Len(records') <= MaxRecords
      BY <1>1, <2>1, MemoryAssumption DEF MemoryTypeOK, Write
    <2> QED BY <1>1, <2>2 DEF MemoryTypeOK, Write, Proper
  <1>3. SourcesWritten' /\ DisagreedOnly'
    BY <1>1, Appended DEF Linking, SourcesWritten, DisagreedOnly, Proper, Ties
  <1>4. ASSUME NEW k \in DOMAIN records', records'[k].kind \in Tied, NEW x \in Ids
        PROVE Edge(k, x, Tie(records'[k].kind)) \in edges' <=> x = records'[k].subject
    <2> DEFINE e == Edge(k, x, Tie(records'[k].kind))
    <2>1. e.source = k /\ e.type \in Ties
      BY DEF Edge, Tie, Ties
    <2>2. e \in edges' <=> e \in edges \/ e \in links
      BY <1>1, Appended
    <2>3. CASE k = Fresh
      <3>1. e \notin edges
        BY <1>1, <2>1, <2>3, RecordsAreTyped DEF Linking, SourcesWritten
      <3>2. records'[k].kind = kind /\ records'[k].subject = id
        BY <1>1, <2>3, Appended
      <3> QED BY <1>4, <2>2, <2>3, <3>1, <3>2 DEF Proper
    <2>4. CASE k # Fresh
      <3>1. k \in DOMAIN records /\ records'[k] = records[k]
        BY <1>1, <2>4, Appended
      <3>2. e \notin links
        BY <2>1, <2>4 DEF Proper
      <3> QED BY <1>4, <2>2, <3>1, <3>2 DEF Linking, TiedToSubject
    <2> QED BY <2>3, <2>4
  <1> QED BY <1>2, <1>3, <1>4 DEF Linking, TiedToSubject

-----------------------------------------------------------------------------
LEMMA LinkingFirst == Init => Linking
  BY MemoryAssumption
  DEF Init, Linking, MemoryTypeOK, SourcesWritten, DisagreedOnly, TiedToSubject, Statuses

\* A change of a status leaves the records alone.
LEMMA StatusKeeps ==
  ASSUME Linking, NEW id \in Subjects, NEW new \in Statuses, StatusChanges(id, new)
  PROVE Linking'
  BY DEF Linking, MemoryTypeOK, SourcesWritten, DisagreedOnly, TiedToSubject, StatusChanges

LEMMA LinkingNext == Linking /\ [Next]_vars => Linking'
  <1> SUFFICES ASSUME Linking, [Next]_vars PROVE Linking'
    OBVIOUS
  <1>0. MemoryTypeOK /\ Known \subseteq Ids /\ (Len(records) < MaxRecords => Fresh \in Ids)
    BY RecordsAreTyped DEF Linking
  <1>1. ASSUME NEW kind \in Loose, NEW id \in Known, RecordLoose(kind, id) PROVE Linking'
    <2>1. Proper(kind, id, LinkIfPresent(id))
      BY <1>0, <1>1
      DEF Proper, LinkIfPresent, Edge, Edges, EdgeTypes, Ties, Tied, Loose, RecordLoose, Write
    <2> QED BY <1>1, <2>1, WriteKeeps DEF RecordLoose, Kinds
  <1>2. ASSUME NEW kind \in Decisions, NEW id \in Known, RecordClaimDecision(kind, id)
        PROVE Linking'
    <2> DEFINE links == {Edge(id, Fresh, IF kind = "claim_accepted"
                                         THEN "supported_by" ELSE "rejected_because")}
    <2>1. Write(kind, id, NoDispute, links)
      BY <1>2 DEF RecordClaimDecision
    <2>2. Proper(kind, id, links)
      BY <1>0, <2>1
      DEF Proper, Edge, Edges, EdgeTypes, Ties, Tied, Decisions, Write
    <2> QED BY <2>1, <2>2, WriteKeeps DEF Kinds
  <1>3. ASSUME NEW id \in Known, NEW dispute \in Disputes, RecordDisagreement(id, dispute)
        PROVE Linking'
    <2> DEFINE links == {Edge(Fresh, id, "disagreed_on")}
    <2>1. Write("reviewer_disagreement", id, dispute, links)
      BY <1>3 DEF RecordDisagreement
    <2>2. Proper("reviewer_disagreement", id, links)
      BY <1>0, <2>1 DEF Proper, Edge, Edges, EdgeTypes, Tie, Write
    <2> QED BY <2>1, <2>2, WriteKeeps DEF Kinds
  <1>4. ASSUME NEW id \in Known, RecordConfidenceDivergence(id) PROVE Linking'
    <2> DEFINE links == {Edge(Fresh, id, "derived_from")}
    <2>1. Write("confidence_divergence", id, NoDispute, links)
      BY <1>4 DEF RecordConfidenceDivergence
    <2>2. Proper("confidence_divergence", id, links)
      BY <1>0, <2>1 DEF Proper, Edge, Edges, EdgeTypes, Tie, Write
    <2> QED BY <2>1, <2>2, WriteKeeps DEF Kinds
  <1>5. ASSUME NEW before \in Known, NEW after \in Known, RecordRepairPattern(before, after)
        PROVE Linking'
    <2> DEFINE links == {Edge(after, Fresh, "repaired_via")} \cup LinkIfPresent(before)
    <2>1. Write("repair_pattern", after, NoDispute, links)
      BY <1>5 DEF RecordRepairPattern
    <2>2. Proper("repair_pattern", after, links)
      BY <1>0, <2>1
      DEF Proper, LinkIfPresent, Edge, Edges, EdgeTypes, Ties, Tied, Write
    <2> QED BY <2>1, <2>2, WriteKeeps DEF Kinds
  <1>6. ASSUME NEW k \in DOMAIN records, RetractMemoryRecord(k) PROVE Linking'
    <2> DEFINE links == {Edge(Fresh, k, "derived_from")}
    <2>1. Write("memory_retracted", k, NoDispute, links) /\ k \in Known
      BY <1>6 DEF RetractMemoryRecord, Known
    <2>2. Proper("memory_retracted", k, links)
      BY <1>0, <2>1 DEF Proper, Edge, Edges, EdgeTypes, Tie, Write
    <2> QED BY <2>1, <2>2, WriteKeeps DEF Kinds
  <1>7. ASSUME NEW id \in Subjects, NEW new \in Statuses, StatusChanges(id, new)
        PROVE Linking'
    BY <1>7, StatusKeeps
  <1>8. CASE UNCHANGED vars
    BY <1>8 DEF vars, Linking, MemoryTypeOK, SourcesWritten, DisagreedOnly, TiedToSubject
  <1>9. ASSUME NEW id \in Known,
               RecordTaskOutcome(id) \/ RecordActionPolicyDecision(id) \/ RecordBlockedReason(id)
        PROVE Linking'
    BY <1>1, <1>9
    DEF Loose, RecordTaskOutcome, RecordActionPolicyDecision, RecordBlockedReason
  <1> QED BY <1>2, <1>3, <1>4, <1>5, <1>6, <1>7, <1>8, <1>9 DEF Next

THEOREM LinkingHolds == Spec => []Linking
  BY LinkingFirst, LinkingNext, PTL DEF Spec

\* Types, for any nodes, reviewers and number of records.
THEOREM MemoryTyped == Spec => []MemoryTypeOK
  <1>1. Linking => MemoryTypeOK
    BY DEF Linking
  <1> QED BY <1>1, LinkingHolds, PTL

-----------------------------------------------------------------------------
\* The records an edge of its type leads to, for each kind that is looked up by edge.
LEMMA LinkedAreTied ==
  ASSUME Linking, NEW kind \in Tied, NEW id \in Ids
  PROVE Linked(Tie(kind), id) \cap OfKind(kind) = MemoryRecordsFor(id) \cap OfKind(kind)
  BY DEF Linking, TiedToSubject, Linked, OfKind, MemoryRecordsFor, Edge

\* prior_disagreements_on, confidence_divergence_for and is_retracted find by their edge
\* what memory_records_for finds by the subject.
LEMMA LinkingAgrees == Linking => QueriesAgree
  <1> SUFFICES ASSUME Linking, NEW id \in Ids
               PROVE /\ PriorDisagreementsOn(id)
                          = MemoryRecordsFor(id) \cap OfKind("reviewer_disagreement")
                     /\ ConfidenceDivergenceFor(id)
                          = MemoryRecordsFor(id) \cap OfKind("confidence_divergence")
                     /\ IsRetracted(id)
                          <=> MemoryRecordsFor(id) \cap OfKind("memory_retracted") # {}
    BY DEF QueriesAgree
  <1>1. PriorDisagreementsOn(id) \subseteq OfKind("reviewer_disagreement")
    BY DEF Linking, DisagreedOnly, PriorDisagreementsOn, Linked, OfKind
  <1>2. PriorDisagreementsOn(id)
          = MemoryRecordsFor(id) \cap OfKind("reviewer_disagreement")
    BY <1>1, LinkedAreTied DEF Tied, Tie, PriorDisagreementsOn
  <1>3. ConfidenceDivergenceFor(id)
          = MemoryRecordsFor(id) \cap OfKind("confidence_divergence")
    BY LinkedAreTied DEF Tied, Tie, ConfidenceDivergenceFor
  <1>4. IsRetracted(id) <=> MemoryRecordsFor(id) \cap OfKind("memory_retracted") # {}
    BY LinkedAreTied DEF Tied, Tie, IsRetracted
  <1> QED BY <1>2, <1>3, <1>4

THEOREM LookupsAgree == Spec => []QueriesAgree
  BY LinkingAgrees, LinkingHolds, PTL

\* How a record comes to be retracted: by the record just written, or it was before.
LEMMA RetractedBy ==
  ASSUME Linking, Linking', NEW kind, NEW id, NEW dispute, NEW links,
         Write(kind, id, dispute, links), NEW k \in DOMAIN records
  PROVE IsRetracted(k)' <=> IsRetracted(k) \/ (kind = "memory_retracted" /\ id = k)
  <1>1. k \in Ids
    BY RecordsAreTyped DEF Linking
  <1>2. IsRetracted(k) <=>
          \E j \in DOMAIN records : records[j].kind = "memory_retracted" /\ records[j].subject = k
    BY <1>1, LinkingAgrees DEF QueriesAgree, MemoryRecordsFor, OfKind
  <1>3. QueriesAgree'
    BY LinkingAgrees, PTL
  <1>4. IsRetracted(k)' <=>
          \E j \in DOMAIN records' : records'[j].kind = "memory_retracted" /\ records'[j].subject = k
    BY <1>1, <1>3 DEF QueriesAgree, MemoryRecordsFor, OfKind, Ids
  <1> QED BY <1>2, <1>4, Appended DEF Linking

LEMMA WriteMoves ==
  ASSUME Linking, Linking', NEW kind, NEW id, NEW dispute, NEW links,
         Write(kind, id, dispute, links), NEW x \in Ids
  PROVE ActiveMove(x)
  <1>1. /\ Len(records') = Fresh /\ Fresh \notin DOMAIN records
        /\ DOMAIN records' = DOMAIN records \cup {Fresh}
        /\ \A k \in DOMAIN records : records'[k] = records[k]
        /\ records'[Fresh].kind = kind /\ records'[Fresh].subject = id
    BY Appended, RecordsAreTyped DEF Linking
  <1>2. \A k \in DOMAIN records :
          k \in ActiveMemoryRecordsFor(x)' <=>
            /\ k \in ActiveMemoryRecordsFor(x)
            /\ ~(kind = "memory_retracted" /\ id = k)
    BY <1>1, RetractedBy DEF ActiveMemoryRecordsFor, MemoryRecordsFor
  <1>3. /\ ActiveMemoryRecordsFor(x)' \subseteq DOMAIN records \cup {Fresh}
        /\ ActiveMemoryRecordsFor(x) \subseteq DOMAIN records
    BY <1>1 DEF ActiveMemoryRecordsFor, MemoryRecordsFor
  <1> QED BY <1>1, <1>2, <1>3 DEF ActiveMove

\* A retraction is final, whatever is written later.
THEOREM RetractionsAreFinal == Spec => RetractionIsFinal
  <1>1. Linking /\ Linking' /\ [Next]_vars => [\A id \in Ids : ActiveMove(id)]_vars
    <2> SUFFICES ASSUME Linking, Linking', [Next]_vars, ~UNCHANGED vars, NEW x \in Ids
                 PROVE ActiveMove(x)
      OBVIOUS
    <2>1. CASE \E kind, id, dispute, links : Write(kind, id, dispute, links)
      BY <2>1, WriteMoves
    <2>2. CASE UNCHANGED <<records, edges>>
      <3>1. ActiveMemoryRecordsFor(x)' = ActiveMemoryRecordsFor(x)
        BY <2>2 DEF ActiveMemoryRecordsFor, MemoryRecordsFor, IsRetracted, Linked, OfKind
      <3> QED BY <3>1 DEF ActiveMove
    <2>3. (\E kind, id, dispute, links : Write(kind, id, dispute, links))
          \/ UNCHANGED <<records, edges>>
      BY DEF Next, RecordLoose, RecordTaskOutcome, RecordActionPolicyDecision,
             RecordBlockedReason, RecordClaimDecision, RecordDisagreement,
             RecordConfidenceDivergence, RecordRepairPattern, RetractMemoryRecord,
             StatusChanges
    <2> QED BY <2>1, <2>2, <2>3
  <1> QED BY <1>1, LinkingHolds, PTL DEF Spec, RetractionIsFinal

-----------------------------------------------------------------------------
(* The edges and the validator.  Nodes do not go away, so an edge is as     *)
(* valid as when it was added.                                              *)

Placed == \A e \in edges : Indexed(e.source) /\ Indexed(e.target)
Reasoned ==
  \A e \in edges : e.type \in Contracted =>
    /\ e.target \in DOMAIN records
    /\ records[e.target].kind \in Decisions
    /\ records[e.target].subject = e.source
Standing == Placed /\ Reasoned

\* What the edges of a new record must be for that to last.
Apt(kind, id, links) ==
  \A e \in links :
    /\ e.source = Fresh \/ Indexed(e.source)
    /\ e.target = Fresh \/ Indexed(e.target)
    /\ e.type \in Contracted => e.target = Fresh /\ e.source = id /\ kind \in Decisions

LEMMA PresentIsIndexed ==
  ASSUME NEW id \in Known, Present(id)
  PROVE  Indexed(id)
  BY DEF Known, Present, Indexed

LEMMA WriteKeepsStanding ==
  ASSUME MemoryTypeOK, Standing, NEW kind, NEW id, NEW dispute, NEW links,
         Apt(kind, id, links), Write(kind, id, dispute, links)
  PROVE  Standing'
<1>1. /\ DOMAIN records' = DOMAIN records \cup {Fresh} /\ Fresh \notin DOMAIN records
      /\ \A k \in DOMAIN records : records'[k] = records[k]
      /\ records'[Fresh].kind = kind /\ records'[Fresh].subject = id
      /\ edges' = edges \cup links /\ status' = status
  BY Appended, RecordsAreTyped DEF Write
<1>2. \A x : x = Fresh \/ Indexed(x) => Indexed(x)'
  <2>1. Fresh \notin Subjects
    BY MemoryAssumption DEF MemoryTypeOK, Fresh
  <2> QED
    BY <1>1, <2>1 DEF Indexed
<1>3. Placed'
  <2> SUFFICES ASSUME NEW e \in edges' PROVE Indexed(e.source)' /\ Indexed(e.target)'
    BY DEF Placed
  <2>1. CASE e \in edges
    BY <2>1, <1>2 DEF Standing, Placed
  <2>2. CASE e \in links
    BY <2>2, <1>2 DEF Apt
  <2> QED
    BY <1>1, <2>1, <2>2
<1>4. Reasoned'
  BY <1>1 DEF Standing, Reasoned, Apt
<1> QED
  BY <1>3, <1>4 DEF Standing

LEMMA StandingNext ==
  ASSUME MemoryTypeOK, Standing, [Next]_vars
  PROVE  Standing'
<1>1. ASSUME NEW kind, NEW id \in Known, RecordLoose(kind, id) PROVE Standing'
  <2>1. Apt(kind, id, LinkIfPresent(id))
    BY PresentIsIndexed DEF Apt, LinkIfPresent, Edge, Contracted
  <2> QED
    BY <1>1, <2>1, WriteKeepsStanding DEF RecordLoose
<1>2. ASSUME NEW kind \in Decisions, NEW id \in Known, RecordClaimDecision(kind, id)
      PROVE  Standing'
  <2> DEFINE links == {Edge(id, Fresh, IF kind = "claim_accepted"
                                       THEN "supported_by" ELSE "rejected_because")}
  <2>1. Apt(kind, id, links)
    BY <1>2, PresentIsIndexed DEF Apt, Edge, RecordClaimDecision
  <2> QED
    BY <1>2, <2>1, WriteKeepsStanding DEF RecordClaimDecision
<1>3. ASSUME NEW id \in Known, NEW dispute, RecordDisagreement(id, dispute) PROVE Standing'
  <2>1. Apt("reviewer_disagreement", id, {Edge(Fresh, id, "disagreed_on")})
    BY <1>3, PresentIsIndexed DEF Apt, Edge, Contracted, RecordDisagreement
  <2> QED
    BY <1>3, <2>1, WriteKeepsStanding DEF RecordDisagreement
<1>4. ASSUME NEW id \in Known, RecordConfidenceDivergence(id) PROVE Standing'
  <2>1. Apt("confidence_divergence", id, {Edge(Fresh, id, "derived_from")})
    BY <1>4, PresentIsIndexed DEF Apt, Edge, Contracted, RecordConfidenceDivergence
  <2> QED
    BY <1>4, <2>1, WriteKeepsStanding DEF RecordConfidenceDivergence
<1>5. ASSUME NEW before \in Known, NEW after \in Known, RecordRepairPattern(before, after)
      PROVE  Standing'
  <2> DEFINE links == {Edge(after, Fresh, "repaired_via")} \cup LinkIfPresent(before)
  <2>1. Apt("repair_pattern", after, links)
    BY <1>5, PresentIsIndexed
    DEF Apt, Edge, Contracted, LinkIfPresent, RecordRepairPattern
  <2> QED
    BY <1>5, <2>1, WriteKeepsStanding DEF RecordRepairPattern
<1>6. ASSUME NEW k \in DOMAIN records, RetractMemoryRecord(k) PROVE Standing'
  <2>1. k \notin Subjects
    BY RecordsAreTyped, MemoryAssumption
  <2>2. Apt("memory_retracted", k, {Edge(Fresh, k, "derived_from")})
    BY <2>1 DEF Apt, Edge, Contracted, Indexed
  <2> QED
    BY <1>6, <2>2, WriteKeepsStanding DEF RetractMemoryRecord
<1>7. ASSUME NEW id \in Subjects, NEW new \in Statuses, StatusChanges(id, new)
      PROVE  Standing'
  <2>1. new # "absent"
    BY <1>7 DEF StatusChanges, JobStatuses, NoJob
  <2>2. records' = records /\ edges' = edges
        /\ \A x \in Subjects : status[x] # "absent" => status'[x] # "absent"
    BY <1>7, <2>1 DEF StatusChanges, MemoryTypeOK
  <2> QED
    BY <2>2 DEF Standing, Placed, Reasoned, Indexed
<1>8. CASE UNCHANGED vars
  BY <1>8 DEF vars, Standing, Placed, Reasoned, Indexed
<1>9. ASSUME NEW id \in Known,
             RecordTaskOutcome(id) \/ RecordActionPolicyDecision(id) \/ RecordBlockedReason(id)
      PROVE  Standing'
  BY <1>1, <1>9 DEF RecordTaskOutcome, RecordActionPolicyDecision, RecordBlockedReason
<1> QED
  BY <1>2, <1>3, <1>4, <1>5, <1>6, <1>7, <1>8, <1>9 DEF Next

\* Of the edges memory adds, validate refuses those of the decisions recorded, as
\* decisions on a claim, about what is none, and no other.
THEOREM MemoryEdgesAreValid == Spec => []EdgesAreValid
<1>1. Init => Standing
  BY DEF Init, Standing, Placed, Reasoned
<1>2. MemoryTypeOK /\ Standing /\ [Next]_vars => Standing'
  BY StandingNext
<1>3. Standing => EdgesAreValid
  BY DEF Standing, Placed, Reasoned, EdgesAreValid, ValidEdge, Misfiled, OfKind, Decisions,
         Contracted
<1> QED
  BY <1>1, <1>2, <1>3, MemoryTyped, PTL DEF Spec

-----------------------------------------------------------------------------
(* The votes. *)

LEMMA VotesAreFinite ==
  ASSUME MemoryTypeOK, NEW r
  PROVE  IsFiniteSet(Votes(r))
<1>1. IsFiniteSet(1 .. Len(records)) /\ DOMAIN records = 1 .. Len(records)
  BY RecordsAreTyped, FS_Interval
<1>2. IsFiniteSet({"a", "b"})
  <2>1. IsFiniteSet({"a"}) /\ {"a", "b"} = {"a"} \cup {"b"}
    BY FS_Singleton
  <2> QED
    BY <2>1, FS_AddElement
<1>3. IsFiniteSet((1 .. Len(records)) \X {"a", "b"})
  BY <1>1, <1>2, FS_Product
<1>4. Votes(r) \subseteq (1 .. Len(records)) \X {"a", "b"}
  BY <1>1 DEF Votes, Counted, OfKind
<1> QED
  BY <1>3, <1>4, FS_Subset

\* A retraction takes the record it names out of those that count.
LEMMA RetractionUncounts ==
  ASSUME Linking, Linking', NEW id, NEW dispute, NEW links,
         Write("memory_retracted", id, dispute, links)
  PROVE  Counted' = Counted \ {id}
<1>1. /\ DOMAIN records' = DOMAIN records \cup {Fresh} /\ Fresh \notin DOMAIN records
      /\ \A k \in DOMAIN records : records'[k] = records[k]
      /\ records'[Fresh].kind = "memory_retracted"
  BY Appended, RecordsAreTyped DEF Linking
<1>2. \A k \in DOMAIN records : IsRetracted(k)' <=> IsRetracted(k) \/ id = k
  BY RetractedBy
<1> QED
  BY <1>1, <1>2 DEF Counted, OfKind

LEMMA RetractionTakesVotes ==
  ASSUME Linking, Linking', NEW id, NEW dispute, NEW links,
         Write("memory_retracted", id, dispute, links), NEW r
  PROVE  /\ Cardinality(Votes(r)') = Cardinality(Votes(r)) - Takes(r)
         /\ Agreements(r)' \subseteq Agreements(r)
         /\ Disagreements(r)' \subseteq Disagreements(r)
<1> DEFINE gone == {vote \in Votes(r) : vote[1] = id}
<1>1. /\ Len(records') = Fresh /\ records'[Fresh].subject = id /\ status' = status
      /\ \A k \in DOMAIN records : records'[k] = records[k]
  BY Appended DEF Linking, Write
<1>2. Counted' = Counted \ {id} /\ Counted \subseteq DOMAIN records
  BY RetractionUncounts DEF Counted, OfKind
<1>3. Votes(r)' = Votes(r) \ gone
  BY <1>1, <1>2 DEF Votes
<1>4. Takes(r) = Cardinality(gone)
  BY <1>1 DEF Takes
<1>5. Cardinality(Votes(r) \ gone) = Cardinality(Votes(r)) - Cardinality(Votes(r) \cap gone)
  BY VotesAreFinite, FS_Difference DEF Linking
<1>6. Votes(r) \cap gone = gone
  OBVIOUS
<1>7. \A vote \in Votes(r)' : vote[1] \in DOMAIN records
  BY <1>2, <1>3 DEF Votes
<1>8. \A vote \in Votes(r)' : SideOf(vote)' = SideOf(vote) /\ Word(vote)' = Word(vote)
  BY <1>1, <1>7 DEF SideOf, OutcomeSide, Word
<1>9. /\ Agreements(r)' \subseteq Agreements(r)
      /\ Disagreements(r)' \subseteq Disagreements(r)
  BY <1>3, <1>8 DEF Agreements, Disagreements, Undecided
<1> QED
  BY <1>3, <1>4, <1>5, <1>6, <1>9

(* A retraction takes from each reviewer exactly the votes in the record it *)
(* names, and neither an agreement nor a disagreement appears from it       *)
(* (specialist_trust_scores, retract_memory_record).                        *)
THEOREM RetractionsDiscount == Spec => RetractionDiscounts
<1> DEFINE Discounts ==
      /\ Len(records') > Len(records)
      /\ records'[Len(records')].kind = "memory_retracted"
      => \A r \in Roles :
           /\ Cardinality(Votes(r)') = Cardinality(Votes(r)) - Takes(r)
           /\ Agreements(r)' \subseteq Agreements(r)
           /\ Disagreements(r)' \subseteq Disagreements(r)
<1>1. Linking /\ Linking' /\ [Next]_vars => [Discounts]_vars
  <2> SUFFICES ASSUME Linking, Linking', [Next]_vars, Len(records') > Len(records),
                      records'[Len(records')].kind = "memory_retracted", NEW r \in Roles
               PROVE  /\ Cardinality(Votes(r)') = Cardinality(Votes(r)) - Takes(r)
                      /\ Agreements(r)' \subseteq Agreements(r)
                      /\ Disagreements(r)' \subseteq Disagreements(r)
    OBVIOUS
  <2>1. records' # records
    BY RecordsAreTyped DEF Linking
  <2>2. PICK kind, id, dispute, links : Write(kind, id, dispute, links)
    BY <2>1
    DEF Next, RecordLoose, RecordTaskOutcome, RecordActionPolicyDecision,
        RecordBlockedReason, RecordClaimDecision, RecordDisagreement,
        RecordConfidenceDivergence, RecordRepairPattern, RetractMemoryRecord,
        StatusChanges, vars
  <2>3. kind = "memory_retracted"
    BY <2>2, Appended DEF Linking
  <2> QED
    BY <2>2, <2>3, RetractionTakesVotes
<1> QED
  BY <1>1, LinkingHolds, PTL DEF Spec, RetractionDiscounts

-----------------------------------------------------------------------------
(* Who was right.  A disagreement record holds a dispute, and if the two    *)
(* reviewers used the tally's words, one each way, the vote on the side of  *)
(* the outcome is the one agreement of that record.                         *)

Disputed ==
  \A k \in DOMAIN records :
    records[k].kind = "reviewer_disagreement" => records[k].dispute \in Disputes

LEMMA DisputedNext ==
  ASSUME MemoryTypeOK, Disputed, [Next]_vars
  PROVE  Disputed'
<1>1. CASE UNCHANGED records
  BY <1>1 DEF Disputed
<1>2. ASSUME NEW kind, NEW id, NEW dispute, NEW links, Write(kind, id, dispute, links),
             kind = "reviewer_disagreement" => dispute \in Disputes
      PROVE  Disputed'
  BY <1>2, Appended DEF Disputed
<1>3. ASSUME NEW id \in Known, NEW dispute \in Disputes, RecordDisagreement(id, dispute)
      PROVE  Disputed'
  BY <1>2, <1>3 DEF RecordDisagreement
<1>4. ASSUME NEW kind \in Loose, NEW id, RecordLoose(kind, id) PROVE Disputed'
  BY <1>2, <1>4 DEF RecordLoose, Loose
<1>5. ASSUME NEW kind \in Decisions, NEW id, RecordClaimDecision(kind, id) PROVE Disputed'
  BY <1>2, <1>5 DEF RecordClaimDecision, Decisions
<1>6. ASSUME NEW id, RecordConfidenceDivergence(id) PROVE Disputed'
  BY <1>2, <1>6 DEF RecordConfidenceDivergence
<1>7. ASSUME NEW before, NEW after, RecordRepairPattern(before, after) PROVE Disputed'
  BY <1>2, <1>7 DEF RecordRepairPattern
<1>8. ASSUME NEW k, RetractMemoryRecord(k) PROVE Disputed'
  BY <1>2, <1>8 DEF RetractMemoryRecord
<1>9. ASSUME NEW id, NEW new, StatusChanges(id, new) PROVE Disputed'
  BY <1>1, <1>9 DEF StatusChanges
<1>10. ASSUME NEW id, RecordTaskOutcome(id) \/ RecordActionPolicyDecision(id)
                        \/ RecordBlockedReason(id)
       PROVE  Disputed'
  BY <1>4, <1>10
     DEF Loose, RecordTaskOutcome, RecordActionPolicyDecision, RecordBlockedReason
<1> QED
  BY <1>1, <1>3, <1>5, <1>6, <1>7, <1>8, <1>9, <1>10 DEF Next, vars

\* Each decided dispute has one vote that agrees with the outcome.
LEMMA OneVoteAgrees ==
  ASSUME MemoryTypeOK, Disputed, NEW k, Decided(k),
         \A d \in Disputes : {d["a"].verdict, d["b"].verdict} = {"pass", "fail"}
  PROVE  /\ k \in DOMAIN records
         /\ \E side \in {"a", "b"} :
              /\ \E r \in Roles : <<k, side>> \in Agreements(r)
              /\ \A other \in {"a", "b"}, r \in Roles :
                   <<k, other>> \in Agreements(r) => other = side
<1> DEFINE d == records[k].dispute
           outcome == OutcomeSide(records[k].subject)
<1>1. k \in Counted /\ k \in DOMAIN records /\ d \in Disputes
  BY DEF Decided, Counted, OfKind, Disputed
<1>2. outcome \in {"pass", "fail"}
  BY DEF Decided, OutcomeSide
<1>3. PICK side \in {"a", "b"} : /\ d[side].verdict = outcome
                                 /\ \A other \in {"a", "b"} \ {side} : d[other].verdict # outcome
  <2>1. d["a"].verdict # d["b"].verdict /\ outcome \in {d["a"].verdict, d["b"].verdict}
    BY <1>1, <1>2
  <2>2. CASE d["a"].verdict = outcome
    <3> HIDE DEF d, outcome
    <3> WITNESS "a" \in {"a", "b"}
    <3> QED
      BY <2>1, <2>2
  <2>3. CASE d["b"].verdict = outcome
    <3> HIDE DEF d, outcome
    <3> WITNESS "b" \in {"a", "b"}
    <3> QED
      BY <2>1, <2>3
  <2> QED
    BY <2>1, <2>2, <2>3
<1>4. d[side].role \in Roles
  BY <1>1, MemoryAssumption DEF Statements
<1>5. \A other \in {"a", "b"} : \A r :
        <<k, other>> \in Agreements(r) <=> d[other].role = r /\ d[other].verdict = outcome
  <2> SUFFICES ASSUME NEW other \in {"a", "b"}, NEW r
               PROVE  <<k, other>> \in Agreements(r)
                        <=> d[other].role = r /\ d[other].verdict = outcome
    OBVIOUS
  <2> DEFINE vote == <<k, other>>
  <2>1. vote[1] = k /\ vote[2] = other /\ vote \in Counted \X {"a", "b"}
    BY <1>1
  <2>2. Word(vote) = d[other].verdict /\ SideOf(vote) = outcome /\ outcome # "open"
    BY <1>2, <2>1 DEF Word, SideOf
  <2>3. vote \in Votes(r) <=> d[other].role = r
    BY <2>1 DEF Votes
  <2> HIDE DEF vote, d, outcome
  <2>4. vote \in Agreements(r) <=> d[other].role = r /\ d[other].verdict = outcome
    BY <2>2, <2>3 DEF Agreements, Undecided
  <2> QED
    BY <2>4 DEF vote
<1> QED
  BY <1>1, <1>3, <1>4, <1>5

\* Whoever agrees with an outcome, it is on a decided record.
LEMMA AgreementsAreDecided ==
  ASSUME NEW r, NEW vote \in Agreements(r)
  PROVE  /\ Decided(vote[1]) /\ vote[2] \in {"a", "b"} /\ vote = <<vote[1], vote[2]>>
<1>1. vote \in Counted \X {"a", "b"} /\ SideOf(vote) # "open"
  BY DEF Agreements, Undecided, Votes
<1> QED
  BY <1>1 DEF Decided, SideOf

LEMMA WinnersAreDisputes ==
  ASSUME MemoryTypeOK, Disputed,
         \A d \in Disputes : {d["a"].verdict, d["b"].verdict} = {"pass", "fail"}
  PROVE  OneSideIsRight
<1> DEFINE won == UNION {Agreements(r) : r \in Roles}
           settled == {k \in DOMAIN records : Decided(k)}
           of == [k \in settled |-> CHOOSE vote \in won : vote[1] = k]
<1>1. \A k \in settled : \E vote \in won : vote[1] = k /\ \A v \in won : v[1] = k => v = vote
  <2> SUFFICES ASSUME NEW k \in settled
               PROVE  \E vote \in won : vote[1] = k /\ \A v \in won : v[1] = k => v = vote
    OBVIOUS
  <2>1. PICK side \in {"a", "b"} :
          /\ \E r \in Roles : <<k, side>> \in Agreements(r)
          /\ \A other \in {"a", "b"}, r \in Roles :
               <<k, other>> \in Agreements(r) => other = side
    BY OneVoteAgrees
  <2>2. <<k, side>> \in won
    BY <2>1
  <2>3. ASSUME NEW v \in won, v[1] = k PROVE v = <<k, side>>
    <3>1. PICK r \in Roles : v \in Agreements(r)
      OBVIOUS
    <3>2. v[2] \in {"a", "b"} /\ v = <<k, v[2]>>
      BY <3>1, <2>3, AgreementsAreDecided
    <3> QED
      BY <2>1, <3>1, <3>2
  <2> QED
    BY <2>2, <2>3
<1>2. \A vote \in won : vote[1] \in settled
  BY AgreementsAreDecided DEF Decided, Counted, OfKind
<1> HIDE DEF won, settled
<1>3. \A k \in settled : of[k] \in won /\ of[k][1] = k
  BY <1>1
<1>4. of \in Injection(settled, won)
  BY <1>3 DEF Injection, IsInjective
<1>5. of \in Surjection(settled, won)
  <2>1. \A vote \in won : of[vote[1]] = vote
    BY <1>1, <1>2, <1>3
  <2> QED
    BY <1>2, <1>3, <2>1 DEF Surjection
<1>6. IsFiniteSet(settled)
  <2>1. IsFiniteSet(DOMAIN records)
    BY RecordsAreTyped, FS_Interval
  <2> QED
    BY <2>1, FS_Subset DEF settled
<1>7. Cardinality(won) = Cardinality(settled)
  BY <1>4, <1>5, <1>6, FS_Bijection DEF Bijection, ExistsBijection
<1> QED
  BY <1>7 DEF won, settled, OneSideIsRight

(* Where the two reviewers of every disagreement say pass and fail, one     *)
(* each, every settled dispute has exactly one reviewer who was right.  It  *)
(* takes that hypothesis: with other words neither is (the HumansDisagree   *)
(* instance, specialist_trust_scores).                                      *)
THEOREM OneReviewerIsRight ==
  ASSUME \A d \in Disputes : {d["a"].verdict, d["b"].verdict} = {"pass", "fail"}
  PROVE  Spec => []OneSideIsRight
<1>1. Init => Disputed
  BY DEF Init, Disputed
<1>2. MemoryTypeOK /\ Disputed /\ [Next]_vars => Disputed'
  BY DisputedNext
<1>3. MemoryTypeOK /\ Disputed => OneSideIsRight
  BY WinnersAreDisputes
<1> QED
  BY <1>1, <1>2, <1>3, MemoryTyped, PTL DEF Spec

=============================================================================
