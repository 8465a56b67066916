--------------------------- MODULE Governance_proofs -------------------------
(***************************************************************************)
(* Proofs about Governance, for any keys, values and payloads.              *)
(***************************************************************************)
EXTENDS Governance, TLAPS

LEMMA ProposalTyped ==
  ASSUME TypeOK, NEW p \in DOMAIN proposals
  PROVE  /\ proposals[p] \in ProposalRecords
         /\ proposals[p].payload \in Payloads /\ proposals[p].base \in Nat
<1>1. proposals[p] \in ProposalRecords
  BY DEF TypeOK
<1> QED
  BY <1>1 DEF ProposalRecords

\* What a record appended to a log leaves and adds.
LEMMA Appended ==
  ASSUME NEW S, NEW log \in Seq(S), NEW new, NEW rec \in S, new = Append(log, rec)
  PROVE  /\ new \in Seq(S)
         /\ Len(new) = Len(log) + 1
         /\ DOMAIN new = 1 .. Len(log) + 1
         /\ DOMAIN log = 1 .. Len(log)
         /\ \A i \in DOMAIN log : i \in DOMAIN new /\ new[i] = log[i]
         /\ new[Len(log) + 1] = rec
  OBVIOUS

LEMMA OverlayIsState ==
  ASSUME NEW s \in States, NEW payload \in Payloads
  PROVE  Overlay(s, payload) \in States
  BY GovernanceAssumption DEF Overlay, States

-----------------------------------------------------------------------------
(* Types.  Events and decisions refer to proposals that exist.              *)

Refer ==
  /\ \A i \in DOMAIN events : events[i].proposal \in 0 .. Len(proposals)
  /\ \A i \in DOMAIN audit : audit[i].proposal \in 0 .. Len(proposals)

Typed == TypeOK /\ Refer

LEMMA InitTyped == Init => Typed
<1> SUFFICES ASSUME Init PROVE Typed
  OBVIOUS
<1>1. Blank \in States
  BY DEF Blank, States
<1>2. CASE audit = << >> /\ events = << >> /\ state = Blank /\ version = 0
  BY <1>1, <1>2 DEF Init, Typed, TypeOK, Refer
<1>3. ASSUME NEW seed \in Payloads,
             audit = <<[type |-> "init", proposal |-> 0, role |-> "system"]>>,
             events = <<[proposal |-> 0, decision |-> 0, payload |-> seed,
                         role |-> "system", prev |-> 0, new |-> 1]>>,
             state = Overlay(Blank, seed), version = 1
      PROVE  Typed
  <2>1. state \in States
    BY <1>1, <1>3, OverlayIsState
  <2>2. audit \in Seq(AuditRecords)
    BY <1>3 DEF AuditRecords, Roles
  <2>3. events \in Seq(Events)
    BY <1>3 DEF Events, Committers
  <2> QED
    BY <1>3, <2>1, <2>2, <2>3 DEF Init, Typed, TypeOK, Refer
<1> QED
  BY <1>2, <1>3 DEF Init

LEMMA CreateTyped ==
  ASSUME Typed, NEW payload \in Payloads, NEW base \in 0 .. version,
         CreateProposal(payload, base)
  PROVE  Typed'
<1> DEFINE rec == [status |-> "tentative", payload |-> payload, base |-> base]
<1>1. rec \in ProposalRecords
  BY DEF ProposalRecords, Typed, TypeOK
<1>2. proposals' = Append(proposals, rec)
  BY DEF CreateProposal
<1> HIDE DEF rec
<1>3. proposals' \in Seq(ProposalRecords) /\ Len(proposals') = Len(proposals) + 1
  BY <1>1, <1>2 DEF Typed, TypeOK
<1>4. Len(proposals) \in Nat
  BY DEF Typed, TypeOK
<1> QED
  BY <1>3, <1>4 DEF CreateProposal, Typed, TypeOK, Refer

LEMMA DecideTyped ==
  ASSUME Typed, NEW p \in DOMAIN proposals, NEW role \in Roles, NEW approve \in BOOLEAN,
         Decide(p, role, approve)
  PROVE  /\ Typed'
         /\ Len(proposals') = Len(proposals)
         /\ \A q \in DOMAIN proposals :
              /\ proposals'[q].payload = proposals[q].payload
              /\ proposals'[q].base = proposals[q].base
              /\ q # p => proposals'[q].status = proposals[q].status
         /\ proposals'[p].status = Status(role, approve)
<1> DEFINE rec == [type |-> IF approve THEN "approve" ELSE "deny",
                   proposal |-> p, role |-> role]
<1>0. proposals \in Seq(ProposalRecords) /\ DOMAIN proposals = 1 .. Len(proposals)
      /\ Len(proposals) \in Nat
  BY DEF Typed, TypeOK
<1>1. rec \in AuditRecords
  BY <1>0 DEF AuditRecords
<1>2. audit' = Append(audit, rec) /\ rec.proposal = p
  BY DEF Decide
<1> HIDE DEF rec
<1>3. /\ audit' \in Seq(AuditRecords)
      /\ DOMAIN audit' = 1 .. Len(audit) + 1 /\ DOMAIN audit = 1 .. Len(audit)
      /\ \A i \in DOMAIN audit : audit'[i] = audit[i]
      /\ audit'[Len(audit) + 1] = rec
  BY <1>1, <1>2, Appended DEF Typed, TypeOK
<1>4. Status(role, approve) \in {"tentative", "approved", "rejected"}
  BY DEF Status
<1>5. proposals' = [proposals EXCEPT ![p] = [proposals[p] EXCEPT !.status = Status(role, approve)]]
  BY DEF Decide
<1>6. [proposals[p] EXCEPT !.status = Status(role, approve)] \in ProposalRecords
  <2>1. proposals[p] \in ProposalRecords
    BY ProposalTyped DEF Typed
  <2> DEFINE status == Status(role, approve)
  <2>2. status \in {"tentative", "approved", "rejected"}
    BY <1>4
  <2> HIDE DEF status
  <2>3. [proposals[p] EXCEPT !.status = status] \in ProposalRecords
    BY <2>1, <2>2 DEF ProposalRecords
  <2> QED
    BY <2>3 DEF status
<1>7. proposals' \in Seq(ProposalRecords) /\ Len(proposals') = Len(proposals)
  BY <1>0, <1>5, <1>6
<1>8. Refer'
  <2>1. \A i \in DOMAIN audit' : audit'[i].proposal \in 0 .. Len(proposals')
    BY <1>0, <1>2, <1>3, <1>7 DEF Typed, TypeOK, Refer
  <2> QED
    BY <2>1, <1>7 DEF Decide, Typed, Refer
<1>9. Typed'
  BY <1>3, <1>7, <1>8 DEF Decide, Typed, TypeOK
<1>10. /\ \A q \in DOMAIN proposals :
            /\ proposals'[q].payload = proposals[q].payload
            /\ proposals'[q].base = proposals[q].base
            /\ q # p => proposals'[q].status = proposals[q].status
       /\ proposals'[p].status = Status(role, approve)
  BY <1>0, <1>5 DEF ProposalRecords
<1> QED
  BY <1>7, <1>9, <1>10

LEMMA CommitTyped ==
  ASSUME Typed, NEW p \in DOMAIN proposals, NEW role \in Roles, NEW d \in DOMAIN audit,
         Commit(p, d, role)
  PROVE  Typed'
<1> DEFINE e == [proposal |-> p, decision |-> d, payload |-> proposals[p].payload,
                 role |-> role, prev |-> version, new |-> version + 1]
           rec == [type |-> "commit", proposal |-> p, role |-> role]
<1>0. /\ proposals \in Seq(ProposalRecords) /\ DOMAIN proposals = 1 .. Len(proposals)
      /\ Len(proposals) \in Nat /\ version \in Nat /\ d \in Nat
      /\ events \in Seq(Events) /\ audit \in Seq(AuditRecords)
  BY DEF Typed, TypeOK
<1>1. proposals[p].payload \in Payloads
  BY ProposalTyped DEF Typed
<1>2. e \in Events /\ e.proposal = p
  BY <1>0, <1>1 DEF Events, Commit, Committable
<1>3. rec \in AuditRecords /\ rec.proposal = p
  BY <1>0 DEF AuditRecords
<1>4. events' = Append(events, e) /\ audit' = Append(audit, rec)
  BY DEF Commit
<1> HIDE DEF e, rec
<1>5. /\ events' \in Seq(Events) /\ DOMAIN events' = 1 .. Len(events) + 1
      /\ DOMAIN events = 1 .. Len(events)
      /\ \A i \in DOMAIN events : events'[i] = events[i]
      /\ events'[Len(events) + 1] = e
  BY <1>0, <1>2, <1>4, Appended
<1>6. /\ audit' \in Seq(AuditRecords) /\ DOMAIN audit' = 1 .. Len(audit) + 1
      /\ DOMAIN audit = 1 .. Len(audit)
      /\ \A i \in DOMAIN audit : audit'[i] = audit[i]
      /\ audit'[Len(audit) + 1] = rec
  BY <1>0, <1>3, <1>4, Appended
<1>7. \A i \in DOMAIN events' : events'[i].proposal \in 0 .. Len(proposals)
  BY <1>0, <1>2, <1>5 DEF Typed, Refer
<1>8. \A i \in DOMAIN audit' : audit'[i].proposal \in 0 .. Len(proposals)
  <2>1. \A i \in DOMAIN audit : audit'[i].proposal \in 0 .. Len(proposals)
    BY <1>6 DEF Typed, Refer
  <2>2. audit'[Len(audit) + 1].proposal \in 0 .. Len(proposals)
    BY <1>0, <1>3, <1>6
  <2>3. \A i \in DOMAIN audit' : i \in DOMAIN audit \/ i = Len(audit) + 1
    BY <1>0, <1>6
  <2> QED
    BY <2>1, <2>2, <2>3
<1>9. state' \in States
  BY <1>1, OverlayIsState DEF Commit, Apply, Typed, TypeOK
<1> QED
  BY <1>0, <1>5, <1>6, <1>7, <1>8, <1>9 DEF Commit, Typed, TypeOK, Refer

LEMMA NextTyped == Typed /\ [Next]_vars => Typed'
<1> SUFFICES ASSUME Typed, [Next]_vars PROVE Typed'
  OBVIOUS
<1>1. ASSUME NEW payload \in Payloads, NEW base \in 0 .. version,
             CreateProposal(payload, base)
      PROVE  Typed'
  BY <1>1, CreateTyped
<1>2. ASSUME NEW p \in DOMAIN proposals, NEW role \in Roles, NEW approve \in BOOLEAN,
             Decide(p, role, approve)
      PROVE  Typed'
  BY <1>2, DecideTyped
<1>3. ASSUME NEW p \in DOMAIN proposals, NEW role \in Roles, NEW d \in DOMAIN audit,
             Commit(p, d, role)
      PROVE  Typed'
  BY <1>3, CommitTyped
<1>4. ASSUME NEW base \in Bases, ShadowCreate(base) PROVE Typed'
  <2>1. Blank \in States
    BY DEF Blank, States
  <2>2. base \in States
    BY <2>1, OverlayIsState DEF Bases
  <2> QED
    BY <1>4, <2>2 DEF ShadowCreate, Typed, TypeOK, Refer
<1>5. ASSUME NEW payload \in Payloads, ShadowUpdate(payload) PROVE Typed'
  <2>1. shadow' \in States
    BY <1>5, OverlayIsState DEF ShadowUpdate, Typed, TypeOK
  <2> QED
    BY <1>5, <2>1 DEF ShadowUpdate, Typed, TypeOK, Refer
<1>6. CASE UNCHANGED vars
  BY <1>6 DEF vars, Typed, TypeOK, Refer
<1> QED
  BY <1>1, <1>2, <1>3, <1>4, <1>5, <1>6 DEF Next

LEMMA AlwaysTyped == Spec => []Typed
  BY InitTyped, NextTyped, PTL DEF Spec

(* The type invariant holds of every behaviour.                             *)
THEOREM TypeCorrect == Spec => []TypeOK
<1>1. Typed => TypeOK
  BY DEF Typed
<1> QED
  BY <1>1, AlwaysTyped, PTL

-----------------------------------------------------------------------------
(* What a commit adds to the two logs.                                      *)

LEMMA Committed ==
  ASSUME Typed, NEW p \in DOMAIN proposals, NEW role \in Roles, NEW d \in DOMAIN audit,
         Commit(p, d, role)
  PROVE  /\ p \in Nat \ {0}
         /\ Len(events) \in Nat /\ DOMAIN events = 1 .. Len(events)
         /\ DOMAIN events' = 1 .. Len(events) + 1 /\ Len(events') = Len(events) + 1
         /\ \A i \in DOMAIN events : events'[i] = events[i]
         /\ events'[Len(events) + 1] =
              [proposal |-> p, decision |-> d, payload |-> proposals[p].payload,
               role |-> role, prev |-> version, new |-> version + 1]
         /\ Len(audit) \in Nat /\ DOMAIN audit = 1 .. Len(audit)
         /\ DOMAIN audit' = 1 .. Len(audit) + 1
         /\ \A i \in DOMAIN audit : audit'[i] = audit[i]
         /\ audit'[Len(audit) + 1] = [type |-> "commit", proposal |-> p, role |-> role]
<1>1. p \in Nat \ {0}
  BY DEF Typed, TypeOK
<1>2. events \in Seq(Events) /\ audit \in Seq(AuditRecords)
  BY DEF Typed, TypeOK
<1> QED
  BY <1>1, <1>2 DEF Commit

LEMMA CommittedFields ==
  ASSUME Typed, NEW p \in DOMAIN proposals, NEW role \in Roles, NEW d \in DOMAIN audit,
         Commit(p, d, role), NEW e, e = events'[Len(events) + 1]
  PROVE  /\ e.proposal = p /\ e.decision = d /\ e.payload = proposals[p].payload
         /\ e.role = role /\ e.prev = version /\ e.new = version + 1
<1> DEFINE payload == proposals[p].payload
<1>1. e = [proposal |-> p, decision |-> d, payload |-> payload,
           role |-> role, prev |-> version, new |-> version + 1]
  BY Committed
<1> HIDE DEF payload
<1>2. /\ e.proposal = p /\ e.decision = d /\ e.payload = payload
      /\ e.role = role /\ e.prev = version /\ e.new = version + 1
  BY <1>1
<1> QED
  BY <1>2 DEF payload

-----------------------------------------------------------------------------
(* The state is what the events make it, and each proposal made one of      *)
(* them at most, on top of all it had read.                                 *)

History == Typed /\ StateIsReplay /\ NoLostUpdate

LEMMA InitHistory == Init => History
<1> SUFFICES ASSUME Init PROVE History
  OBVIOUS
<1>1. Typed
  BY InitTyped
<1>2. NoLostUpdate
  BY DEF Init, NoLostUpdate
<1>3. ASSUME events = << >>, state = Blank, version = 0
      PROVE  StateIsReplay
  BY <1>3 DEF StateIsReplay, Blank
<1>4. ASSUME NEW seed \in Payloads,
             events = <<[proposal |-> 0, decision |-> 0, payload |-> seed,
                         role |-> "system", prev |-> 0, new |-> 1]>>,
             state = Overlay(Blank, seed), version = 1
      PROVE  StateIsReplay
  <2>1. /\ Len(events) = 1 /\ DOMAIN events = {1}
        /\ events[1].payload = seed /\ events[1].prev = 0 /\ events[1].new = 1
    BY <1>4
  <2>2. \A k \in Keys : state[k] = IF k \in DOMAIN seed THEN seed[k] ELSE Unset
    BY <1>4 DEF Overlay, Blank
  <2> QED
    BY <1>4, <2>1, <2>2 DEF StateIsReplay
<1>5. StateIsReplay
  BY <1>3, <1>4 DEF Init
<1> QED
  BY <1>1, <1>2, <1>5 DEF History

LEMMA CommitHistory ==
  ASSUME History, NEW p \in DOMAIN proposals, NEW role \in Roles, NEW d \in DOMAIN audit,
         Commit(p, d, role)
  PROVE  StateIsReplay' /\ NoLostUpdate'
<1> DEFINE n == Len(events) + 1
           payload == proposals[p].payload
<1>0. Typed /\ StateIsReplay /\ NoLostUpdate
  BY DEF History
<1>1. /\ p \in Nat \ {0} /\ Len(events) \in Nat
      /\ DOMAIN events = 1 .. Len(events) /\ DOMAIN events' = 1 .. n
      /\ Len(events') = n
      /\ \A i \in DOMAIN events : events'[i] = events[i]
      /\ events'[n].proposal = p /\ events'[n].payload = payload
      /\ events'[n].prev = version /\ events'[n].new = version + 1
  <2>1. /\ events'[n].proposal = p /\ events'[n].payload = payload
        /\ events'[n].prev = version /\ events'[n].new = version + 1
    BY <1>0, CommittedFields
  <2> QED
    BY <1>0, <2>1, Committed
<1>2. version = Len(events) /\ version' = n
  BY <1>0 DEF StateIsReplay, Commit
<1>3. proposals' = proposals /\ proposals[p].base = version
  BY DEF Commit, Committable
<1>4. NoLostUpdate'
  <2>1. \A i \in DOMAIN events : events[i].proposal = p => i = n
    BY <1>0, <1>1, <1>2, <1>3 DEF NoLostUpdate
  <2>2. \A i \in DOMAIN events : events[i].proposal # p
    BY <1>1, <2>1
  <2> SUFFICES ASSUME NEW i \in DOMAIN events', events'[i].proposal # 0
               PROVE  /\ proposals[events'[i].proposal].base = i - 1
                      /\ \A j \in DOMAIN events' :
                           events'[j].proposal = events'[i].proposal => j = i
    BY <1>3 DEF NoLostUpdate
  <2>3. CASE i = n
    BY <1>1, <1>2, <1>3, <2>2, <2>3
  <2>4. CASE i \in DOMAIN events
    BY <1>0, <1>1, <2>2, <2>4 DEF NoLostUpdate
  <2> QED
    BY <1>1, <2>3, <2>4
<1>5. StateIsReplay'
  <2>1. \A i \in DOMAIN events' : events'[i].prev = i - 1 /\ events'[i].new = i
    BY <1>0, <1>1, <1>2 DEF StateIsReplay
  <2>2. ASSUME NEW k \in Keys
        PROVE  \/ /\ state'[k] = Unset
                  /\ \A i \in DOMAIN events' : k \notin DOMAIN events'[i].payload
               \/ \E i \in DOMAIN events' :
                    /\ k \in DOMAIN events'[i].payload
                    /\ state'[k] = events'[i].payload[k]
                    /\ \A j \in DOMAIN events' : j > i => k \notin DOMAIN events'[j].payload
    <3>1. state'[k] = IF k \in DOMAIN payload THEN payload[k] ELSE state[k]
      BY DEF Commit, Apply, Overlay
    <3>2. CASE k \in DOMAIN payload
      <4>1. n \in DOMAIN events' /\ \A j \in DOMAIN events' : ~(j > n)
        BY <1>1
      <4> QED
        BY <1>1, <3>1, <3>2, <4>1
    <3>3. CASE k \notin DOMAIN payload
      <4>1. CASE state[k] = Unset /\ \A i \in DOMAIN events : k \notin DOMAIN events[i].payload
        BY <1>1, <3>1, <3>3, <4>1
      <4>2. ASSUME NEW i \in DOMAIN events, k \in DOMAIN events[i].payload,
                   state[k] = events[i].payload[k],
                   \A j \in DOMAIN events : j > i => k \notin DOMAIN events[j].payload
            PROVE  /\ i \in DOMAIN events' /\ k \in DOMAIN events'[i].payload
                   /\ state'[k] = events'[i].payload[k]
                   /\ \A j \in DOMAIN events' : j > i => k \notin DOMAIN events'[j].payload
        BY <1>1, <3>1, <3>3, <4>2
      <4> QED
        BY <1>0, <4>1, <4>2 DEF StateIsReplay
    <3> QED
      BY <3>2, <3>3
  <2> QED
    BY <1>1, <1>2, <2>1, <2>2 DEF StateIsReplay
<1> QED
  BY <1>4, <1>5

LEMMA NextHistory == History /\ [Next]_vars => History'
<1> SUFFICES ASSUME History, [Next]_vars PROVE History'
  OBVIOUS
<1>0. Typed /\ Typed' /\ StateIsReplay /\ NoLostUpdate
  BY NextTyped DEF History
<1>1. ASSUME NEW payload \in Payloads, NEW base \in 0 .. version,
             CreateProposal(payload, base)
      PROVE  StateIsReplay' /\ NoLostUpdate'
  <2> DEFINE rec == [status |-> "tentative", payload |-> payload, base |-> base]
  <2>1. proposals' = Append(proposals, rec) /\ UNCHANGED <<events, state, version>>
    BY <1>1 DEF CreateProposal
  <2> HIDE DEF rec
  <2>2. \A q \in DOMAIN proposals : proposals'[q] = proposals[q]
    BY <1>0, <2>1 DEF Typed, TypeOK
  <2>3. \A i \in DOMAIN events : events[i].proposal # 0 => events[i].proposal \in DOMAIN proposals
    BY <1>0 DEF Typed, TypeOK, Refer
  <2> QED
    BY <1>0, <2>1, <2>2, <2>3 DEF StateIsReplay, NoLostUpdate
<1>2. ASSUME NEW p \in DOMAIN proposals, NEW role \in Roles, NEW approve \in BOOLEAN,
             Decide(p, role, approve)
      PROVE  StateIsReplay' /\ NoLostUpdate'
  <2>1. \A q \in DOMAIN proposals : proposals'[q].base = proposals[q].base
    BY <1>0, <1>2, DecideTyped
  <2>2. \A i \in DOMAIN events : events[i].proposal # 0 => events[i].proposal \in DOMAIN proposals
    BY <1>0 DEF Typed, TypeOK, Refer
  <2> QED
    BY <1>0, <1>2, <2>1, <2>2 DEF Decide, StateIsReplay, NoLostUpdate
<1>3. ASSUME NEW p \in DOMAIN proposals, NEW role \in Roles, NEW d \in DOMAIN audit,
             Commit(p, d, role)
      PROVE  StateIsReplay' /\ NoLostUpdate'
  BY <1>3, CommitHistory
<1>4. ASSUME UNCHANGED <<proposals, events, state, version>>
      PROVE  StateIsReplay' /\ NoLostUpdate'
  <2>1. StateIsReplay'
    BY <1>0, <1>4, Zenon DEF StateIsReplay
  <2>2. NoLostUpdate'
    BY <1>0, <1>4, Zenon DEF NoLostUpdate
  <2> QED
    BY <2>1, <2>2
<1>5. ASSUME \/ \E base \in Bases : ShadowCreate(base)
             \/ \E payload \in Payloads : ShadowUpdate(payload)
             \/ UNCHANGED vars
      PROVE  UNCHANGED <<proposals, audit, events, state, version>>
  BY <1>5 DEF ShadowCreate, ShadowUpdate, vars
<1>6. StateIsReplay' /\ NoLostUpdate'
  BY <1>1, <1>2, <1>3, <1>4, <1>5 DEF Next
<1> QED
  BY <1>0, <1>6 DEF History

LEMMA AlwaysHistory == Spec => []History
  BY InitHistory, NextHistory, PTL DEF Spec

(* Replaying the events gives the canonical state (apply_event).            *)
THEOREM EventsReplay == Spec => []StateIsReplay
<1>1. History => StateIsReplay
  BY DEF History
<1> QED
  BY <1>1, AlwaysHistory, PTL

(* No update is lost and no proposal committed twice (commit).              *)
THEOREM UpdatesKept == Spec => []NoLostUpdate
<1>1. History => NoLostUpdate
  BY DEF History
<1> QED
  BY <1>1, AlwaysHistory, PTL

-----------------------------------------------------------------------------
(* An approved proposal is one whose latest decision is a governor's        *)
(* approval, whatever decision a commit is given.                           *)

\* The i-th audit record is the latest decision on p.
Latest(i, p) ==
  /\ i \in DOMAIN audit /\ Decides(i, p)
  /\ \A j \in DOMAIN audit : j > i => ~Decides(j, p)

ApprovedByGovernor ==
  \A p \in DOMAIN proposals : proposals[p].status = "approved" =>
    \E d \in DOMAIN audit :
      /\ Latest(d, p)
      /\ audit[d] = [type |-> "approve", proposal |-> p, role |-> "governor"]

Answerable == Typed /\ ApprovedByGovernor /\ CommitsAnswerable

LEMMA InitAnswerable == Init => Answerable
<1> SUFFICES ASSUME Init PROVE Answerable
  OBVIOUS
<1>1. Typed
  BY InitTyped
<1>2. ApprovedByGovernor /\ CommitsAnswerable
  BY DEF Init, ApprovedByGovernor, CommitsAnswerable
<1> QED
  BY <1>1, <1>2 DEF Answerable

\* A longer audit log takes nothing from what it answers for.
LEMMA AnswersKept ==
  ASSUME TypeOK, NEW p, NEW role, Answered(p, role),
         DOMAIN audit \subseteq DOMAIN audit',
         \A j \in DOMAIN audit : audit'[j] = audit[j]
  PROVE  Answered(p, role)'
<1>1. PICK d, c \in DOMAIN audit :
        /\ c > d
        /\ audit[d] = [type |-> "approve", proposal |-> p, role |-> "governor"]
        /\ audit[c] = [type |-> "commit", proposal |-> p, role |-> role]
        /\ \A j \in d + 1 .. c : ~Decides(j, p)
  BY DEF Answered
<1>2. d + 1 .. c \subseteq DOMAIN audit
  BY <1>1 DEF TypeOK
<1>3. \A j \in d + 1 .. c : ~Decides(j, p)'
  BY <1>1, <1>2 DEF Decides, IsDecision
<1> QED
  BY <1>1, <1>3 DEF Answered

LEMMA AllAnswersKept ==
  ASSUME TypeOK, CommitsAnswerable,
         DOMAIN audit \subseteq DOMAIN audit',
         \A j \in DOMAIN audit : audit'[j] = audit[j],
         NEW i \in DOMAIN events, events'[i] = events[i], events'[i].proposal # 0
  PROVE  Answered(events[i].proposal, events[i].role)'
<1>1. PICK p, role : p = events[i].proposal /\ role = events[i].role
  OBVIOUS
<1>2. Answered(p, role)
  BY <1>1 DEF CommitsAnswerable
<1>3. Answered(p, role)'
  BY <1>2, AnswersKept
<1> QED
  BY <1>1, <1>3

LEMMA DecideAnswerable ==
  ASSUME Answerable, NEW q \in DOMAIN proposals, NEW role \in Roles,
         NEW approve \in BOOLEAN, Decide(q, role, approve)
  PROVE  ApprovedByGovernor' /\ CommitsAnswerable'
<1> DEFINE rec == [type |-> IF approve THEN "approve" ELSE "deny",
                   proposal |-> q, role |-> role]
<1>0. Typed /\ TypeOK /\ ApprovedByGovernor /\ CommitsAnswerable
  BY DEF Answerable, Typed
<1>n. PICK n : n = Len(audit) + 1
  OBVIOUS
<1>1. audit \in Seq(AuditRecords) /\ Len(audit) \in Nat /\ audit' = Append(audit, rec)
  BY <1>0 DEF Typed, TypeOK, Decide
<1>2. /\ DOMAIN audit = 1 .. Len(audit) /\ DOMAIN audit' = 1 .. n
      /\ \A i \in DOMAIN audit : audit'[i] = audit[i]
      /\ audit'[n] = rec
  BY <1>1, <1>n
<1>3. DOMAIN proposals' = DOMAIN proposals /\ events' = events
  BY DEF Decide
<1>4. /\ \A p \in DOMAIN proposals : p # q => proposals'[p].status = proposals[p].status
      /\ proposals'[q].status = Status(role, approve)
  BY <1>0, DecideTyped
<1>5. ApprovedByGovernor'
  <2> SUFFICES ASSUME NEW p \in DOMAIN proposals, proposals'[p].status = "approved"
               PROVE  \E d \in DOMAIN audit' :
                        /\ Latest(d, p)'
                        /\ audit'[d] = [type |-> "approve", proposal |-> p, role |-> "governor"]
    BY <1>3 DEF ApprovedByGovernor
  <2>1. CASE p = q
    <3>1. approve /\ role = "governor"
      BY <1>4, <2>1 DEF Status
    <3>2. Decides(n, q)'
      BY <1>2 DEF Decides, IsDecision
    <3>3. n \in DOMAIN audit' /\ \A j \in DOMAIN audit' : ~(j > n)
      BY <1>n, <1>1, <1>2
    <3>4. Latest(n, q)'
      BY <3>2, <3>3 DEF Latest
    <3> QED
      BY <1>2, <2>1, <3>1, <3>3, <3>4
  <2>2. CASE p # q
    <3>1. proposals[p].status = "approved"
      BY <1>4, <2>2
    <3>2. PICK d \in DOMAIN audit :
            /\ Latest(d, p)
            /\ audit[d] = [type |-> "approve", proposal |-> p, role |-> "governor"]
      BY <1>0, <3>1 DEF ApprovedByGovernor
    <3>3. ~Decides(n, p)'
      BY <1>2, <2>2 DEF Decides
    <3>4. Latest(d, p)' /\ d \in DOMAIN audit'
      BY <1>n, <1>1, <1>2, <3>2, <3>3 DEF Latest, Decides, IsDecision
    <3> QED
      BY <1>2, <3>2, <3>4
  <2> QED
    BY <2>1, <2>2
<1>6. CommitsAnswerable'
  <2>1. DOMAIN audit \subseteq DOMAIN audit'
    BY <1>n, <1>1, <1>2
  <2>2. \A i \in DOMAIN events : events[i].proposal # 0 =>
          Answered(events[i].proposal, events[i].role)'
    BY <1>0, <1>2, <1>3, <2>1, AllAnswersKept
  <2>3. ASSUME NEW c \in DOMAIN audit', audit'[c].type = "commit"
        PROVE  c \in DOMAIN audit /\ audit'[c] = audit[c]
    <3>1. c # n
      BY <1>2, <2>3
    <3> QED
      BY <1>n, <1>1, <1>2, <3>1
  <2> QED
    BY <1>0, <1>3, <2>2, <2>3 DEF CommitsAnswerable
<1> QED
  BY <1>5, <1>6

LEMMA CommitAnswerable ==
  ASSUME Answerable, NEW q \in DOMAIN proposals, NEW role \in Roles,
         NEW cited \in DOMAIN audit, Commit(q, cited, role)
  PROVE  ApprovedByGovernor' /\ CommitsAnswerable'
<1>0. Typed /\ TypeOK /\ ApprovedByGovernor /\ CommitsAnswerable
  BY DEF Answerable, Typed
<1>n. PICK n, m : n = Len(audit) + 1 /\ m = Len(events) + 1
  OBVIOUS
<1>a. /\ Len(audit) \in Nat /\ DOMAIN audit = 1 .. Len(audit) /\ DOMAIN audit' = 1 .. n
      /\ \A i \in DOMAIN audit : audit'[i] = audit[i]
      /\ audit'[n] = [type |-> "commit", proposal |-> q, role |-> role]
  BY <1>0, <1>n, Committed
<1>e. /\ Len(events) \in Nat /\ DOMAIN events = 1 .. Len(events) /\ DOMAIN events' = 1 .. m
      /\ \A i \in DOMAIN events : events'[i] = events[i]
  BY <1>0, <1>n, Committed
<1>m. events'[m].proposal = q /\ events'[m].role = role
  BY <1>0, <1>n, CommittedFields
<1>2. proposals' = proposals /\ proposals[q].status = "approved"
  BY DEF Commit, Committable
<1>3. ASSUME NEW p PROVE ~Decides(n, p)'
  BY <1>a DEF Decides, IsDecision
<1>4. ASSUME NEW d \in DOMAIN audit, NEW p, Latest(d, p)
      PROVE  Latest(d, p)' /\ d \in DOMAIN audit'
  BY <1>n, <1>a, <1>3, <1>4 DEF Latest, Decides, IsDecision
<1>5. ApprovedByGovernor'
  <2> SUFFICES ASSUME NEW p \in DOMAIN proposals, proposals[p].status = "approved"
               PROVE  \E d \in DOMAIN audit' :
                        /\ Latest(d, p)'
                        /\ audit'[d] = [type |-> "approve", proposal |-> p, role |-> "governor"]
    BY <1>2 DEF ApprovedByGovernor
  <2>1. PICK d \in DOMAIN audit :
          /\ Latest(d, p)
          /\ audit[d] = [type |-> "approve", proposal |-> p, role |-> "governor"]
    BY <1>0 DEF ApprovedByGovernor
  <2> QED
    BY <1>a, <1>4, <2>1
<1>6. CommitsAnswerable'
  <2>1. DOMAIN audit \subseteq DOMAIN audit'
    BY <1>n, <1>a
  <2>2. PICK d \in DOMAIN audit :
          /\ Latest(d, q)
          /\ audit[d] = [type |-> "approve", proposal |-> q, role |-> "governor"]
    BY <1>0, <1>2 DEF ApprovedByGovernor
  <2>3. \A j \in d + 1 .. n : ~Decides(j, q)'
    <3> TAKE j \in d + 1 .. n
    <3>1. CASE j = n
      BY <1>3, <3>1
    <3>2. CASE j # n
      <4>1. j \in DOMAIN audit /\ j > d
        BY <1>n, <1>a, <3>2
      <4>2. ~Decides(j, q)
        BY <2>2, <4>1 DEF Latest
      <4> QED
        BY <1>a, <4>1, <4>2 DEF Decides, IsDecision
    <3> QED
      BY <3>1, <3>2
  <2>4. n \in DOMAIN audit' /\ n > d /\ d \in DOMAIN audit' /\ audit'[d] = audit[d]
    BY <1>n, <1>a
  <2>5. Answered(q, role)'
    BY <1>a, <2>2, <2>3, <2>4 DEF Answered
  <2>6. ASSUME NEW i \in DOMAIN events', events'[i].proposal # 0
        PROVE  Answered(events[i].proposal, events[i].role)'
    <3>1. CASE i = m
      BY <1>m, <2>5, <3>1
    <3>2. CASE i \in DOMAIN events
      BY <1>0, <1>a, <1>e, <2>1, <2>6, <3>2, AllAnswersKept
    <3> QED
      BY <1>n, <1>e, <3>1, <3>2
  <2>7. ASSUME NEW c \in DOMAIN audit', audit'[c].type = "commit"
        PROVE  \E i \in DOMAIN events' : /\ events'[i].proposal = audit'[c].proposal
                                         /\ events'[i].role = audit'[c].role
    <3>1. CASE c = n
      BY <1>a, <1>n, <1>e, <1>m, <3>1
    <3>2. CASE c \in DOMAIN audit
      <4>1. PICK i \in DOMAIN events : /\ events[i].proposal = audit[c].proposal
                                       /\ events[i].role = audit[c].role
        BY <1>0, <1>a, <2>7, <3>2 DEF CommitsAnswerable
      <4> QED
        BY <1>a, <1>n, <1>e, <3>2, <4>1
    <3> QED
      BY <1>a, <1>n, <3>1, <3>2
  <2> QED
    BY <2>6, <2>7 DEF CommitsAnswerable
<1> QED
  BY <1>5, <1>6

LEMMA AnswersStand ==
  ASSUME TypeOK, CommitsAnswerable, UNCHANGED <<audit, events>>
  PROVE  CommitsAnswerable'
<1>1. \A i \in DOMAIN events' : events'[i].proposal # 0 =>
        Answered(events[i].proposal, events[i].role)'
  BY AllAnswersKept
<1>2. \A c \in DOMAIN audit : audit[c].type = "commit" =>
        \E i \in DOMAIN events :
          events[i].proposal = audit[c].proposal /\ events[i].role = audit[c].role
  BY DEF CommitsAnswerable
<1> QED
  BY <1>1, <1>2 DEF CommitsAnswerable

LEMMA NextAnswerable == Answerable /\ [Next]_vars => Answerable'
<1> SUFFICES ASSUME Answerable, [Next]_vars PROVE Answerable'
  OBVIOUS
<1>0. Typed /\ Typed' /\ ApprovedByGovernor /\ CommitsAnswerable
  BY NextTyped DEF Answerable
<1>1. ASSUME NEW payload \in Payloads, NEW base \in 0 .. version,
             CreateProposal(payload, base)
      PROVE  ApprovedByGovernor' /\ CommitsAnswerable'
  <2> DEFINE rec == [status |-> "tentative", payload |-> payload, base |-> base]
  <2>1. proposals' = Append(proposals, rec) /\ UNCHANGED <<events, audit>>
    BY <1>1 DEF CreateProposal
  <2>2. rec.status # "approved"
    OBVIOUS
  <2> HIDE DEF rec
  <2>3. /\ \A p \in DOMAIN proposals : proposals'[p] = proposals[p]
        /\ \A p \in DOMAIN proposals' : p \in DOMAIN proposals \/ proposals'[p] = rec
    BY <1>0, <2>1 DEF Typed, TypeOK
  <2>4. ApprovedByGovernor'
    BY <1>0, <2>1, <2>2, <2>3 DEF ApprovedByGovernor, Latest, Decides, IsDecision
  <2>5. CommitsAnswerable'
    BY <1>0, <2>1, AnswersStand DEF Typed
  <2> QED
    BY <2>4, <2>5
<1>2. ASSUME NEW p \in DOMAIN proposals, NEW role \in Roles, NEW approve \in BOOLEAN,
             Decide(p, role, approve)
      PROVE  ApprovedByGovernor' /\ CommitsAnswerable'
  BY <1>2, DecideAnswerable
<1>3. ASSUME NEW p \in DOMAIN proposals, NEW role \in Roles, NEW d \in DOMAIN audit,
             Commit(p, d, role)
      PROVE  ApprovedByGovernor' /\ CommitsAnswerable'
  BY <1>3, CommitAnswerable
<1>4. ASSUME UNCHANGED <<proposals, audit, events>>
      PROVE  ApprovedByGovernor' /\ CommitsAnswerable'
  <2>1. ApprovedByGovernor'
    BY <1>0, <1>4, Zenon DEF ApprovedByGovernor, Latest, Decides, IsDecision
  <2>2. CommitsAnswerable'
    BY <1>0, <1>4, AnswersStand DEF Typed
  <2> QED
    BY <2>1, <2>2
<1>5. ASSUME \/ \E base \in Bases : ShadowCreate(base)
             \/ \E payload \in Payloads : ShadowUpdate(payload)
             \/ UNCHANGED vars
      PROVE  UNCHANGED <<proposals, audit, events, state, version>>
  BY <1>5 DEF ShadowCreate, ShadowUpdate, vars
<1>6. ApprovedByGovernor' /\ CommitsAnswerable'
  BY <1>1, <1>2, <1>3, <1>4, <1>5 DEF Next
<1> QED
  BY <1>0, <1>6 DEF Answerable

(* Every committed event is answered for by a governor's approval and a     *)
(* commit record, and every commit record has its event (decide, commit).   *)
THEOREM CommitsAnsweredFor == Spec => []CommitsAnswerable
<1>1. Answerable => CommitsAnswerable
  BY DEF Answerable
<1> QED
  BY <1>1, InitAnswerable, NextAnswerable, PTL DEF Spec
=============================================================================
