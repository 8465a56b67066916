------------------------------ MODULE Governance -----------------------------
(***************************************************************************)
(* governance_sim.py: agents propose changes of a canonical state, deciders *)
(* approve or deny the proposals, and a commit service turns an approved    *)
(* proposal into an event of an append-only store and into the next version *)
(* of the state.  Decisions and commits leave audit records.                *)
(*                                                                          *)
(* A proposal is known by its place in the order of creation.  It names the *)
(* version of the state its proposer had read, one the state has been at.   *)
(* A commit is given a decision too, which it cites and does not look at:   *)
(* any on record will do, a denial or one on another proposal included.     *)
(* A call that raises changes nothing and is no step.                       *)
(***************************************************************************)
EXTENDS Naturals, Sequences

CONSTANTS Keys, Values,  \* of the canonical state
          Unset,         \* the value of a key the state lacks
          Payloads,      \* what a proposal or a seed may write
          MaxProposals,  \* bound on the proposals
          MaxRecords     \* bound on the audit records

ASSUME GovernanceAssumption ==
  /\ Unset \notin Values
  /\ \A payload \in Payloads :
       DOMAIN payload \subseteq Keys /\ payload \in [DOMAIN payload -> Values]
  /\ MaxProposals \in Nat /\ MaxRecords \in Nat

VARIABLES proposals,  \* ProposalStore.proposals
          audit,      \* AuditLog.records
          events,     \* InMemoryEventStore.events
          state,      \* CanonicalState.state
          version,    \* CanonicalState.version
          shadow      \* a projection of ProjectionManager.shadows; Unset: not created

vars == <<proposals, audit, events, state, version, shadow>>

Roles == {"agent", "governor", "system"}
Committers == {"governor", "system"}
States == [Keys -> Values \cup {Unset}]

ProposalRecords == [status : {"tentative", "approved", "rejected"},
                    payload : Payloads, base : Nat]

\* `proposal` is 0 in the record of the seeding event.
AuditRecords == [type : {"init", "approve", "deny", "commit"}, proposal : Nat,
                 role : Roles]

\* `decision` is the place of the decision in the audit log.
Events == [proposal : Nat, decision : Nat, payload : Payloads, role : Committers,
           prev : Nat, new : Nat]

-----------------------------------------------------------------------------
Overlay(s, payload) ==
  [k \in Keys |-> IF k \in DOMAIN payload THEN payload[k] ELSE s[k]]

IsDecision(i) == audit[i].type \in {"approve", "deny"}
Decides(i, p) == IsDecision(i) /\ audit[i].proposal = p

\* Mutant of Status: any approval counts, whoever gives it.
StatusUnranked(role, approve) == IF approve THEN "approved" ELSE "rejected"

\* Only a governor's approval approves; another's puts the proposal back to
\* tentative; anyone's denial rejects it.
Status(role, approve) ==
  IF ~approve THEN "rejected" ELSE IF role = "governor" THEN "approved" ELSE "tentative"

-----------------------------------------------------------------------------
Blank == [k \in Keys |-> Unset]

\* make_environment without an initial state, or seeded with one.
Init ==
  /\ proposals = << >>
  /\ shadow = Unset
  /\ \/ audit = << >> /\ events = << >> /\ state = Blank /\ version = 0
     \/ \E seed \in Payloads :
          /\ audit = <<[type |-> "init", proposal |-> 0, role |-> "system"]>>
          /\ events = <<[proposal |-> 0, decision |-> 0, payload |-> seed,
                         role |-> "system", prev |-> 0, new |-> 1]>>
          /\ state = Overlay(Blank, seed)
          /\ version = 1

CreateProposal(payload, base) ==
  /\ Len(proposals) < MaxProposals
  /\ proposals' = Append(proposals, [status |-> "tentative", payload |-> payload,
                                     base |-> base])
  /\ UNCHANGED <<audit, events, state, version, shadow>>

Decide(p, role, approve) ==
  /\ Len(audit) < MaxRecords
  /\ audit' = Append(audit, [type |-> IF approve THEN "approve" ELSE "deny",
                             proposal |-> p, role |-> role])
  /\ proposals' = [proposals EXCEPT ![p].status = Status(role, approve)]
  /\ UNCHANGED <<events, state, version, shadow>>

\* Mutant of Committable: the stale-version check is gone.
CommittableStale(p, role) == proposals[p].status = "approved" /\ role \in Committers

Committable(p, role) ==
  /\ proposals[p].status = "approved"
  /\ role \in Committers
  /\ proposals[p].base = version

\* Mutant of Apply: the state is replaced by the payload.
ApplyReplacing(payload) == Overlay(Blank, payload)

\* CanonicalState.apply_event overwrites key by key.
Apply(payload) == Overlay(state, payload)

\* The commit service appends the event, applies it and audits it.
Commit(p, d, role) ==
  /\ Len(audit) < MaxRecords
  /\ Committable(p, role)
  /\ IsDecision(d)
  /\ events' = Append(events, [proposal |-> p, decision |-> d,
                               payload |-> proposals[p].payload, role |-> role,
                               prev |-> version, new |-> version + 1])
  /\ state' = Apply(proposals[p].payload)
  /\ version' = version + 1
  /\ audit' = Append(audit, [type |-> "commit", proposal |-> p, role |-> role])
  /\ UNCHANGED <<proposals, shadow>>

Bases == {Blank} \cup {Overlay(Blank, payload) : payload \in Payloads}

\* A shadow starts from the base given, or from the state if that is empty.
ShadowCreate(base) ==
  /\ shadow' = IF base = Blank THEN state ELSE base
  /\ UNCHANGED <<proposals, audit, events, state, version>>

ShadowUpdate(payload) ==
  /\ shadow # Unset
  /\ shadow' = Overlay(shadow, payload)
  /\ UNCHANGED <<proposals, audit, events, state, version>>

Next ==
  \/ \E payload \in Payloads, base \in 0 .. version : CreateProposal(payload, base)
  \/ \E p \in DOMAIN proposals, role \in Roles :
       \/ \E approve \in BOOLEAN : Decide(p, role, approve)
       \/ \E d \in DOMAIN audit : Commit(p, d, role)
  \/ \E base \in Bases : ShadowCreate(base)
  \/ \E payload \in Payloads : ShadowUpdate(payload)

Spec == Init /\ [][Next]_vars

-----------------------------------------------------------------------------
TypeOK ==
  /\ proposals \in Seq(ProposalRecords)
  /\ audit \in Seq(AuditRecords)
  /\ events \in Seq(Events)
  /\ state \in States
  /\ version \in Nat
  /\ shadow \in States \cup {Unset}

(* The events alone give back the canonical state: each key holds what the  *)
(* last event that wrote it wrote, and the versions count the events        *)
(* (apply_event; replayed so by the replay test).                           *)
StateIsReplay ==
  /\ version = Len(events)
  /\ \A i \in DOMAIN events : events[i].prev = i - 1 /\ events[i].new = i
  /\ \A k \in Keys :
       \/ /\ state[k] = Unset
          /\ \A i \in DOMAIN events : k \notin DOMAIN events[i].payload
       \/ \E i \in DOMAIN events :
            /\ k \in DOMAIN events[i].payload
            /\ state[k] = events[i].payload[k]
            /\ \A j \in DOMAIN events : j > i => k \notin DOMAIN events[j].payload

(* No update is lost or made twice: whoever proposed a committed change had *)
(* read every event before it, and an approved proposal, though it stays    *)
(* approved, cannot be committed again (commit's stale-version check).      *)
NoLostUpdate ==
  \A i \in DOMAIN events : events[i].proposal # 0 =>
    /\ proposals[events[i].proposal].base = i - 1
    /\ \A j \in DOMAIN events : events[j].proposal = events[i].proposal => j = i

\* A governor approved p, and a commit of p by such a role followed with no
\* other decision on p in between.
Answered(p, role) ==
  \E d, c \in DOMAIN audit :
    /\ c > d
    /\ audit[d] = [type |-> "approve", proposal |-> p, role |-> "governor"]
    /\ audit[c] = [type |-> "commit", proposal |-> p, role |-> role]
    /\ \A j \in d + 1 .. c : ~Decides(j, p)

(* Every committed event can be answered for from the audit log, whatever   *)
(* decision the event itself cites: its commit record follows a governor's  *)
(* approval of its proposal with no other decision on the proposal in       *)
(* between; and no commit is on record without its event (decide, commit).  *)
CommitsAnswerable ==
  /\ \A i \in DOMAIN events : events[i].proposal # 0 =>
       Answered(events[i].proposal, events[i].role)
  /\ \A c \in DOMAIN audit : audit[c].type = "commit" =>
       \E i \in DOMAIN events :
         events[i].proposal = audit[c].proposal /\ events[i].role = audit[c].role

=============================================================================
