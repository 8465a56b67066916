------------------------------ MODULE GateLog -------------------------------
(***************************************************************************)
(* A WorkflowGate object in use: any caller asks it about any node in any   *)
(* state (the spawner about its jobs, graph_queries and graph_inspector     *)
(* about whatever a reader asks for), and it logs every decision it makes.  *)
(* `asked` remembers the question each logged decision answered.            *)
(***************************************************************************)
EXTENDS Gate, Sequences, FiniteSetsExt

CONSTANTS Levels,        \* the confidences nodes are seen with
          Signers,       \* the names a review may be signed with
          MaxLogged      \* bound on the length of the log

ASSUME GateLogAssumption ==
  /\ Levels \subseteq Confidences \cup {NoConfidence}
  /\ Anonymous \notin Signers
  /\ MaxLogged \in Nat

VARIABLES gateDecisions,  \* WorkflowGate.decisions
          asked           \* the question of each decision

logVars == <<gateDecisions, asked>>

Views == [type : NodeTypes, complete : BOOLEAN, sourced : BOOLEAN,
          conf : Levels, reviewed : BOOLEAN, entailed : BOOLEAN]

Tasks == [waived : BOOLEAN, status : {"pending", "approved", "rejected"},
          reasoned : BOOLEAN, by : Signers \cup {Anonymous},
          reviewed : BOOLEAN]

NoTask == [waived |-> FALSE, status |-> "none", reasoned |-> FALSE,
           by |-> Anonymous, reviewed |-> FALSE]

Questions == [node : Views, task : Tasks \cup {NoTask}, contested : BOOLEAN]

-----------------------------------------------------------------------------
\* Mutant: a waived pass is reported as an earned one.
DecisionMergesWaived(q) ==
  LET checks == Checks(q.node, q.task, q.contested)
      failing == {i \in DOMAIN checks : ~checks[i].passed}
  IN [canProceed |-> failing = {}, ran |-> Min(failing \cup {Len(checks)}),
      reason |-> IF failing = {} THEN "ALLOWED" ELSE checks[Min(failing)].code]

\* The first failing check decides; a pass that needed the waiver says so.
Decision(q) ==
  LET checks == Checks(q.node, q.task, q.contested)
      failing == {i \in DOMAIN checks : ~checks[i].passed}
  IN IF failing # {}
     THEN [canProceed |-> FALSE, reason |-> checks[Min(failing)].code,
           ran |-> Min(failing)]
     ELSE [canProceed |-> TRUE, ran |-> Len(checks),
           reason |-> IF Confident(q.node) THEN "ALLOWED" ELSE "ALLOWED_BY_WAIVER"]

LogInit == gateDecisions = << >> /\ asked = << >>

ShouldUnlockNextStage(q) ==
  /\ gateDecisions' = Append(gateDecisions, Decision(q))
  /\ asked' = Append(asked, q)

LogNext ==
  /\ Len(gateDecisions) < MaxLogged
  /\ \E q \in Questions : ShouldUnlockNextStage(q)

LogSpec == LogInit /\ [][LogNext]_logVars

-----------------------------------------------------------------------------

(* A verdict is earned: although the gate stops at the first failure, a     *)
(* node proceeds just when it passes all seven checks; and a waiver rescues *)
(* a low confidence and nothing else.  The same question without the review *)
(* task gets the same answer, or got LOW_CONFIDENCE, and what a rescued     *)
(* node passes by is reported as ALLOWED_BY_WAIVER, never merged with an    *)
(* earned ALLOWED (should_unlock_next_stage,                                *)
(* _check_confidence_above_threshold).                                      *)
VerdictIsEarned ==
  \A i \in DOMAIN gateDecisions :
    LET bare == Decision([asked[i] EXCEPT !.task = NoTask])
    IN /\ gateDecisions[i].canProceed
            <=> CanProceed(asked[i].node, asked[i].task, asked[i].contested)
       /\ \/ gateDecisions[i] = bare
          \/ /\ bare.reason = "LOW_CONFIDENCE"
             /\ gateDecisions[i].reason # "ALLOWED"

=============================================================================
