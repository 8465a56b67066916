----------------------------- MODULE MCGovernance ----------------------------
(***************************************************************************)
(* Model-checking instances of Governance: two keys, so that payloads       *)
(* overlap in part, and two payloads that write the first of them.          *)
(***************************************************************************)
EXTENDS Governance, TLC

CONSTANTS staffing, revenue,   \* keys
          low, high            \* values

MCPayloads == {staffing :> low, (staffing :> high) @@ (revenue :> low)}
=============================================================================
