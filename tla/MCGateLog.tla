----------------------------- MODULE MCGateLog ------------------------------
(***************************************************************************)
(* Model-checking instance of GateLog: confidences on both sides of the     *)
(* waiver floor and of the threshold, both boundaries, and no confidence.   *)
(***************************************************************************)
EXTENDS GateLog

CONSTANT alice

MCSigners == {alice}
MCLevels == {0, 39, 40, 69, 70, 100, NoConfidence}
=============================================================================
