------------------------------- MODULE Workers -------------------------------
(***************************************************************************)
(* The workers of the repository at work on one directive: ReferenceWorker  *)
(* (research_graph_workers.py) and LLMWorker (llm_worker.py).  Each goes    *)
(* through the items it finds in the text, the sentences, terms and names   *)
(* of the one, the items of the model's answer of the other, and answers    *)
(* every one with a trace: it skips, abstains, or emits a node.  One turn   *)
(* of the loop is one action; the modules that use this one say when a      *)
(* worker is called and what becomes of its envelope.                       *)
(*                                                                          *)
(* The form of an item tells how far the loop gets with it:                 *)
(*   fit        it makes a sound node                                       *)
(*   unusable   no relation verb; a required field missing or empty         *)
(*   mistyped   a required field other than the text of the wrong type      *)
(*   textless   a text that is no string: it raises where the id is made    *)
(*   malformed  no object, or a confidence that is no number: it raises     *)
(***************************************************************************)
EXTENDS Envelope

VARIABLES worker,    \* "reference" or "llm", or "none" where nobody called one
          asked,     \* the directive: extraction type, floor and cap
          items,     \* what the loop has not come to
          emitted,   \* ResultEnvelope.nodes
          traces     \* ResultEnvelope.traces

work == <<asked, items, emitted, traces>>

Items(ids) == [id : ids, conf : Int,
               form : {"fit", "unusable", "mistyped", "textless", "malformed"}]

Supported ==
  IF worker = "reference" THEN {"claims", "concepts", "benchmarks"}
                          ELSE {"claims", "concepts"}

\* What the worker may find in a text: the reference worker scores what it
\* finds itself, and counts terms and names by what they are.  A concept has
\* no required field but its text.
Finds(type, text) ==
  /\ worker = "reference" =>
       /\ \A item \in Elements(text) : item.form \in {"fit", "unusable"} /\ InRange(item.conf)
       /\ type # "claims" =>
            ~Repeats(text) /\ \A item \in Elements(text) : item.form = "fit"
  /\ type # "claims" => \A item \in Elements(text) : item.form # "mistyped"

\* run, up to the loop.
Called(type, floor, cap, text) ==
  /\ asked' = [type |-> type, floor |-> floor, cap |-> cap]
  /\ items' = text
  /\ emitted' = << >> /\ traces' = << >>

-----------------------------------------------------------------------------
(* The loop. *)

Answer(decision, conf, outputs) ==
  /\ items # << >>
  /\ items' = Tail(items)
  /\ traces' = Append(traces, [decision |-> decision, conf |-> conf, outputs |-> outputs])
  /\ UNCHANGED <<worker, asked>>

\* Only the reference worker's loop over sentences does not look at the cap.
HonoursCap == worker = "llm" \/ asked.type # "claims"

\* Mutant of AtCap: the cap is noticed when it has been passed.
AtCapLate == HonoursCap /\ asked.cap # NoCap /\ Len(emitted) > asked.cap

AtCap == HonoursCap /\ asked.cap # NoCap /\ Len(emitted) >= asked.cap

Legible == Head(items).form \in {"fit", "mistyped", "textless"}

SkipUnusable ==
  /\ Answer("SKIP", IF worker = "reference" THEN 10 ELSE 0, {})
  /\ Head(items).form = "unusable"
  /\ UNCHANGED emitted

SkipBelowFloor ==
  /\ Answer("SKIP", Head(items).conf, {})
  /\ Legible /\ Head(items).conf < asked.floor
  /\ UNCHANGED emitted

Abstain ==
  /\ Answer("ABSTAIN", Head(items).conf, {})
  /\ Legible /\ Head(items).conf >= asked.floor /\ AtCap
  /\ UNCHANGED emitted

Emit ==
  /\ Answer("EXTRACT", Head(items).conf, {Head(items).id})
  /\ Head(items).form \in {"fit", "mistyped"}
  /\ Head(items).conf >= asked.floor /\ ~AtCap
  /\ emitted' = Append(emitted, [id |-> Head(items).id, conf |-> Head(items).conf,
                                 typed |-> Head(items).form = "fit"])

Turn == SkipUnusable \/ SkipBelowFloor \/ Abstain \/ Emit

\* The exception leaves run: only the model's call and the parse are guarded.
Raises ==
  /\ items # << >>
  /\ \/ Head(items).form = "malformed"
     \/ Head(items).form = "textless" /\ Head(items).conf >= asked.floor /\ ~AtCap

-----------------------------------------------------------------------------
(* Properties of a finished loop. *)

FaultsIn(present) == Errors(emitted, traces, asked.floor, asked.cap, present)

(* What the spawner will hold against a worker of the repository can be     *)
(* told from the text: it never emits a node it does not account for, below *)
(* the floor or, but for the reference worker's claims, beyond the cap.     *)
(* What is left are items found twice, confidences and fields only a model  *)
(* can get wrong, and ids the graph has already; and a refusal classed as   *)
(* reparable has nothing else the matter with it (ReferenceWorker.run and   *)
(* LLMWorker.run against _verify_envelope and classify_rejection).          *)
FaultsForeseen(present) ==
  LET errors == FaultsIn(present)
  IN /\ "too many" \in errors => worker = "reference" /\ asked.type = "claims"
     /\ "node id" \in errors => worker = "llm" \/ asked.type = "claims"
     /\ errors \cap {"node confidence", "traces"} # {} =>
          worker = "llm" /\ \E trace \in Elements(traces) : ~InRange(trace.conf)
     /\ "node field" \in errors => worker = "llm" /\ asked.type = "claims"
     /\ ClassifyRejection(errors) = "reparable_field_error" => errors = {"node field"}
=============================================================================
