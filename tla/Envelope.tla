------------------------------- MODULE Envelope -------------------------------
(***************************************************************************)
(* ResultEnvelope and what WorkerSpawner._verify_envelope finds wrong with  *)
(* one (research_graph_workers.py), seen as its caller can use it: through  *)
(* the kinds of error that classify_rejection tells apart.  The module has  *)
(* no variables; ExtractionWorkflow knows an envelope by the verdict only.  *)
(*                                                                          *)
(* A node is seen through its id, its confidence (hundredths, any integer)  *)
(* and whether validate_node finds its fields of the right kinds; a trace   *)
(* through its decision, its confidence and the ids it accounts for.  What  *)
(* the workers copy from the directive or count up (job and worker id, node *)
(* type, source paper, trace ids) always passes and is left out.            *)
(***************************************************************************)
EXTENDS Integers, Sequences

CONSTANT NoCap    \* the max_results of a directive that has none

Elements(list) == {list[i] : i \in DOMAIN list}

Ids(nodes) == {node.id : node \in Elements(nodes)}

InRange(conf) == 0 <= conf /\ conf <= 100

\* The nodes some EXTRACT trace accounts for.
Traced(traces) ==
  UNION {trace.outputs : trace \in {t \in Elements(traces) : t.decision = "EXTRACT"}}

Overfull(nodes, cap) == cap # NoCap /\ Len(nodes) > cap

Repeats(nodes) == \E i, j \in DOMAIN nodes : i # j /\ nodes[i].id = nodes[j].id

\* Every node is accounted for, nothing else is, each confidence is in range.
TraceErrors(nodes, traces) ==
  \/ \E trace \in Elements(traces) :
       ~InRange(trace.conf) \/ ~(trace.outputs \subseteq Ids(nodes))
  \/ Ids(nodes) \ Traced(traces) # {}

\* All of them are collected; `present` are the ids already in the graph.
Errors(nodes, traces, floor, cap, present) ==
  {kind \in {"too many", "node confidence", "node id", "known id", "traces", "node field"} :
     \/ kind = "too many" /\ Overfull(nodes, cap)
     \/ kind = "node confidence" /\ \E node \in Elements(nodes) :
                                      node.conf < floor \/ ~InRange(node.conf)
     \/ kind = "node id" /\ Repeats(nodes)
     \/ kind = "known id" /\ Ids(nodes) \cap present # {}
     \/ kind = "traces" /\ TraceErrors(nodes, traces)
     \/ kind = "node field" /\ \E node \in Elements(nodes) : ~node.typed}

\* The least fixable kind decides.
ClassifyRejection(errors) ==
  IF errors \cap {"too many", "node confidence"} # {} THEN "capacity_violation"
  ELSE IF errors \cap {"node id", "known id"} # {} THEN "structural_mismatch"
  ELSE IF "traces" \in errors THEN "trace_integrity"
  ELSE IF "node field" \in errors THEN "reparable_field_error"
  ELSE "unclassified"
=============================================================================
