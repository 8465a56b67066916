-------------------------- MODULE Orchestrator_proofs --------------------------
(***************************************************************************)
(* Proofs about Orchestrator and Inspection, for any papers, texts, floors  *)
(* and caps: the orchestrator only calls the spawner, and what the spawner  *)
(* refuses can be told from the text.  Where each slot is spawned once, as  *)
(* the orchestrator spawns it, the report is true of the graph; where it is *)
(* also put one envelope, a failed job owns nothing, and a job parts from   *)
(* the gate over contradictions only.                                       *)
(***************************************************************************)
EXTENDS Orchestrator, Inspection, ExtractionWorkflow_proofs, FiniteSetTheorems

-----------------------------------------------------------------------------
(* The loop of a worker. *)

EmittedNodes == [id : Nodes, conf : Int, typed : BOOLEAN]

TraceRecords == [decision : {"SKIP", "ABSTAIN", "EXTRACT"}, conf : Int,
                 outputs : SUBSET Nodes]

LoopTyped ==
  /\ worker \in {"reference", "llm"} /\ asked.type \in Supported
  /\ asked.floor \in Int /\ asked.cap \in Nat \cup {NoCap}
  /\ items \in Seq(Items(Nodes))
  /\ emitted \in Seq(EmittedNodes)
  /\ traces \in Seq(TraceRecords)

\* Each node has its trace, and each trace speaks of nodes there are.
Accounted ==
  /\ \A i \in 1 .. Len(emitted) : \E k \in 1 .. Len(traces) :
       /\ traces[k].decision = "EXTRACT" /\ traces[k].conf = emitted[i].conf
       /\ emitted[i].id \in traces[k].outputs
  /\ \A k \in 1 .. Len(traces) : \A n \in traces[k].outputs :
       \E i \in 1 .. Len(emitted) : emitted[i].id = n

WithinLimits ==
  /\ \A i \in 1 .. Len(emitted) : emitted[i].conf >= asked.floor
  /\ HonoursCap /\ asked.cap # NoCap => Len(emitted) <= asked.cap

\* The reference worker scores what it finds itself.
SoundlyScored ==
  worker = "reference" =>
    /\ \A i \in 1 .. Len(items) : InRange(items[i].conf)
    /\ \A k \in 1 .. Len(traces) : InRange(traces[k].conf)

SoundlyTyped ==
  worker = "reference" \/ asked.type # "claims" =>
    /\ \A i \in 1 .. Len(items) : items[i].form # "mistyped"
    /\ \A i \in 1 .. Len(emitted) : emitted[i].typed

FoundOnce ==
  worker = "reference" /\ asked.type # "claims" =>
    /\ \A i, j \in 1 .. Len(items) : i # j => items[i].id # items[j].id
    /\ \A i, j \in 1 .. Len(emitted) : i # j => emitted[i].id # emitted[j].id
    /\ \A i \in 1 .. Len(items), j \in 1 .. Len(emitted) : items[i].id # emitted[j].id

Loop ==
  LoopTyped /\ Accounted /\ WithinLimits /\ SoundlyScored /\ SoundlyTyped /\ FoundOnce

LEMMA LoopStarts ==
  ASSUME NEW type, NEW floor \in Int, NEW cap \in Nat \cup {NoCap},
         NEW text \in Seq(Items(Nodes)),
         worker' \in {"reference", "llm"}, worker' = worker,
         type \in Supported, Finds(type, text), Called(type, floor, cap, text)
  PROVE  Loop'
<1>1. /\ asked' = [type |-> type, floor |-> floor, cap |-> cap]
      /\ items' = text /\ emitted' = << >> /\ traces' = << >>
  BY DEF Called
<1>2. LoopTyped'
  BY <1>1 DEF LoopTyped, Supported
<1>3. Accounted' /\ WithinLimits'
  BY <1>1 DEF Accounted, WithinLimits
<1>4. \A i \in 1 .. Len(text) : text[i] \in Elements(text)
  BY DEF Elements
<1>5. SoundlyScored' /\ SoundlyTyped'
  BY <1>1, <1>4 DEF SoundlyScored, SoundlyTyped, Finds
<1>6. FoundOnce'
  BY <1>1 DEF FoundOnce, Finds, Repeats
<1> QED
  BY <1>2, <1>3, <1>5, <1>6 DEF Loop

\* What a turn of the loop has in common, whatever it decides.
LEMMA AnswerFacts ==
  ASSUME LoopTyped, NEW decision \in {"SKIP", "ABSTAIN", "EXTRACT"}, NEW conf \in Int,
         NEW outputs \in SUBSET Nodes, Answer(decision, conf, outputs)
  PROVE  /\ Head(items) \in Items(Nodes) /\ Head(items) = items[1] /\ Len(items) > 0
         /\ items' \in Seq(Items(Nodes)) /\ Len(items') = Len(items) - 1
         /\ \A i \in 1 .. Len(items') : i + 1 \in 1 .. Len(items) /\ items'[i] = items[i + 1]
         /\ traces' \in Seq(TraceRecords) /\ Len(traces') = Len(traces) + 1
         /\ traces'[Len(traces) + 1] =
              [decision |-> decision, conf |-> conf, outputs |-> outputs]
         /\ \A k \in 1 .. Len(traces) : traces'[k] = traces[k]
         /\ UNCHANGED <<worker, asked>>
<1> DEFINE new == [decision |-> decision, conf |-> conf, outputs |-> outputs]
<1>1. new \in TraceRecords
  BY DEF TraceRecords
<1>2. /\ items # << >> /\ items' = Tail(items) /\ traces' = Append(traces, new)
      /\ UNCHANGED <<worker, asked>>
  BY DEF Answer
<1> HIDE DEF new
<1>3. items \in Seq(Items(Nodes)) /\ traces \in Seq(TraceRecords)
  BY DEF LoopTyped
<1>4. /\ Head(items) \in Items(Nodes) /\ Head(items) = items[1] /\ Len(items) > 0
      /\ items' \in Seq(Items(Nodes)) /\ Len(items') = Len(items) - 1
      /\ \A i \in 1 .. Len(items') : i + 1 \in 1 .. Len(items) /\ items'[i] = items[i + 1]
  BY <1>2, <1>3
<1>5. /\ traces' \in Seq(TraceRecords) /\ Len(traces') = Len(traces) + 1
      /\ traces'[Len(traces) + 1] = new
      /\ \A k \in 1 .. Len(traces) : traces'[k] = traces[k]
  BY <1>1, <1>2, <1>3
<1> QED
  BY <1>2, <1>4, <1>5 DEF new

\* A turn that emits nothing.
LEMMA PassKeeps ==
  ASSUME Loop, NEW decision \in {"SKIP", "ABSTAIN"}, NEW conf \in Int,
         worker = "reference" => InRange(conf),
         Answer(decision, conf, {}), UNCHANGED emitted
  PROVE  Loop'
<1> USE DEF Loop
<1>1. /\ items' \in Seq(Items(Nodes)) /\ Len(items') = Len(items) - 1
      /\ \A i \in 1 .. Len(items') : i + 1 \in 1 .. Len(items) /\ items'[i] = items[i + 1]
      /\ traces' \in Seq(TraceRecords) /\ Len(traces') = Len(traces) + 1
      /\ traces'[Len(traces) + 1] =
           [decision |-> decision, conf |-> conf, outputs |-> {}]
      /\ \A k \in 1 .. Len(traces) : traces'[k] = traces[k]
      /\ UNCHANGED <<worker, asked>>
  <2>1. decision \in {"SKIP", "ABSTAIN", "EXTRACT"} /\ {} \in SUBSET Nodes
    OBVIOUS
  <2> HIDE DEF Loop
  <2>2. LoopTyped
    BY DEF Loop
  <2> QED
    BY <2>1, <2>2, AnswerFacts
<1>2. /\ Len(items) \in Nat /\ Len(emitted) \in Nat /\ Len(traces) \in Nat
      /\ Len(items') \in Nat
  BY <1>1 DEF LoopTyped
<1>3. LoopTyped'
  BY <1>1 DEF LoopTyped, Supported
<1>4. \A k \in 1 .. Len(traces') : k \in 1 .. Len(traces) \/ k = Len(traces) + 1
  BY <1>1, <1>2
<1>5. Accounted'
  <2>1. ASSUME NEW i \in 1 .. Len(emitted)
        PROVE  \E k \in 1 .. Len(traces') :
                 /\ traces'[k].decision = "EXTRACT" /\ traces'[k].conf = emitted[i].conf
                 /\ emitted[i].id \in traces'[k].outputs
    <3>1. PICK k \in 1 .. Len(traces) :
                 /\ traces[k].decision = "EXTRACT" /\ traces[k].conf = emitted[i].conf
                 /\ emitted[i].id \in traces[k].outputs
      BY DEF Accounted
    <3>2. k \in 1 .. Len(traces') /\ traces'[k] = traces[k]
      BY <1>1, <1>2
    <3> QED
      BY <3>1, <3>2
  <2>2. ASSUME NEW k \in 1 .. Len(traces'), NEW n \in traces'[k].outputs
        PROVE  \E i \in 1 .. Len(emitted) : emitted[i].id = n
    <3>1. k \in 1 .. Len(traces) /\ traces'[k] = traces[k]
      BY <1>1, <1>4
    <3> QED
      BY <3>1 DEF Accounted
  <2> QED
    BY <2>1, <2>2 DEF Accounted
<1>6. WithinLimits'
  BY <1>1 DEF WithinLimits, HonoursCap
<1>7. SoundlyScored'
  <2> SUFFICES ASSUME worker = "reference"
               PROVE  /\ \A i \in 1 .. Len(items') : InRange(items'[i].conf)
                      /\ \A k \in 1 .. Len(traces') : InRange(traces'[k].conf)
    BY <1>1 DEF SoundlyScored
  <2>1. traces'[Len(traces) + 1].conf = conf
    BY <1>1
  <2> QED
    BY <1>1, <1>4, <2>1 DEF SoundlyScored
<1>8. SoundlyTyped'
  BY <1>1 DEF SoundlyTyped
<1>9. FoundOnce'
  <2> SUFFICES ASSUME worker = "reference" /\ asked.type # "claims"
               PROVE  /\ \A i, j \in 1 .. Len(items') : i # j => items'[i].id # items'[j].id
                      /\ \A i \in 1 .. Len(items'), j \in 1 .. Len(emitted) :
                           items'[i].id # emitted[j].id
    BY <1>1 DEF FoundOnce
  <2>1. ASSUME NEW i \in 1 .. Len(items'), NEW j \in 1 .. Len(items'), i # j
        PROVE  items'[i].id # items'[j].id
    <3>1. i + 1 # j + 1 /\ i + 1 \in 1 .. Len(items) /\ j + 1 \in 1 .. Len(items)
      BY <1>1, <2>1
    <3>2. items[i + 1].id # items[j + 1].id
      BY <3>1 DEF FoundOnce
    <3>3. items'[i] = items[i + 1] /\ items'[j] = items[j + 1]
      BY <1>1
    <3> QED
      BY <3>2, <3>3
  <2> QED
    BY <1>1, <2>1 DEF FoundOnce
<1> QED
  BY <1>3, <1>5, <1>6, <1>7, <1>8, <1>9

\* A turn that emits the item in hand.
LEMMA EmitKeeps ==
  ASSUME Loop, Emit
  PROVE  Loop'
<1> DEFINE item == Head(items)
           node == [id |-> item.id, conf |-> item.conf, typed |-> item.form = "fit"]
<1> USE DEF Loop
<1>0. Answer("EXTRACT", item.conf, {item.id}) /\ emitted' = Append(emitted, node)
  BY DEF Emit
<1>1. item \in Items(Nodes) /\ item = items[1] /\ Len(items) > 0
  BY <1>0 DEF LoopTyped, Answer
<1>2. /\ items' \in Seq(Items(Nodes)) /\ Len(items') = Len(items) - 1
      /\ \A i \in 1 .. Len(items') : i + 1 \in 1 .. Len(items) /\ items'[i] = items[i + 1]
      /\ traces' \in Seq(TraceRecords) /\ Len(traces') = Len(traces) + 1
      /\ traces'[Len(traces) + 1] =
           [decision |-> "EXTRACT", conf |-> item.conf, outputs |-> {item.id}]
      /\ \A k \in 1 .. Len(traces) : traces'[k] = traces[k]
      /\ UNCHANGED <<worker, asked>>
  <2>1. item.conf \in Int /\ {item.id} \in SUBSET Nodes
    BY <1>1 DEF Items
  <2> HIDE DEF Loop, item
  <2>2. LoopTyped
    BY DEF Loop
  <2> QED
    BY <1>0, <2>1, <2>2, AnswerFacts
<1>3. node \in EmittedNodes
  BY <1>1 DEF EmittedNodes, Items
<1>4. /\ item.conf >= asked.floor /\ ~AtCap /\ item.form \in {"fit", "mistyped"}
  BY DEF Emit
<1>5. node.id = item.id /\ node.conf = item.conf /\ (node.typed <=> item.form = "fit")
  OBVIOUS
<1> HIDE DEF node, item
<1>6. /\ emitted' \in Seq(EmittedNodes) /\ Len(emitted') = Len(emitted) + 1
      /\ emitted'[Len(emitted) + 1] = node
      /\ \A i \in 1 .. Len(emitted) : emitted'[i] = emitted[i]
  BY <1>0, <1>3 DEF LoopTyped
<1>7. /\ Len(items) \in Nat /\ Len(emitted) \in Nat /\ Len(traces) \in Nat
      /\ Len(items') \in Nat
  BY <1>2 DEF LoopTyped
<1>8. /\ \A i \in 1 .. Len(emitted') : i \in 1 .. Len(emitted) \/ i = Len(emitted) + 1
      /\ \A k \in 1 .. Len(traces') : k \in 1 .. Len(traces) \/ k = Len(traces) + 1
      /\ Len(emitted) + 1 \in 1 .. Len(emitted') /\ Len(traces) + 1 \in 1 .. Len(traces')
      /\ \A i \in 1 .. Len(emitted) : i \in 1 .. Len(emitted')
      /\ \A k \in 1 .. Len(traces) : k \in 1 .. Len(traces')
  BY <1>2, <1>6, <1>7
<1>9. LoopTyped'
  BY <1>2, <1>6 DEF LoopTyped, Supported
<1>10. Accounted'
  <2>1. ASSUME NEW i \in 1 .. Len(emitted')
        PROVE  \E k \in 1 .. Len(traces') :
                 /\ traces'[k].decision = "EXTRACT" /\ traces'[k].conf = emitted'[i].conf
                 /\ emitted'[i].id \in traces'[k].outputs
    <3>1. CASE i \in 1 .. Len(emitted)
      <4>1. PICK k \in 1 .. Len(traces) :
                   /\ traces[k].decision = "EXTRACT" /\ traces[k].conf = emitted[i].conf
                   /\ emitted[i].id \in traces[k].outputs
        BY <3>1 DEF Accounted
      <4>2. k \in 1 .. Len(traces') /\ traces'[k] = traces[k] /\ emitted'[i] = emitted[i]
        BY <1>2, <1>6, <1>8, <3>1
      <4> QED
        BY <4>1, <4>2
    <3>2. CASE i = Len(emitted) + 1
      <4>1. /\ traces'[Len(traces) + 1].decision = "EXTRACT"
            /\ traces'[Len(traces) + 1].conf = item.conf
            /\ traces'[Len(traces) + 1].outputs = {item.id}
        BY <1>2
      <4> QED
        BY <1>5, <1>6, <1>8, <3>2, <4>1
    <3> QED
      BY <1>8, <3>1, <3>2
  <2>2. ASSUME NEW k \in 1 .. Len(traces'), NEW n \in traces'[k].outputs
        PROVE  \E i \in 1 .. Len(emitted') : emitted'[i].id = n
    <3>1. CASE k \in 1 .. Len(traces)
      <4>1. traces'[k] = traces[k]
        BY <1>2, <3>1
      <4>2. PICK i \in 1 .. Len(emitted) : emitted[i].id = n
        BY <3>1, <4>1 DEF Accounted
      <4> QED
        BY <1>6, <1>8, <4>2
    <3>2. CASE k = Len(traces) + 1
      <4>1. n = item.id
        BY <1>2, <3>2
      <4> QED
        BY <1>5, <1>6, <1>8, <4>1
    <3> QED
      BY <1>8, <3>1, <3>2
  <2> QED
    BY <2>1, <2>2 DEF Accounted
<1>11. WithinLimits'
  <2>1. \A i \in 1 .. Len(emitted') : emitted'[i].conf >= asked.floor
    BY <1>4, <1>5, <1>6, <1>8 DEF WithinLimits
  <2>2. HonoursCap /\ asked.cap # NoCap => Len(emitted') <= asked.cap
    BY <1>4, <1>6, <1>7 DEF AtCap, LoopTyped
  <2> QED
    BY <1>2, <2>1, <2>2 DEF WithinLimits, HonoursCap
<1>12. SoundlyScored'
  <2> SUFFICES ASSUME worker = "reference"
               PROVE  /\ \A i \in 1 .. Len(items') : InRange(items'[i].conf)
                      /\ \A k \in 1 .. Len(traces') : InRange(traces'[k].conf)
    BY <1>2 DEF SoundlyScored
  <2>1. traces'[Len(traces) + 1].conf = item.conf /\ 1 \in 1 .. Len(items)
    BY <1>1, <1>2, <1>7
  <2>2. InRange(item.conf)
    BY <1>1, <2>1 DEF SoundlyScored
  <2>3. \A k \in 1 .. Len(traces) : InRange(traces[k].conf)
    BY DEF SoundlyScored
  <2>4. \A i \in 1 .. Len(items) : InRange(items[i].conf)
    BY DEF SoundlyScored
  <2> QED
    BY <1>2, <1>8, <2>1, <2>2, <2>3, <2>4
<1>13. SoundlyTyped'
  <2> SUFFICES ASSUME worker = "reference" \/ asked.type # "claims"
               PROVE  /\ \A i \in 1 .. Len(items') : items'[i].form # "mistyped"
                      /\ \A i \in 1 .. Len(emitted') : emitted'[i].typed
    BY <1>2 DEF SoundlyTyped
  <2>1. 1 \in 1 .. Len(items)
    BY <1>1, <1>7
  <2>2. node.typed
    BY <1>1, <1>4, <1>5, <2>1 DEF SoundlyTyped
  <2>3. \A i \in 1 .. Len(emitted) : emitted[i].typed
    BY DEF SoundlyTyped
  <2> QED
    BY <1>2, <1>6, <1>8, <2>2, <2>3 DEF SoundlyTyped
<1>14. FoundOnce'
  <2> SUFFICES ASSUME worker = "reference" /\ asked.type # "claims"
               PROVE  /\ \A i, j \in 1 .. Len(items') : i # j => items'[i].id # items'[j].id
                      /\ \A i, j \in 1 .. Len(emitted') :
                           i # j => emitted'[i].id # emitted'[j].id
                      /\ \A i \in 1 .. Len(items'), j \in 1 .. Len(emitted') :
                           items'[i].id # emitted'[j].id
    BY <1>2 DEF FoundOnce
  <2>0. 1 \in 1 .. Len(items)
    BY <1>1, <1>7
  <2>1. /\ \A i, j \in 1 .. Len(items) : i # j => items[i].id # items[j].id
        /\ \A i, j \in 1 .. Len(emitted) : i # j => emitted[i].id # emitted[j].id
        /\ \A i \in 1 .. Len(items), j \in 1 .. Len(emitted) :
             items[i].id # emitted[j].id
    BY DEF FoundOnce
  <2>2. ASSUME NEW i \in 1 .. Len(items')
        PROVE  /\ items'[i] = items[i + 1] /\ i + 1 \in 1 .. Len(items) /\ i + 1 # 1
               /\ items[i + 1].id # node.id
    BY <1>1, <1>2, <1>5, <2>0, <2>1
  <2>3. ASSUME NEW i \in 1 .. Len(items'), NEW j \in 1 .. Len(items'), i # j
        PROVE  items'[i].id # items'[j].id
    <3>1. i + 1 # j + 1
      BY <2>3
    <3>2. /\ items'[i] = items[i + 1] /\ i + 1 \in 1 .. Len(items)
          /\ items'[j] = items[j + 1] /\ j + 1 \in 1 .. Len(items)
      BY <2>2
    <3> QED
      BY <2>1, <3>1, <3>2
  <2>4. \A j \in 1 .. Len(emitted) : emitted[j].id # node.id
    BY <1>1, <1>5, <2>0, <2>1
  <2>5. ASSUME NEW i \in 1 .. Len(emitted'), NEW j \in 1 .. Len(emitted'), i # j
        PROVE  emitted'[i].id # emitted'[j].id
    BY <1>6, <1>8, <2>1, <2>4, <2>5
  <2>6. ASSUME NEW i \in 1 .. Len(items'), NEW j \in 1 .. Len(emitted')
        PROVE  items'[i].id # emitted'[j].id
    BY <1>6, <1>8, <2>1, <2>2
  <2> QED
    BY <2>3, <2>5, <2>6
<1> QED
  BY <1>9, <1>10, <1>11, <1>12, <1>13, <1>14

LEMMA TurnKeeps == Loop /\ Turn => Loop'
<1> SUFFICES ASSUME Loop, Turn PROVE Loop'
  OBVIOUS
<1>1. items # << >> => Head(items) \in Items(Nodes) /\ 1 \in 1 .. Len(items)
                       /\ Head(items) = items[1]
  BY DEF Loop, LoopTyped
<1>2. items # << >> => Head(items).conf \in Int
                       /\ (worker = "reference" => InRange(Head(items).conf))
  BY <1>1 DEF Loop, SoundlyScored, Items
<1>3. CASE SkipUnusable
  <2>1. PICK conf \in {0, 10} : Answer("SKIP", conf, {}) /\ UNCHANGED emitted
    BY <1>3 DEF SkipUnusable
  <2>2. InRange(conf) /\ conf \in Int
    BY DEF InRange
  <2> QED
    BY <2>1, <2>2, PassKeeps
<1>4. CASE SkipBelowFloor
  <2>1. Answer("SKIP", Head(items).conf, {}) /\ UNCHANGED emitted /\ items # << >>
    BY <1>4 DEF SkipBelowFloor, Answer
  <2> QED
    BY <1>2, <2>1, PassKeeps
<1>5. CASE Abstain
  <2>1. Answer("ABSTAIN", Head(items).conf, {}) /\ UNCHANGED emitted /\ items # << >>
    BY <1>5 DEF Abstain, Answer
  <2> QED
    BY <1>2, <2>1, PassKeeps
<1>6. CASE Emit
  BY <1>6, EmitKeeps
<1> QED
  BY <1>3, <1>4, <1>5, <1>6 DEF Turn

\* What the spawner may find in what a finished loop returns.
LEMMA LoopForeseen ==
  ASSUME Loop, NEW present
  PROVE  FaultsForeseen(present)
<1> DEFINE errors == FaultsIn(present)
<1> USE DEF Loop
<1>1. /\ \A node \in Elements(emitted) : \E i \in 1 .. Len(emitted) : node = emitted[i]
      /\ \A trace \in Elements(traces) : \E k \in 1 .. Len(traces) : trace = traces[k]
      /\ \A k \in 1 .. Len(traces) : traces[k] \in Elements(traces)
      /\ \A i \in 1 .. Len(emitted) : emitted[i] \in Elements(emitted)
  BY DEF LoopTyped, Elements
<1>2. /\ "too many" \in errors => Overfull(emitted, asked.cap)
      /\ "node id" \in errors => Repeats(emitted)
      /\ "node confidence" \in errors =>
           \E node \in Elements(emitted) : node.conf < asked.floor \/ ~InRange(node.conf)
      /\ "traces" \in errors => TraceErrors(emitted, traces)
      /\ "node field" \in errors => \E node \in Elements(emitted) : ~node.typed
      /\ errors \subseteq {"too many", "node confidence", "node id", "known id", "traces",
                          "node field"}
  BY DEF FaultsIn, Errors
<1>3. Overfull(emitted, asked.cap) => worker = "reference" /\ asked.type = "claims"
  BY DEF Overfull, WithinLimits, LoopTyped, HonoursCap
<1>4. Repeats(emitted) => worker = "llm" \/ asked.type = "claims"
  BY DEF Repeats, FoundOnce, LoopTyped
<1>5. ASSUME NEW node \in Elements(emitted), node.conf < asked.floor \/ ~InRange(node.conf)
      PROVE  \E trace \in Elements(traces) : ~InRange(trace.conf)
  <2>1. PICK i \in 1 .. Len(emitted) : node = emitted[i]
    BY <1>1
  <2>2. node.conf >= asked.floor /\ node.conf \in Int /\ asked.floor \in Int
    <3>1. emitted[i] \in EmittedNodes /\ asked.floor \in Int
      BY DEF LoopTyped
    <3>2. emitted[i].conf >= asked.floor
      BY DEF WithinLimits
    <3> QED
      BY <2>1, <3>1, <3>2 DEF EmittedNodes
  <2>3. ~InRange(node.conf)
    BY <1>5, <2>2
  <2>4. PICK k \in 1 .. Len(traces) : traces[k].conf = node.conf
    BY <2>1 DEF Accounted
  <2> QED
    BY <1>1, <2>3, <2>4
<1>6. ASSUME TraceErrors(emitted, traces)
      PROVE  \E trace \in Elements(traces) : ~InRange(trace.conf)
  <2>1. ASSUME NEW trace \in Elements(traces), NEW n \in trace.outputs
        PROVE  n \in Ids(emitted)
    <3>1. PICK k \in 1 .. Len(traces) : trace = traces[k]
      BY <1>1
    <3>2. PICK i \in 1 .. Len(emitted) : emitted[i].id = n
      BY <3>1 DEF Accounted
    <3> QED
      BY <1>1, <3>2 DEF Ids
  <2>2. ASSUME NEW n \in Ids(emitted)
        PROVE  n \in Traced(traces)
    <3>1. PICK i \in 1 .. Len(emitted) : n = emitted[i].id
      BY <1>1 DEF Ids
    <3>2. PICK k \in 1 .. Len(traces) :
                 traces[k].decision = "EXTRACT" /\ emitted[i].id \in traces[k].outputs
      BY DEF Accounted
    <3> QED
      BY <1>1, <3>1, <3>2 DEF Traced
  <2> QED
    BY <1>6, <2>1, <2>2 DEF TraceErrors
<1>7. (\E trace \in Elements(traces) : ~InRange(trace.conf)) => worker = "llm"
  BY <1>1 DEF SoundlyScored, LoopTyped
<1>8. (\E node \in Elements(emitted) : ~node.typed) =>
        worker = "llm" /\ asked.type = "claims"
  BY <1>1 DEF SoundlyTyped, LoopTyped
<1>9. ClassifyRejection(errors) = "reparable_field_error" => errors = {"node field"}
  BY <1>2 DEF ClassifyRejection
<1> HIDE DEF errors
<1>10. errors \cap {"node confidence", "traces"} # {} =>
         worker = "llm" /\ \E trace \in Elements(traces) : ~InRange(trace.conf)
  BY <1>2, <1>5, <1>6, <1>7
<1> QED
  BY <1>2, <1>3, <1>4, <1>8, <1>9, <1>10 DEF FaultsForeseen, errors

-----------------------------------------------------------------------------
(* The steps of run_paper. *)

Calls == [paper : Papers \cup {NoPaper}, rest : Seq(Slots), floor : Int,
          cap : Nat \cup {NoCap}]

InCall ==
  /\ stage \in {"idle", "spawning", "working", "failed"}
  /\ call \in Calls
  /\ stage # "idle" => call.paper \in Papers /\ worker \in {"reference", "llm"}
  /\ stage \in {"working", "failed"} => call.rest # << >>
  /\ stage = "working" => Loop

LEMMA InitInCall == OrchestratorInit => InCall
  BY DEF OrchestratorInit, InCall, Calls, NoCall

LEMMA SlotOfCall ==
  ASSUME InCall, call.rest # << >>
  PROVE  Slot \in Slots /\ Tail(call.rest) \in Seq(Slots)
<1>1. call.rest \in Seq(Slots)
  BY DEF InCall, Calls
<1> QED
  BY <1>1 DEF Slot

LEMMA LoopStays == Loop /\ UNCHANGED <<worker, work>> => Loop'
  BY DEF work, Loop, LoopTyped, Supported, Accounted, WithinLimits, HonoursCap,
         SoundlyScored, SoundlyTyped, FoundOnce

LEMMA ReturnedEnvelope ==
  ASSUME Loop
  PROVE  Returned \in Envelopes
<1>1. ASSUME NEW node \in Elements(emitted) PROVE node.id \in Nodes
  <2>1. PICK i \in DOMAIN emitted : node = emitted[i]
    BY DEF Elements
  <2>2. emitted[i] \in EmittedNodes
    BY DEF Loop, LoopTyped
  <2> QED
    BY <2>1, <2>2 DEF EmittedNodes
<1>2. Ids(emitted) \subseteq Nodes
  BY <1>1 DEF Ids
<1> QED
  BY <1>2 DEF Returned, Envelopes

\* Each way a step of run_paper can go.
LEMMA StepInCall == InCall /\ [OrchestratorNext]_allVars => InCall'
<1> SUFFICES ASSUME InCall, [OrchestratorNext]_allVars PROVE InCall'
  OBVIOUS
<1> USE OrchestratorAssumption
<1>1. ASSUME NEW p \in Papers, NEW w \in {"reference", "llm"}, NEW floor \in Floors,
             NEW cap \in Caps, RunPaper(p, w, floor, cap)
      PROVE  InCall'
  <2>1. FanOut[p] \in Seq(Slots) /\ floor \in Int /\ cap \in Nat \cup {NoCap}
    OBVIOUS
  <2> QED
    BY <1>1, <2>1 DEF RunPaper, InCall, Calls
<1>2. ASSUME stage = "spawning", call.rest # << >>, NEW text \in Texts[Slot],
             SpawnAndWork(text)
      PROVE  InCall'
  <2>1. Slot \in Slots
    BY <1>2, SlotOfCall
  <2>2. text \in Seq(Items(Nodes)) /\ call.floor \in Int /\ call.cap \in Nat \cup {NoCap}
    BY <1>2, <2>1 DEF InCall, Calls
  <2>3. worker \in {"reference", "llm"} /\ worker' = worker
    BY <1>2 DEF SpawnAndWork, SpawnNext, InCall
  <2>4. Loop'
    BY <1>2, <2>2, <2>3, LoopStarts DEF SpawnAndWork
  <2> QED
    BY <1>2, <2>3, <2>4 DEF SpawnAndWork, SpawnNext, InCall
<1>3. CASE SpawnAndFail
  BY <1>3 DEF SpawnAndFail, SpawnNext, InCall
<1>4. CASE WorkerTurn
  <2>1. Loop' /\ worker' = worker
    BY <1>4, TurnKeeps DEF WorkerTurn, InCall, Turn, SkipUnusable, SkipBelowFloor,
                           Abstain, Emit, Answer
  <2> QED
    BY <1>4, <2>1 DEF WorkerTurn, InCall, orchestrator
<1>5. ASSUME NEW env, AdmitAndCollect(env), stage \in {"working", "failed"}
      PROVE  InCall'
  <2>1. Tail(call.rest) \in Seq(Slots)
    BY <1>5, SlotOfCall DEF InCall
  <2>2. call' = [call EXCEPT !.rest = Tail(@)] /\ stage' = "spawning" /\ worker' = worker
    BY <1>5 DEF AdmitAndCollect
  <2> QED
    BY <1>5, <2>1, <2>2 DEF InCall, Calls
<1>6. ASSUME NEW how, Leave(how) PROVE InCall'
  BY <1>6 DEF Leave, NoCall, InCall, Calls
<1>7. CASE Beside
  BY <1>7 DEF Beside, InCall, orchestrator
<1>8. CASE UNCHANGED allVars
  BY <1>8, LoopStays DEF allVars, orchestrator, InCall
<1> QED
  BY <1>1, <1>2, <1>3, <1>4, <1>5, <1>6, <1>7, <1>8
     DEF OrchestratorNext, AdmitNext, RunRaises, RunReturns

LEMMA AlwaysInCall == OrchestratorSpec => []InCall
  BY InitInCall, StepInCall, PTL DEF OrchestratorSpec

LEMMA AdmitsInWorkflow ==
  ASSUME NEW s \in Slots, NEW env \in Envelopes, Admit(s, env)
  PROVE  Next
<1>1. FALSE \in Retried
  BY DEF Retried
<1> QED
  BY <1>1 DEF Admit, Next

LEMMA StepOfWorkflow == InCall /\ [OrchestratorNext]_allVars => [Next]_vars
<1> SUFFICES ASSUME InCall, [OrchestratorNext]_allVars PROVE [Next]_vars
  OBVIOUS
<1>1. CASE \E p \in Papers, w \in {"reference", "llm"}, floor \in Floors, cap \in Caps :
             RunPaper(p, w, floor, cap)
  BY <1>1 DEF RunPaper
<1>2. CASE SpawnNext
  BY <1>2, SlotOfCall DEF SpawnNext, Next
<1>3. CASE WorkerTurn
  BY <1>3 DEF WorkerTurn
<1>4. CASE stage = "working" /\ items = << >> /\ AdmitAndCollect(Returned)
  BY <1>4, SlotOfCall, ReturnedEnvelope, AdmitsInWorkflow DEF InCall, AdmitAndCollect
<1>5. CASE stage = "failed"
           /\ AdmitAndCollect([status |-> "failed", ok |-> FALSE, nodes |-> {}])
  <2>1. [status |-> "failed", ok |-> FALSE, nodes |-> {}] \in Envelopes
    BY DEF Envelopes
  <2> QED
    BY <1>5, <2>1, SlotOfCall, AdmitsInWorkflow DEF InCall, AdmitAndCollect
<1>6. CASE RunRaises \/ RunReturns
  BY <1>6 DEF RunRaises, RunReturns
<1>7. CASE Beside
  BY <1>7 DEF Beside, Next
<1>8. CASE UNCHANGED allVars
  BY <1>8 DEF allVars
<1> QED
  BY <1>1, <1>2, <1>3, <1>4, <1>5, <1>6, <1>7, <1>8
     DEF OrchestratorNext, AdmitNext, SpawnAndWork, SpawnAndFail

(* Whatever papers are run, with whatever workers and texts, nothing is     *)
(* done to the graph that a caller of the spawner could not have done       *)
(* (run_paper).                                                             *)
THEOREM OrchestratorIsAdditive == OrchestratorSpec => OrchestratorAdditive
<1>1. OrchestratorInit => Init
  BY DEF OrchestratorInit
<1> QED
  BY <1>1, StepOfWorkflow, AlwaysInCall, PTL DEF OrchestratorSpec, OrchestratorAdditive, Spec

(* What the spawner will hold against an envelope of either worker can be   *)
(* told from the text, for any text, floor and cap (run of both workers,    *)
(* _verify_envelope, classify_rejection).                                   *)
THEOREM RefusalsForeseen == OrchestratorSpec => []RefusedAsForeseen
<1>1. InCall => RefusedAsForeseen
  BY LoopForeseen DEF InCall, RefusedAsForeseen
<1> QED
  BY <1>1, AlwaysInCall, PTL

(* All the spawner promises, it promises to orchestrated callers too: one   *)
(* producer a node, no review but its own, no approval that nothing backs,  *)
(* no contradiction off the record, no hold without a review, no job        *)
(* unlocked against its gate, and the content ledger (run_paper).           *)
THEOREM OrchestratedPromises == OrchestratorSpec => SpawnerPromises
  BY OrchestratorIsAdditive, PromisesTogether DEF OrchestratorAdditive

-----------------------------------------------------------------------------
(* Slots that are used once: spawned at most once, and put one envelope.    *)
(* The verdict of the gate depends on the conflicts in one direction only.  *)

LEMMA FewerConflicts ==
  ASSUME NEW job, NEW t, NEW nodes, NEW more, NEW less \in SUBSET more,
         Unlocked(job, t, nodes, more)
  PROVE  Unlocked(job, t, nodes, less)
  BY DEF Unlocked, CanProceed, NoConflicts, Contested

LEMMA HeldByConflict ==
  ASSUME NEW job, NEW t, NEW nodes, NEW less, NEW more,
         Unlocked(job, t, nodes, less), ~Unlocked(job, t, nodes, more)
  PROVE  ~Contested(nodes, less) /\ Contested(nodes, more)
  BY DEF Unlocked, CanProceed, NoConflicts

LEMMA SameVerdict ==
  ASSUME NEW job, NEW other, NEW t, NEW nodes, NEW conflicts,
         other.conf = job.conf, other.reviewed = job.reviewed
  PROVE  Unlocked(other, t, nodes, conflicts) <=> Unlocked(job, t, nodes, conflicts)
  BY DEF Unlocked, JobView

LEMMA OpeningIsNoWaiver ==
  ASSUME NEW job, NEW t \in ReviewTasks, t.status = "none", NEW nodes, NEW conflicts
  PROVE  Unlocked(job, OpenReview(t), nodes, conflicts) => Unlocked(job, t, nodes, conflicts)
<1>1. ~WaiverIntact(TaskView(OpenReview(t)))
  BY DEF WaiverIntact, TaskView, OpenReview, ReviewTasks
<1>2. ConfidencePassed(JobView(job), TaskView(OpenReview(t))) =>
        ConfidencePassed(JobView(job), TaskView(t))
  BY <1>1 DEF ConfidencePassed, Waived
<1> QED
  BY <1>2 DEF Unlocked, CanProceed

Known == openConflicts \cup resolvedConflicts

Fresh(s) ==
  Len(jobs[s]) = 0 /\ admits[s] = 0 /\ produced[s] = {} /\ task[s].status = "none"

Waiting(s) ==
  /\ Len(jobs[s]) = 1 /\ admits[s] = 0 /\ produced[s] = {} /\ task[s].status = "none"
  /\ jobs[s][1].status = "queued" /\ ~jobs[s][1].reviewed

\* A held job was stopped over what is known, an approved one by nothing else
\* than conflicts could be.
Over(s) ==
  /\ Len(jobs[s]) = 1 /\ admits[s] = 1
  /\ jobs[s][1].status # "queued"
  /\ jobs[s][1].status \in {"completed", "failed"} <=> task[s].status = "none"
  /\ jobs[s][1].status = "failed" => produced[s] = {} /\ ~jobs[s][1].reviewed
  /\ jobs[s][1].status = "completed" => ~RequireReview
  /\ jobs[s][1].status = "approved" =>
       produced[s] \subseteq reviewed /\ Unlocked(jobs[s][1], task[s], produced[s], {})
  /\ jobs[s][1].status = "held" => ~Unlocked(jobs[s][1], task[s], produced[s], Known)

Once(s) == Fresh(s) \/ Waiting(s) \/ Over(s)

\* A step that leaves the slot alone, and forgets no review and no conflict.
LEMMA OnceKept ==
  ASSUME NEW s \in Slots, Once(s),
         jobs'[s] = jobs[s], task'[s] = task[s], produced'[s] = produced[s],
         admits'[s] = admits[s], reviewed \subseteq reviewed', Known \subseteq Known'
  PROVE  Once(s)'
<1>1. CASE Fresh(s)
  BY <1>1 DEF Once, Fresh
<1>2. CASE Waiting(s)
  BY <1>2 DEF Once, Waiting
<1>3. CASE Over(s)
  <2>1. ~Unlocked(jobs[s][1], task[s], produced[s], Known) =>
          ~Unlocked(jobs[s][1], task[s], produced[s], Known')
    BY FewerConflicts
  <2> QED
    BY <1>3, <2>1 DEF Once, Over
<1> QED
  BY <1>1, <1>2, <1>3 DEF Once

LEMMA SpawnOnce ==
  ASSUME MaxSpawns = 1, Safe, NEW s \in Slots, Once(s), Spawn(s)
  PROVE  Waiting(s)'
<1> DEFINE job == [status |-> "queued", conf |-> FullConfidence, reviewed |-> FALSE,
                   reported |-> "none"]
<1>1. jobs \in [Slots -> Seq(Jobs)] /\ job \in Jobs
  BY DEF Safe, TypeOK, Jobs, JobStatuses, Confidences, FullConfidence
<1>2. jobs'[s] = Append(jobs[s], job) /\ Len(jobs[s]) = 0
  BY <1>1 DEF Spawn
<1>3. job.status = "queued" /\ ~job.reviewed
  OBVIOUS
<1> HIDE DEF job
<1>4. Len(jobs'[s]) = 1 /\ jobs'[s][1] = job
  BY <1>1, <1>2
<1>5. UNCHANGED <<task, produced, admits>>
  BY DEF Spawn
<1>6. Fresh(s)
  BY <1>2 DEF Once, Waiting, Over, Fresh
<1> QED
  BY <1>3, <1>4, <1>5, <1>6 DEF Fresh, Waiting

LEMMA OnlyJobReplaced ==
  ASSUME Safe, NEW s \in Slots, Len(jobs[s]) = 1, NEW job \in Jobs,
         jobs' = WithJob(s, 1, job)
  PROVE  Len(jobs'[s]) = 1 /\ jobs'[s][1] = job
<1>1. 1 \in 1 .. Len(jobs[s]) /\ TypeOK
  BY DEF Safe
<1> HIDE DEF Safe
<1> QED
  BY <1>1, WithJobFacts

\* Where a slot takes one envelope, it is put to a job that waits for it.
LEMMA PutToWaiting ==
  ASSUME MaxAdmits = 1, Safe, NEW s \in Slots, Once(s), Delivered(s)
  PROVE  Waiting(s)
<1>1. Spawned(s) /\ admits[s] < 1 /\ admits[s] \in Nat /\ jobs[s] \in Seq(Jobs)
  BY DEF Delivered, Safe, TypeOK
<1> QED
  BY <1>1 DEF Once, Fresh, Over, Spawned

LEMMA DeliveredOnce ==
  ASSUME Safe, NEW s \in Slots, Waiting(s), Delivered(s)
  PROVE  /\ Latest(s) = jobs[s][1] /\ Len(jobs[s]) = 1
         /\ jobs[s][1] \in Jobs /\ admits'[s] = 1
<1>1. admits' = [admits EXCEPT ![s] = @ + 1]
  BY DEF Delivered
<1>2. admits \in [Slots -> Nat] /\ jobs[s] \in Seq(Jobs)
  BY DEF Safe, TypeOK
<1> QED
  BY <1>1, <1>2 DEF Waiting, Latest

LEMMA FailOnce ==
  ASSUME Safe, NEW s \in Slots, Waiting(s),
         NEW status \in {"completed", "failed"}, Delivered(s), Fail(s, status)
  PROVE  Over(s)' /\ jobs'[s][1].status = "failed" /\ produced'[s] = {}
<1> DEFINE job == [Latest(s) EXCEPT !.status = "failed", !.reported = status]
<1>1. Waiting(s) /\ Len(jobs[s]) = 1 /\ admits'[s] = 1 /\ Latest(s) \in Jobs
      /\ Latest(s) = jobs[s][1]
  BY DeliveredOnce
<1>2. job \in Jobs /\ job.status = "failed" /\ ~job.reviewed
  BY <1>1 DEF Jobs, JobStatuses, Waiting
<1>3. jobs' = WithJob(s, 1, job) /\ UNCHANGED <<task, produced>>
  BY <1>1 DEF Fail
<1> HIDE DEF job
<1>4. Len(jobs'[s]) = 1 /\ jobs'[s][1] = job
  BY <1>1, <1>2, <1>3, OnlyJobReplaced
<1> QED
  BY <1>1, <1>2, <1>3, <1>4 DEF Over, Waiting

LEMMA AcceptOnce ==
  ASSUME Safe, NEW s \in Slots, Waiting(s),
         NEW env \in Envelopes, NEW retried \in BOOLEAN, AdmitAccepted(s, env, retried)
  PROVE  /\ Over(s)' /\ jobs'[s][1].status \in {"completed", "held"}
         /\ produced'[s] = env.nodes
<1> USE WorkflowAssumption
<1> DEFINE landed  == produced[s] \cup env.nodes
           found   == NewConflicts(Content \cup env.nodes)
           settled == [Latest(s) EXCEPT !.status = "completed", !.reported = env.status,
                                        !.conf = AvgConf[env.nodes]]
           held    == ~Unlocked(settled, task[s], landed, openConflicts \cup found)
           job     == IF held THEN [settled EXCEPT !.status = "held"] ELSE settled
<1>1. /\ Waiting(s) /\ Len(jobs[s]) = 1 /\ admits'[s] = 1
      /\ Latest(s) = jobs[s][1] /\ Latest(s) \in Jobs
  BY DeliveredOnce DEF AdmitAccepted
<1>2. /\ jobs' = WithJob(s, 1, job)
      /\ produced' = [produced EXCEPT ![s] = landed]
      /\ openConflicts' = openConflicts \cup found
      /\ task' = [task EXCEPT ![s] = IF held THEN OpenReview(@) ELSE @]
      /\ UNCHANGED resolvedConflicts
  BY <1>1 DEF AdmitAccepted
<1>3. settled \in Jobs /\ settled.status = "completed" /\ ~settled.reviewed
  <2>1. AvgConf[env.nodes] \in Confidences /\ env.status \in {"completed", "failed"}
    BY DEF Envelopes
  <2> QED
    BY <1>1, <2>1 DEF Jobs, JobStatuses, Waiting
<1>4. /\ job \in Jobs /\ job.conf = settled.conf /\ job.reviewed = settled.reviewed
      /\ held => job.status = "held"
      /\ ~held => job.status = "completed"
  BY <1>3 DEF Jobs, JobStatuses
<1>5. /\ produced'[s] = env.nodes /\ landed = env.nodes
      /\ task'[s] = IF held THEN OpenReview(task[s]) ELSE task[s]
  BY <1>1, <1>2 DEF Waiting, Safe, TypeOK
<1>6. Len(jobs'[s]) = 1 /\ jobs'[s][1] = job
  <2> HIDE DEF job
  <2> QED
    BY <1>1, <1>2, <1>4, OnlyJobReplaced
<1>7. ~held => ~RequireReview
  <2> HIDE DEF settled, landed, found
  <2>1. Unlocked(settled, task[s], landed, openConflicts \cup found) =>
          (RequireReview => settled.reviewed)
    BY DEF Unlocked, CanProceed, HumanReviewed, JobView
  <2> QED
    BY <1>3, <2>1
<1>8. held => ~Unlocked(job, OpenReview(task[s]), landed, Known')
  <2> SUFFICES ASSUME held, Unlocked(job, OpenReview(task[s]), landed, Known') PROVE FALSE
    OBVIOUS
  <2>1. task[s] \in ReviewTasks /\ task[s].status = "none"
    BY <1>1 DEF Waiting, Safe, TypeOK
  <2>2. openConflicts \cup found \subseteq Known'
    BY <1>2 DEF Known
  <2> HIDE DEF landed, found, settled, job
  <2>3. Unlocked(job, task[s], landed, Known')
    BY <2>1, OpeningIsNoWaiver
  <2>4. Unlocked(settled, task[s], landed, Known')
    BY <1>4, <2>3, SameVerdict
  <2>5. Unlocked(settled, task[s], landed, openConflicts \cup found)
    BY <2>2, <2>4, FewerConflicts
  <2> QED
    BY <2>5
<1>9. /\ held => task'[s].status = "pending"
      /\ ~held => task'[s].status = "none"
  BY <1>1, <1>5 DEF Waiting, OpenReview, Safe, TypeOK, ReviewTasks
<1> HIDE DEF job, landed, found, settled, held
<1>10. CASE held
  BY <1>1, <1>4, <1>5, <1>6, <1>8, <1>9, <1>10 DEF Over
<1>11. CASE ~held
  BY <1>1, <1>4, <1>5, <1>6, <1>7, <1>9, <1>11 DEF Over
<1> QED
  BY <1>4, <1>5, <1>6, <1>10, <1>11

\* Only a slot whose envelope was admitted has a review to answer.
LEMMA ReviewedOnce ==
  ASSUME Safe, NEW s \in Slots, Once(s), task[s].status # "none"
  PROVE  /\ Over(s) /\ Len(jobs[s]) = 1 /\ First(s) = jobs[s][1] /\ First(s) \in Jobs
         /\ 1 \in 1 .. Len(jobs[s])
<1>1. jobs[s] \in Seq(Jobs)
  BY DEF Safe, TypeOK
<1> QED
  BY <1>1 DEF Once, Fresh, Waiting, Over, First

LEMMA ApproveOnce ==
  ASSUME Safe, NEW s \in Slots, Once(s), NEW by \in Signatures, NEW waive \in BOOLEAN,
         ApproveReview(s, by, waive)
  PROVE  Over(s)' /\ jobs'[s][1].status \in {"approved", "held"}
<1> DEFINE answered == [task[s] EXCEPT !.status = "approved", !.by = by,
                                       !.waived = @ \/ waive]
           endorsedJob == [First(s) EXCEPT !.reviewed = TRUE]
           unlocked == Unlocked(endorsedJob, answered, produced[s], openConflicts)
           job == [endorsedJob EXCEPT !.status = IF unlocked THEN "approved" ELSE "held"]
<1>1. /\ Over(s) /\ Len(jobs[s]) = 1 /\ First(s) \in Jobs /\ 1 \in 1 .. Len(jobs[s])
  BY ReviewedOnce DEF ApproveReview
<1>2. /\ job \in Jobs /\ job.conf = endorsedJob.conf /\ job.reviewed = endorsedJob.reviewed
      /\ unlocked => job.status = "approved"
      /\ ~unlocked => job.status = "held"
  BY <1>1 DEF Jobs, JobStatuses
<1>3. answered.status = "approved"
  BY DEF Safe, TypeOK, ReviewTasks
<1>4. /\ jobs' = WithJob(s, 1, job) /\ task' = [task EXCEPT ![s] = answered]
      /\ reviewed' = reviewed \cup produced[s]
      /\ UNCHANGED <<produced, openConflicts, resolvedConflicts, admits>>
  BY DEF ApproveReview, Endorsed
<1>5. unlocked => Unlocked(job, answered, produced[s], {})
  <2> SUFFICES ASSUME unlocked PROVE Unlocked(job, answered, produced[s], {})
    OBVIOUS
  <2> HIDE DEF job, answered, endorsedJob
  <2>1. Unlocked(endorsedJob, answered, produced[s], {})
    BY FewerConflicts
  <2> QED
    BY <1>2, <2>1, SameVerdict
<1>6. ~unlocked => ~Unlocked(job, answered, produced[s], Known)
  <2> SUFFICES ASSUME Unlocked(job, answered, produced[s], Known) PROVE unlocked
    OBVIOUS
  <2> HIDE DEF job, answered, endorsedJob
  <2>1. Unlocked(endorsedJob, answered, produced[s], Known)
    BY <1>2, SameVerdict
  <2>2. openConflicts \subseteq Known
    BY DEF Known
  <2> QED
    BY <2>1, <2>2, FewerConflicts
<1> HIDE DEF job, answered, unlocked
<1>7. Len(jobs'[s]) = 1 /\ jobs'[s][1] = job
  BY <1>1, <1>2, <1>4, OnlyJobReplaced
<1>8. task'[s] = answered /\ produced'[s] = produced[s] /\ admits'[s] = 1 /\ Known' = Known
  BY <1>1, <1>4 DEF Safe, TypeOK, Over, Known
<1>9. CASE unlocked
  BY <1>2, <1>3, <1>4, <1>5, <1>7, <1>8, <1>9 DEF Over
<1>10. CASE ~unlocked
  BY <1>2, <1>3, <1>4, <1>6, <1>7, <1>8, <1>10 DEF Over
<1> QED
  BY <1>9, <1>10, <1>2, <1>7

LEMMA RejectOnce ==
  ASSUME Safe, NEW s \in Slots, Once(s), NEW by \in Signatures, RejectReview(s, by)
  PROVE  Over(s)' /\ jobs'[s][1].status = "rejected"
<1> DEFINE job == [First(s) EXCEPT !.status = "rejected"]
<1>1. Over(s) /\ Len(jobs[s]) = 1 /\ First(s) \in Jobs /\ 1 \in 1 .. Len(jobs[s])
  BY ReviewedOnce DEF RejectReview
<1>2. job \in Jobs /\ job.status = "rejected"
  BY <1>1 DEF Jobs, JobStatuses
<1>3. jobs' = WithJob(s, 1, job) /\ UNCHANGED <<produced, admits>>
      /\ task'[s].status = "rejected"
  BY DEF RejectReview, Safe, TypeOK, ReviewTasks
<1> HIDE DEF job
<1>4. Len(jobs'[s]) = 1 /\ jobs'[s][1] = job
  BY <1>1, <1>2, <1>3, OnlyJobReplaced
<1> QED
  BY <1>1, <1>2, <1>3, <1>4 DEF Over

\* What an operation on one slot leaves of the others.
Elsewhere(s) ==
  /\ \A other \in Slots \ {s} :
       /\ jobs'[other] = jobs[other] /\ task'[other] = task[other]
       /\ produced'[other] = produced[other] /\ admits'[other] = admits[other]
  /\ reviewed \subseteq reviewed' /\ Known \subseteq Known'

LEMMA SlotApart ==
  ASSUME Safe, NEW s \in Slots
  PROVE  /\ Spawn(s) => Elsewhere(s)
         /\ AdmitWorkerFailure(s) => Elsewhere(s)
         /\ \A env, retried : AdmitRejected(s, env, retried) => Elsewhere(s)
         /\ \A env, retried : AdmitAccepted(s, env, retried) => Elsewhere(s)
         /\ \A by, waive : ApproveReview(s, by, waive) => Elsewhere(s)
         /\ \A by : RejectReview(s, by) => Elsewhere(s)
<1> USE DEF Safe, TypeOK, Elsewhere, Known
<1>1. Spawn(s) => Elsewhere(s)
  BY DEF Spawn
<1>2. AdmitWorkerFailure(s) => Elsewhere(s)
  BY DEF AdmitWorkerFailure, Fail, Delivered, WithJob
<1>3. ASSUME NEW env, NEW retried, AdmitRejected(s, env, retried) PROVE Elsewhere(s)
  BY <1>3 DEF AdmitRejected, Fail, Delivered, WithJob
<1>4. ASSUME NEW env, NEW retried, AdmitAccepted(s, env, retried) PROVE Elsewhere(s)
  BY <1>4 DEF AdmitAccepted, Delivered, WithJob
<1>5. ASSUME NEW by, NEW waive, ApproveReview(s, by, waive) PROVE Elsewhere(s)
  BY <1>5 DEF ApproveReview, Endorsed, WithJob
<1>6. ASSUME NEW by, RejectReview(s, by) PROVE Elsewhere(s)
  BY <1>6 DEF RejectReview, WithJob
<1> QED
  BY <1>1, <1>2, <1>3, <1>4, <1>5, <1>6

AllOnce == \A s \in Slots : Once(s)

LEMMA OthersOnce ==
  ASSUME AllOnce, NEW s \in Slots, Elsewhere(s), Once(s)'
  PROVE  AllOnce'
<1> SUFFICES ASSUME NEW other \in Slots, other # s PROVE Once(other)'
  BY DEF AllOnce
<1> QED
  BY OnceKept DEF AllOnce, Elsewhere

LEMMA InitOnce == Init => AllOnce
  BY DEF Init, AllOnce, Once, Fresh

LEMMA StepOnce ==
  ASSUME MaxSpawns = 1, MaxAdmits = 1, Safe, AllOnce, [Next]_vars
  PROVE  AllOnce'
<1>1. ASSUME NEW s \in Slots, Spawn(s) PROVE AllOnce'
  <2>1. Once(s)'
    BY <1>1, SpawnOnce DEF AllOnce, Once
  <2> QED
    BY <1>1, <2>1, SlotApart, OthersOnce
<1>2. ASSUME NEW s \in Slots, AdmitWorkerFailure(s) PROVE AllOnce'
  <2>1. Delivered(s) /\ Fail(s, "failed")
    BY <1>2 DEF AdmitWorkerFailure
  <2>2. Once(s)'
    BY <2>1, PutToWaiting, FailOnce DEF AllOnce, Once
  <2> QED
    BY <1>2, <2>2, SlotApart, OthersOnce
<1>3. ASSUME NEW s \in Slots, NEW env \in Envelopes, NEW retried \in Retried,
             AdmitRejected(s, env, retried)
      PROVE  AllOnce'
  <2>1. Delivered(s) /\ Fail(s, env.status) /\ env.status \in {"completed", "failed"}
    BY <1>3 DEF AdmitRejected, Envelopes
  <2>2. Once(s)'
    BY <2>1, PutToWaiting, FailOnce DEF AllOnce, Once
  <2> QED
    BY <1>3, <2>2, SlotApart, OthersOnce
<1>4. ASSUME NEW s \in Slots, NEW env \in Envelopes, NEW retried \in Retried,
             AdmitAccepted(s, env, retried)
      PROVE  AllOnce'
  <2>1. retried \in BOOLEAN /\ Waiting(s)
    BY <1>4, PutToWaiting DEF Retried, AdmitAccepted, AllOnce
  <2>2. Once(s)'
    BY <1>4, <2>1, AcceptOnce DEF Once
  <2> QED
    BY <1>4, <2>2, SlotApart, OthersOnce
<1>5. ASSUME NEW s \in Slots, NEW by \in Signatures, NEW waive \in BOOLEAN,
             ApproveReview(s, by, waive)
      PROVE  AllOnce'
  <2>1. Once(s)'
    BY <1>5, ApproveOnce DEF AllOnce, Once
  <2> QED
    BY <1>5, <2>1, SlotApart, OthersOnce
<1>6. ASSUME NEW s \in Slots, NEW by \in Signatures, RejectReview(s, by)
      PROVE  AllOnce'
  <2>1. Once(s)'
    BY <1>6, RejectOnce DEF AllOnce, Once
  <2> QED
    BY <1>6, <2>1, SlotApart, OthersOnce
<1>7. ASSUME NEW pair \in openConflicts, ResolveConflict(pair) PROVE AllOnce'
  <2>1. UNCHANGED <<jobs, task, produced, reviewed, admits>> /\ Known \subseteq Known'
    BY <1>7 DEF ResolveConflict, Known
  <2> QED
    BY <2>1, OnceKept DEF AllOnce
<1>8. CASE UNCHANGED vars
  <2>1. Known \subseteq Known'
    BY <1>8 DEF vars, Known
  <2> QED
    BY <1>8, <2>1, OnceKept DEF AllOnce, vars
<1> QED
  BY <1>1, <1>2, <1>3, <1>4, <1>5, <1>6, <1>7, <1>8 DEF Next, Review

LEMMA AlwaysOnce ==
  ASSUME MaxSpawns = 1, MaxAdmits = 1
  PROVE  Spec => []AllOnce
<1>1. Safe /\ AllOnce /\ [Next]_vars => AllOnce'
  BY StepOnce
<1> QED
  BY <1>1, InitOnce, AlwaysSafe, PTL DEF Spec

(* Where every job is spawned once and given one envelope, a failed job     *)
(* owns nothing in the graph (admit).                                       *)
THEOREM FailedJobsOwnNothing ==
  ASSUME MaxSpawns = 1, MaxAdmits = 1
  PROVE  Spec => []FailedOwnsNothing
<1>1. AllOnce => FailedOwnsNothing
  BY DEF AllOnce, Once, Fresh, Waiting, Over, FailedOwnsNothing, Spawned, Latest
<1> QED
  BY <1>1, AlwaysOnce, PTL

-----------------------------------------------------------------------------
(* Why a job parts from the gate. *)

LEMMA ContradictionShown ==
  ASSUME NEW claim, NEW includeResolved \in BOOLEAN,
         NEW pair \in openConflicts \cup (IF includeResolved THEN resolvedConflicts ELSE {}),
         claim \in pair, pair \in Opposed
  PROVE  ContradictingClaims(claim, includeResolved) # {}
<1>1. PICK other \in pair : other # claim
  BY WorkflowAssumption
<1>2. other \in pair \ {claim}
  BY <1>1
<1> QED
  BY <1>2 DEF ContradictingClaims

LEMMA UnansweredBlocked ==
  ASSUME RequireReview, NEW job \in Jobs, ~job.reviewed, NEW t, NEW nodes, NEW conflicts
  PROVE  ~Unlocked(job, t, nodes, conflicts)
  BY DEF Unlocked, CanProceed, HumanReviewed, JobView

LEMMA HeldExplained ==
  ASSUME TypeOK, NEW s \in Slots, NEW job, NEW t,
         Unlocked(job, t, produced[s], openConflicts),
         ~Unlocked(job, t, produced[s], Known)
  PROVE  \E n \in produced[s] : ContradictingClaims(n, TRUE) # ContradictingClaims(n, FALSE)
<1>1. ~Contested(produced[s], openConflicts) /\ Contested(produced[s], Known)
  BY HeldByConflict
<1>2. PICK pair \in Known : pair \cap produced[s] # {}
  BY <1>1 DEF Contested
<1>3. PICK n \in produced[s] : n \in pair
  BY <1>2
<1>4. ContradictingClaims(n, TRUE) # {}
  BY <1>2, <1>3, ContradictionShown DEF Known, TypeOK
<1>5. ContradictingClaims(n, FALSE) = {}
  BY <1>1 DEF ContradictingClaims, Contested
<1> QED
  BY <1>4, <1>5

LEMMA ApprovedExplained ==
  ASSUME TypeOK, NEW s \in Slots, NEW job, NEW t,
         Unlocked(job, t, produced[s], {}),
         ~Unlocked(job, t, produced[s], openConflicts)
  PROVE  \E n \in produced[s] : ContradictingClaims(n, FALSE) # {}
<1>1. Contested(produced[s], openConflicts)
  BY HeldByConflict
<1>2. PICK pair \in openConflicts : pair \cap produced[s] # {}
  BY <1>1 DEF Contested
<1>3. PICK n \in produced[s] : n \in pair
  BY <1>2
<1> QED
  BY <1>2, <1>3, ContradictionShown DEF TypeOK

(* Where a review is required and every slot is used once, a job's status   *)
(* and the gate's live verdict part over contradictions only                *)
(* (why_blocked, blocked_jobs, contradicting_claims).                       *)
THEOREM DriftIsContradiction ==
  ASSUME MaxSpawns = 1, MaxAdmits = 1, RequireReview
  PROVE  Spec => []DriftExplained
<1>1. Safe /\ AllOnce => DriftExplained
  <2> SUFFICES ASSUME Safe, AllOnce, NEW s \in Slots, NEW g \in DOMAIN jobs[s]
               PROVE  LET status == jobs[s][g].status
                          blocked == <<s, g>> \in BlockedJobs
                      IN /\ status = "held" /\ ~blocked =>
                              \E n \in produced[s] :
                                ContradictingClaims(n, TRUE) # ContradictingClaims(n, FALSE)
                         /\ status = "approved" /\ blocked =>
                              \E n \in produced[s] : ContradictingClaims(n, FALSE) # {}
                         /\ status \in {"queued", "failed"} => blocked
    BY DEF DriftExplained
  <2>1. g = 1 /\ Len(jobs[s]) = 1 /\ jobs[s][1] \in Jobs /\ (Waiting(s) \/ Over(s))
    BY DEF AllOnce, Once, Fresh, Waiting, Over, Safe, TypeOK
  <2> DEFINE job == jobs[s][1]
  <2>2. <<s, g>> \in BlockedJobs <=> ~Unlocked(job, task[s], produced[s], openConflicts)
    BY <2>1 DEF BlockedJobs, Blocked
  <2>3. job.status = "held" => ~Unlocked(job, task[s], produced[s], Known)
    BY <2>1 DEF Waiting, Over
  <2>4. job.status = "approved" => Unlocked(job, task[s], produced[s], {})
    BY <2>1 DEF Waiting, Over
  <2>5. job.status \in {"queued", "failed"} => ~job.reviewed
    BY <2>1 DEF Waiting, Over
  <2> HIDE DEF job
  <2>6. job \in Jobs /\ jobs[s][g] = job
    BY <2>1 DEF job
  <2>7. job.status \in {"queued", "failed"} =>
          ~Unlocked(job, task[s], produced[s], openConflicts)
    BY <2>5, <2>6, UnansweredBlocked
  <2> QED
    BY <2>2, <2>3, <2>4, <2>6, <2>7, HeldExplained, ApprovedExplained DEF Safe
<1> QED
  BY <1>1, AlwaysSafe, AlwaysOnce, PTL

-----------------------------------------------------------------------------
(* What the report says of each slot of a paper. *)

Counts == {Cardinality(nodes) : nodes \in SUBSET Nodes}

Admissions == [slot : Slots, admitted : BOOLEAN, nodes : Counts]

Pending(s) == Len(jobs[s]) = 1 /\ jobs[s][1].status = "queued"

Told(s, entry) ==
  /\ entry.slot = s /\ entry.nodes = Cardinality(produced[s])
  /\ Len(jobs[s]) = 1 /\ jobs[s][1].status # "queued"
  /\ jobs[s][1].status = "failed" <=> ~entry.admitted

Done(p) == Len(reports[p])

Reported(p) ==
  /\ reports[p] \in Seq(Admissions) /\ Done(p) <= Len(FanOut[p])
  /\ \A i \in 1 .. Done(p) : Told(FanOut[p][i], reports[p][i])
  /\ \A i \in 1 .. Len(FanOut[p]) : i > Done(p) + 1 => Len(jobs[FanOut[p][i]]) = 0

Ended(p) ==
  /\ outcome[p] = "returned" => Done(p) = Len(FanOut[p])
  /\ outcome[p] = "raised" => Done(p) < Len(FanOut[p]) /\ Pending(FanOut[p][Done(p) + 1])

\* What is left of a paper that is run is what its report lacks.
Midway(p) ==
  /\ outcome[p] = "running"
  /\ Done(p) + Len(call.rest) = Len(FanOut[p])
  /\ \A k \in 1 .. Len(call.rest) : call.rest[k] = FanOut[p][Done(p) + k]
  /\ stage = "spawning" /\ call.rest # << >> => Len(jobs[Slot]) = 0
  /\ stage \in {"working", "failed"} => Pending(Slot)

Reporting ==
  /\ outcome \in [Papers -> {"none", "running", "returned", "raised"}]
  /\ reports \in [Papers -> Seq(Admissions)]
  /\ \A p \in Papers : outcome[p] # "none" => Reported(p) /\ Ended(p)
  /\ stage # "idle" => Midway(call.paper)

LEMMA NextSlot ==
  ASSUME InCall, Reporting, stage # "idle", call.rest # << >>
  PROVE  /\ call.paper \in Papers /\ Done(call.paper) \in Nat
         /\ Done(call.paper) + 1 \in 1 .. Len(FanOut[call.paper])
         /\ Slot \in Slots /\ Slot = FanOut[call.paper][Done(call.paper) + 1]
<1>1. call.paper \in Papers /\ call.rest \in Seq(Slots) /\ reports[call.paper] \in Seq(Admissions)
  BY DEF InCall, Calls, Reporting
<1>2. FanOut[call.paper] \in Seq(Slots)
  BY <1>1, OrchestratorAssumption
<1>3. Len(call.rest) \in Nat \ {0} /\ Done(call.paper) \in Nat /\ 1 \in 1 .. Len(call.rest)
      /\ Slot = call.rest[1] /\ Slot \in Slots
  BY <1>1 DEF Done, Slot
<1>4. Done(call.paper) + Len(call.rest) = Len(FanOut[call.paper])
      /\ call.rest[1] = FanOut[call.paper][Done(call.paper) + 1]
  BY <1>3 DEF Reporting, Midway
<1> QED
  BY <1>1, <1>2, <1>3, <1>4

\* No slot is in two places.
LEMMA SlotElsewhere ==
  ASSUME NEW p \in Papers, NEW i \in 1 .. Len(FanOut[p]),
         NEW q \in Papers, NEW k \in 1 .. Len(FanOut[q]), p # q \/ i # k
  PROVE  FanOut[p][i] # FanOut[q][k] /\ FanOut[p][i] \in Slots
<1>1. FanOut[p] \in Seq(Slots) /\ FanOut[q] \in Seq(Slots)
  BY OrchestratorAssumption
<1>2. /\ FanOut[p][i] \in Elements(FanOut[p]) /\ FanOut[q][k] \in Elements(FanOut[q])
      /\ i \in DOMAIN FanOut[p] /\ k \in DOMAIN FanOut[q]
  BY <1>1 DEF Elements
<1>3. CASE p # q
  BY <1>1, <1>2, <1>3, OrchestratorAssumption
<1>4. CASE p = q /\ i # k
  BY <1>1, <1>2, <1>4, OrchestratorAssumption
<1> QED
  BY <1>3, <1>4

\* What the report tells of a slot stays as it is.
Kept(s) ==
  /\ Len(jobs'[s]) = Len(jobs[s]) /\ produced'[s] = produced[s]
  /\ jobs'[s][1].status = "queued" <=> jobs[s][1].status = "queued"
  /\ jobs'[s][1].status = "failed" <=> jobs[s][1].status = "failed"

LEMMA KeptPaper ==
  ASSUME NEW p \in Papers, Reported(p), Ended(p), reports'[p] = reports[p],
         outcome'[p] = outcome[p] \/ outcome'[p] = "running",
         \A i \in 1 .. Len(FanOut[p]) : Kept(FanOut[p][i])
  PROVE  Reported(p)' /\ Ended(p)'
<1>1. Done(p) \in Nat /\ Done(p)' = Done(p) /\ Len(FanOut[p]) \in Nat
      /\ Done(p) <= Len(FanOut[p])
  BY OrchestratorAssumption DEF Reported, Done
<1>2. Reported(p)'
  <2>1. ASSUME NEW i \in 1 .. Done(p) PROVE Told(FanOut[p][i], reports[p][i])'
    <3>1. Told(FanOut[p][i], reports[p][i]) /\ Kept(FanOut[p][i])
      BY <1>1 DEF Reported
    <3> QED
      BY <3>1 DEF Told, Kept
  <2>2. ASSUME NEW i \in 1 .. Len(FanOut[p]), i > Done(p) + 1
        PROVE  Len(jobs[FanOut[p][i]])' = 0
    BY <2>2 DEF Reported, Kept
  <2>3. reports'[p] \in Seq(Admissions)
    BY DEF Reported
  <2> QED
    BY <1>1, <2>1, <2>2, <2>3 DEF Reported
<1>3. Ended(p)'
  BY <1>1 DEF Ended, Pending, Kept
<1> QED
  BY <1>2, <1>3

LEMMA ElsewhereKept ==
  ASSUME NEW s \in Slots, Elsewhere(s), NEW other \in Slots, other # s
  PROVE  Kept(other)
  BY DEF Elsewhere, Kept

LEMMA GraphKept ==
  ASSUME UNCHANGED vars, NEW s
  PROVE  Kept(s)
  BY DEF vars, Kept

\* The orchestrator uses each of its slots once, whatever others do with theirs.
RunsOnce == \A s \in Orchestrated : Once(s)

LEMMA OrchestratedSlots ==
  /\ Orchestrated \subseteq Slots
  /\ \A p \in Papers : \A i \in 1 .. Len(FanOut[p]) : FanOut[p][i] \in Orchestrated
<1>1. \A p \in Papers : FanOut[p] \in Seq(Slots)
  BY OrchestratorAssumption
<1> QED
  BY <1>1 DEF Orchestrated, Elements

LEMMA BesideKept ==
  ASSUME Safe, RunsOnce, Beside, NEW p \in Papers, NEW i \in 1 .. Len(FanOut[p])
  PROVE  Kept(FanOut[p][i])
<1> DEFINE s == FanOut[p][i]
<1>1. s \in Slots /\ s \in Orchestrated
  BY OrchestratedSlots
<1> HIDE DEF s
<1>2. ASSUME NEW other \in Slots, other # s, Elsewhere(other) PROVE Kept(s)
  BY <1>1, <1>2, ElsewhereKept
<1>3. ASSUME NEW other \in Slots \ Orchestrated,
             \/ Spawn(other)
             \/ AdmitWorkerFailure(other)
             \/ \E env \in Envelopes, retried \in Retried :
                  AdmitRejected(other, env, retried) \/ AdmitAccepted(other, env, retried)
      PROVE  Kept(s)
  BY <1>1, <1>2, <1>3, SlotApart
<1>4. ASSUME NEW other \in Slots, NEW by \in Signatures,
             RejectReview(other, by) \/ \E waive \in BOOLEAN : ApproveReview(other, by, waive)
      PROVE  Kept(s)
  <2>1. CASE other # s
    BY <1>2, <1>4, <2>1, SlotApart
  <2>2. CASE other = s
    <3>1. task[s].status # "none" /\ produced' = produced
      BY <1>4, <2>2 DEF RejectReview, ApproveReview
    <3>2. Over(s) /\ Once(s)
      BY <1>1, <3>1, ReviewedOnce DEF RunsOnce
    <3>3. Over(s)' /\ jobs'[s][1].status \in {"approved", "held", "rejected"}
      BY <1>1, <1>4, <2>2, <3>2, ApproveOnce, RejectOnce
    <3> QED
      BY <3>1, <3>2, <3>3 DEF Over, Kept
  <2> QED
    BY <2>1, <2>2
<1>5. ASSUME NEW pair, ResolveConflict(pair) PROVE Kept(s)
  BY <1>5 DEF ResolveConflict, Kept
<1> QED
  BY <1>3, <1>4, <1>5 DEF Beside, Review, s

\* Every other slot of every paper is left as it was.
LEMMA OtherSlotsKept ==
  ASSUME InCall, Reporting, stage # "idle", call.rest # << >>, Elsewhere(Slot),
         NEW p \in Papers, NEW i \in 1 .. Len(FanOut[p]),
         p # call.paper \/ i # Done(p) + 1
  PROVE  Kept(FanOut[p][i])
<1>1. /\ call.paper \in Papers /\ Done(call.paper) + 1 \in 1 .. Len(FanOut[call.paper])
      /\ Slot \in Slots /\ Slot = FanOut[call.paper][Done(call.paper) + 1]
  BY NextSlot
<1>2. FanOut[p][i] # Slot /\ FanOut[p][i] \in Slots
  BY <1>1, SlotElsewhere
<1> QED
  BY <1>1, <1>2, ElsewhereKept

LEMMA RunReported ==
  ASSUME MaxSpawns = 1, Safe, InCall, Reporting, NEW p \in Papers, NEW w, NEW floor, NEW cap,
         RunPaper(p, w, floor, cap)
  PROVE  Reporting'
<1>1. FanOut[p] \in Seq(Slots)
  BY OrchestratorAssumption
<1>2. /\ UNCHANGED vars /\ stage' = "spawning" /\ call'.paper = p /\ call'.rest = FanOut[p]
      /\ reports' = [reports EXCEPT ![p] = << >>]
      /\ outcome' = [outcome EXCEPT ![p] = "running"]
  BY DEF RunPaper
<1>3. Done(p)' = 0 /\ reports'[p] = << >> /\ outcome'[p] = "running"
  BY <1>2 DEF Done, Reporting
<1>4. ASSUME NEW i \in 1 .. Len(FanOut[p]) PROVE Len(jobs'[FanOut[p][i]]) = 0
  <2>1. FanOut[p][i] \in Elements(FanOut[p]) /\ FanOut[p][i] \in Slots
    BY <1>1 DEF Elements
  <2>2. Len(jobs[FanOut[p][i]]) < 1 /\ Len(jobs[FanOut[p][i]]) \in Nat
    BY <2>1 DEF RunPaper, Safe, TypeOK
  <2> QED
    BY <1>2, <2>2 DEF vars
<1>5. Reported(p)' /\ Ended(p)'
  BY <1>1, <1>3, <1>4 DEF Reported, Ended
<1>6. ASSUME NEW q \in Papers, q # p, outcome'[q] # "none" PROVE Reported(q)' /\ Ended(q)'
  BY <1>2, <1>6, GraphKept, KeptPaper DEF Reporting
<1>7. Midway(p)'
  <2>1. call'.rest # << >> => Len(jobs'[Head(call'.rest)]) = 0
    BY <1>1, <1>2, <1>4
  <2> QED
    BY <1>1, <1>2, <1>3, <2>1 DEF Midway, Slot
<1> QED
  BY <1>2, <1>3, <1>5, <1>6, <1>7 DEF Reporting

LEMMA SpawnReported ==
  ASSUME MaxSpawns = 1, Safe, RunsOnce, InCall, Reporting, SpawnNext,
         stage' \in {"working", "failed"}
  PROVE  Reporting'
<1> SUFFICES ASSUME NEW p \in Papers, p = call.paper PROVE Reporting'
  BY NextSlot DEF SpawnNext
<1>1. /\ p \in Papers /\ Done(p) \in Nat /\ Done(p) + 1 \in 1 .. Len(FanOut[p])
      /\ Slot \in Slots /\ Slot = FanOut[p][Done(p) + 1]
  BY NextSlot DEF SpawnNext
<1>2. Spawn(Slot) /\ UNCHANGED <<call, reports, outcome>> /\ stage = "spawning"
      /\ call.rest # << >>
  BY DEF SpawnNext
<1>3. Waiting(Slot)' /\ Slot' = Slot
  BY <1>1, <1>2, OrchestratedSlots, SpawnOnce DEF RunsOnce, Slot
<1>4. Elsewhere(Slot)
  BY <1>1, <1>2, SlotApart
<1>5. Midway(p) /\ Reported(p) /\ Ended(p)
  BY <1>1, <1>2 DEF Reporting, Midway
<1>6. ASSUME NEW q \in Papers, q # p, outcome[q] # "none" PROVE Reported(q)' /\ Ended(q)'
  BY <1>2, <1>4, <1>6, OtherSlotsKept, KeptPaper DEF Reporting
<1>7. Reported(p)'
  <2>1. Done(p)' = Done(p) /\ reports'[p] = reports[p]
    BY <1>2 DEF Done
  <2>2. ASSUME NEW i \in 1 .. Done(p) PROVE Told(FanOut[p][i], reports[p][i])'
    <3>1. Told(FanOut[p][i], reports[p][i]) /\ i \in 1 .. Len(FanOut[p]) /\ i # Done(p) + 1
      BY <1>1, <1>5 DEF Reported
    <3>2. Kept(FanOut[p][i])
      BY <1>1, <1>2, <1>4, <3>1, OtherSlotsKept
    <3> QED
      BY <2>1, <3>1, <3>2 DEF Told, Kept
  <2>3. ASSUME NEW i \in 1 .. Len(FanOut[p]), i > Done(p) + 1
        PROVE  Len(jobs'[FanOut[p][i]]) = 0
    <3>1. Kept(FanOut[p][i])
      BY <1>1, <1>2, <1>4, <2>3, OtherSlotsKept
    <3> QED
      BY <1>5, <2>3, <3>1 DEF Reported, Kept
  <2> QED
    BY <1>2, <1>5, <2>1, <2>2, <2>3 DEF Reported
<1>8. Ended(p)' /\ Midway(p)'
  <2>1. Done(p)' = Done(p) /\ Pending(Slot)'
    BY <1>2, <1>3 DEF Done, Pending, Waiting
  <2> QED
    BY <1>2, <1>3, <1>5, <2>1 DEF Ended, Midway
<1> QED
  BY <1>1, <1>2, <1>6, <1>7, <1>8 DEF Reporting

\* What run_paper is told of an envelope is what became of the job.
LEMMA AdmittedAsTold ==
  ASSUME Safe, NEW s \in Slots, s = Slot, Waiting(s), NEW env \in Envelopes, Admit(s, env)
  PROVE  /\ AdmissionOf(env) \in Admissions
         /\ AdmissionOf(env).slot = s
         /\ AdmissionOf(env).nodes = Cardinality(produced'[s])
         /\ Len(jobs'[s]) = 1 /\ jobs'[s][1].status # "queued"
         /\ jobs'[s][1].status = "failed" <=> ~AdmissionOf(env).admitted
         /\ Elsewhere(s)
<1>1. env.status \in {"completed", "failed"} /\ env.nodes \in SUBSET Nodes /\ {} \in SUBSET Nodes
  BY DEF Envelopes
<1>2. Cardinality({}) = 0 /\ Cardinality(env.nodes) \in Counts /\ Cardinality({}) \in Counts
  BY <1>1, FS_EmptySet DEF Counts
<1>3. CASE env.status = "completed" /\ AdmitAccepted(s, env, FALSE)
  <2>1. /\ Over(s)' /\ jobs'[s][1].status \in {"completed", "held"} /\ produced'[s] = env.nodes
    BY <1>3, AcceptOnce
  <2>2. AdmissionOf(env) = [slot |-> s, admitted |-> TRUE, nodes |-> Cardinality(env.nodes)]
    BY <1>3 DEF AdmissionOf, AdmitAccepted
  <2>3. Elsewhere(s)
    BY <1>3, SlotApart
  <2>4. AdmissionOf(env) \in Admissions
    BY <1>2, <2>2 DEF Admissions
  <2> QED
    BY <2>1, <2>2, <2>3, <2>4 DEF Over
<1>4. CASE (env.status = "failed" /\ AdmitWorkerFailure(s)) \/ AdmitRejected(s, env, FALSE)
  <2>1. \E status \in {"completed", "failed"} : Delivered(s) /\ Fail(s, status)
    BY <1>1, <1>4 DEF AdmitWorkerFailure, AdmitRejected
  <2>2. Over(s)' /\ jobs'[s][1].status = "failed" /\ produced'[s] = {}
    BY <2>1, FailOnce
  <2>3. AdmissionOf(env) = [slot |-> s, admitted |-> FALSE, nodes |-> 0]
    BY <1>4 DEF AdmissionOf, AdmitRejected
  <2>4. Elsewhere(s)
    BY <1>4, SlotApart
  <2>5. AdmissionOf(env) \in Admissions
    BY <1>2, <2>3 DEF Admissions
  <2> QED
    BY <1>2, <2>2, <2>3, <2>4, <2>5 DEF Over
<1> QED
  BY <1>1, <1>3, <1>4 DEF Admit, AdmitAccepted

\* The job of an envelope about to be put waits for it.
LEMMA SlotWaits ==
  ASSUME RunsOnce, InCall, Reporting, stage \in {"working", "failed"}
  PROVE  Slot \in Orchestrated /\ Waiting(Slot)
<1>1. Slot \in Orchestrated
  BY NextSlot, OrchestratedSlots DEF InCall
<1>2. Pending(Slot)
  BY DEF Reporting, Midway
<1> QED
  BY <1>1, <1>2 DEF RunsOnce, Once, Fresh, Over, Pending

LEMMA AdmitReported ==
  ASSUME Safe, RunsOnce, InCall, Reporting,
         stage \in {"working", "failed"}, NEW env \in Envelopes, AdmitAndCollect(env)
  PROVE  Reporting'
<1> SUFFICES ASSUME NEW p \in Papers, p = call.paper PROVE Reporting'
  BY DEF InCall
<1>1. /\ call.rest # << >> /\ Done(p) \in Nat /\ Done(p) + 1 \in 1 .. Len(FanOut[p])
      /\ Slot \in Slots /\ Slot = FanOut[p][Done(p) + 1]
  BY NextSlot DEF InCall
<1>2. /\ Admit(Slot, env) /\ call' = [call EXCEPT !.rest = Tail(@)] /\ stage' = "spawning"
      /\ reports' = [reports EXCEPT ![p] = Append(@, AdmissionOf(env))] /\ outcome' = outcome
  BY DEF AdmitAndCollect
<1>3. PICK s \in Slots : s = Slot /\ Waiting(s)
  BY <1>1, SlotWaits
<1>4. /\ AdmissionOf(env) \in Admissions
      /\ AdmissionOf(env).slot = s /\ AdmissionOf(env).nodes = Cardinality(produced'[s])
      /\ Len(jobs'[s]) = 1 /\ jobs'[s][1].status # "queued"
      /\ jobs'[s][1].status = "failed" <=> ~AdmissionOf(env).admitted
      /\ Elsewhere(s)
  BY <1>2, <1>3, AdmittedAsTold
<1>5. Midway(p) /\ Reported(p) /\ Ended(p) /\ outcome[p] = "running"
  BY DEF Reporting, Midway
<1>6. /\ reports'[p] = Append(reports[p], AdmissionOf(env)) /\ Done(p)' = Done(p) + 1
      /\ reports'[p] \in Seq(Admissions)
      /\ reports'[p][Done(p) + 1] = AdmissionOf(env)
      /\ \A i \in 1 .. Done(p) : reports'[p][i] = reports[p][i]
  BY <1>2, <1>4 DEF Done, Reporting
<1>7. ASSUME NEW q \in Papers, q # p, outcome[q] # "none" PROVE Reported(q)' /\ Ended(q)'
  <2>1. reports'[q] = reports[q]
    BY <1>2, <1>7 DEF Reporting
  <2>2. \A i \in 1 .. Len(FanOut[q]) : Kept(FanOut[q][i])
    BY <1>1, <1>3, <1>4, <1>7, OtherSlotsKept
  <2> QED
    BY <1>2, <1>7, <2>1, <2>2, KeptPaper DEF Reporting
<1>8. ASSUME NEW i \in 1 .. Len(FanOut[p]), i > Done(p) + 1
      PROVE  Len(jobs'[FanOut[p][i]]) = 0
  <2>1. Kept(FanOut[p][i])
    BY <1>1, <1>3, <1>4, <1>8, OtherSlotsKept
  <2> QED
    BY <1>5, <1>8, <2>1 DEF Reported, Kept
<1>9. Reported(p)'
  <2>1. ASSUME NEW i \in 1 .. (Done(p) + 1) PROVE Told(FanOut[p][i], reports[p][i])'
    <3>1. CASE i = Done(p) + 1
      BY <1>1, <1>3, <1>4, <1>6, <3>1 DEF Told
    <3>2. CASE i # Done(p) + 1
      <4>1. /\ i \in 1 .. Done(p) /\ i \in 1 .. Len(FanOut[p])
            /\ Told(FanOut[p][i], reports[p][i])
        BY <1>1, <1>5, <3>2 DEF Reported
      <4>2. Kept(FanOut[p][i])
        BY <1>1, <1>3, <1>4, <3>2, <4>1, OtherSlotsKept
      <4> QED
        BY <1>6, <4>1, <4>2 DEF Told, Kept
    <3> QED
      BY <3>1, <3>2
  <2>2. Done(p)' \in Nat /\ Done(p)' <= Len(FanOut[p]) /\ Done(p)' + 1 > Done(p) + 1
    BY <1>1, <1>6
  <2>3. \A i \in 1 .. Len(FanOut[p]) : i > Done(p)' + 1 => Len(jobs'[FanOut[p][i]]) = 0
    BY <1>1, <1>6, <1>8
  <2> QED
    BY <1>6, <2>1, <2>2, <2>3 DEF Reported
<1>10. Midway(p)'
  <2>1. call.rest \in Seq(Slots) /\ FanOut[p] \in Seq(Slots)
    BY OrchestratorAssumption DEF InCall, Calls
  <2>2. /\ call'.rest = Tail(call.rest) /\ Len(call'.rest) = Len(call.rest) - 1
        /\ \A k \in 1 .. Len(call'.rest) :
             call'.rest[k] = call.rest[k + 1] /\ k + 1 \in 1 .. Len(call.rest)
    BY <1>1, <1>2, <2>1 DEF InCall, Calls
  <2>3. /\ Done(p)' + Len(call'.rest) = Len(FanOut[p])
        /\ \A k \in 1 .. Len(call'.rest) : call'.rest[k] = FanOut[p][Done(p)' + k]
    <3>1. Len(call.rest) \in Nat /\ Done(p) + Len(call.rest) = Len(FanOut[p])
      BY <1>5, <2>1 DEF Midway
    <3>2. \A k \in 1 .. Len(call'.rest) : call'.rest[k] = FanOut[p][Done(p) + (k + 1)]
      BY <1>5, <2>2 DEF Midway
    <3>3. Done(p)' + Len(call'.rest) = Len(FanOut[p])
      <4>1. Done(p) \in Nat /\ Done(p)' = Done(p) + 1 /\ Len(FanOut[p]) \in Nat
        BY <1>1, <1>6, <2>1
      <4>2. Len(call'.rest) = Len(call.rest) - 1
        BY <2>2
      <4> QED
        BY <3>1, <4>1, <4>2
    <3>4. ASSUME NEW k \in 1 .. Len(call'.rest) PROVE Done(p) + (k + 1) = Done(p)' + k
      BY <1>1, <1>6
    <3> QED
      BY <3>2, <3>3, <3>4
  <2>4. call'.rest # << >> => Len(jobs'[Head(call'.rest)]) = 0
    <3> SUFFICES ASSUME call'.rest # << >> PROVE Len(jobs'[Head(call'.rest)]) = 0
      OBVIOUS
    <3>1. call'.rest \in Seq(Slots) /\ Len(call'.rest) \in Nat \ {0}
          /\ Head(call'.rest) = call'.rest[1]
      <4>1. call'.rest \in Seq(Slots)
        BY <1>1, <2>1, <2>2
      <4> QED
        BY <4>1
    <3>2. 1 \in 1 .. Len(call'.rest) /\ Done(p)' \in Nat /\ Len(FanOut[p]) \in Nat
      BY <1>1, <1>6, <2>1, <3>1
    <3>3. Head(call'.rest) = FanOut[p][Done(p)' + 1] /\ Done(p)' + 1 \in 1 .. Len(FanOut[p])
      BY <2>3, <3>1, <3>2
    <3>4. Done(p)' + 1 > Done(p) + 1
      BY <1>1, <1>6
    <3>5. \A i \in 1 .. Len(FanOut[p]) : i > Done(p) + 1 => Len(jobs'[FanOut[p][i]]) = 0
      BY <1>8
    <3> QED
      BY <3>3, <3>4, <3>5
  <2> QED
    BY <1>2, <1>5, <2>3, <2>4 DEF Midway, Slot
<1>11. Ended(p)' /\ call'.paper = p
  BY <1>2, <1>5 DEF Ended, InCall, Calls
<1>12. /\ outcome' \in [Papers -> {"none", "running", "returned", "raised"}]
       /\ reports' \in [Papers -> Seq(Admissions)]
  BY <1>2, <1>6 DEF Reporting
<1> QED
  BY <1>2, <1>7, <1>9, <1>10, <1>11, <1>12 DEF Reporting

LEMMA LeaveReported ==
  ASSUME InCall, Reporting, stage # "idle", UNCHANGED vars, NEW how, Leave(how),
         \/ how = "returned" /\ call.rest = << >>
         \/ how = "raised" /\ stage = "working"
  PROVE  Reporting'
<1> SUFFICES ASSUME NEW p \in Papers, p = call.paper PROVE Reporting'
  BY DEF InCall
<1>1. /\ outcome' = [outcome EXCEPT ![p] = how] /\ reports' = reports /\ stage' = "idle"
      /\ jobs' = jobs /\ produced' = produced
  BY DEF Leave, vars
<1>2. Midway(p) /\ Reported(p) /\ Ended(p) /\ Done(p)' = Done(p)
  BY <1>1 DEF Reporting, Midway, Done
<1>3. ASSUME NEW q \in Papers, q # p, outcome[q] # "none" PROVE Reported(q)' /\ Ended(q)'
  BY <1>1, <1>3, GraphKept, KeptPaper DEF Reporting
<1>4. Reported(p)'
  BY <1>1, <1>2 DEF Reported, Told
<1>5. CASE how = "returned" /\ call.rest = << >>
  <2>1. Done(p) = Len(FanOut[p])
    BY <1>2, <1>5 DEF Midway, Reported, Done
  <2>2. outcome'[p] = "returned"
    BY <1>1, <1>5 DEF Reporting
  <2>3. Ended(p)'
    BY <1>2, <2>1, <2>2 DEF Ended
  <2> QED
    BY <1>1, <1>3, <1>4, <1>5, <2>3 DEF Reporting
<1>6. CASE how = "raised" /\ stage = "working"
  <2>1. /\ Done(p) \in Nat /\ Done(p) + 1 \in 1 .. Len(FanOut[p])
        /\ Slot = FanOut[p][Done(p) + 1] /\ Len(FanOut[p]) \in Nat
    BY <1>6, NextSlot, OrchestratorAssumption DEF InCall
  <2>2. Pending(FanOut[p][Done(p) + 1]) /\ Done(p) < Len(FanOut[p])
    BY <1>2, <1>6, <2>1 DEF Midway
  <2>3. outcome'[p] = "raised"
    BY <1>1, <1>6 DEF Reporting
  <2>4. Ended(p)'
    BY <1>1, <1>2, <2>2, <2>3 DEF Ended, Pending
  <2> QED
    BY <1>1, <1>3, <1>4, <1>6, <2>4 DEF Reporting
<1> QED
  BY <1>5, <1>6

LEMMA StepReporting ==
  ASSUME MaxSpawns = 1, Safe, RunsOnce, InCall, Reporting, [OrchestratorNext]_allVars
  PROVE  Reporting'
<1>1. ASSUME NEW p \in Papers, NEW w \in {"reference", "llm"}, NEW floor \in Floors,
             NEW cap \in Caps, RunPaper(p, w, floor, cap)
      PROVE  Reporting'
  BY <1>1, RunReported
<1>2. CASE SpawnNext /\ stage' \in {"working", "failed"}
  BY <1>2, SpawnReported
<1>3. ASSUME NEW env \in Envelopes, AdmitAndCollect(env), stage \in {"working", "failed"}
      PROVE  Reporting'
  BY <1>3, AdmitReported
<1>4. CASE stage = "working" /\ AdmitAndCollect(Returned)
  BY <1>3, <1>4, ReturnedEnvelope DEF InCall
<1>5. CASE stage = "failed"
           /\ AdmitAndCollect([status |-> "failed", ok |-> FALSE, nodes |-> {}])
  <2>1. [status |-> "failed", ok |-> FALSE, nodes |-> {}] \in Envelopes
    BY DEF Envelopes
  <2> QED
    BY <1>3, <1>5, <2>1
<1>6. CASE RunRaises
  BY <1>6, LeaveReported DEF RunRaises
<1>7. CASE RunReturns
  BY <1>7, LeaveReported DEF RunReturns
<1>8. CASE UNCHANGED orchestrator /\ \A p \in Papers : \A i \in 1 .. Len(FanOut[p]) :
             Kept(FanOut[p][i])
  <2>1. ASSUME NEW p \in Papers, outcome[p] # "none" PROVE Reported(p)' /\ Ended(p)'
    BY <1>8, <2>1, KeptPaper DEF Reporting, orchestrator
  <2>2. stage # "idle" => Midway(call.paper)'
    <3> SUFFICES ASSUME stage # "idle", NEW p \in Papers, p = call.paper PROVE Midway(p)'
      BY <1>8 DEF orchestrator, InCall
    <3>1. Midway(p) /\ Done(p)' = Done(p) /\ UNCHANGED <<stage, call, outcome>>
      BY <1>8 DEF Reporting, orchestrator, Done
    <3>2. call.rest # << >> => Kept(Slot) /\ Slot' = Slot
      BY <1>8, <3>1, NextSlot DEF Slot
    <3> QED
      BY <3>1, <3>2 DEF Midway, Pending, Kept, InCall
  <2> QED
    BY <1>8, <2>1, <2>2 DEF Reporting, orchestrator
<1>9. CASE Beside
  BY <1>8, <1>9, BesideKept DEF Beside
<1>10. CASE UNCHANGED vars /\ UNCHANGED orchestrator
  BY <1>8, <1>10, GraphKept
<1> QED
  BY <1>1, <1>2, <1>4, <1>5, <1>6, <1>7, <1>9, <1>10
     DEF OrchestratorNext, SpawnAndWork, SpawnAndFail, WorkerTurn, AdmitNext, allVars

\* A step on one slot leaves the other slots of the orchestrator used once.
LEMMA OthersRunOnce ==
  ASSUME RunsOnce, NEW s \in Slots, Elsewhere(s), s \in Orchestrated => Once(s)'
  PROVE  RunsOnce'
<1> SUFFICES ASSUME NEW other \in Orchestrated, other # s PROVE Once(other)'
  BY DEF RunsOnce, Orchestrated
<1> QED
  BY OrchestratedSlots, OnceKept DEF RunsOnce, Elsewhere

LEMMA StepRunsOnce ==
  ASSUME MaxSpawns = 1, Safe, RunsOnce, InCall, Reporting, [OrchestratorNext]_allVars
  PROVE  RunsOnce'
<1>1. CASE SpawnNext
  <2>1. Slot \in Slots /\ Slot \in Orchestrated /\ Spawn(Slot)
    BY <1>1, NextSlot, OrchestratedSlots DEF SpawnNext
  <2>2. PICK s \in Slots : s = Slot
    BY <2>1
  <2>3. Once(s)'
    BY <2>1, <2>2, SpawnOnce DEF RunsOnce, Once
  <2> QED
    BY <2>1, <2>2, <2>3, SlotApart, OthersRunOnce
<1>2. ASSUME NEW env \in Envelopes, AdmitAndCollect(env), stage \in {"working", "failed"}
      PROVE  RunsOnce'
  <2>1. PICK s \in Slots : s = Slot /\ Waiting(s)
    BY <1>2, SlotWaits, OrchestratedSlots
  <2>2. Admit(s, env)
    BY <1>2, <2>1 DEF AdmitAndCollect
  <2>3. CASE AdmitAccepted(s, env, FALSE)
    <3>1. Once(s)' /\ Elsewhere(s)
      BY <2>1, <2>3, AcceptOnce, SlotApart DEF Once
    <3> QED
      BY <3>1, OthersRunOnce
  <2>4. CASE AdmitWorkerFailure(s) \/ AdmitRejected(s, env, FALSE)
    <3>1. \E status \in {"completed", "failed"} : Delivered(s) /\ Fail(s, status)
      BY <2>4 DEF AdmitWorkerFailure, AdmitRejected, Envelopes
    <3>2. Once(s)' /\ Elsewhere(s)
      BY <2>1, <2>4, <3>1, FailOnce, SlotApart DEF Once
    <3> QED
      BY <3>2, OthersRunOnce
  <2> QED
    BY <2>2, <2>3, <2>4 DEF Admit
<1>3. CASE stage = "working" /\ AdmitAndCollect(Returned)
  BY <1>2, <1>3, ReturnedEnvelope DEF InCall
<1>4. CASE stage = "failed"
           /\ AdmitAndCollect([status |-> "failed", ok |-> FALSE, nodes |-> {}])
  <2>1. [status |-> "failed", ok |-> FALSE, nodes |-> {}] \in Envelopes
    BY DEF Envelopes
  <2> QED
    BY <1>2, <1>4, <2>1
<1>5. ASSUME NEW s \in Slots \ Orchestrated,
             \/ Spawn(s)
             \/ AdmitWorkerFailure(s)
             \/ \E env \in Envelopes, retried \in Retried :
                  AdmitRejected(s, env, retried) \/ AdmitAccepted(s, env, retried)
      PROVE  RunsOnce'
  BY <1>5, SlotApart, OthersRunOnce
<1>6. ASSUME NEW s \in Slots, NEW by \in Signatures,
             RejectReview(s, by) \/ \E waive \in BOOLEAN : ApproveReview(s, by, waive)
      PROVE  RunsOnce'
  <2>1. s \in Orchestrated => Once(s)'
    BY <1>6, RejectOnce, ApproveOnce DEF RunsOnce, Once
  <2>2. Elsewhere(s)
    BY <1>6, SlotApart
  <2> QED
    BY <2>1, <2>2, OthersRunOnce
<1>7. ASSUME NEW pair \in openConflicts, ResolveConflict(pair) PROVE RunsOnce'
  <2>1. UNCHANGED <<jobs, task, produced, reviewed, admits>> /\ Known \subseteq Known'
    BY <1>7 DEF ResolveConflict, Known
  <2> QED
    BY <2>1, OrchestratedSlots, OnceKept DEF RunsOnce, Orchestrated
<1>8. CASE Beside
  BY <1>5, <1>6, <1>7, <1>8 DEF Beside, Review
<1>9. CASE UNCHANGED vars
  <2>1. Known \subseteq Known'
    BY <1>9 DEF vars, Known
  <2> QED
    BY <1>9, <2>1, OrchestratedSlots, OnceKept DEF RunsOnce, Orchestrated, vars
<1> QED
  BY <1>1, <1>3, <1>4, <1>8, <1>9
     DEF OrchestratorNext, RunPaper, SpawnAndWork, SpawnAndFail, WorkerTurn, AdmitNext,
         RunRaises, RunReturns, allVars

(* Where every job is spawned once, the report of a run that ended is true  *)
(* of the graph, and stays true whatever reviews and other runs follow and  *)
(* however many envelopes other callers put to their own jobs (run_paper,   *)
(* OrchestrationReport).                                                    *)
THEOREM ReportsAreTrue ==
  ASSUME MaxSpawns = 1
  PROVE  OrchestratorSpec => []ReportIsTrue
<1>1. OrchestratorInit => Reporting /\ RunsOnce
  <2>1. Init => RunsOnce
    BY InitOnce, OrchestratedSlots DEF AllOnce, RunsOnce
  <2> QED
    BY <2>1 DEF OrchestratorInit, Reporting
<1>2. Safe /\ InCall /\ Reporting /\ RunsOnce /\ [OrchestratorNext]_allVars
        => Reporting' /\ RunsOnce'
  BY StepReporting, StepRunsOnce
<1>3. Safe /\ Reporting => ReportIsTrue
  <2> SUFFICES ASSUME Safe, Reporting, NEW p \in Papers, outcome[p] \in {"returned", "raised"}
               PROVE  /\ outcome[p] = "returned" <=> Len(reports[p]) = Len(FanOut[p])
                      /\ \A i \in DOMAIN FanOut[p] :
                           LET s == FanOut[p][i]
                               done == Len(reports[p])
                           IN /\ i <= done =>
                                   /\ reports[p][i].slot = s
                                   /\ reports[p][i].nodes = Cardinality(produced[s])
                                   /\ Spawned(s) /\ Latest(s).status # "queued"
                                   /\ Latest(s).status = "failed" <=> ~reports[p][i].admitted
                              /\ i = done + 1 => Spawned(s) /\ Latest(s).status = "queued"
                              /\ i > done + 1 => ~Spawned(s)
    BY DEF ReportIsTrue
  <2>1. FanOut[p] \in Seq(Slots) /\ Len(reports[p]) \in Nat /\ Reported(p) /\ Ended(p)
    BY OrchestratorAssumption DEF Reporting
  <2>2. outcome[p] = "returned" <=> Len(reports[p]) = Len(FanOut[p])
    BY <2>1 DEF Ended, Done
  <2>3. ASSUME NEW i \in 1 .. Len(FanOut[p]), i <= Len(reports[p])
        PROVE  Told(FanOut[p][i], reports[p][i])
    BY <2>1, <2>3 DEF Reported, Done
  <2>4. ASSUME NEW i \in 1 .. Len(FanOut[p]), i = Len(reports[p]) + 1
        PROVE  Pending(FanOut[p][i])
    BY <2>1, <2>2, <2>4 DEF Ended, Done
  <2>5. ASSUME NEW i \in 1 .. Len(FanOut[p]), i > Len(reports[p]) + 1
        PROVE  Len(jobs[FanOut[p][i]]) = 0
    BY <2>1, <2>5 DEF Reported, Done
  <2>6. \A s \in Slots : /\ Spawned(s) <=> Len(jobs[s]) # 0
                         /\ Len(jobs[s]) = 1 => Latest(s) = jobs[s][1]
    BY DEF Safe, TypeOK, Spawned, Latest
  <2>7. \A i \in DOMAIN FanOut[p] : i \in 1 .. Len(FanOut[p]) /\ FanOut[p][i] \in Slots
    BY <2>1
  <2>8. ASSUME NEW i \in DOMAIN FanOut[p], i <= Len(reports[p])
        PROVE  /\ reports[p][i].slot = FanOut[p][i]
               /\ reports[p][i].nodes = Cardinality(produced[FanOut[p][i]])
               /\ Spawned(FanOut[p][i]) /\ Latest(FanOut[p][i]).status # "queued"
               /\ Latest(FanOut[p][i]).status = "failed" <=> ~reports[p][i].admitted
    BY <2>3, <2>6, <2>7, <2>8 DEF Told
  <2>9. ASSUME NEW i \in DOMAIN FanOut[p], i = Len(reports[p]) + 1
        PROVE  Spawned(FanOut[p][i]) /\ Latest(FanOut[p][i]).status = "queued"
    BY <2>4, <2>6, <2>7, <2>9 DEF Pending
  <2>10. ASSUME NEW i \in DOMAIN FanOut[p], i > Len(reports[p]) + 1
         PROVE  ~Spawned(FanOut[p][i])
    BY <2>5, <2>6, <2>7, <2>10
  <2> QED
    BY <2>2, <2>8, <2>9, <2>10
<1> QED
  BY <1>1, <1>2, <1>3, AlwaysInCall, OrchestratorIsAdditive, AlwaysSafe, PTL
     DEF OrchestratorSpec, OrchestratorAdditive
=============================================================================
