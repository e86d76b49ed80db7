--------------------------- MODULE PipelineProofs ----------------------------
(***************************************************************************)
(* Theorems about Pipeline, for every number of layers, size of the ring   *)
(* and configuration of the captured graphs. RingInv is about the ring of  *)
(* plans, OrderInv about the order of the two streams; OrderInv is kept by *)
(* every step from a state in which RingInv holds.                         *)
(***************************************************************************)
EXTENDS Pipeline, SequenceTheorems, NatLemmas, TLAPS

-----------------------------------------------------------------------------
(* Least and greatest elements.                                            *)

LEMMA MinIs ==
  ASSUME NEW S, S \subseteq Nat, S # {}
  PROVE  Min(S) \in S /\ \A y \in S : Min(S) <= y
BY LeastElement DEF Min

LEMMA MaxIs ==
  ASSUME NEW n \in Nat, NEW S, S \subseteq 0 .. n, S # {}
  PROVE  Max(S) \in S /\ \A y \in S : y <= Max(S)
BY GreatestElement DEF Max

-----------------------------------------------------------------------------
(* Captured graphs.                                                        *)

LEMMA DivMonotone ==
  ASSUME NEW a \in Nat, NEW b \in Nat, NEW k \in Nat \ {0}, a <= b
  PROVE  a \div k \in Nat /\ a \div k <= b \div k
OBVIOUS

LEMMA TimesMonotone ==
  ASSUME NEW a \in Nat, NEW b \in Nat, NEW k \in Nat, a <= b
  PROVE  k * a \in Nat /\ k * a <= k * b
OBVIOUS

LEMMA TilesGrow ==
  ASSUME NEW a \in Nat \ {0}, NEW b \in Nat, a <= b
  PROVE  Tiles(a) \in Nat /\ Tiles(a) <= Tiles(b) /\ Tiles(b) \in Nat
BY DivMonotone, GraphRunnerAssumption DEF Tiles

\* a part of a sum of products and the rest fit the whole
LEMMA PartsFit ==
  ASSUME NEW p \in Nat, NEW s \in 0 .. p, NEW a \in Nat, NEW b \in Nat, NEW c \in Nat,
         a <= c, b <= c
  PROVE  s * a + (p - s) * b <= p * c
<1>1. s \in Nat /\ p - s \in Nat
  OBVIOUS
<1>2. s * a <= s * c /\ (p - s) * b <= (p - s) * c
  BY <1>1, TimesMonotone
<1>3. s * c + (p - s) * c = p * c
  OBVIOUS
<1>4. s * a \in Nat /\ (p - s) * b \in Nat /\ s * c \in Nat /\ (p - s) * c \in Nat
  BY <1>1
<1> QED BY <1>2, <1>3, <1>4

\* A graph that a batch is replayed with is large enough for it.
LEMMA GraphFits ==
  ASSUME NEW b, b.size \in Nat \ {0}, b.longest \in Nat \ {0}, CanUseCudaGraph(b)
  PROVE  ReplayFits(b)
<1> DEFINE S == {s \in GraphBatchSizes : s >= b.size}
           C == CaptureMaxSeqLen
           P == PaddedSize(b)
<1>1. /\ GraphBatchSizes # {} /\ b.size <= MaxBatchSize /\ b.longest <= C
  BY DEF CanUseCudaGraph
<1>2. GraphBatchSizes \subseteq 0 .. MaxGraphBatch /\ MaxGraphBatch \in Nat
  BY <1>1, GraphRunnerAssumption DEF GraphBatchSizes
<1>3. MaxBatchSize \in S
  <2>1. MaxBatchSize = Max(GraphBatchSizes)
    BY <1>1 DEF MaxBatchSize
  <2>2. Max(GraphBatchSizes) \in GraphBatchSizes
    BY <1>1, <1>2, MaxIs
  <2> QED BY <1>1, <2>1, <2>2
<1>4. P \in GraphBatchSizes /\ P >= b.size /\ P \in Nat
  <2>1. S \subseteq GraphBatchSizes /\ GraphBatchSizes \subseteq Nat
    BY <1>2
  <2>3. S \subseteq Nat /\ S # {}
    BY <1>3, <2>1
  <2>2. P = Min(S)
    BY DEF PaddedSize
  <2> QED BY <1>2, <2>1, <2>2, <2>3, MinIs
<1>5. C \in Nat \ {0}
  <2>1. C \in Int
    <3>1. ASSUME CaptureMaxSeqLenSet > 0
          PROVE  Min({CaptureMaxSeqLenSet, MaxSeqLen}) \in Int
      <4>1. {CaptureMaxSeqLenSet, MaxSeqLen} \subseteq Nat
        BY <3>1, GraphRunnerAssumption
      <4> QED BY <4>1, MinIs
    <3> QED BY <3>1, GraphRunnerAssumption DEF CaptureMaxSeqLen
  <2> QED BY <1>1, <2>1
<1> HIDE DEF P, C
<1>6. b.size \in 0 .. P
  BY <1>4
<1>7. ReplayTiles(b) <= CapturedTiles(P)
  <2>1. /\ Tiles(b.longest) \in Nat /\ Tiles(C) \in Nat /\ Tiles(1) \in Nat
        /\ Tiles(b.longest) <= Tiles(C) /\ Tiles(1) <= Tiles(C)
    BY <1>1, <1>5, TilesGrow
  <2>2. b.size * Tiles(b.longest) + (P - b.size) * Tiles(1) <= P * Tiles(C)
    BY <1>4, <1>6, <2>1, PartsFit
  <2> QED BY <2>2 DEF ReplayTiles, CapturedTiles, P, C
<1>8. ReplayIndices(b) <= CapturedIndices(P)
  <2>1. b.size * b.longest + (P - b.size) * 1 <= P * C
    BY <1>1, <1>4, <1>5, <1>6, PartsFit
  <2>2. (P - b.size) * 1 = P - b.size
    BY <1>4
  <2> QED BY <2>1, <2>2 DEF ReplayIndices, CapturedIndices, P, C
<1> QED BY <1>4, <1>7, <1>8 DEF ReplayFits, P

-----------------------------------------------------------------------------
(* Commands and operations.                                                *)

Tags == (0 .. MaxSteps) \X (0 .. Layers)
Ring == {"ring"} \X Slots

\* what a command of the program reads and writes is not in the ring
Accesses == (Buffers \ Ring) \X Tags
Events == ({"forward", "prepare"} \X Nat) \cup ({"slot"} \X Tags)

Commands == [op : {"run"}, reads : SUBSET Accesses, writes : SUBSET Accesses]
              \cup [op : {"record", "wait"}, event : Events]

\* the copy of a plan from its slot of the ring
RingCopy(s, t) == Run({<<<<"ring", s>>, t>>}, {<<<<"intWorkspace", 0>>, t>>})
RingCopies == {RingCopy(s, t) : s \in Slots, t \in Tags}

Operations ==
  [op : {"enqueue"}, stream : Streams, command : Commands]
    \cup [op : {"fill"}, write : Accesses]
    \cup [op : {"synchronize"}, event : Events]
    \cup [op : {"drain"}, stream : Streams]
    \cup [op : {"read"}, step : 1 .. MaxSteps]
    \cup [op : {"stage"}, tag : Tags]

Programs == Seq(Operations)

BatchTypes ==
  [phase : {"none", "prefill", "decode"}, size : Nat, longest : Nat,
   sampling : {"greedy", "temperature", "filtered"}, deferred : BOOLEAN]

LEMMA RingSlots ==
  /\ RingSize \in Nat \ {0} /\ MaxSteps \in Nat \ {0} /\ Layers \in Nat \ {0}
  /\ 0 \in Slots
  /\ \A s \in Slots : (s + 1) % RingSize \in Slots
BY PipelineAssumption DEF Slots

LEMMA PlainBuffers ==
  /\ \A name \in {"pageWriteHost", "positionsHost", "writeHost", "decodeHost",
                  "samplerHost", "pageWrite", "positions", "write", "decode",
                  "pageTable", "tokenPool", "outLoc", "inputIds", "indices",
                  "captured", "intWorkspace", "logits", "sampled"} :
       <<name, 0>> \in Buffers \ Ring
  /\ \A n \in Nat : <<"sampler", n % 2>> \in Buffers \ Ring
  /\ \A n \in 1 .. MaxSteps : <<"tokensCpu", n>> \in Buffers \ Ring
  /\ Ring \subseteq Buffers
<1>1. \A n \in Nat : n % 2 \in 0 .. 1
  OBVIOUS
<1> QED BY <1>1 DEF Buffers, Staging, Ring

LEMMA AccessesAre ==
  ASSUME NEW n \in 0 .. MaxSteps
  PROVE  /\ \A name \in {"pageWriteHost", "positionsHost", "writeHost", "decodeHost",
                  "samplerHost", "pageWrite", "positions", "write", "decode",
                  "pageTable", "tokenPool", "outLoc", "inputIds", "indices",
                  "captured", "intWorkspace", "logits", "sampled"} :
              At(name, n) \in Accesses
         /\ Arguments(n) \in Accesses
         /\ n # 0 => Answer(n) \in Accesses
         /\ \A use \in 1 .. Layers : Plan(n, use) \in Accesses /\ <<n, use>> \in Tags
         /\ <<n, 0>> \in Tags
<1>1. /\ n \in Nat /\ <<n, 0>> \in Tags
      /\ \A use \in 1 .. Layers : <<n, use>> \in Tags
  BY RingSlots DEF Tags
<1>2. \A name \in {"pageWriteHost", "positionsHost", "writeHost", "decodeHost",
                  "samplerHost", "pageWrite", "positions", "write", "decode",
                  "pageTable", "tokenPool", "outLoc", "inputIds", "indices",
                  "captured", "intWorkspace", "logits", "sampled"} :
        At(name, n) \in Accesses
  BY <1>1, PlainBuffers DEF At, AtIndex, Accesses
<1>3. Arguments(n) \in Accesses
  BY <1>1, PlainBuffers DEF Arguments, AtIndex, Accesses
<1>4. n # 0 => Answer(n) \in Accesses
  <2>1. n # 0 => n \in 1 .. MaxSteps
    OBVIOUS
  <2> QED BY <1>1, <2>1, PlainBuffers DEF Answer, AtIndex, Accesses
<1>5. \A use \in 1 .. Layers : Plan(n, use) \in Accesses
  BY <1>1, PlainBuffers DEF Plan, Accesses
<1> QED BY <1>1, <1>2, <1>3, <1>4, <1>5

LEMMA StepsBefore ==
  ASSUME NEW n \in 1 .. MaxSteps
  PROVE  n \in 0 .. MaxSteps /\ n - 1 \in 0 .. MaxSteps /\ n # 0 /\ n \in Nat
BY RingSlots

LEMMA OperationsAre ==
  /\ \A s \in Streams, r \in SUBSET Accesses, w \in SUBSET Accesses :
       Enqueue(s, Run(r, w)) \in Operations
  /\ \A s \in Streams, e \in Events :
       /\ Enqueue(s, Wait(e)) \in Operations /\ Enqueue(s, Record(e)) \in Operations
  /\ \A e \in Events : Synchronize(e) \in Operations
  /\ \A s \in Streams : Drain(s) \in Operations
  /\ \A n \in 1 .. MaxSteps : Read(n) \in Operations
  /\ \A n \in Nat : ForwardDone(n) \in Events /\ PrepareDone(n) \in Events
  /\ "S" \in Streams /\ "E" \in Streams
BY DEF Enqueue, Run, Wait, Record, Synchronize, Drain, Read, Operations, Commands,
       Events, ForwardDone, PrepareDone, Streams

-----------------------------------------------------------------------------
(* Programs of a step.                                                     *)

LEMMA Sequenced ==
  /\ <<>> \in Programs
  /\ \A p, q \in Programs : p \o q \in Programs
BY DEF Programs

LEMMA CopyIs ==
  ASSUME NEW n \in 1 .. MaxSteps, NEW s \in Streams,
         NEW from \in {"pageWriteHost", "positionsHost", "writeHost", "decodeHost",
                       "pageWrite", "pageTable"},
         NEW to \in {"pageWrite", "pageTable", "positions", "write", "decode", "indices"}
  PROVE  Copy(s, from, to, n) \in Operations
<1>1. At(from, n) \in Accesses /\ At(to, n) \in Accesses
  BY StepsBefore, AccessesAre
<1>2. {At(from, n)} \in SUBSET Accesses /\ {At(to, n)} \in SUBSET Accesses
  BY <1>1
<1> QED BY <1>2, OperationsAre DEF Copy

LEMMA FillIs ==
  ASSUME NEW n \in 1 .. MaxSteps,
         NEW name \in {"pageWriteHost", "positionsHost", "writeHost", "decodeHost",
                       "samplerHost"}
  PROVE  Fill(name, n) \in Operations
<1>1. At(name, n) \in Accesses
  BY StepsBefore, AccessesAre
<1> QED BY <1>1 DEF Fill, Operations

LEMMA StageIs ==
  ASSUME NEW n \in 1 .. MaxSteps, NEW use \in 1 .. Layers
  PROVE  Stage(n, use) \in Operations
BY StepsBefore, AccessesAre DEF Stage, Operations

\* what prepare_batch does between the page table and the metadata
PrepareInputs(n) ==
  <<Fill("positionsHost", n),
    Copy("S", "positionsHost", "positions", n),
    Fill("writeHost", n),
    Copy("S", "writeHost", "write", n),
    Enqueue("S", Run({At("pageTable", n), At("positions", n)}, {At("outLoc", n)})),
    Enqueue("S", Run({At("tokenPool", n - 1), At("positions", n)}, {At("inputIds", n)}))>>

LEMMA PrepareIs ==
  ASSUME NEW n \in 1 .. MaxSteps, NEW b \in BatchTypes
  PROVE  /\ WritePageTable(n) \in Programs /\ PrepareInputs(n) \in Programs
         /\ PrepareMetadata(n, b) \in Programs /\ PrepareSampling(n, b) \in Programs
         /\ PrepareBatch(n, b) \in Programs
         /\ PrepareBatch(n, b) = WritePageTable(n) \o PrepareInputs(n)
                                   \o PrepareMetadata(n, b) \o PrepareSampling(n, b)
<1>1. WritePageTable(n) \in Programs
  BY FillIs, CopyIs, OperationsAre DEF WritePageTable, Programs
<1>2. /\ At("pageTable", n) \in Accesses /\ At("positions", n) \in Accesses
      /\ At("outLoc", n) \in Accesses /\ At("inputIds", n) \in Accesses
      /\ At("tokenPool", n - 1) \in Accesses
      /\ At("decode", n) \in Accesses /\ At("indices", n) \in Accesses
      /\ At("samplerHost", n) \in Accesses /\ Arguments(n) \in Accesses
  BY StepsBefore, AccessesAre
<1>3. /\ {At("pageTable", n), At("positions", n)} \in SUBSET Accesses
      /\ {At("outLoc", n)} \in SUBSET Accesses
      /\ {At("tokenPool", n - 1), At("positions", n)} \in SUBSET Accesses
      /\ {At("inputIds", n)} \in SUBSET Accesses
      /\ {At("pageTable", n), At("decode", n)} \in SUBSET Accesses
      /\ {At("indices", n)} \in SUBSET Accesses
      /\ {At("decode", n)} \in SUBSET Accesses /\ {} \in SUBSET Accesses
      /\ {At("samplerHost", n)} \in SUBSET Accesses /\ {Arguments(n)} \in SUBSET Accesses
  BY <1>2
<1>4. PrepareInputs(n) \in Programs
  BY <1>3, FillIs, CopyIs, OperationsAre DEF PrepareInputs, Programs
<1>5. PrepareMetadata(n, b) \in Programs
  BY <1>3, FillIs, CopyIs, OperationsAre DEF PrepareMetadata, Programs
<1>6. PrepareSampling(n, b) \in Programs
  BY <1>3, FillIs, OperationsAre DEF PrepareSampling, Programs
<1>7. PrepareBatch(n, b) = WritePageTable(n) \o PrepareInputs(n)
                           \o PrepareMetadata(n, b) \o PrepareSampling(n, b)
  BY DEF PrepareBatch, PrepareInputs
<1> QED BY <1>1, <1>4, <1>5, <1>6, <1>7, Sequenced

LEMMA LayersAre ==
  ASSUME NEW n \in 1 .. MaxSteps, NEW b \in BatchTypes
  PROVE  EagerLayers(n, b) \in Programs
<1> DEFINE Layer(use) == Enqueue("E", Run(Inputs(n) \cup Metadata(n) \cup {Plan(n, use)},
                                          {At("logits", n)}))
           prefill == [i \in 1 .. 2 * Layers |-> IF i % 2 = 1 THEN Stage(n, (i + 1) \div 2)
                                                ELSE Layer(i \div 2)]
           decode == [l \in 1 .. Layers |-> Layer(1)]
<1>1. ASSUME NEW use \in 1 .. Layers
      PROVE  Layer(use) \in Operations
  <2>1. Inputs(n) \in SUBSET Accesses /\ Metadata(n) \in SUBSET Accesses
    BY StepsBefore, AccessesAre DEF Inputs, Metadata
  <2>2. Plan(n, use) \in Accesses /\ At("logits", n) \in Accesses
    BY StepsBefore, AccessesAre
  <2>3. /\ Inputs(n) \cup Metadata(n) \cup {Plan(n, use)} \in SUBSET Accesses
        /\ {At("logits", n)} \in SUBSET Accesses
    BY <2>1, <2>2
  <2> QED BY <2>3, OperationsAre
<1> HIDE DEF Layer
<1>2. prefill \in Programs
  <2>1. ASSUME NEW i \in 1 .. 2 * Layers
        PROVE  (IF i % 2 = 1 THEN Stage(n, (i + 1) \div 2) ELSE Layer(i \div 2)) \in Operations
    <3>1. CASE i % 2 = 1
      <4>1. (i + 1) \div 2 \in 1 .. Layers
        BY <3>1, RingSlots
      <4> QED BY <3>1, <4>1, StageIs
    <3>2. CASE i % 2 # 1
      <4>1. i \div 2 \in 1 .. Layers
        BY <3>2, RingSlots
      <4> QED BY <1>1, <3>2, <4>1
    <3> QED BY <3>1, <3>2
  <2>2. 2 * Layers \in Nat
    BY RingSlots
  <2> QED BY <2>1, <2>2 DEF Programs
<1>3. decode \in Programs /\ <<Stage(n, 1)>> \in Programs
  <2>1. 1 \in 1 .. Layers
    BY RingSlots
  <2>2. Stage(n, 1) \in Operations /\ Layer(1) \in Operations
    BY <1>1, <2>1, StageIs
  <2> QED BY <2>2, RingSlots DEF Programs
<1>4. EagerLayers(n, b) = IF b.phase = "prefill" THEN prefill ELSE <<Stage(n, 1)>> \o decode
  BY DEF EagerLayers, Layer
<1> HIDE DEF prefill, decode
<1> QED BY <1>2, <1>3, <1>4, Sequenced

\* how forward begins and forward_batch ends
Handover(n) ==
  <<Enqueue("S", Record(PrepareDone(n))), Enqueue("E", Wait(PrepareDone(n)))>>
Publish(n) ==
  <<Enqueue("E", Run({At("sampled", n)}, {Answer(n)})),
    Enqueue("E", Run({At("sampled", n), At("write", n)}, {At("tokenPool", n)})),
    Enqueue("E", Record(ForwardDone(n)))>>

LEMMA ForwardIs ==
  ASSUME NEW n \in 1 .. MaxSteps, NEW b \in BatchTypes
  PROVE  /\ Handover(n) \in Programs /\ Replay(n) \in Programs
         /\ EagerLayers(n, b) \in Programs
         /\ Sample(n, b) \in Programs /\ Publish(n) \in Programs
         /\ Forward(n, b) \in Programs
         /\ Forward(n, b) =
              Handover(n) \o (IF CanUseCudaGraph(b) THEN Replay(n) ELSE EagerLayers(n, b))
                \o Sample(n, b) \o Publish(n)
<1>1. n \in Nat /\ 1 \in 1 .. Layers
  BY RingSlots
<1>2. /\ At("captured", n) \in Accesses /\ Plan(n, 1) \in Accesses
      /\ At("logits", n) \in Accesses /\ At("sampled", n) \in Accesses
      /\ At("write", n) \in Accesses /\ At("tokenPool", n) \in Accesses
      /\ Arguments(n) \in Accesses /\ Answer(n) \in Accesses
      /\ Inputs(n) \in SUBSET Accesses /\ Metadata(n) \in SUBSET Accesses
  BY <1>1, StepsBefore, AccessesAre DEF Inputs, Metadata
<1>3. Handover(n) \in Programs
  BY <1>1, OperationsAre DEF Handover, Programs
<1>4. Replay(n) \in Programs
  <2>1. /\ Inputs(n) \cup Metadata(n) \in SUBSET Accesses
        /\ {At("captured", n)} \in SUBSET Accesses /\ {At("logits", n)} \in SUBSET Accesses
        /\ {At("captured", n), Plan(n, 1)} \in SUBSET Accesses
    BY <1>2
  <2> QED BY <1>1, <2>1, OperationsAre, StageIs DEF Replay, Programs
<1>5. Sample(n, b) \in Programs
  <2>1. /\ {At("logits", n)} \cup (IF b.sampling = "greedy" THEN {} ELSE {Arguments(n)})
             \in SUBSET Accesses
        /\ {At("sampled", n)} \in SUBSET Accesses
    BY <1>2
  <2> QED BY <2>1, OperationsAre DEF Sample, Programs
<1>6. Publish(n) \in Programs
  <2>1. /\ {At("sampled", n)} \in SUBSET Accesses /\ {Answer(n)} \in SUBSET Accesses
        /\ {At("sampled", n), At("write", n)} \in SUBSET Accesses
        /\ {At("tokenPool", n)} \in SUBSET Accesses
    BY <1>2
  <2> QED BY <1>1, <2>1, OperationsAre DEF Publish, Programs
<1>7. EagerLayers(n, b) \in Programs
  BY LayersAre
<1>8. Forward(n, b) =
        Handover(n) \o (IF CanUseCudaGraph(b) THEN Replay(n) ELSE EagerLayers(n, b))
          \o Sample(n, b) \o Publish(n)
  BY DEF Forward, Handover, Publish
<1> QED BY <1>3, <1>4, <1>5, <1>6, <1>7, <1>8, Sequenced

\* Every operation of a step is one that the host can do.
LEMMA ProgramIs ==
  ASSUME NEW n \in 1 .. MaxSteps + 1, NEW b \in BatchTypes,
         n = MaxSteps + 1 => b.phase = "none"
  PROVE  StepProgram(n, b) \in Programs
<1>1. n \in Nat /\ n - 1 \in Nat /\ n - 1 \in 0 .. MaxSteps
  BY RingSlots
<1>2. FlushDeferred(n, b) \in Programs /\ ScheduleNextBatch(n, b) \in Programs
  BY <1>1, OperationsAre DEF FlushDeferred, ScheduleNextBatch, Programs
<1>3. ASSUME NEW k \in 0 .. MaxSteps  PROVE ProcessOutput(k) \in Programs
  BY RingSlots, OperationsAre DEF ProcessOutput, Programs
<1>4. ProcessOutput(n - 1) \in Programs
  BY <1>1, <1>3
<1>5. CASE b.phase = "none"
  BY <1>2, <1>4, <1>5, Sequenced DEF StepProgram
<1>6. CASE b.phase # "none"
  <2>1. n \in 1 .. MaxSteps /\ n \in 0 .. MaxSteps
    BY <1>6, RingSlots
  <2>2. ProcessOutput(n) \in Programs
    BY <1>3, <2>1
  <2>3. PrepareBatch(n, b) \in Programs /\ Forward(n, b) \in Programs
    BY <2>1, PrepareIs, ForwardIs
  <2> QED BY <1>2, <1>4, <1>6, <2>2, <2>3, Sequenced DEF StepProgram
<1> QED BY <1>5, <1>6

-----------------------------------------------------------------------------
(* The invariant of the ring.                                              *)

AllCommands == Commands \cup RingCopies

\* the copies from the ring that are still to be done find what they were
\* enqueued for, and the event of their slot is recorded after them
RingReady ==
  \A i \in DOMAIN queue["E"] : \A s \in Slots : \A t \in Tags :
    queue["E"][i] = RingCopy(s, t) =>
      /\ slotUse[s] = t /\ buffer[<<"ring", s>>] = t
      /\ \E j \in DOMAIN queue["E"] : i < j /\ queue["E"][j] = Record(<<"slot", t>>)

RingInv ==
  /\ overlap \in BOOLEAN
  /\ step \in 0 .. MaxSteps + 1
  /\ batch \in BatchTypes
  /\ batch.phase = "decode" => batch.size # 0 /\ batch.longest # 0
  /\ todo \in Programs
  /\ queue \in [Streams -> Seq(AllCommands)] /\ queue["S"] \in Seq(Commands)
  /\ buffer \in [Buffers -> Tags]
  /\ slot \in Slots /\ slotUse \in [Slots -> Tags]
  /\ misread \subseteq Buffers \ Ring
  /\ answered \subseteq 1 .. MaxSteps
  /\ RingReady

LEMMA CopiesDiffer ==
  ASSUME NEW s \in Slots, NEW t \in Tags, NEW s2 \in Slots, NEW t2 \in Tags
  PROVE  /\ RingCopy(s, t) = RingCopy(s2, t2) => s = s2 /\ t = t2
         /\ RingCopy(s, t) \notin Commands
         /\ \A e : RingCopy(s, t) # Record(e)
<1> DEFINE c == RingCopy(s, t)
           a == <<<<"ring", s>>, t>>
           a2 == <<<<"ring", s2>>, t2>>
<1>1. /\ c.op = "run" /\ c.reads = {a} /\ RingCopy(s2, t2).reads = {a2}
      /\ a[1] = <<"ring", s>> /\ a[2] = t
      /\ a2[1] = <<"ring", s2>> /\ a2[2] = t2
      /\ a[1] \in Ring
  BY DEF RingCopy, Run, Ring
<1>2. c = RingCopy(s2, t2) => s = s2 /\ t = t2
  <2>1. c = RingCopy(s2, t2) => a = a2
    BY <1>1
  <2> QED BY <2>1
<1>3. c \notin Commands
  <2> SUFFICES ASSUME c \in Commands  PROVE FALSE
    OBVIOUS
  <2>1. c.reads \in SUBSET Accesses
    BY <1>1 DEF Commands
  <2>2. a \in Accesses
    BY <1>1, <2>1
  <2> HIDE DEF c
  <2>3. a[1] \in Buffers \ Ring
    BY <2>2 DEF Accesses
  <2> QED BY <1>1, <2>3
<1>4. \A e : c # Record(e)
  BY <1>1 DEF Record
<1> QED BY <1>2, <1>3, <1>4

LEMMA RingInit == Init => RingInv
<1> SUFFICES ASSUME Init  PROVE RingInv
  OBVIOUS
<1>1. overlap \in BOOLEAN /\ NoBatch(FALSE) \in BatchTypes /\ NoBatch(FALSE).phase = "none"
  BY PipelineAssumption DEF Init, NoBatch, BatchTypes
<1>2. /\ todo \in Programs /\ queue \in [Streams -> Seq(AllCommands)]
      /\ queue["S"] = <<>> /\ queue["E"] = <<>> /\ <<>> \in Seq(Commands)
  BY DEF Init, Programs, Streams
<1>3. <<0, 0>> \in Tags
  BY RingSlots DEF Tags
<1>4. RingReady
  BY <1>2 DEF RingReady
<1>5. /\ buffer \in [Buffers -> Tags] /\ slotUse \in [Slots -> Tags] /\ slot \in Slots
      /\ step \in 0 .. MaxSteps + 1
  BY <1>3, RingSlots DEF Init
<1>6. batch = NoBatch(FALSE) /\ misread = {} /\ answered = {}
  BY DEF Init
<1> QED BY <1>1, <1>2, <1>4, <1>5, <1>6 DEF RingInv

LEMMA BatchesAre ==
  ASSUME RingInv, NEW n \in 1 .. MaxSteps + 1, NEW b \in BatchesOf(n)
  PROVE  /\ b \in BatchTypes
         /\ b.phase = "decode" => b.size # 0 /\ b.longest # 0
         /\ n = MaxSteps + 1 <=> b.phase = "none"
<1> DEFINE deferred == IF overlap /\ n > 2 THEN BOOLEAN ELSE {FALSE}
           shapes == IF n = 1 THEN {} ELSE DecodeShapes
<1>1. deferred \subseteq BOOLEAN /\ shapes \subseteq (Nat \ {0}) \X (Nat \ {0})
  <2>1. 1 .. MaxSeqLen \subseteq Nat \ {0}
    BY GraphRunnerAssumption
  <2> QED BY <2>1, PipelineAssumption
<1>2. CASE n > MaxSteps
  <2>1. BatchesOf(n) = {NoBatch(d) : d \in deferred}
    BY <1>2 DEF BatchesOf
  <2> HIDE DEF deferred
  <2>2. PICK d \in deferred : b = NoBatch(d)
    BY <2>1
  <2>3. n = MaxSteps + 1
    BY <1>2, RingSlots
  <2> QED BY <1>1, <2>2, <2>3 DEF NoBatch, BatchTypes
<1>3. CASE ~(n > MaxSteps)
  <2> DEFINE P == {[phase |-> "prefill", size |-> 1, longest |-> 1, sampling |-> q,
                    deferred |-> d] : q \in Samplings, d \in deferred}
             D == {[phase |-> "decode", size |-> shape[1], longest |-> shape[2],
                    sampling |-> q, deferred |-> d] :
                     shape \in shapes, q \in Samplings, d \in deferred}
  <2>1. BatchesOf(n) = P \cup D
    BY <1>3 DEF BatchesOf
  <2> HIDE DEF deferred, shapes
  <2>2. ASSUME b \in P
        PROVE  b \in BatchTypes /\ b.phase = "prefill"
    BY <1>1, <2>2, PipelineAssumption DEF BatchTypes
  <2>3. ASSUME b \in D
        PROVE  b \in BatchTypes /\ b.phase = "decode" /\ b.size # 0 /\ b.longest # 0
    <3>1. \A shape \in shapes : shape[1] \in Nat \ {0} /\ shape[2] \in Nat \ {0}
      BY <1>1
    <3> QED BY <1>1, <2>3, <3>1, PipelineAssumption DEF BatchTypes
  <2>4. n # MaxSteps + 1
    BY <1>3, RingSlots
  <2> QED BY <2>1, <2>2, <2>3, <2>4
<1> QED BY <1>2, <1>3, RingSlots

\* what a step of the host that touches neither ring nor queues leaves alone
LEMMA ReadyStays ==
  ASSUME RingReady, queue'["E"] = queue["E"], slotUse' = slotUse,
         \A s \in Slots : buffer'[<<"ring", s>>] = buffer[<<"ring", s>>]
  PROVE  RingReady'
<1> SUFFICES ASSUME NEW i \in DOMAIN queue'["E"], NEW s \in Slots, NEW t \in Tags,
                    queue'["E"][i] = RingCopy(s, t)
             PROVE  /\ slotUse'[s] = t /\ buffer'[<<"ring", s>>] = t
                    /\ \E j \in DOMAIN queue'["E"] :
                         i < j /\ queue'["E"][j] = Record(<<"slot", t>>)
  BY DEF RingReady
<1>1. /\ slotUse[s] = t /\ buffer[<<"ring", s>>] = t
      /\ \E j \in DOMAIN queue["E"] : i < j /\ queue["E"][j] = Record(<<"slot", t>>)
  BY DEF RingReady
<1> QED BY <1>1

\* the next operation of the host
LEMMA NextOperation ==
  ASSUME RingInv, todo # <<>>
  PROVE  Head(todo) \in Operations /\ Tail(todo) \in Programs
BY HeadTailProperties DEF RingInv, Programs

LEMMA OperationFields ==
  ASSUME NEW o \in Operations
  PROVE  /\ o.op = "enqueue" => o.stream \in Streams /\ o.command \in Commands
         /\ o.op = "fill" => o.write \in Accesses
         /\ o.op = "read" => o.step \in 1 .. MaxSteps
         /\ o.op = "stage" => o.tag \in Tags
BY DEF Operations

LEMMA BeginKeeps ==
  ASSUME RingInv, BeginStep
  PROVE  RingInv'
<1>1. step + 1 \in 1 .. MaxSteps + 1
  BY RingSlots DEF RingInv, BeginStep
<1>2. /\ batch' \in BatchTypes
      /\ batch'.phase = "decode" => batch'.size # 0 /\ batch'.longest # 0
      /\ step + 1 = MaxSteps + 1 => batch'.phase = "none"
  BY <1>1, BatchesAre DEF BeginStep
<1>3. todo' \in Programs
  BY <1>1, <1>2, ProgramIs DEF BeginStep
<1>4. RingReady'
  BY ReadyStays DEF BeginStep, RingInv
<1> QED BY <1>1, <1>2, <1>3, <1>4 DEF BeginStep, RingInv

LEMMA Pending ==
  ASSUME RingReady, NEW i \in DOMAIN queue["E"], NEW s \in Slots, NEW t \in Tags,
         queue["E"][i] = RingCopy(s, t)
  PROVE  /\ slotUse[s] = t /\ buffer[<<"ring", s>>] = t
         /\ \E j \in DOMAIN queue["E"] : i < j /\ queue["E"][j] = Record(<<"slot", t>>)
BY DEF RingReady

\* a command of the program comes last in its stream
LEMMA HostEnqueueKeeps ==
  ASSUME RingInv, HostEnqueue
  PROVE  RingInv'
<1> DEFINE s == Head(todo).stream
           c == Head(todo).command
           q == queue["E"]
<1>1. s \in Streams /\ c \in Commands /\ Tail(todo) \in Programs
  BY NextOperation, OperationFields DEF HostEnqueue, Doing
<1>2. queue' = [queue EXCEPT ![s] = Append(queue[s], c)] /\ todo' = Tail(todo)
  BY DEF HostEnqueue
<1> HIDE DEF s, c
<1>3. c \in AllCommands /\ queue \in [Streams -> Seq(AllCommands)]
      /\ queue["S"] \in Seq(Commands)
  BY <1>1 DEF RingInv, AllCommands
<1>4. queue' \in [Streams -> Seq(AllCommands)] /\ queue'["S"] \in Seq(Commands)
  <2>1. Append(queue[s], c) \in Seq(AllCommands)
    BY <1>1, <1>3
  <2>2. "S" \in Streams /\ Append(queue["S"], c) \in Seq(Commands)
    BY <1>1, <1>3 DEF Streams
  <2> QED BY <1>1, <1>2, <1>3, <2>1, <2>2
<1>5. RingReady'
  <2>1. CASE s = "E"
    <3>1. q \in Seq(AllCommands) /\ queue'["E"] = Append(q, c)
      BY <1>1, <1>2, <1>3, <2>1
    <3>2. slotUse' = slotUse /\ buffer' = buffer
      BY DEF HostEnqueue
    <3> SUFFICES ASSUME NEW i \in DOMAIN queue'["E"], NEW r \in Slots, NEW t \in Tags,
                        queue'["E"][i] = RingCopy(r, t)
                 PROVE  /\ slotUse'[r] = t /\ buffer'[<<"ring", r>>] = t
                        /\ \E j \in DOMAIN queue'["E"] :
                             i < j /\ queue'["E"][j] = Record(<<"slot", t>>)
      BY DEF RingReady
    <3> HIDE DEF q
    <3>3. /\ DOMAIN queue'["E"] = 1 .. Len(q) + 1 /\ DOMAIN q = 1 .. Len(q) /\ Len(q) \in Nat
          /\ \A k \in 1 .. Len(q) : queue'["E"][k] = q[k]
          /\ queue'["E"][Len(q) + 1] = c
      BY <3>1
    <3>4. queue'["E"][i] # c
      BY <1>1, CopiesDiffer
    <3>5. i \in DOMAIN q /\ q[i] = RingCopy(r, t)
      BY <3>3, <3>4
    <3>6. /\ slotUse[r] = t /\ buffer[<<"ring", r>>] = t
          /\ \E j \in DOMAIN q : i < j /\ q[j] = Record(<<"slot", t>>)
      BY <3>5, Pending DEF RingInv, q
    <3>7. PICK j \in DOMAIN q : i < j /\ q[j] = Record(<<"slot", t>>)
      BY <3>6
    <3>8. j \in DOMAIN queue'["E"] /\ queue'["E"][j] = Record(<<"slot", t>>)
      BY <3>3, <3>7
    <3> QED BY <3>2, <3>6, <3>7, <3>8
  <2>2. CASE s # "E"
    <3>1. queue'["E"] = queue["E"]
      BY <1>2, <1>3, <2>2
    <3> QED BY <3>1, ReadyStays DEF HostEnqueue, RingInv
  <2> QED BY <2>1, <2>2
<1> QED BY <1>1, <1>2, <1>4, <1>5 DEF HostEnqueue, RingInv

\* the staging buffers are none of the ring
LEMMA HostFillKeeps ==
  ASSUME RingInv, HostFill
  PROVE  RingInv'
<1> DEFINE w == Head(todo).write
<1>1. w \in Accesses /\ Tail(todo) \in Programs
  BY NextOperation, OperationFields DEF HostFill, Doing
<1>2. buffer' = [buffer EXCEPT ![w[1]] = w[2]] /\ todo' = Tail(todo)
  BY DEF HostFill
<1> HIDE DEF w
<1>3. w[1] \in Buffers \ Ring /\ w[2] \in Tags /\ buffer \in [Buffers -> Tags]
  BY <1>1 DEF Accesses, RingInv
<1>4. buffer' \in [Buffers -> Tags]
  BY <1>2, <1>3
<1>5. \A s \in Slots : buffer'[<<"ring", s>>] = buffer[<<"ring", s>>]
  BY <1>2, <1>3 DEF Ring
<1>6. RingReady'
  BY <1>5, ReadyStays DEF HostFill, RingInv
<1> QED BY <1>1, <1>2, <1>4, <1>6 DEF HostFill, RingInv

LEMMA HostSynchronizeKeeps ==
  ASSUME RingInv, HostSynchronize
  PROVE  RingInv'
<1>1. todo' \in Programs
  BY NextOperation DEF HostSynchronize, Doing
<1>2. RingReady'
  BY ReadyStays DEF HostSynchronize, RingInv
<1> QED BY <1>1, <1>2 DEF HostSynchronize, RingInv

LEMMA PlainMisreads ==
  ASSUME NEW reads \in SUBSET Accesses
  PROVE  Misreads(reads) \subseteq Buffers \ Ring
BY DEF Misreads, Accesses

LEMMA HostReadKeeps ==
  ASSUME RingInv, HostRead
  PROVE  RingInv'
<1> DEFINE n == Head(todo).step
<1>1. n \in 1 .. MaxSteps /\ Tail(todo) \in Programs
  BY NextOperation, OperationFields DEF HostRead, Doing
<1>2. misread' = misread \cup Misreads({Answer(n)}) /\ answered' = answered \cup {n}
  BY DEF HostRead
<1> HIDE DEF n
<1>3. {Answer(n)} \in SUBSET Accesses
  BY <1>1, StepsBefore, AccessesAre
<1>4. misread' \subseteq Buffers \ Ring
  BY <1>2, <1>3, PlainMisreads DEF RingInv
<1>5. RingReady'
  BY ReadyStays DEF HostRead, RingInv
<1> QED BY <1>1, <1>2, <1>4, <1>5 DEF HostRead, RingInv

\* when the event of the slot's last user is done, no copy from it is pending
LEMMA SlotIsFree ==
  ASSUME RingInv, Done(<<"slot", slotUse[slot]>>),
         NEW i \in DOMAIN queue["E"], NEW s \in Slots, NEW t \in Tags,
         queue["E"][i] = RingCopy(s, t)
  PROVE  s # slot
<1>1. RingReady
  BY DEF RingInv
<1>2. /\ slotUse[s] = t /\ buffer[<<"ring", s>>] = t
      /\ \E j \in DOMAIN queue["E"] : i < j /\ queue["E"][j] = Record(<<"slot", t>>)
  BY <1>1, Pending
<1> QED BY <1>2 DEF Done, Streams

LEMMA HostStageKeeps ==
  ASSUME RingInv, HostStage
  PROVE  RingInv'
<1> DEFINE t == Head(todo).tag
           q == queue["E"]
           new == <<RingCopy(slot, t), Record(<<"slot", t>>)>>
<1>1. t \in Tags /\ Tail(todo) \in Programs
  BY NextOperation, OperationFields DEF HostStage, Doing
<1>2. /\ todo' = Tail(todo) /\ buffer' = [buffer EXCEPT ![<<"ring", slot>>] = t]
      /\ slotUse' = [slotUse EXCEPT ![slot] = t] /\ slot' = (slot + 1) % RingSize
      /\ queue' = [queue EXCEPT !["E"] = q \o new]
  BY DEF HostStage, UseSlot, RingCopy
<1> HIDE DEF t
<1>3. /\ slot \in Slots /\ <<"ring", slot>> \in Buffers
      /\ buffer \in [Buffers -> Tags] /\ slotUse \in [Slots -> Tags]
      /\ queue \in [Streams -> Seq(AllCommands)] /\ queue["S"] \in Seq(Commands)
      /\ "E" \in Streams /\ "S" \in Streams /\ q \in Seq(AllCommands)
  BY PlainBuffers DEF RingInv, Ring, Streams
<1>4. new \in Seq(AllCommands) /\ Len(new) = 2
  <2>1. RingCopy(slot, t) \in RingCopies
    BY <1>1, <1>3 DEF RingCopies
  <2>2. Record(<<"slot", t>>) \in Commands
    BY <1>1 DEF Record, Commands, Events
  <2> QED BY <2>1, <2>2 DEF AllCommands
<1>5. queue' \in [Streams -> Seq(AllCommands)] /\ queue'["S"] \in Seq(Commands)
  BY <1>2, <1>3, <1>4
<1>6. /\ slot' \in Slots /\ buffer' \in [Buffers -> Tags] /\ slotUse' \in [Slots -> Tags]
  BY <1>1, <1>2, <1>3, RingSlots
<1>7. RingReady'
  <2> SUFFICES ASSUME NEW i \in DOMAIN queue'["E"], NEW r \in Slots, NEW u \in Tags,
                      queue'["E"][i] = RingCopy(r, u)
               PROVE  /\ slotUse'[r] = u /\ buffer'[<<"ring", r>>] = u
                      /\ \E j \in DOMAIN queue'["E"] :
                           i < j /\ queue'["E"][j] = Record(<<"slot", u>>)
    BY DEF RingReady
  <2>1. /\ queue'["E"] = q \o new
        /\ DOMAIN queue'["E"] = 1 .. Len(q) + 2 /\ DOMAIN q = 1 .. Len(q) /\ Len(q) \in Nat
        /\ \A k \in 1 .. Len(q) : queue'["E"][k] = q[k]
        /\ queue'["E"][Len(q) + 1] = RingCopy(slot, t)
        /\ queue'["E"][Len(q) + 2] = Record(<<"slot", t>>)
    BY <1>2, <1>3, <1>4, ConcatProperties
  <2>2. CASE i \in 1 .. Len(q)
    <3>1. i \in DOMAIN q /\ q[i] = RingCopy(r, u)
      BY <2>1, <2>2
    <3>2. r # slot
      BY <3>1, SlotIsFree DEF HostStage
    <3>3. /\ slotUse[r] = u /\ buffer[<<"ring", r>>] = u
          /\ \E j \in DOMAIN q : i < j /\ q[j] = Record(<<"slot", u>>)
      BY <3>1, Pending DEF RingInv
    <3>4. slotUse'[r] = u
      BY <1>2, <1>3, <3>2, <3>3
    <3>5. buffer'[<<"ring", r>>] = u
      <4>1. <<"ring", r>> # <<"ring", slot>> /\ <<"ring", r>> \in Buffers
        BY <3>2, PlainBuffers DEF Ring
      <4> QED BY <1>2, <1>3, <3>3, <4>1
    <3> HIDE DEF q
    <3>6. PICK j \in DOMAIN q : i < j /\ q[j] = Record(<<"slot", u>>)
      BY <3>3
    <3>7. j \in DOMAIN queue'["E"] /\ queue'["E"][j] = Record(<<"slot", u>>)
      BY <2>1, <3>6
    <3> QED BY <3>4, <3>5, <3>6, <3>7
  <2>3. CASE i = Len(q) + 1
    <3>1. r = slot /\ u = t
      BY <1>1, <1>3, <2>1, <2>3, CopiesDiffer
    <3>2. slotUse'[r] = u /\ buffer'[<<"ring", r>>] = u
      BY <1>2, <1>3, <3>1
    <3> HIDE DEF q
    <3>3. /\ Len(q) + 2 \in DOMAIN queue'["E"] /\ i < Len(q) + 2
          /\ queue'["E"][Len(q) + 2] = Record(<<"slot", u>>)
      BY <2>1, <2>3, <3>1
    <3> QED BY <3>2, <3>3
  <2>4. CASE i = Len(q) + 2
    BY <2>1, <2>4, CopiesDiffer
  <2> HIDE DEF q
  <2>5. Len(q) \in Nat /\ i \in 1 .. Len(q) + 2
    BY <2>1
  <2>6. i \in 1 .. Len(q) \/ i = Len(q) + 1 \/ i = Len(q) + 2
    BY <2>5
  <2> QED BY <2>2, <2>3, <2>4, <2>6
<1> QED BY <1>1, <1>2, <1>5, <1>6, <1>7 DEF HostStage, UseSlot, RingInv

\* a command that leaves its stream
LEMMA HeadLeaves ==
  ASSUME NEW S, NEW q \in Seq(S), q # <<>>
  PROVE  /\ Head(q) \in S /\ Head(q) = q[1] /\ Tail(q) \in Seq(S)
         /\ Len(q) \in Nat \ {0} /\ DOMAIN q = 1 .. Len(q)
         /\ DOMAIN Tail(q) = 1 .. Len(q) - 1
         /\ \A i \in 1 .. Len(q) - 1 : Tail(q)[i] = q[i + 1]
<1>1. /\ Head(q) \in S /\ Tail(q) \in Seq(S) /\ Head(q) = q[1]
      /\ Len(q) \in Nat \ {0} /\ DOMAIN q = 1 .. Len(q) /\ Len(Tail(q)) = Len(q) - 1
  BY HeadTailProperties
<1> QED BY <1>1

LEMMA ReadyShifts ==
  ASSUME RingInv, queue["E"] # <<>>, queue'["E"] = Tail(queue["E"]), slotUse' = slotUse,
         \A s \in Slots : buffer'[<<"ring", s>>] = buffer[<<"ring", s>>]
  PROVE  RingReady'
<1> DEFINE q == queue["E"]
<1> SUFFICES ASSUME NEW i \in DOMAIN queue'["E"], NEW s \in Slots, NEW t \in Tags,
                    queue'["E"][i] = RingCopy(s, t)
             PROVE  /\ slotUse'[s] = t /\ buffer'[<<"ring", s>>] = t
                    /\ \E j \in DOMAIN queue'["E"] :
                         i < j /\ queue'["E"][j] = Record(<<"slot", t>>)
  BY DEF RingReady
<1>1. q \in Seq(AllCommands) /\ q # <<>>
  BY DEF RingInv, Streams
<1>2. RingReady
  BY DEF RingInv
<1>3. \A k \in DOMAIN q : q[k] = RingCopy(s, t) =>
        /\ slotUse[s] = t /\ buffer[<<"ring", s>>] = t
        /\ \E j \in DOMAIN q : k < j /\ q[j] = Record(<<"slot", t>>)
  BY <1>2, Pending
<1>4. queue'["E"] = Tail(q)
  OBVIOUS
<1> HIDE DEF q
<1>5. /\ Len(q) \in Nat \ {0} /\ DOMAIN q = 1 .. Len(q)
      /\ DOMAIN queue'["E"] = 1 .. Len(q) - 1
      /\ \A k \in 1 .. Len(q) - 1 : queue'["E"][k] = q[k + 1]
  BY <1>1, <1>4, HeadLeaves
<1>6. i \in Nat /\ i + 1 \in DOMAIN q /\ q[i + 1] = RingCopy(s, t)
  BY <1>5
<1>7. /\ slotUse[s] = t /\ buffer[<<"ring", s>>] = t
      /\ \E j \in DOMAIN q : i + 1 < j /\ q[j] = Record(<<"slot", t>>)
  BY <1>3, <1>6
<1>8. PICK j \in DOMAIN q : i + 1 < j /\ q[j] = Record(<<"slot", t>>)
  BY <1>7
<1>9. j - 1 \in DOMAIN queue'["E"] /\ i < j - 1 /\ queue'["E"][j - 1] = q[j]
  BY <1>5, <1>6, <1>8
<1> QED BY <1>7, <1>8, <1>9

\* a command reads no slot of the ring that holds another plan, and writes none
LEMMA CommandRuns ==
  ASSUME RingInv, NEW s \in Streams, queue[s] # <<>>, Head(queue[s]).op = "run"
  PROVE  /\ Misreads(Head(queue[s]).reads) \subseteq Buffers \ Ring
         /\ Head(queue[s]).writes \in SUBSET Accesses
<1> DEFINE c == Head(queue[s])
<1>1. CASE s = "S"
  <2>1. c \in Commands
    BY <1>1, HeadLeaves DEF RingInv
  <2>2. c.reads \in SUBSET Accesses /\ c.writes \in SUBSET Accesses
    BY <2>1 DEF Commands
  <2> QED BY <2>2, PlainMisreads
<1>2. CASE s = "E"
  <2>1. queue["E"] \in Seq(AllCommands) /\ queue["E"] # <<>>
    BY <1>2 DEF RingInv
  <2>2. c \in AllCommands /\ c = queue["E"][1] /\ 1 \in DOMAIN queue["E"]
    BY <1>2, <2>1, HeadLeaves
  <2>3. CASE c \in Commands
    <3>1. c.reads \in SUBSET Accesses /\ c.writes \in SUBSET Accesses
      BY <2>3 DEF Commands
    <3> QED BY <3>1, PlainMisreads
  <2>4. CASE c \in RingCopies
    <3>1. PICK r \in Slots, t \in Tags : c = RingCopy(r, t)
      BY <2>4 DEF RingCopies
    <3>0. RingReady /\ queue["E"][1] = RingCopy(r, t)
      BY <2>2, <3>1 DEF RingInv
    <3> DEFINE i == 1
    <3>6. i \in DOMAIN queue["E"] /\ queue["E"][i] = RingCopy(r, t)
      BY <2>2, <3>0
    <3> HIDE DEF i
    <3>2. /\ slotUse[r] = t /\ buffer[<<"ring", r>>] = t
          /\ \E j \in DOMAIN queue["E"] : i < j /\ queue["E"][j] = Record(<<"slot", t>>)
      BY <3>0, <3>6, Pending
    <3>3. /\ c.reads = {<<<<"ring", r>>, t>>} /\ c.writes = {<<<<"intWorkspace", 0>>, t>>}
      BY <3>1 DEF RingCopy, Run
    <3>4. Misreads(c.reads) = {}
      BY <3>2, <3>3 DEF Misreads
    <3>5. <<<<"intWorkspace", 0>>, t>> \in Accesses
      BY PlainBuffers DEF Accesses
    <3> QED BY <3>3, <3>4, <3>5
  <2> QED BY <2>2, <2>3, <2>4 DEF AllCommands
<1> QED BY <1>1, <1>2 DEF Streams

LEMMA StreamRunKeeps ==
  ASSUME RingInv, NEW s \in Streams, StreamRun(s)
  PROVE  RingInv'
<1> DEFINE c == Head(queue[s])
<1>1. queue[s] # <<>> /\ queue' = [queue EXCEPT ![s] = Tail(queue[s])]
      /\ "E" \in Streams /\ "S" \in Streams
  BY DEF StreamRun, Streams
<1>2. queue' \in [Streams -> Seq(AllCommands)] /\ queue'["S"] \in Seq(Commands)
  <2>1. queue \in [Streams -> Seq(AllCommands)] /\ queue["S"] \in Seq(Commands)
    BY DEF RingInv
  <2>2. Tail(queue[s]) \in Seq(AllCommands)
    BY <1>1, <2>1, HeadLeaves
  <2>3. s = "S" => Tail(queue[s]) \in Seq(Commands)
    BY <1>1, <2>1, HeadLeaves
  <2> QED BY <1>1, <2>1, <2>2, <2>3
<1>3. /\ misread' \subseteq Buffers \ Ring /\ buffer' \in [Buffers -> Tags]
      /\ \A r \in Slots : buffer'[<<"ring", r>>] = buffer[<<"ring", r>>]
  <2>1. misread \subseteq Buffers \ Ring /\ buffer \in [Buffers -> Tags]
    BY DEF RingInv
  <2>2. CASE c.op = "run"
    <3>1. /\ misread' = misread \cup Misreads(c.reads)
          /\ buffer' = [b \in Buffers |->
                IF \E w \in c.writes : w[1] = b
                  THEN (CHOOSE w \in c.writes : w[1] = b)[2] ELSE buffer[b]]
      BY <2>2 DEF StreamRun
    <3>2. Misreads(c.reads) \subseteq Buffers \ Ring /\ c.writes \in SUBSET Accesses
      BY <1>1, <2>2, CommandRuns
    <3> HIDE DEF c
    <3>3. \A w \in c.writes : w[1] \in Buffers \ Ring /\ w[2] \in Tags
      BY <3>2 DEF Accesses
    <3>4. ASSUME NEW b \in Buffers
          PROVE  buffer'[b] \in Tags
      <4>1. CASE \E w \in c.writes : w[1] = b
        <5>1. (CHOOSE w \in c.writes : w[1] = b) \in c.writes
          BY <4>1
        <5> QED BY <3>1, <3>3, <4>1, <5>1
      <4>2. CASE ~\E w \in c.writes : w[1] = b
        BY <2>1, <3>1, <4>2
      <4> QED BY <4>1, <4>2
    <3>5. ASSUME NEW r \in Slots
          PROVE  buffer'[<<"ring", r>>] = buffer[<<"ring", r>>]
      <4>1. <<"ring", r>> \in Ring /\ <<"ring", r>> \in Buffers
        BY PlainBuffers DEF Ring
      <4>2. ~\E w \in c.writes : w[1] = <<"ring", r>>
        BY <3>3, <4>1
      <4> QED BY <3>1, <4>1, <4>2
    <3>6. buffer' \in [Buffers -> Tags]
      BY <3>1, <3>4
    <3> QED BY <2>1, <3>1, <3>2, <3>5, <3>6
  <2>3. CASE c.op # "run"
    BY <2>1, <2>3 DEF StreamRun
  <2> QED BY <2>2, <2>3
<1>4. slotUse' = slotUse /\ RingReady
  BY DEF StreamRun, RingInv
<1>5. RingReady'
  <2>1. CASE s = "E"
    <3>1. queue["E"] # <<>> /\ queue'["E"] = Tail(queue["E"])
      BY <1>1, <2>1 DEF RingInv
    <3> QED BY <1>3, <1>4, <3>1, ReadyShifts
  <2>2. CASE s # "E"
    <3>1. queue'["E"] = queue["E"]
      BY <1>1, <2>2 DEF RingInv
    <3> QED BY <1>3, <1>4, <3>1, ReadyStays
  <2> QED BY <2>1, <2>2
<1> QED BY <1>2, <1>3, <1>5 DEF StreamRun, RingInv

LEMMA RingNext ==
  ASSUME RingInv, [Next]_vars
  PROVE  RingInv'
<1>1. CASE BeginStep
  BY <1>1, BeginKeeps
<1>2. CASE HostEnqueue
  BY <1>2, HostEnqueueKeeps
<1>3. CASE HostFill
  BY <1>3, HostFillKeeps
<1>4. CASE HostSynchronize
  BY <1>4, HostSynchronizeKeeps
<1>5. CASE HostRead
  BY <1>5, HostReadKeeps
<1>6. CASE HostStage
  BY <1>6, HostStageKeeps
<1>7. ASSUME NEW s \in Streams, StreamRun(s)  PROVE RingInv'
  BY <1>7, StreamRunKeeps
<1>8. CASE UNCHANGED vars
  <2>1. RingReady'
    BY <1>8, ReadyStays DEF vars, RingInv
  <2> QED BY <1>8, <2>1 DEF vars, RingInv
<1> QED BY <1>1, <1>2, <1>3, <1>4, <1>5, <1>6, <1>7, <1>8 DEF Next, Host

LEMMA RingAlways == Spec => []RingInv
<1>1. RingInv /\ [Next]_vars => RingInv'
  BY RingNext
<1> QED BY RingInit, <1>1, PTL DEF Spec

-----------------------------------------------------------------------------
(* What a stream has still to do, in its queue and in the host's program.  *)

\* an item: a command with its step and its place in the step. Before the
\* event that a stream waits for, at place 2, come only the copies that the
\* engine's stream makes ahead of it
ItemAt(op, n, place, reads, writes) ==
  [op |-> op, step |-> n, place |-> place, reads |-> reads, writes |-> writes]
Gate(n) == ItemAt("wait", n, 2, {}, {})
End(n) == ItemAt("record", n, 2 * Layers + 6, {}, {})
Nothing == ItemAt("nothing", 0, 0, {}, {})

\* plans and layers alternate; other commands are as far as what they write
PlaceOf(w, reads) ==
  LET name == w[1][1]
  IN  IF name = "intWorkspace" THEN 2 * w[2][2] + 2
      ELSE IF name = "logits"
        THEN 2 * (CHOOSE use \in 1 .. Layers : Plan(w[2][1], use) \in reads) + 3
      ELSE IF name = "indices"
        THEN IF At("decode", w[2][1]) \in reads THEN 1 ELSE 0
      ELSE IF name = "decode" THEN 0
      ELSE IF name \in {"pageWrite", "captured"} THEN 3
      ELSE IF name \in {"pageTable", "positions", "write"} THEN 4
      ELSE IF name \in {"outLoc", "inputIds", "sampler"} THEN 5
      ELSE IF name = "sampled" THEN 2 * Layers + 4
      ELSE 2 * Layers + 5

RunItem(reads, writes) ==
  LET w == CHOOSE w \in writes : TRUE
  IN  ItemAt("run", w[2][1], PlaceOf(w, reads), {r \in reads : r[1] \notin Ring}, writes)

\* the scheduler's stream waits for the forward before, the engine's stream
\* for the step's own preparation
CommandItem(s, c) ==
  IF c.op = "run" THEN RunItem(c.reads, c.writes)
  ELSE IF c.op = "wait" /\ s = "S" /\ c.event[1] = "forward" THEN Gate(c.event[2] + 1)
  ELSE IF c.op = "wait" /\ s = "E" /\ c.event[1] = "prepare" THEN Gate(c.event[2])
  ELSE IF c.op = "record" /\ c.event[1] = (IF s = "S" THEN "prepare" ELSE "forward")
    THEN End(c.event[2])
  ELSE Nothing

\* what a command, or an operation of the host, is to stream s
ItemOf(s, o) ==
  IF o.op \in {"run", "wait", "record"} THEN CommandItem(s, o)
  ELSE IF o.op = "enqueue"
    THEN IF o.stream = s THEN CommandItem(s, o.command) ELSE Nothing
  ELSE IF o.op = "stage" /\ s = "E" THEN RunItem({}, {<<<<"intWorkspace", 0>>, o.tag>>})
  ELSE Nothing

ItemsIn(s, p) == {ItemOf(s, p[i]) : i \in DOMAIN p} \ {Nothing}
Pend(s) == ItemsIn(s, queue[s]) \cup ItemsIn(s, todo)

Earlier(y, x) == y.step < x.step \/ (y.step = x.step /\ y.place < x.place)
Follow(X, Y) == \A x \in X : \A y \in Y : ~Earlier(y, x)

InOrder(s, p) ==
  \A i, j \in DOMAIN p :
    i < j => Follow({ItemOf(s, p[i])} \ {Nothing}, {ItemOf(s, p[j])} \ {Nothing})

-----------------------------------------------------------------------------
(* Who writes what for whom.                                               *)

Other(s) == IF s = "S" THEN "E" ELSE "S"

\* a stream waits in step n for what the other one did in step n - Lag
Lag(s) == IF s = "S" THEN 0 ELSE 1

Local(s) ==
  (IF s = "S" THEN {"pageWrite", "positions"}
              ELSE {"decode", "indices", "captured", "intWorkspace", "logits", "sampled"})
     \X {0}

\* the buffers that only s writes
Out(s) ==
  IF s = "S" THEN ({"pageWrite", "positions", "write", "pageTable", "outLoc", "inputIds"} \X {0})
                    \cup ({"sampler"} \X (0 .. 1))
  ELSE Local("E") \cup {<<"tokenPool", 0>>} \cup ({"tokensCpu"} \X (1 .. MaxSteps))

Foreign(s, n) ==
  IF s = "S" THEN {At("tokenPool", n - 1)}
  ELSE {At("inputIds", n), At("outLoc", n), At("positions", n), At("write", n), Arguments(n)}

Workspace == <<"intWorkspace", 0>>

WriteOK(s, x, w) ==
  /\ w[1] \in Out(s) /\ w[2] \in Tags /\ w[2][1] = x.step
  /\ w[1][1] = "tokensCpu" => w[1][2] = x.step
  /\ x.place <= 2 => w[1] \in {"decode", "indices"} \X {0}
  /\ IF w[1] = Workspace THEN x.place = 2 * w[2][2] + 2 ELSE w[2][2] = 0

ReadOK(s, x, r) ==
  \/ r[1] \in Unordered
  \/ /\ r[1] \in Local(s) /\ r[2] \in Tags /\ r[2][1] = x.step
     /\ IF r[1] = Workspace THEN x.place <= 2 * r[2][2] + 3 ELSE r[2][2] = 0
  \/ x.place > 2 /\ r \in Foreign(s, x.step)

ItemOK(s, x) ==
  \/ x.step \in 1 .. MaxSteps + 1 /\ x = Gate(x.step)
  \/ x.step \in 1 .. MaxSteps /\ x = End(x.step)
  \/ /\ x.step \in 1 .. MaxSteps /\ x.place \in 0 .. 2 * Layers + 5 /\ x.op = "run"
     /\ \E w \in x.writes : x.writes = {w} /\ WriteOK(s, x, w)
     /\ \A r \in x.reads : ReadOK(s, x, r)

\* t was written in the same plan or before u
Upto(t, u) == t[1] < u[1] \/ (t[1] = u[1] /\ t[2] <= u[2])

\* the last step that has a batch
Last == IF step <= MaxSteps THEN step ELSE MaxSteps

-----------------------------------------------------------------------------
(* The invariant of the order.                                             *)

Lined(s) ==
  /\ InOrder(s, queue[s]) /\ InOrder(s, todo)
  /\ Follow(ItemsIn(s, queue[s]), ItemsIn(s, todo))
  /\ \A x \in ItemsIn(s, todo) : x.step = step
  /\ \A x \in Pend(s) : ItemOK(s, x) /\ x.step <= step

\* a stream has the end of every step of which it has something
Ends(s) == \A x \in Pend(s) : \A k \in x.step .. Last : End(k) \in Pend(s)

\* a stream that has still to do something of a step holds the other one back
Handshake(s) ==
  \A x \in Pend(s) : \A k \in x.step + Lag(s) .. Last : Gate(k) \in Pend(Other(s))

\* what is read is there, or will be written before
Fed(s) ==
  \A x \in Pend(s) : \A r \in x.reads :
    \/ r[1] \in Unordered \/ buffer[r[1]] = r[2]
    \/ \E y \in Pend(s) : Earlier(y, x) /\ r \in y.writes
    \/ \E y \in Pend(Other(s)) : r \in y.writes

\* no buffer is ahead of what is still to be written to it
Behind(s) ==
  /\ \A x \in Pend(s) : \A w \in x.writes : Upto(buffer[w[1]], w[2])
  /\ \A b \in Out(s) : buffer[b][1] <= step

Coming(a) == buffer[a[1]] = a[2] \/ \E y \in Pend("E") : a \in y.writes

\* what the host does before and after the program's commands
Announced ==
  \* nothing for the scheduler's stream comes after the engine's gate
  /\ \A i, j \in DOMAIN todo :
       i < j /\ ItemOf("E", todo[i]) # Nothing /\ ItemOf("E", todo[i]).place >= 2 =>
         ItemOf("S", todo[j]) = Nothing
  /\ Gate(step) \in ItemsIn("E", queue["E"]) => ItemsIn("S", todo) = {}
  /\ \A i \in DOMAIN todo : todo[i].op = "fill" => todo[i].write[1] \in Staging
  /\ \A i \in DOMAIN todo : todo[i].op = "read" =>
       /\ i = Len(todo) /\ todo[i].step <= Last
       /\ \/ buffer[Answer(todo[i].step)[1]] = Answer(todo[i].step)[2]
          \/ i > 1 /\ todo[i - 1] = Synchronize(ForwardDone(todo[i].step))

OrderInv ==
  /\ \A s \in Streams : Lined(s) /\ Ends(s) /\ Handshake(s) /\ Fed(s) /\ Behind(s)
  /\ \A k \in 1 .. Last : Coming(Answer(k))
  /\ step <= MaxSteps => Coming(At("tokenPool", step))
  /\ Announced
  /\ misread \subseteq Unordered

-----------------------------------------------------------------------------
(* Items of sequences.                                                     *)

LEMMA ItemsConcat ==
  ASSUME NEW s, NEW X, NEW p \in Seq(X), NEW q \in Seq(X)
  PROVE  ItemsIn(s, p \o q) = ItemsIn(s, p) \cup ItemsIn(s, q)
<1> DEFINE r == p \o q
           I(a) == {ItemOf(s, a[i]) : i \in DOMAIN a}
<1>1. /\ Len(p) \in Nat /\ Len(q) \in Nat
      /\ DOMAIN p = 1 .. Len(p) /\ DOMAIN q = 1 .. Len(q)
      /\ DOMAIN r = 1 .. Len(p) + Len(q)
      /\ \A i \in 1 .. Len(p) : r[i] = p[i]
      /\ \A i \in 1 .. Len(q) : r[Len(p) + i] = q[i]
  OBVIOUS
<1> HIDE DEF r
<1>2. ASSUME NEW x \in I(r)  PROVE x \in I(p) \cup I(q)
  <2>1. PICK i \in DOMAIN r : x = ItemOf(s, r[i])
    OBVIOUS
  <2>2. i \in 1 .. Len(p) \/ (i - Len(p) \in 1 .. Len(q) /\ i = Len(p) + (i - Len(p)))
    BY <1>1, <2>1
  <2>3. CASE i \in 1 .. Len(p)
    BY <1>1, <2>1, <2>3
  <2>4. CASE i - Len(p) \in 1 .. Len(q) /\ i = Len(p) + (i - Len(p))
    <3>1. r[i] = q[i - Len(p)]
      BY <1>1, <2>4
    <3> QED BY <1>1, <2>1, <2>4, <3>1
  <2> QED BY <2>2, <2>3, <2>4
<1>3. ASSUME NEW x \in I(p)  PROVE x \in I(r)
  <2>1. PICK i \in DOMAIN p : x = ItemOf(s, p[i])
    OBVIOUS
  <2>2. i \in DOMAIN r /\ r[i] = p[i]
    BY <1>1
  <2> QED BY <2>1, <2>2
<1>4. ASSUME NEW x \in I(q)  PROVE x \in I(r)
  <2>1. PICK i \in DOMAIN q : x = ItemOf(s, q[i])
    OBVIOUS
  <2>2. Len(p) + i \in DOMAIN r /\ r[Len(p) + i] = q[i]
    BY <1>1
  <2> QED BY <2>1, <2>2
<1>5. I(r) = I(p) \cup I(q)
  BY <1>2, <1>3, <1>4
<1> HIDE DEF I
<1>6. ItemsIn(s, r) = I(r) \ {Nothing} /\ ItemsIn(s, p) = I(p) \ {Nothing}
      /\ ItemsIn(s, q) = I(q) \ {Nothing}
  BY DEF ItemsIn, I
<1> QED BY <1>5, <1>6 DEF r

\* a single command is one item, and nothing is out of order in it
LEMMA ItemsOne ==
  ASSUME NEW s, NEW o
  PROVE  /\ ItemsIn(s, <<o>>) = {ItemOf(s, o)} \ {Nothing} /\ ItemsIn(s, <<>>) = {}
         /\ InOrder(s, <<o>>) /\ InOrder(s, <<>>)
<1> DEFINE p == <<o>>
<1>1. DOMAIN p = {1} /\ p[1] = o /\ DOMAIN <<>> = {}
  OBVIOUS
<1> HIDE DEF p
<1> QED BY <1>1 DEF ItemsIn, InOrder, p

\* an operation that is an item is among the items of its program
LEMMA ItemThere ==
  ASSUME NEW s, NEW p, NEW i \in DOMAIN p, ItemOf(s, p[i]) # Nothing
  PROVE  ItemOf(s, p[i]) \in ItemsIn(s, p)
BY DEF ItemsIn

\* sets of items follow each other part by part
LEMMA FollowUnion ==
  ASSUME NEW X, NEW Y, NEW Z
  PROVE  /\ Follow(X \cup Y, Z) <=> Follow(X, Z) /\ Follow(Y, Z)
         /\ Follow(X, Y \cup Z) <=> Follow(X, Y) /\ Follow(X, Z)
         /\ Follow({}, X) /\ Follow(X, {})
BY DEF Follow

\* two programs one after the other are in order when each is, and the
\* second has nothing that is earlier than something of the first
LEMMA InOrderConcat ==
  ASSUME NEW s, NEW X, NEW p \in Seq(X), NEW q \in Seq(X)
  PROVE  InOrder(s, p \o q) <=>
           InOrder(s, p) /\ InOrder(s, q) /\ Follow(ItemsIn(s, p), ItemsIn(s, q))
<1> DEFINE r == p \o q
           It(a) == {ItemOf(s, a)} \ {Nothing}
           n == Len(p)
<1>1. /\ n \in Nat /\ Len(q) \in Nat
      /\ DOMAIN p = 1 .. n /\ DOMAIN q = 1 .. Len(q)
      /\ DOMAIN r = 1 .. n + Len(q)
      /\ \A i \in 1 .. n : r[i] = p[i]
      /\ \A i \in 1 .. Len(q) : r[n + i] = q[i]
  OBVIOUS
<1>2. \A a : InOrder(s, a) <=> \A i, j \in DOMAIN a : i < j => Follow(It(a[i]), It(a[j]))
  BY DEF InOrder
<1>3. Follow(ItemsIn(s, p), ItemsIn(s, q)) <=>
        \A i \in DOMAIN p : \A j \in DOMAIN q : Follow(It(p[i]), It(q[j]))
  BY DEF Follow, ItemsIn
<1> HIDE DEF r, It, n
<1>4. ASSUME InOrder(s, r)  PROVE InOrder(s, p)
  <2>1. ASSUME NEW i \in DOMAIN p, NEW j \in DOMAIN p, i < j
        PROVE  Follow(It(p[i]), It(p[j]))
    <3>1. i \in DOMAIN r /\ j \in DOMAIN r /\ r[i] = p[i] /\ r[j] = p[j]
      BY <1>1
    <3> QED BY <1>2, <1>4, <2>1, <3>1
  <2> QED BY <1>2, <2>1
<1>5. ASSUME InOrder(s, r)  PROVE InOrder(s, q)
  <2>1. ASSUME NEW i \in DOMAIN q, NEW j \in DOMAIN q, i < j
        PROVE  Follow(It(q[i]), It(q[j]))
    <3>1. /\ n + i \in DOMAIN r /\ n + j \in DOMAIN r /\ n + i < n + j
          /\ r[n + i] = q[i] /\ r[n + j] = q[j]
      BY <1>1, <2>1
    <3> QED BY <1>2, <1>5, <3>1
  <2> QED BY <1>2, <2>1
<1>6. ASSUME InOrder(s, r)  PROVE Follow(ItemsIn(s, p), ItemsIn(s, q))
  <2>1. ASSUME NEW i \in DOMAIN p, NEW j \in DOMAIN q
        PROVE  Follow(It(p[i]), It(q[j]))
    <3>1. /\ i \in DOMAIN r /\ n + j \in DOMAIN r /\ i < n + j
          /\ r[i] = p[i] /\ r[n + j] = q[j]
      BY <1>1
    <3> QED BY <1>2, <1>6, <3>1
  <2> QED BY <1>3, <2>1
<1>7. ASSUME InOrder(s, p), InOrder(s, q), Follow(ItemsIn(s, p), ItemsIn(s, q))
      PROVE  InOrder(s, r)
  <2>1. ASSUME NEW i \in DOMAIN r, NEW j \in DOMAIN r, i < j
        PROVE  Follow(It(r[i]), It(r[j]))
    <3>0. \A k \in DOMAIN r : \/ k \in DOMAIN p /\ r[k] = p[k]
                              \/ k > n /\ k - n \in DOMAIN q /\ r[k] = q[k - n]
      <4> SUFFICES ASSUME NEW k \in DOMAIN r, k \notin DOMAIN p
                   PROVE  k > n /\ k - n \in DOMAIN q /\ r[k] = q[k - n]
        BY <1>1
      <4>1. k > n /\ k - n \in 1 .. Len(q) /\ n + (k - n) = k
        BY <1>1
      <4> QED BY <1>1, <4>1
    <3>1. CASE j \in DOMAIN p /\ r[j] = p[j]
      <4>1. i \in DOMAIN p /\ r[i] = p[i]
        BY <1>1, <2>1, <3>1
      <4> QED BY <1>2, <1>7, <2>1, <3>1, <4>1
    <3>2. CASE j > n /\ j - n \in DOMAIN q /\ r[j] = q[j - n]
      <4>1. CASE i \in DOMAIN p /\ r[i] = p[i]
        BY <1>3, <1>7, <3>2, <4>1
      <4>2. CASE i > n /\ i - n \in DOMAIN q /\ r[i] = q[i - n]
        <5>1. i - n < j - n
          BY <1>1, <2>1
        <5> QED BY <1>2, <1>7, <3>2, <4>2, <5>1
      <4> QED BY <3>0, <4>1, <4>2
    <3> QED BY <3>0, <3>1, <3>2
  <2> QED BY <1>2, <2>1
<1> QED BY <1>4, <1>5, <1>6, <1>7 DEF r

-----------------------------------------------------------------------------
(* Pieces of the host's program of a step.                                 *)

\* what other pieces of the program write for item x of stream s
Given(s, n, b, x, r) ==
  IF s = "S"
    THEN \/ r = At("pageWrite", n) /\ x.place > 3
         \/ r = At("positions", n) /\ x.place > 4
         \/ r = At("tokenPool", n - 1)
    ELSE \/ r \in Inputs(n) \cup {At("write", n)}
         \/ r = Arguments(n) /\ b.sampling # "greedy"
         \/ r = At("decode", n) /\ x.place > 0
         \/ r = At("indices", n) /\ x.place > 1
         \/ r = At("captured", n) /\ x.place > 3 /\ CanUseCudaGraph(b)
         \/ \E use \in 1 .. Layers :
              /\ r = Plan(n, use) /\ x.place > 2 * use + 2
              /\ use = 1 \/ b.phase = "prefill"
         \/ r = At("logits", n) /\ x.place > 2 * Layers + 3
         \/ r = At("sampled", n) /\ x.place > 2 * Layers + 4

Supplied(s, n, b, x) == \A r \in x.reads : r[1] \in Unordered \/ Given(s, n, b, x, r)

Tame(o) == o.op # "read" /\ (o.op = "fill" => o.write[1] \in Staging)

Piece(s, p, n, b, lo, hi) ==
  /\ InOrder(s, p)
  /\ \A x \in ItemsIn(s, p) : /\ ItemOK(s, x) /\ x.step = n /\ x.place \in lo .. hi
                              /\ Supplied(s, n, b, x)
  /\ \A i \in DOMAIN p : Tame(p[i])

\* pieces of a step one after the other are a piece of it, when the second
\* begins where the first ends
LEMMA PieceConcat ==
  ASSUME NEW s, NEW X, NEW p \in Seq(X), NEW q \in Seq(X), NEW n \in Nat, NEW b,
         NEW lo \in Int, NEW mid \in Int, NEW next \in Int, NEW hi \in Int,
         Piece(s, p, n, b, lo, mid), Piece(s, q, n, b, next, hi),
         lo <= mid, mid <= next, next <= hi
  PROVE  Piece(s, p \o q, n, b, lo, hi)
<1> DEFINE P == ItemsIn(s, p)
           Q == ItemsIn(s, q)
<1>1. ItemsIn(s, p \o q) = P \cup Q
  BY ItemsConcat
<1>2. InOrder(s, p) /\ InOrder(s, q)
  BY DEF Piece
<1>3. /\ \A x \in P : x.step = n /\ x.place \in lo .. mid
      /\ \A x \in Q : x.step = n /\ x.place \in next .. hi
  BY DEF Piece
<1>4. Follow(P, Q)
  <2>1. ASSUME NEW x \in P, NEW y \in Q  PROVE ~Earlier(y, x)
    <3>1. x.step = n /\ y.step = n /\ x.place \in lo .. mid /\ y.place \in next .. hi
      BY <1>3
    <3>2. ~(n < n) /\ ~(y.place < x.place)
      BY <3>1
    <3> QED BY <3>1, <3>2 DEF Earlier
  <2> QED BY <2>1 DEF Follow
<1>5. InOrder(s, p \o q)
  BY <1>2, <1>4, InOrderConcat
<1>6. ASSUME NEW x \in P \cup Q
      PROVE  /\ ItemOK(s, x) /\ x.step = n /\ x.place \in lo .. hi
             /\ Supplied(s, n, b, x)
  <2>1. CASE x \in P
    <3>1. ItemOK(s, x) /\ Supplied(s, n, b, x)
      BY <2>1 DEF Piece
    <3>3. x.place \in lo .. hi /\ x.step = n
      BY <1>3, <2>1
    <3> QED BY <3>1, <3>3
  <2>2. CASE x \in Q
    <3>1. ItemOK(s, x) /\ Supplied(s, n, b, x)
      BY <2>2 DEF Piece
    <3>3. x.place \in lo .. hi /\ x.step = n
      BY <1>3, <2>2
    <3> QED BY <3>1, <3>3
  <2> QED BY <2>1, <2>2
<1>7. \A i \in DOMAIN (p \o q) : Tame((p \o q)[i])
  <2>1. (\A i \in DOMAIN p : Tame(p[i])) /\ (\A i \in DOMAIN q : Tame(q[i]))
    BY DEF Piece
  <2>2. ASSUME NEW i \in DOMAIN (p \o q)
        PROVE  \/ i \in DOMAIN p /\ (p \o q)[i] = p[i]
               \/ i - Len(p) \in DOMAIN q /\ (p \o q)[i] = q[i - Len(p)]
    <3>1. /\ DOMAIN (p \o q) = 1 .. Len(p) + Len(q) /\ Len(p) \in Nat /\ Len(q) \in Nat
          /\ DOMAIN p = 1 .. Len(p) /\ DOMAIN q = 1 .. Len(q)
      OBVIOUS
    <3>2. CASE i <= Len(p)
      BY <3>1, <3>2
    <3>3. CASE i > Len(p)
      BY <3>1, <3>3
    <3> QED BY <3>1, <3>2, <3>3
  <2> QED BY <2>1, <2>2
<1> HIDE DEF P, Q
<1> QED BY <1>1, <1>5, <1>6, <1>7 DEF Piece

\* one operation is a piece at its own place
LEMMA PieceOne ==
  ASSUME NEW s, NEW o, NEW n, NEW b, NEW k \in Int, Tame(o),
         LET x == ItemOf(s, o)
         IN  x # Nothing => /\ ItemOK(s, x) /\ x.step = n /\ x.place = k
                            /\ Supplied(s, n, b, x)
  PROVE  Piece(s, <<o>>, n, b, k, k)
<1> DEFINE x == ItemOf(s, o)
           p == <<o>>
<1>1. DOMAIN p = {1} /\ p[1] = o
  OBVIOUS
<1>2. ItemsIn(s, p) = {x} \ {Nothing} /\ InOrder(s, p)
  BY ItemsOne
<1> HIDE DEF p, x
<1> QED BY <1>1, <1>2 DEF Piece, p, x

Silent(s, p) == \A i \in DOMAIN p : ItemOf(s, p[i]) = Nothing

\* a program in which a stream has nothing has no items of it
LEMMA SilentHas ==
  ASSUME NEW s, NEW p, Silent(s, p)
  PROVE  ItemsIn(s, p) = {} /\ InOrder(s, p)
BY DEF Silent, ItemsIn, InOrder, Follow

\* a program in which a stream has nothing is a piece of any step
LEMMA PieceSilent ==
  ASSUME NEW s, NEW p, NEW n, NEW b, NEW lo, NEW hi, Silent(s, p),
         \A i \in DOMAIN p : Tame(p[i])
  PROVE  Piece(s, p, n, b, lo, hi)
BY SilentHas DEF Piece

-----------------------------------------------------------------------------
(* Commands as items.                                                      *)

\* operation o gives stream s, and only s, a command at place k that writes w
Does(s, o, n, b, k, w) ==
  /\ Piece(s, <<o>>, n, b, k, k)
  /\ ItemOf(s, o) # Nothing
  /\ w \in ItemOf(s, o).writes /\ ItemOf(s, o).place = k /\ ItemOf(s, o).step = n
  /\ ItemOf(Other(s), o) = Nothing
  /\ Tame(o)

RunOK(s, n, b, k, R, w) ==
  LET x == ItemAt("run", n, k, R, {w})
  IN  /\ k = PlaceOf(w, R)
      /\ WriteOK(s, x, w)
      /\ \A r \in R : ReadOK(s, x, r)
      /\ Supplied(s, n, b, x)

\* the two streams wait for each other
LEMMA OtherIs ==
  /\ Other("S") = "E" /\ Other("E") = "S" /\ Lag("S") = 0 /\ Lag("E") = 1
  /\ \A s \in Streams : Other(s) \in Streams /\ Other(Other(s)) = s /\ Other(s) # s
BY DEF Other, Lag, Streams

\* a kernel or a copy that writes one buffer, as an item
LEMMA RunItemIs ==
  ASSUME NEW R \in SUBSET Accesses, NEW w
  PROVE  RunItem(R, {w}) = ItemAt("run", w[2][1], PlaceOf(w, R), R, {w})
<1>1. (CHOOSE v \in {w} : TRUE) = w
  OBVIOUS
<1>2. {r \in R : r[1] \notin Ring} = R
  BY DEF Accesses
<1> QED BY <1>1, <1>2, Zenon DEF RunItem

\* a kernel on one stream is nothing to the other one
LEMMA RunIs ==
  ASSUME NEW s \in Streams, NEW R \in SUBSET Accesses, NEW w
  PROVE  /\ ItemOf(s, Enqueue(s, Run(R, {w}))) =
              ItemAt("run", w[2][1], PlaceOf(w, R), R, {w})
         /\ ItemOf(Other(s), Enqueue(s, Run(R, {w}))) = Nothing
         /\ Tame(Enqueue(s, Run(R, {w})))
<1> DEFINE c == Run(R, {w})
           o == Enqueue(s, c)
<1>1. c.op = "run" /\ c.reads = R /\ c.writes = {w} /\ o.op = "enqueue" /\ o.stream = s
      /\ o.command = c
  BY DEF Run, Enqueue
<1> HIDE DEF c, o
<1>2. CommandItem(s, c) = RunItem(R, {w})
  BY <1>1 DEF CommandItem
<1>3. ItemOf(s, o) = CommandItem(s, c) /\ ItemOf(Other(s), o) = Nothing
  BY <1>1, OtherIs DEF ItemOf
<1> QED BY <1>1, <1>2, <1>3, RunItemIs DEF Tame, o, c

\* the fields of an item
LEMMA ItemFields ==
  ASSUME NEW op, NEW n, NEW k, NEW R, NEW w
  PROVE  LET x == ItemAt(op, n, k, R, w)
         IN  x.op = op /\ x.step = n /\ x.place = k /\ x.reads = R /\ x.writes = w
BY DEF ItemAt

\* a kernel that reads what it may and writes what it may does its part of
\* the step
LEMMA RunDoes ==
  ASSUME NEW s \in Streams, NEW n \in 1 .. MaxSteps, NEW b, NEW k \in Nat, k <= 2 * Layers + 5,
         NEW R \in SUBSET Accesses, NEW w, RunOK(s, n, b, k, R, w)
  PROVE  Does(s, Enqueue(s, Run(R, {w})), n, b, k, w)
<1> DEFINE o == Enqueue(s, Run(R, {w}))
           x == ItemAt("run", n, k, R, {w})
<1>1. /\ k = PlaceOf(w, R) /\ WriteOK(s, x, w) /\ \A r \in R : ReadOK(s, x, r)
      /\ Supplied(s, n, b, x)
  BY DEF RunOK
<1>2. x.op = "run" /\ x.step = n /\ x.place = k /\ x.reads = R /\ x.writes = {w}
  BY ItemFields
<1>3. w[2][1] = n
  BY <1>1, <1>2 DEF WriteOK
<1>4. ItemOf(s, o) = x /\ ItemOf(Other(s), o) = Nothing /\ Tame(o)
  BY <1>1, <1>3, RunIs
<1>5. x # Nothing
  BY <1>2 DEF Nothing, ItemAt
<1> HIDE DEF x, o
<1>6. ItemOK(s, x)
  <2>1. k \in 0 .. 2 * Layers + 5
    BY RingSlots
  <2> QED BY <1>1, <1>2, <2>1 DEF ItemOK
<1>7. Piece(s, <<o>>, n, b, k, k)
  BY <1>1, <1>2, <1>4, <1>6, PieceOne
<1> QED BY <1>2, <1>4, <1>5, <1>7 DEF Does, o

Quiet(o) == Tame(o) /\ \A s \in Streams : ItemOf(s, o) = Nothing

\* host writes, and waits of the host, are nothing to the streams
LEMMA QuietAre ==
  /\ \A name, n : <<name, 0>> \in Staging => Quiet(Fill(name, n))
  /\ \A e : Quiet(Synchronize(e))
  /\ \A s : Quiet(Drain(s))
BY DEF Quiet, Tame, ItemOf, Fill, Synchronize, Drain, At, AtIndex

\* the events that the streams wait for and record
LEMMA EventsAre ==
  ASSUME NEW n \in Nat, NEW b
  PROVE  /\ ItemOf("S", Enqueue("S", Wait(ForwardDone(n)))) = Gate(n + 1)
         /\ ItemOf("E", Enqueue("S", Wait(ForwardDone(n)))) = Nothing
         /\ ItemOf("S", Enqueue("S", Record(PrepareDone(n)))) = End(n)
         /\ ItemOf("E", Enqueue("S", Record(PrepareDone(n)))) = Nothing
         /\ ItemOf("E", Enqueue("E", Wait(PrepareDone(n)))) = Gate(n)
         /\ ItemOf("S", Enqueue("E", Wait(PrepareDone(n)))) = Nothing
         /\ ItemOf("E", Enqueue("E", Record(ForwardDone(n)))) = End(n)
         /\ ItemOf("S", Enqueue("E", Record(ForwardDone(n)))) = Nothing
         /\ \A s, e : Tame(Enqueue(s, Wait(e))) /\ Tame(Enqueue(s, Record(e)))
BY DEF ItemOf, CommandItem, Enqueue, Wait, Record, ForwardDone, PrepareDone, Tame

\* the fields of the items of events
LEMMA GatesAre ==
  ASSUME NEW n \in Nat
  PROVE  /\ Gate(n).step = n /\ Gate(n).place = 2 /\ Gate(n).reads = {} /\ Gate(n).writes = {}
         /\ Gate(n).op = "wait"
         /\ End(n).step = n /\ End(n).place = 2 * Layers + 6 /\ End(n).reads = {}
         /\ End(n).writes = {} /\ End(n).op = "record"
         /\ Gate(n) # Nothing /\ End(n) # Nothing
         /\ 2 * Layers + 6 \in Nat /\ 2 * Layers + 6 > 7
BY RingSlots DEF Gate, End, Nothing, ItemAt

\* the waits are pieces at place 2, the records at the end of the step
LEMMA GatePieces ==
  ASSUME NEW n \in 1 .. MaxSteps + 1, NEW b
  PROVE  /\ Piece("S", <<Enqueue("S", Wait(ForwardDone(n - 1)))>>, n, b, 2, 2)
         /\ Piece("E", <<Enqueue("E", Wait(PrepareDone(n)))>>, n, b, 2, 2)
         /\ n <= MaxSteps =>
              /\ Piece("S", <<Enqueue("S", Record(PrepareDone(n)))>>, n, b,
                       2 * Layers + 6, 2 * Layers + 6)
              /\ Piece("E", <<Enqueue("E", Record(ForwardDone(n)))>>, n, b,
                       2 * Layers + 6, 2 * Layers + 6)
<1>1. n \in Nat /\ n - 1 \in Nat /\ n - 1 + 1 = n /\ (n <= MaxSteps => n \in 1 .. MaxSteps)
  BY RingSlots
<1>2. \A s : /\ ItemOK(s, Gate(n)) /\ Supplied(s, n, b, Gate(n))
             /\ n <= MaxSteps => ItemOK(s, End(n)) /\ Supplied(s, n, b, End(n))
  BY <1>1, GatesAre DEF ItemOK, Supplied
<1>3. /\ ItemOf("S", Enqueue("S", Wait(ForwardDone(n - 1)))) = Gate(n)
      /\ ItemOf("E", Enqueue("E", Wait(PrepareDone(n)))) = Gate(n)
      /\ ItemOf("S", Enqueue("S", Record(PrepareDone(n)))) = End(n)
      /\ ItemOf("E", Enqueue("E", Record(ForwardDone(n)))) = End(n)
      /\ \A s, e : Tame(Enqueue(s, Wait(e))) /\ Tame(Enqueue(s, Record(e)))
  BY <1>1, EventsAre
<1>4. /\ Gate(n).step = n /\ Gate(n).place = 2 /\ End(n).step = n
      /\ End(n).place = 2 * Layers + 6 /\ 2 * Layers + 6 \in Int
  BY <1>1, GatesAre
<1>5. Piece("S", <<Enqueue("S", Wait(ForwardDone(n - 1)))>>, n, b, 2, 2)
  BY <1>2, <1>3, <1>4, PieceOne
<1>6. Piece("E", <<Enqueue("E", Wait(PrepareDone(n)))>>, n, b, 2, 2)
  BY <1>2, <1>3, <1>4, PieceOne
<1>7. n <= MaxSteps => Piece("S", <<Enqueue("S", Record(PrepareDone(n)))>>, n, b,
                             2 * Layers + 6, 2 * Layers + 6)
  BY <1>2, <1>3, <1>4, PieceOne
<1>8. n <= MaxSteps => Piece("E", <<Enqueue("E", Record(ForwardDone(n)))>>, n, b,
                             2 * Layers + 6, 2 * Layers + 6)
  BY <1>2, <1>3, <1>4, PieceOne
<1> QED BY <1>5, <1>6, <1>7, <1>8

\* what is written with a tag of the step, but for plans
LEMMA PlainWrite ==
  ASSUME NEW n \in 1 .. MaxSteps, NEW s \in Streams, NEW name, NEW k \in Nat, NEW R,
         <<name, 0>> \in Out(s), name # "intWorkspace", name # "tokensCpu",
         k > 2 \/ name \in {"decode", "indices"}
  PROVE  WriteOK(s, ItemAt("run", n, k, R, {At(name, n)}), At(name, n))
<1>1. <<n, 0>> \in Tags
  BY StepsBefore, AccessesAre
<1>2. At(name, n)[1] = <<name, 0>> /\ At(name, n)[2] = <<n, 0>>
  BY DEF At, AtIndex
<1> HIDE DEF At
<1> QED BY <1>1, <1>2 DEF WriteOK, ItemAt, Workspace

\* a stream may read what it wrote itself in the same step
LEMMA LocalRead ==
  ASSUME NEW n \in 1 .. MaxSteps, NEW s \in Streams, NEW name, NEW k \in Nat, NEW R, NEW W,
         <<name, 0>> \in Local(s), name # "intWorkspace"
  PROVE  ReadOK(s, ItemAt("run", n, k, R, W), At(name, n))
<1>1. <<n, 0>> \in Tags
  BY StepsBefore, AccessesAre
<1>2. At(name, n)[1] = <<name, 0>> /\ At(name, n)[2] = <<n, 0>>
  BY DEF At, AtIndex
<1> QED BY <1>1, <1>2 DEF ReadOK, ItemAt, Workspace

\* the copies and kernels on the scheduler's stream, each at its place
LEMMA SchedulerCommands ==
  ASSUME NEW n \in 1 .. MaxSteps, NEW b
  PROVE  /\ Does("S", Copy("S", "pageWriteHost", "pageWrite", n), n, b, 3, At("pageWrite", n))
         /\ Does("S", Copy("S", "pageWrite", "pageTable", n), n, b, 4, At("pageTable", n))
         /\ Does("S", Copy("S", "positionsHost", "positions", n), n, b, 4, At("positions", n))
         /\ Does("S", Copy("S", "writeHost", "write", n), n, b, 4, At("write", n))
         /\ Does("S", Enqueue("S", Run({At("pageTable", n), At("positions", n)},
                                       {At("outLoc", n)})), n, b, 5, At("outLoc", n))
         /\ Does("S", Enqueue("S", Run({At("tokenPool", n - 1), At("positions", n)},
                                       {At("inputIds", n)})), n, b, 5, At("inputIds", n))
         /\ Does("S", Enqueue("S", Run({At("samplerHost", n)}, {Arguments(n)})), n, b, 5,
                 Arguments(n))
<1> DEFINE Reads(k, R) == \A r \in R : \/ r[1] \in Unordered
                                       \/ r = At("pageWrite", n) /\ k > 3
                                       \/ r = At("positions", n) /\ k > 4
                                       \/ r = At("tokenPool", n - 1)
           Writes(k, w) == /\ \A R : PlaceOf(w, R) = k
                           /\ \A R : WriteOK("S", ItemAt("run", n, k, R, {w}), w)
<1>1. "S" \in Streams
  BY DEF Streams
<1>2. \A name \in {"pageWriteHost", "positionsHost", "writeHost", "samplerHost", "pageWrite",
                   "pageTable", "positions", "write", "outLoc", "inputIds"} :
        /\ At(name, n) \in Accesses
        /\ At(name, n)[1] = <<name, 0>> /\ At(name, n)[2] = <<n, 0>>
  BY StepsBefore, AccessesAre DEF At, AtIndex
<1>3. At("tokenPool", n - 1) \in Accesses /\ At("tokenPool", n - 1) \in Foreign("S", n)
  BY StepsBefore, AccessesAre DEF Foreign
<1>4. /\ {At("pageWriteHost", n)} \in SUBSET Accesses /\ {At("pageWrite", n)} \in SUBSET Accesses
      /\ {At("positionsHost", n)} \in SUBSET Accesses /\ {At("writeHost", n)} \in SUBSET Accesses
      /\ {At("pageTable", n), At("positions", n)} \in SUBSET Accesses
      /\ {At("tokenPool", n - 1), At("positions", n)} \in SUBSET Accesses
      /\ {At("samplerHost", n)} \in SUBSET Accesses
  BY <1>2, <1>3
<1>5. \A name \in {"pageWriteHost", "positionsHost", "writeHost", "samplerHost", "pageTable"} :
        <<name, 0>> \in Unordered
  BY DEF Unordered, Staging
<1>6. \A name \in {"pageWriteHost", "positionsHost", "writeHost", "samplerHost", "pageTable"} :
        At(name, n)[1] \in Unordered
  BY <1>2, <1>5
<1>7. /\ <<"pageWrite", 0>> \in Local("S") /\ <<"positions", 0>> \in Local("S")
      /\ \A name \in {"pageWrite", "pageTable", "positions", "write", "outLoc", "inputIds"} :
           <<name, 0>> \in Out("S")
  BY DEF Local, Out
<1>8. \A R : /\ PlaceOf(At("pageWrite", n), R) = 3
             /\ PlaceOf(At("pageTable", n), R) = 4 /\ PlaceOf(At("positions", n), R) = 4
             /\ PlaceOf(At("write", n), R) = 4
             /\ PlaceOf(At("outLoc", n), R) = 5 /\ PlaceOf(At("inputIds", n), R) = 5
             /\ PlaceOf(Arguments(n), R) = 5
  BY DEF PlaceOf, At, AtIndex, Arguments
<1>9. \A k \in Nat : \A R, W :
        LET x == ItemAt("run", n, k, R, W)
        IN  /\ x.place = k /\ x.reads = R
            /\ \A r : r[1] \in Unordered => ReadOK("S", x, r)
            /\ ReadOK("S", x, At("pageWrite", n)) /\ ReadOK("S", x, At("positions", n))
            /\ k > 2 => ReadOK("S", x, At("tokenPool", n - 1))
  <2> SUFFICES ASSUME NEW k \in Nat, NEW R, NEW W
               PROVE  LET x == ItemAt("run", n, k, R, W)
                      IN  /\ x.place = k /\ x.reads = R
                          /\ \A r : r[1] \in Unordered => ReadOK("S", x, r)
                          /\ ReadOK("S", x, At("pageWrite", n)) /\ ReadOK("S", x, At("positions", n))
                          /\ k > 2 => ReadOK("S", x, At("tokenPool", n - 1))
    OBVIOUS
  <2> DEFINE x == ItemAt("run", n, k, R, W)
  <2>1. x.place = k /\ x.reads = R /\ x.step = n
    BY ItemFields
  <2>2. \A r : r[1] \in Unordered => ReadOK("S", x, r)
    BY DEF ReadOK
  <2>3. ReadOK("S", x, At("pageWrite", n)) /\ ReadOK("S", x, At("positions", n))
    BY <1>1, <1>7, LocalRead
  <2>4. k > 2 => ReadOK("S", x, At("tokenPool", n - 1))
    BY <1>3, <2>1 DEF ReadOK
  <2> QED BY <2>1, <2>2, <2>3, <2>4
<1>10. ASSUME NEW R \in SUBSET Accesses, NEW k \in Nat, k > 2, k <= 2 * Layers + 5,
              NEW w, Writes(k, w), Reads(k, R)
       PROVE  Does("S", Enqueue("S", Run(R, {w})), n, b, k, w)
  <2> DEFINE x == ItemAt("run", n, k, R, {w})
  <2>1. Supplied("S", n, b, x)
    BY <1>10, ItemFields DEF Supplied, Given
  <2>2. \A r \in R : ReadOK("S", x, r)
    BY <1>9, <1>10
  <2>3. RunOK("S", n, b, k, R, w)
    BY <1>10, <2>1, <2>2 DEF RunOK
  <2> QED BY <1>1, <1>10, <2>3, RunDoes
<1>11. \A name \in {"pageWrite", "pageTable", "positions", "write", "outLoc", "inputIds"} :
        \A k \in Nat : \A R :
          k > 2 => WriteOK("S", ItemAt("run", n, k, R, {At(name, n)}), At(name, n))
  BY <1>1, <1>7, PlainWrite
<1>12. \A k \in Nat : \A R :
         k > 2 => WriteOK("S", ItemAt("run", n, k, R, {Arguments(n)}), Arguments(n))
  <2>1. <<n, 0>> \in Tags /\ n % 2 \in 0 .. 1
    BY StepsBefore, AccessesAre
  <2>2. Arguments(n)[1] = <<"sampler", n % 2>> /\ Arguments(n)[2] = <<n, 0>>
    BY DEF Arguments, AtIndex
  <2>3. Arguments(n)[1] \in Out("S")
    BY <2>1, <2>2 DEF Out
  <2> QED BY <2>1, <2>2, <2>3 DEF WriteOK, ItemAt, Workspace
<1>13. /\ Writes(3, At("pageWrite", n))
       /\ Writes(4, At("pageTable", n)) /\ Writes(4, At("positions", n))
       /\ Writes(4, At("write", n))
       /\ Writes(5, At("outLoc", n)) /\ Writes(5, At("inputIds", n))
       /\ Writes(5, Arguments(n))
  <2>1. 3 \in Nat /\ 4 \in Nat /\ 5 \in Nat /\ 3 > 2 /\ 4 > 2 /\ 5 > 2
    OBVIOUS
  <2> QED BY <1>8, <1>11, <1>12, <2>1
<1>14. /\ Reads(3, {At("pageWriteHost", n)}) /\ Reads(4, {At("pageWrite", n)})
       /\ Reads(4, {At("positionsHost", n)}) /\ Reads(4, {At("writeHost", n)})
       /\ Reads(5, {At("pageTable", n), At("positions", n)})
       /\ Reads(5, {At("tokenPool", n - 1), At("positions", n)})
       /\ Reads(5, {At("samplerHost", n)})
  BY <1>6
<1> HIDE DEF Reads, Writes
<1>15. /\ 3 \in Nat /\ 4 \in Nat /\ 5 \in Nat /\ 3 > 2 /\ 4 > 2 /\ 5 > 2
       /\ 3 <= 2 * Layers + 5 /\ 4 <= 2 * Layers + 5 /\ 5 <= 2 * Layers + 5
  BY RingSlots
<1> QED BY <1>4, <1>10, <1>13, <1>14, <1>15 DEF Copy

RunLayer(n, R, use) == Enqueue("E", Run(R \cup {Plan(n, use)}, {At("logits", n)}))

\* the copy of a plan is on the engine's stream, between two layers
LEMMA StageDoes ==
  ASSUME NEW n \in 1 .. MaxSteps, NEW b, NEW use \in 1 .. Layers
  PROVE  Does("E", Stage(n, use), n, b, 2 * use + 2, Plan(n, use))
<1> DEFINE w == Plan(n, use)
           k == 2 * use + 2
           x == ItemAt("run", n, k, {}, {w})
           o == Stage(n, use)
<1>0. k \in 0 .. 2 * Layers + 5 /\ k > 2
  BY RingSlots
<1>1. w[1] = Workspace /\ w[2] = <<n, use>> /\ <<n, use>> \in Tags
      /\ k \in 0 .. 2 * Layers + 5 /\ k > 2
  BY <1>0, StepsBefore, AccessesAre DEF Plan, Workspace
<1>2. o.op = "stage" /\ o.tag = <<n, use>> /\ <<Workspace, <<n, use>>>> = w
  BY DEF Stage, Plan, Workspace
<1>3. PlaceOf(w, {}) = k
  BY DEF PlaceOf, Plan
<1>4. RunItem({}, {w}) = x
  <2>1. {} \in SUBSET Accesses
    OBVIOUS
  <2>2. RunItem({}, {w}) = ItemAt("run", w[2][1], PlaceOf(w, {}), {}, {w})
    BY <2>1, RunItemIs
  <2> QED BY <1>1, <1>3, <2>2
<1>5. x.op = "run" /\ x.step = n /\ x.place = k /\ x.reads = {} /\ x.writes = {w}
  BY ItemFields
<1> HIDE DEF o
<1>6. ItemOf("E", o) = x /\ ItemOf("S", o) = Nothing
  BY <1>2, <1>4 DEF ItemOf, Workspace
<1>7. x # Nothing
  BY <1>5 DEF Nothing, ItemAt
<1> HIDE DEF x, w, k
<1>8. WriteOK("E", x, w)
  <2>1. Workspace \in Out("E")
    BY DEF Out, Local, Workspace
  <2>2. Workspace[1] # "tokensCpu"
    BY DEF Workspace
  <2>3. w[2][1] = n /\ w[2][2] = use
    BY <1>1
  <2> QED BY <1>1, <1>5, <2>1, <2>2, <2>3 DEF WriteOK, k
<1>9. ItemOK("E", x) /\ Supplied("E", n, b, x)
  BY <1>1, <1>5, <1>8 DEF ItemOK, Supplied
<1>10. Tame(o)
  BY <1>2 DEF Tame
<1>11. Piece("E", <<o>>, n, b, k, k)
  BY <1>1, <1>5, <1>9, <1>10, <1>6, PieceOne
<1> QED BY <1>5, <1>6, <1>7, <1>10, <1>11, OtherIs DEF Does, o, w, k

\* what a command of the engine's stream at place k of a step may read
MayRead(n, b, k, R) ==
  \A r \in R :
    \/ r[1] \in Unordered
    \/ r = At("decode", n) /\ k > 0
    \/ r = At("indices", n) /\ k > 1
    \/ r \in Inputs(n) \cup {At("write", n)} /\ k > 2
    \/ r = Arguments(n) /\ b.sampling # "greedy" /\ k > 2
    \/ r = At("captured", n) /\ k > 3 /\ CanUseCudaGraph(b)
    \/ \E use \in 1 .. Layers : /\ r = Plan(n, use) /\ k = 2 * use + 3
                                /\ use = 1 \/ b.phase = "prefill"
    \/ r = At("logits", n) /\ k > 2 * Layers + 3
    \/ r = At("sampled", n) /\ k > 2 * Layers + 4

LEMMA EngineRun ==
  ASSUME NEW n \in 1 .. MaxSteps, NEW b, NEW k \in Nat, k <= 2 * Layers + 5,
         NEW R \in SUBSET Accesses, NEW w,
         PlaceOf(w, R) = k, WriteOK("E", ItemAt("run", n, k, R, {w}), w), MayRead(n, b, k, R)
  PROVE  Does("E", Enqueue("E", Run(R, {w})), n, b, k, w)
<1> DEFINE x == ItemAt("run", n, k, R, {w})
<1>1. "E" \in Streams
  BY DEF Streams
<1>2. x.place = k /\ x.reads = R /\ x.step = n
  BY ItemFields
<1>3. Supplied("E", n, b, x)
  <2> SUFFICES ASSUME NEW r \in R  PROVE r[1] \in Unordered \/ Given("E", n, b, x, r)
    BY <1>2 DEF Supplied
  <2> HIDE DEF x
  <2>1. CASE \E use \in 1 .. Layers : /\ r = Plan(n, use) /\ k = 2 * use + 3
                                      /\ use = 1 \/ b.phase = "prefill"
    <3>1. PICK use \in 1 .. Layers : /\ r = Plan(n, use) /\ k = 2 * use + 3
                                     /\ use = 1 \/ b.phase = "prefill"
      BY <2>1
    <3>2. x.place > 2 * use + 2
      BY <1>2, <3>1
    <3> QED BY <3>1, <3>2 DEF Given
  <2> QED BY <1>2, <2>1 DEF MayRead, Given
<1>4. ASSUME NEW r \in R  PROVE ReadOK("E", x, r)
  <2>1. CASE \E use \in 1 .. Layers : r = Plan(n, use) /\ k = 2 * use + 3
    <3>1. PICK use \in 1 .. Layers : r = Plan(n, use) /\ k = 2 * use + 3
      BY <2>1
    <3>2. r[1] = Workspace /\ r[2] = <<n, use>> /\ <<n, use>> \in Tags
      BY <3>1, StepsBefore, AccessesAre DEF Plan, Workspace
    <3>3. Workspace \in Local("E") /\ r[2][1] = n /\ r[2][2] = use
      BY <3>2 DEF Local, Workspace
    <3>4. x.place <= 2 * r[2][2] + 3
      BY <1>2, <3>1, <3>3
    <3> QED BY <1>2, <3>2, <3>3, <3>4 DEF ReadOK
  <2>2. CASE r \in Inputs(n) \cup {At("write", n)} /\ k > 2
    BY <1>2, <2>2 DEF ReadOK, Foreign, Inputs
  <2>3. CASE r = Arguments(n) /\ k > 2
    BY <1>2, <2>3 DEF ReadOK, Foreign
  <2>4. \A name \in {"decode", "indices", "captured", "logits", "sampled"} :
          ReadOK("E", x, At(name, n))
    <3>1. \A name \in {"decode", "indices", "captured", "logits", "sampled"} :
            <<name, 0>> \in Local("E") /\ name # "intWorkspace"
      BY DEF Local
    <3> QED BY <1>1, <3>1, LocalRead
  <2>5. r[1] \in Unordered => ReadOK("E", x, r)
    BY DEF ReadOK
  <2> HIDE DEF x
  <2> QED BY <2>1, <2>2, <2>3, <2>4, <2>5 DEF MayRead
<1>5. RunOK("E", n, b, k, R, w)
  BY <1>3, <1>4 DEF RunOK
<1> QED BY <1>1, <1>5, RunDoes

\* the copies and kernels on the engine's stream, each at its place
LEMMA EngineCommands ==
  ASSUME NEW n \in 1 .. MaxSteps, NEW b
  PROVE  /\ Does("E", Copy("E", "decodeHost", "decode", n), n, b, 0, At("decode", n))
         /\ Does("E", Enqueue("E", Run({}, {At("decode", n)})), n, b, 0, At("decode", n))
         /\ Does("E", Copy("E", "pageTable", "indices", n), n, b, 0, At("indices", n))
         /\ Does("E", Enqueue("E", Run({At("pageTable", n), At("decode", n)},
                                       {At("indices", n)})), n, b, 1, At("indices", n))
         /\ Does("E", Enqueue("E", Run(Inputs(n) \cup Metadata(n), {At("captured", n)})),
                 n, b, 3, At("captured", n))
         /\ Does("E", Enqueue("E", Run({At("sampled", n)}, {Answer(n)})), n, b,
                 2 * Layers + 5, Answer(n))
         /\ Does("E", Enqueue("E", Run({At("sampled", n), At("write", n)},
                                       {At("tokenPool", n)})), n, b,
                 2 * Layers + 5, At("tokenPool", n))
<1>1. \A name \in {"decodeHost", "decode", "indices", "captured", "logits", "sampled",
                   "tokenPool", "pageTable", "write", "inputIds", "outLoc", "positions"} :
        /\ At(name, n) \in Accesses
        /\ At(name, n)[1] = <<name, 0>> /\ At(name, n)[2] = <<n, 0>>
  BY StepsBefore, AccessesAre DEF At, AtIndex
<1>2. Inputs(n) \cup Metadata(n) \in SUBSET Accesses
  BY <1>1 DEF Inputs, Metadata
<1>3. /\ {At("decodeHost", n)} \in SUBSET Accesses /\ {} \in SUBSET Accesses
      /\ {At("pageTable", n)} \in SUBSET Accesses
      /\ {At("pageTable", n), At("decode", n)} \in SUBSET Accesses
      /\ {At("sampled", n)} \in SUBSET Accesses
      /\ {At("sampled", n), At("write", n)} \in SUBSET Accesses
  BY <1>1
<1>4. At("decodeHost", n)[1] \in Unordered /\ At("pageTable", n)[1] \in Unordered
  <2>1. <<"decodeHost", 0>> \in Unordered /\ <<"pageTable", 0>> \in Unordered
    BY DEF Unordered, Staging
  <2> QED BY <1>1, <2>1
<1>5. /\ At("decode", n) # At("indices", n) /\ At("pageTable", n) # At("decode", n)
  BY <1>1
<1>6. 2 * Layers + 5 \in Nat /\ 2 * Layers + 5 > 2 * Layers + 4 /\ 2 * Layers + 5 > 2
  BY RingSlots
<1>7. "E" \in Streams /\ 0 \in Nat /\ 1 \in Nat /\ 3 \in Nat /\ 3 > 2
      /\ \A name \in {"decode", "indices", "captured", "tokenPool"} : <<name, 0>> \in Out("E")
  BY DEF Streams, Out, Local
<1>8. /\ \A R : PlaceOf(At("decode", n), R) = 0 /\ PlaceOf(At("captured", n), R) = 3
      /\ \A R : At("decode", n) \in R => PlaceOf(At("indices", n), R) = 1
      /\ \A R : At("decode", n) \notin R => PlaceOf(At("indices", n), R) = 0
      /\ \A R : PlaceOf(At("tokenPool", n), R) = 2 * Layers + 5
      /\ \A R : PlaceOf(Answer(n), R) = 2 * Layers + 5
  BY DEF PlaceOf, At, AtIndex, Answer
<1>9. \A R : \A k \in Nat :
        /\ WriteOK("E", ItemAt("run", n, k, R, {At("decode", n)}), At("decode", n))
        /\ WriteOK("E", ItemAt("run", n, k, R, {At("indices", n)}), At("indices", n))
        /\ k > 2 => WriteOK("E", ItemAt("run", n, k, R, {At("captured", n)}), At("captured", n))
        /\ k > 2 => WriteOK("E", ItemAt("run", n, k, R, {At("tokenPool", n)}), At("tokenPool", n))
  BY <1>7, PlainWrite
<1>10. \A R : \A k \in Nat :
        k > 2 => WriteOK("E", ItemAt("run", n, k, R, {Answer(n)}), Answer(n))
  <2>1. <<n, 0>> \in Tags
    BY StepsBefore, AccessesAre
  <2>2. Answer(n)[1] = <<"tokensCpu", n>> /\ Answer(n)[2] = <<n, 0>>
    BY DEF Answer, AtIndex
  <2>3. Answer(n)[1] \in Out("E")
    BY <2>2 DEF Out
  <2> QED BY <2>1, <2>2, <2>3 DEF WriteOK, ItemAt, Workspace
<1>11. /\ MayRead(n, b, 0, {At("decodeHost", n)}) /\ MayRead(n, b, 0, {})
       /\ MayRead(n, b, 0, {At("pageTable", n)})
       /\ MayRead(n, b, 1, {At("pageTable", n), At("decode", n)})
       /\ MayRead(n, b, 3, Inputs(n) \cup Metadata(n))
       /\ MayRead(n, b, 2 * Layers + 5, {At("sampled", n)})
       /\ MayRead(n, b, 2 * Layers + 5, {At("sampled", n), At("write", n)})
  BY <1>4, <1>6 DEF MayRead, Metadata
<1>12. /\ 0 <= 2 * Layers + 5 /\ 1 <= 2 * Layers + 5 /\ 3 <= 2 * Layers + 5
       /\ 2 * Layers + 5 <= 2 * Layers + 5
  BY RingSlots
<1>13. Does("E", Copy("E", "decodeHost", "decode", n), n, b, 0, At("decode", n))
  BY <1>3, <1>7, <1>8, <1>9, <1>11, <1>12, EngineRun DEF Copy
<1>14. Does("E", Enqueue("E", Run({}, {At("decode", n)})), n, b, 0, At("decode", n))
  BY <1>3, <1>7, <1>8, <1>9, <1>11, <1>12, EngineRun
<1>15. Does("E", Copy("E", "pageTable", "indices", n), n, b, 0, At("indices", n))
  BY <1>3, <1>5, <1>7, <1>8, <1>9, <1>11, <1>12, EngineRun DEF Copy
<1>16. Does("E", Enqueue("E", Run({At("pageTable", n), At("decode", n)},
                                  {At("indices", n)})), n, b, 1, At("indices", n))
  BY <1>3, <1>7, <1>8, <1>9, <1>11, <1>12, EngineRun
<1>17. Does("E", Enqueue("E", Run(Inputs(n) \cup Metadata(n), {At("captured", n)})),
            n, b, 3, At("captured", n))
  BY <1>2, <1>7, <1>8, <1>9, <1>11, <1>12, EngineRun
<1>18. Does("E", Enqueue("E", Run({At("sampled", n)}, {Answer(n)})), n, b,
            2 * Layers + 5, Answer(n))
  BY <1>3, <1>6, <1>8, <1>10, <1>11, <1>12, EngineRun
<1>19. Does("E", Enqueue("E", Run({At("sampled", n), At("write", n)},
                                  {At("tokenPool", n)})), n, b,
            2 * Layers + 5, At("tokenPool", n))
  BY <1>3, <1>6, <1>8, <1>9, <1>11, <1>12, EngineRun
<1> QED BY <1>13, <1>14, <1>15, <1>16, <1>17, <1>18, <1>19

\* the sampler reads the logits and, unless it is greedy, the arguments that
\* the scheduler prepared
LEMMA SampleDoes ==
  ASSUME NEW n \in 1 .. MaxSteps, NEW b
  PROVE  Does("E", Enqueue("E", Run({At("logits", n)}
                       \cup IF b.sampling = "greedy" THEN {} ELSE {Arguments(n)},
                     {At("sampled", n)})), n, b, 2 * Layers + 4, At("sampled", n))
<1> DEFINE R == {At("logits", n)} \cup IF b.sampling = "greedy" THEN {} ELSE {Arguments(n)}
           k == 2 * Layers + 4
<1>1. R \in SUBSET Accesses
  BY StepsBefore, AccessesAre
<1>2. k \in Nat /\ k <= 2 * Layers + 5 /\ k > 2 * Layers + 3 /\ k > 2
  BY RingSlots
<1>3. MayRead(n, b, k, R)
  BY <1>2 DEF MayRead
<1>4. PlaceOf(At("sampled", n), R) = k
  BY DEF PlaceOf, At, AtIndex
<1>5. "E" \in Streams /\ <<"sampled", 0>> \in Out("E")
  BY DEF Streams, Out, Local
<1>6. WriteOK("E", ItemAt("run", n, k, R, {At("sampled", n)}), At("sampled", n))
  BY <1>2, <1>5, PlainWrite
<1> HIDE DEF R, k
<1>7. Does("E", Enqueue("E", Run(R, {At("sampled", n)})), n, b, k, At("sampled", n))
  BY <1>1, <1>2, <1>3, <1>4, <1>6, EngineRun
<1> QED BY <1>7 DEF R, k

\* what runs on a plan, R being the rest of what it reads
LEMMA LayerDoes ==
  ASSUME NEW n \in 1 .. MaxSteps, NEW b, NEW use \in 1 .. Layers,
         use = 1 \/ b.phase = "prefill", NEW R \in SUBSET Accesses,
         \/ R = Inputs(n) \cup Metadata(n)
         \/ R = {At("captured", n)} /\ CanUseCudaGraph(b)
  PROVE  Does("E", RunLayer(n, R, use), n, b, 2 * use + 3, At("logits", n))
<1> DEFINE Q == R \cup {Plan(n, use)}
           k == 2 * use + 3
           w == At("logits", n)
<1>1. Q \in SUBSET Accesses
  BY StepsBefore, AccessesAre
<1>2. k \in Nat /\ k <= 2 * Layers + 5 /\ k > 3
  BY RingSlots
<1>3. MayRead(n, b, k, Q)
  <2>1. \A r \in Inputs(n) \cup Metadata(n) :
          r \in Inputs(n) \/ r = At("decode", n) \/ r = At("indices", n)
    BY DEF Metadata
  <2>2. k > 0 /\ k > 1 /\ k > 2
    BY <1>2
  <2>3. ASSUME NEW r \in Inputs(n) \cup Metadata(n)
        PROVE  \/ r = At("decode", n) /\ k > 0
               \/ r = At("indices", n) /\ k > 1
               \/ r \in Inputs(n) \cup {At("write", n)} /\ k > 2
    BY <2>1, <2>2
  <2> HIDE DEF k
  <2>4. k = 2 * use + 3
    BY DEF k
  <2> QED BY <1>2, <2>3, <2>4 DEF MayRead
<1>4. PlaceOf(w, Q) = k
  <2>1. w[1][1] = "logits" /\ w[2][1] = n
    BY DEF At, AtIndex
  <2>2. \A u \in 1 .. Layers : Plan(n, u) \in Q <=> u = use
    <3>1. \A u \in 1 .. Layers : Plan(n, u) = Plan(n, use) => u = use
      BY DEF Plan
    <3>2. \A u : Plan(n, u)[1] = <<"intWorkspace", 0>>
      BY DEF Plan
    <3>3. \A r \in R : r[1] # <<"intWorkspace", 0>>
      <4>1. \A name : At(name, n)[1] = <<name, 0>>
        BY DEF At, AtIndex
      <4> QED BY <4>1 DEF Inputs, Metadata
    <3> QED BY <3>1, <3>2, <3>3
  <2>3. (CHOOSE u \in 1 .. Layers : Plan(n, u) \in Q) = use
    <3> DEFINE P(u) == Plan(n, u) \in Q
    <3>1. \A u \in 1 .. Layers : P(u) <=> u = use
      BY <2>2
    <3> HIDE DEF P
    <3>2. (CHOOSE u \in 1 .. Layers : P(u)) = use
      BY <3>1
    <3> QED BY <3>2 DEF P
  <2> HIDE DEF Q, w
  <2> QED BY <2>1, <2>3 DEF PlaceOf
<1>5. "E" \in Streams /\ <<"logits", 0>> \in Out("E")
  BY DEF Streams, Out, Local
<1>6. WriteOK("E", ItemAt("run", n, k, Q, {w}), w)
  BY <1>2, <1>5, PlainWrite
<1> HIDE DEF Q, k, w
<1>7. Does("E", Enqueue("E", Run(Q, {w})), n, b, k, w)
  BY <1>1, <1>2, <1>3, <1>4, <1>6, EngineRun
<1> QED BY <1>7 DEF Q, k, w, RunLayer

-----------------------------------------------------------------------------
(* The pieces of a step's program.                                         *)

LEMMA PieceJoin ==
  ASSUME NEW s, NEW p \in Programs, NEW q \in Programs, NEW n \in Nat, NEW b,
         NEW lo \in Int, NEW mid \in Int, NEW next \in Int, NEW hi \in Int,
         Piece(s, p, n, b, lo, mid), Piece(s, q, n, b, next, hi),
         lo <= mid, mid <= next, next <= hi
  PROVE  Piece(s, p \o q, n, b, lo, hi)
<1>1. p \in Seq(Operations) /\ q \in Seq(Operations)
  BY DEF Programs
<1> QED BY <1>1, PieceConcat

\* the items of programs one after the other
LEMMA ItemsJoin ==
  ASSUME NEW s, NEW p \in Programs, NEW q \in Programs
  PROVE  ItemsIn(s, p \o q) = ItemsIn(s, p) \cup ItemsIn(s, q)
<1>1. p \in Seq(Operations) /\ q \in Seq(Operations)
  BY DEF Programs
<1> QED BY <1>1, ItemsConcat

\* operation i of p is at place f[i] of its step
Places(s, p, n, b, f) ==
  /\ DOMAIN f = DOMAIN p
  /\ \A i \in DOMAIN p : f[i] \in Int /\ Piece(s, <<p[i]>>, n, b, f[i], f[i])
  /\ \A i, j \in DOMAIN p : i < j => f[i] <= f[j]

\* a program whose commands have non-decreasing places is a piece of the step
LEMMA PieceByPlaces ==
  ASSUME NEW s, NEW p \in Programs, NEW n \in Nat, NEW b, NEW f,
         NEW lo \in Int, NEW hi \in Int,
         Places(s, p, n, b, f), \A i \in DOMAIN p : f[i] \in lo .. hi
  PROVE  Piece(s, p, n, b, lo, hi)
<1> DEFINE It(i) == ItemOf(s, p[i])
<1>1. ASSUME NEW i \in DOMAIN p
      PROVE  /\ Tame(p[i])
             /\ It(i) # Nothing => /\ ItemOK(s, It(i)) /\ It(i).step = n /\ It(i).place = f[i]
                                   /\ Supplied(s, n, b, It(i))
  <2> DEFINE one == <<p[i]>>
  <2>1. f[i] \in Int /\ Piece(s, one, n, b, f[i], f[i])
    BY DEF Places
  <2>2. ItemsIn(s, one) = {It(i)} \ {Nothing}
    BY ItemsOne
  <2>3. 1 \in DOMAIN one /\ one[1] = p[i]
    OBVIOUS
  <2> HIDE DEF one, It
  <2>4. Tame(p[i])
    BY <2>1, <2>3 DEF Piece
  <2>5. It(i) # Nothing => It(i) \in ItemsIn(s, one)
    BY <2>2
  <2>6. It(i) # Nothing => /\ ItemOK(s, It(i)) /\ It(i).step = n
                           /\ It(i).place \in f[i] .. f[i]
                           /\ Supplied(s, n, b, It(i))
    BY <2>1, <2>5 DEF Piece
  <2> QED BY <2>1, <2>4, <2>6
<1>2. InOrder(s, p)
  <2>1. ASSUME NEW i \in DOMAIN p, NEW j \in DOMAIN p, i < j
        PROVE  Follow({It(i)} \ {Nothing}, {It(j)} \ {Nothing})
    <3>1. f[i] \in Int /\ f[j] \in Int /\ f[i] <= f[j]
      BY <2>1 DEF Places
    <3> HIDE DEF It
    <3>2. ASSUME It(i) # Nothing, It(j) # Nothing  PROVE ~Earlier(It(j), It(i))
      <4>1. It(i).step = n /\ It(j).step = n /\ It(i).place = f[i] /\ It(j).place = f[j]
        BY <1>1, <3>2
      <4>2. ~(n < n) /\ ~(f[j] < f[i])
        BY <3>1
      <4> QED BY <4>1, <4>2 DEF Earlier
    <3> QED BY <3>2 DEF Follow
  <2> QED BY <2>1 DEF InOrder
<1>3. ASSUME NEW x \in ItemsIn(s, p)
      PROVE  /\ ItemOK(s, x) /\ x.step = n /\ x.place \in lo .. hi
             /\ Supplied(s, n, b, x)
  <2>1. PICK i \in DOMAIN p : x = It(i) /\ It(i) # Nothing
    BY DEF ItemsIn
  <2> HIDE DEF It
  <2> QED BY <1>1, <2>1
<1> HIDE DEF It
<1> QED BY <1>1, <1>2, <1>3 DEF Piece

\* one command as a piece, on its own stream and on the other one
LEMMA DoesPieces ==
  ASSUME NEW s \in Streams, NEW o, NEW n, NEW b, NEW k, NEW w, Does(s, o, n, b, k, w)
  PROVE  /\ Piece(s, <<o>>, n, b, k, k)
         /\ ItemOf(Other(s), o) = Nothing /\ Tame(o)
BY DEF Does

\* what is nothing to the streams is a piece of any step
LEMMA QuietPiece ==
  ASSUME NEW s \in Streams, NEW o, Quiet(o), NEW n, NEW b, NEW lo, NEW hi
  PROVE  Piece(s, <<o>>, n, b, lo, hi)
<1> DEFINE p == <<o>>
<1>1. DOMAIN p = {1} /\ p[1] = o
  OBVIOUS
<1> HIDE DEF p
<1>2. Silent(s, p) /\ \A i \in DOMAIN p : Tame(p[i])
  BY <1>1 DEF Silent, Quiet
<1>3. Piece(s, p, n, b, lo, hi)
  BY <1>2, PieceSilent
<1> QED BY <1>3 DEF p

\* what a program of another stream is to stream s
Apart(s, p) == Silent(s, p) /\ \A i \in DOMAIN p : Tame(p[i])

\* what a stream has nothing of is a piece of any step
LEMMA ApartPiece ==
  ASSUME NEW s, NEW p, Apart(s, p), NEW n, NEW b, NEW lo, NEW hi
  PROVE  Piece(s, p, n, b, lo, hi) /\ ItemsIn(s, p) = {}
BY PieceSilent, SilentHas DEF Apart

\* a stream has nothing of two programs when it has nothing of each
LEMMA ApartJoin ==
  ASSUME NEW s, NEW p \in Programs, NEW q \in Programs, Apart(s, p), Apart(s, q)
  PROVE  Apart(s, p \o q)
<1> DEFINE r == p \o q
<1>1. /\ DOMAIN r = 1 .. Len(p) + Len(q) /\ Len(p) \in Nat /\ Len(q) \in Nat
      /\ DOMAIN p = 1 .. Len(p) /\ DOMAIN q = 1 .. Len(q)
      /\ \A i \in 1 .. Len(p) : r[i] = p[i]
      /\ \A i \in 1 .. Len(q) : r[Len(p) + i] = q[i]
  BY DEF Programs
<1> HIDE DEF r
<1>2. ASSUME NEW i \in DOMAIN r
      PROVE  (\E j \in DOMAIN p : r[i] = p[j]) \/ (\E j \in DOMAIN q : r[i] = q[j])
  <2>1. CASE i <= Len(p)
    BY <1>1, <2>1
  <2>2. CASE i > Len(p)
    <3>1. i - Len(p) \in DOMAIN q /\ Len(p) + (i - Len(p)) = i
      BY <1>1, <2>2
    <3> QED BY <1>1, <3>1
  <2> QED BY <1>1, <2>1, <2>2
<1>3. Apart(s, r)
  BY <1>2 DEF Apart, Silent
<1> QED BY <1>3 DEF r

\* p has a command of stream s that writes w, at place k or before
Has(s, p, n, w, k) ==
  \E y \in ItemsIn(s, p) : w \in y.writes /\ y.step = n /\ y.place <= k

\* a program has what one of its commands does
LEMMA HasAt ==
  ASSUME NEW s, NEW p, NEW i \in DOMAIN p, NEW n, NEW b, NEW k \in Int, NEW w,
         Does(s, p[i], n, b, k, w)
  PROVE  Has(s, p, n, w, k)
<1>1. ItemOf(s, p[i]) \in ItemsIn(s, p)
  BY ItemThere DEF Does
<1> QED BY <1>1 DEF Does, Has

\* a longer program has what each of its parts has
LEMMA HasJoin ==
  ASSUME NEW s, NEW p \in Programs, NEW q \in Programs, NEW n, NEW w, NEW k,
         Has(s, p, n, w, k) \/ Has(s, q, n, w, k)
  PROVE  Has(s, p \o q, n, w, k)
BY ItemsJoin DEF Has

\* the host writes to its own buffers only
LEMMA QuietFills ==
  \A n : /\ Quiet(Fill("pageWriteHost", n)) /\ Quiet(Fill("positionsHost", n))
         /\ Quiet(Fill("writeHost", n)) /\ Quiet(Fill("decodeHost", n))
         /\ Quiet(Fill("samplerHost", n))
<1>1. \A name \in {"pageWriteHost", "positionsHost", "writeHost", "decodeHost",
                   "samplerHost"} : <<name, 0>> \in Staging
  BY DEF Staging
<1> QED BY <1>1, QuietAre

\* the page table is written on the scheduler's stream
LEMMA PageTablePieces ==
  ASSUME NEW n \in 1 .. MaxSteps, NEW b \in BatchTypes
  PROVE  /\ Piece("S", WritePageTable(n), n, b, 3, 4) /\ Apart("E", WritePageTable(n))
         /\ Has("S", WritePageTable(n), n, At("pageWrite", n), 3)
<1> DEFINE p == WritePageTable(n)
<1>1. /\ DOMAIN p = 1 .. 3 /\ p[1] = Fill("pageWriteHost", n)
      /\ p[2] = Copy("S", "pageWriteHost", "pageWrite", n)
      /\ p[3] = Copy("S", "pageWrite", "pageTable", n)
  BY DEF WritePageTable
<1>2. Quiet(p[1]) /\ Does("S", p[2], n, b, 3, At("pageWrite", n))
      /\ Does("S", p[3], n, b, 4, At("pageTable", n))
  BY <1>1, QuietFills, SchedulerCommands
<1>3. p \in Programs /\ n \in Nat /\ "S" \in Streams /\ "E" \in Streams /\ Other("S") = "E"
  BY PrepareIs, OtherIs DEF Streams
<1> HIDE DEF p
<1>4. /\ Piece("S", <<p[1]>>, n, b, 3, 3) /\ Piece("S", <<p[2]>>, n, b, 3, 3)
      /\ Piece("S", <<p[3]>>, n, b, 4, 4)
  BY <1>2, <1>3, QuietPiece, DoesPieces
<1>5. Places("S", p, n, b, <<3, 3, 4>>)
  BY <1>1, <1>4 DEF Places
<1>6. Piece("S", p, n, b, 3, 4)
  <2>1. \A i \in DOMAIN p : <<3, 3, 4>>[i] \in 3 .. 4
    BY <1>1
  <2> QED BY <1>3, <1>5, <2>1, PieceByPlaces
<1>7. Apart("E", p)
  <2>1. Tame(p[1]) /\ ItemOf("E", p[1]) = Nothing
    BY <1>2, <1>3 DEF Quiet
  <2>2. Tame(p[2]) /\ ItemOf("E", p[2]) = Nothing /\ Tame(p[3]) /\ ItemOf("E", p[3]) = Nothing
    BY <1>2, <1>3, DoesPieces
  <2> QED BY <1>1, <2>1, <2>2 DEF Apart, Silent
<1>8. Has("S", p, n, At("pageWrite", n), 3)
  BY <1>1, <1>2, HasAt
<1> QED BY <1>6, <1>7, <1>8 DEF p

\* positions, write mapping, locations and token ids are prepared on the
\* scheduler's stream
LEMMA InputPieces ==
  ASSUME NEW n \in 1 .. MaxSteps, NEW b \in BatchTypes
  PROVE  /\ Piece("S", PrepareInputs(n), n, b, 4, 5) /\ Apart("E", PrepareInputs(n))
         /\ Has("S", PrepareInputs(n), n, At("positions", n), 4)
         /\ Has("S", PrepareInputs(n), n, At("write", n), 4)
         /\ Has("S", PrepareInputs(n), n, At("outLoc", n), 5)
         /\ Has("S", PrepareInputs(n), n, At("inputIds", n), 5)
<1> DEFINE p == PrepareInputs(n)
<1>1. /\ DOMAIN p = 1 .. 6
      /\ p[1] = Fill("positionsHost", n)
      /\ p[2] = Copy("S", "positionsHost", "positions", n)
      /\ p[3] = Fill("writeHost", n)
      /\ p[4] = Copy("S", "writeHost", "write", n)
      /\ p[5] = Enqueue("S", Run({At("pageTable", n), At("positions", n)}, {At("outLoc", n)}))
      /\ p[6] = Enqueue("S", Run({At("tokenPool", n - 1), At("positions", n)},
                                 {At("inputIds", n)}))
  BY DEF PrepareInputs
<1> HIDE DEF p
<1>2. /\ Quiet(p[1]) /\ Quiet(p[3])
      /\ Does("S", p[2], n, b, 4, At("positions", n))
      /\ Does("S", p[4], n, b, 4, At("write", n))
      /\ Does("S", p[5], n, b, 5, At("outLoc", n))
      /\ Does("S", p[6], n, b, 5, At("inputIds", n))
  BY <1>1, QuietFills, SchedulerCommands
<1>3. p \in Programs /\ n \in Nat /\ "S" \in Streams /\ "E" \in Streams /\ Other("S") = "E"
  BY PrepareIs, OtherIs DEF Streams, p
<1>4. /\ Piece("S", <<p[1]>>, n, b, 4, 4) /\ Piece("S", <<p[2]>>, n, b, 4, 4)
      /\ Piece("S", <<p[3]>>, n, b, 4, 4) /\ Piece("S", <<p[4]>>, n, b, 4, 4)
      /\ Piece("S", <<p[5]>>, n, b, 5, 5) /\ Piece("S", <<p[6]>>, n, b, 5, 5)
  BY <1>2, <1>3, QuietPiece, DoesPieces
<1>5. Places("S", p, n, b, <<4, 4, 4, 4, 5, 5>>)
  <2> DEFINE f == <<4, 4, 4, 4, 5, 5>>
  <2>1. /\ DOMAIN f = 1 .. 6 /\ f[1] = 4 /\ f[2] = 4 /\ f[3] = 4 /\ f[4] = 4
        /\ f[5] = 5 /\ f[6] = 5
    OBVIOUS
  <2> HIDE DEF f
  <2>2. ASSUME NEW i \in 1 .. 6
        PROVE  /\ f[i] = IF i <= 4 THEN 4 ELSE 5
               /\ Piece("S", <<p[i]>>, n, b, f[i], f[i])
    <3>1. i = 1 \/ i = 2 \/ i = 3 \/ i = 4 \/ i = 5 \/ i = 6
      OBVIOUS
    <3> QED BY <1>4, <2>1, <3>1
  <2>3. \A i, j \in 1 .. 6 : i < j => f[i] <= f[j]
    BY <2>2
  <2>4. Places("S", p, n, b, f)
    BY <1>1, <2>1, <2>2, <2>3 DEF Places
  <2> QED BY <2>4 DEF f
<1>6. Piece("S", p, n, b, 4, 5)
  <2>1. \A i \in DOMAIN p : <<4, 4, 4, 4, 5, 5>>[i] \in 4 .. 5
    BY <1>1
  <2> QED BY <1>3, <1>5, <2>1, PieceByPlaces
<1>7. Apart("E", p)
  <2>1. /\ Tame(p[1]) /\ ItemOf("E", p[1]) = Nothing
        /\ Tame(p[3]) /\ ItemOf("E", p[3]) = Nothing
    BY <1>2, <1>3 DEF Quiet
  <2>2. /\ Tame(p[2]) /\ ItemOf("E", p[2]) = Nothing /\ Tame(p[4]) /\ ItemOf("E", p[4]) = Nothing
        /\ Tame(p[5]) /\ ItemOf("E", p[5]) = Nothing /\ Tame(p[6]) /\ ItemOf("E", p[6]) = Nothing
    BY <1>2, <1>3, DoesPieces
  <2> QED BY <1>1, <2>1, <2>2 DEF Apart, Silent
<1>8. /\ Has("S", p, n, At("positions", n), 4) /\ Has("S", p, n, At("write", n), 4)
      /\ Has("S", p, n, At("outLoc", n), 5) /\ Has("S", p, n, At("inputIds", n), 5)
  BY <1>1, <1>2, HasAt
<1> QED BY <1>6, <1>7, <1>8 DEF p

\* the metadata of decoding are copied on the engine's stream, ahead of the
\* event that it waits for
LEMMA MetadataPieces ==
  ASSUME NEW n \in 1 .. MaxSteps, NEW b \in BatchTypes
  PROVE  /\ Piece("E", PrepareMetadata(n, b), n, b, 0, 1) /\ Apart("S", PrepareMetadata(n, b))
         /\ Has("E", PrepareMetadata(n, b), n, At("decode", n), 0)
         /\ Has("E", PrepareMetadata(n, b), n, At("indices", n), 1)
<1> DEFINE p == PrepareMetadata(n, b)
<1>1. p \in Programs /\ n \in Nat /\ "S" \in Streams /\ "E" \in Streams /\ Other("E") = "S"
  BY PrepareIs, OtherIs DEF Streams
<1>2. CASE b.phase = "decode"
  <2>1. /\ DOMAIN p = 1 .. 3 /\ p[1] = Fill("decodeHost", n)
        /\ p[2] = Copy("E", "decodeHost", "decode", n)
        /\ p[3] = Enqueue("E", Run({At("pageTable", n), At("decode", n)}, {At("indices", n)}))
    BY <1>2 DEF PrepareMetadata
  <2> HIDE DEF p
  <2>2. Quiet(p[1]) /\ Does("E", p[2], n, b, 0, At("decode", n))
        /\ Does("E", p[3], n, b, 1, At("indices", n))
    BY <2>1, QuietFills, EngineCommands
  <2>3. /\ Piece("E", <<p[1]>>, n, b, 0, 0) /\ Piece("E", <<p[2]>>, n, b, 0, 0)
        /\ Piece("E", <<p[3]>>, n, b, 1, 1)
    BY <1>1, <2>2, QuietPiece, DoesPieces
  <2>4. Places("E", p, n, b, <<0, 0, 1>>)
    BY <2>1, <2>3 DEF Places
  <2>5. Piece("E", p, n, b, 0, 1)
    <3>1. \A i \in DOMAIN p : <<0, 0, 1>>[i] \in 0 .. 1
      BY <2>1
    <3> QED BY <1>1, <2>4, <3>1, PieceByPlaces
  <2>6. Apart("S", p)
    <3>1. Tame(p[1]) /\ ItemOf("S", p[1]) = Nothing
      BY <1>1, <2>2 DEF Quiet
    <3>2. Tame(p[2]) /\ ItemOf("S", p[2]) = Nothing /\ Tame(p[3]) /\ ItemOf("S", p[3]) = Nothing
      BY <1>1, <2>2, DoesPieces
    <3> QED BY <2>1, <3>1, <3>2 DEF Apart, Silent
  <2>7. Has("E", p, n, At("decode", n), 0) /\ Has("E", p, n, At("indices", n), 1)
    BY <2>1, <2>2, HasAt
  <2> QED BY <2>5, <2>6, <2>7 DEF p
<1>3. CASE b.phase # "decode"
  <2>1. /\ DOMAIN p = 1 .. 3 /\ p[1] = Copy("E", "pageTable", "indices", n)
        /\ p[2] = Enqueue("E", Run({}, {At("decode", n)}))
        /\ p[3] = Drain("E")
    BY <1>3 DEF PrepareMetadata
  <2> HIDE DEF p
  <2>2. Quiet(p[3]) /\ Does("E", p[2], n, b, 0, At("decode", n))
        /\ Does("E", p[1], n, b, 0, At("indices", n))
    BY <2>1, QuietAre, EngineCommands
  <2>3. /\ Piece("E", <<p[1]>>, n, b, 0, 0) /\ Piece("E", <<p[2]>>, n, b, 0, 0)
        /\ Piece("E", <<p[3]>>, n, b, 0, 0)
    BY <1>1, <2>2, QuietPiece, DoesPieces
  <2>4. Places("E", p, n, b, <<0, 0, 0>>)
    BY <2>1, <2>3 DEF Places
  <2>5. Piece("E", p, n, b, 0, 1)
    <3>1. \A i \in DOMAIN p : <<0, 0, 0>>[i] \in 0 .. 1
      BY <2>1
    <3> QED BY <1>1, <2>4, <3>1, PieceByPlaces
  <2>6. Apart("S", p)
    <3>1. Tame(p[3]) /\ ItemOf("S", p[3]) = Nothing
      BY <1>1, <2>2 DEF Quiet
    <3>2. Tame(p[2]) /\ ItemOf("S", p[2]) = Nothing /\ Tame(p[1]) /\ ItemOf("S", p[1]) = Nothing
      BY <1>1, <2>2, DoesPieces
    <3> QED BY <2>1, <3>1, <3>2 DEF Apart, Silent
  <2>7. Has("E", p, n, At("decode", n), 0) /\ Has("E", p, n, At("indices", n), 1)
    <3>1. Has("E", p, n, At("indices", n), 0)
      BY <2>1, <2>2, HasAt
    <3>2. Has("E", p, n, At("indices", n), 1)
      <4>1. ASSUME NEW y \in ItemsIn("E", p), y.place <= 0  PROVE y.place <= 1
        <5>1. y.place \in 0 .. 1
          BY <2>5 DEF Piece
        <5> QED BY <5>1
      <4> QED BY <3>1, <4>1 DEF Has
    <3> QED BY <2>1, <2>2, <3>2, HasAt
  <2> QED BY <2>5, <2>6, <2>7 DEF p
<1> QED BY <1>2, <1>3

\* the sampling arguments are prepared on the scheduler's stream
LEMMA SamplingPieces ==
  ASSUME NEW n \in 1 .. MaxSteps, NEW b \in BatchTypes
  PROVE  /\ Piece("S", PrepareSampling(n, b), n, b, 5, 5) /\ Apart("E", PrepareSampling(n, b))
         /\ b.sampling # "greedy" => Has("S", PrepareSampling(n, b), n, Arguments(n), 5)
<1> DEFINE p == PrepareSampling(n, b)
           o == Enqueue("S", Run({At("samplerHost", n)}, {Arguments(n)}))
<1>1. p \in Programs /\ n \in Nat /\ "S" \in Streams /\ "E" \in Streams /\ Other("S") = "E"
  BY PrepareIs, OtherIs DEF Streams
<1>2. CASE b.sampling = "greedy"
  <2>1. DOMAIN p = {1} /\ p[1] = Fill("samplerHost", n)
    BY <1>2 DEF PrepareSampling
  <2> HIDE DEF p
  <2>2. Quiet(p[1])
    BY <2>1, QuietFills
  <2>3. Apart("S", p) /\ Apart("E", p)
    BY <1>1, <2>1, <2>2 DEF Apart, Silent, Quiet
  <2> QED BY <1>2, <2>3, ApartPiece DEF p
<1>3. CASE b.sampling # "greedy"
  <2>1. DOMAIN p = 1 .. 2 /\ p[1] = Fill("samplerHost", n) /\ p[2] = o
    BY <1>3 DEF PrepareSampling
  <2>2. Quiet(p[1]) /\ Does("S", o, n, b, 5, Arguments(n))
    BY <2>1, QuietFills, SchedulerCommands
  <2> HIDE DEF p, o
  <2>3. Piece("S", <<p[1]>>, n, b, 5, 5) /\ Piece("S", <<p[2]>>, n, b, 5, 5)
    BY <1>1, <2>1, <2>2, QuietPiece, DoesPieces
  <2>4. Places("S", p, n, b, <<5, 5>>)
    BY <2>1, <2>3 DEF Places
  <2>5. Piece("S", p, n, b, 5, 5)
    <3>1. \A i \in DOMAIN p : <<5, 5>>[i] \in 5 .. 5
      BY <2>1
    <3> QED BY <1>1, <2>4, <3>1, PieceByPlaces
  <2>6. Apart("E", p)
    <3>1. Tame(p[1]) /\ ItemOf("E", p[1]) = Nothing
      BY <1>1, <2>2 DEF Quiet
    <3>2. Tame(p[2]) /\ ItemOf("E", p[2]) = Nothing
      BY <1>1, <2>1, <2>2, DoesPieces
    <3> QED BY <2>1, <3>1, <3>2 DEF Apart, Silent
  <2>7. Has("S", p, n, Arguments(n), 5)
    BY <2>1, <2>2, HasAt
  <2> QED BY <2>5, <2>6, <2>7 DEF p
<1> QED BY <1>2, <1>3

\* what is done by some place is done by any later one
LEMMA HasEarlier ==
  ASSUME NEW s, NEW p, NEW n, NEW w, NEW k \in Int, NEW m \in Int, NEW b,
         NEW lo, NEW hi, Has(s, p, n, w, k), k <= m, Piece(s, p, n, b, lo, hi)
  PROVE  Has(s, p, n, w, m)
<1>1. PICK y \in ItemsIn(s, p) : w \in y.writes /\ y.step = n /\ y.place <= k
  BY DEF Has
<1>2. y.place \in Int
  BY DEF Piece
<1>3. y.place <= m
  BY <1>1, <1>2
<1> QED BY <1>1, <1>3 DEF Has

\* a replay copies the inputs, copies one plan, and runs every layer
LEMMA ReplayPieces ==
  ASSUME NEW n \in 1 .. MaxSteps, NEW b \in BatchTypes, CanUseCudaGraph(b)
  PROVE  /\ Piece("E", Replay(n), n, b, 3, 2 * Layers + 3) /\ Apart("S", Replay(n))
         /\ Has("E", Replay(n), n, At("captured", n), 3)
         /\ Has("E", Replay(n), n, Plan(n, 1), 4)
         /\ Has("E", Replay(n), n, At("logits", n), 2 * Layers + 3)
<1> DEFINE p == Replay(n)
           R == {At("captured", n)}
           hi == 2 * Layers + 3
<1>0. R \cup {Plan(n, 1)} = {At("captured", n), Plan(n, 1)}
  OBVIOUS
<1>1. /\ DOMAIN p = 1 .. 3
      /\ p[1] = Enqueue("E", Run(Inputs(n) \cup Metadata(n), {At("captured", n)}))
      /\ p[2] = Stage(n, 1)
      /\ p[3] = RunLayer(n, R, 1)
  BY <1>0 DEF Replay, RunLayer
<1>2. 1 \in 1 .. Layers /\ R \in SUBSET Accesses /\ hi \in Int /\ 5 <= hi
  <2>1. 1 \in 1 .. Layers /\ hi \in Int /\ 5 <= hi
    BY RingSlots
  <2>2. R \in SUBSET Accesses
    BY StepsBefore, AccessesAre
  <2> QED BY <2>1, <2>2
<1> HIDE DEF p
<1>3. Does("E", p[1], n, b, 3, At("captured", n))
  BY <1>1, EngineCommands
<1>4. Does("E", p[2], n, b, 4, Plan(n, 1))
  <2>1. 2 * 1 + 2 = 4
    OBVIOUS
  <2> QED BY <1>1, <1>2, <2>1, StageDoes
<1>5. Does("E", p[3], n, b, 5, At("logits", n))
  <2>1. 2 * 1 + 3 = 5
    OBVIOUS
  <2>2. Does("E", RunLayer(n, R, 1), n, b, 2 * 1 + 3, At("logits", n))
    BY <1>2, LayerDoes
  <2> QED BY <1>1, <2>1, <2>2
<1> HIDE DEF R, hi
<1>6. p \in Programs /\ n \in Nat /\ "S" \in Streams /\ "E" \in Streams /\ Other("E") = "S"
  BY ForwardIs, OtherIs DEF Streams, p
<1>7. /\ Piece("E", <<p[1]>>, n, b, 3, 3) /\ Piece("E", <<p[2]>>, n, b, 4, 4)
      /\ Piece("E", <<p[3]>>, n, b, 5, 5)
  BY <1>3, <1>4, <1>5, <1>6, DoesPieces
<1>8. Places("E", p, n, b, <<3, 4, 5>>)
  BY <1>1, <1>7 DEF Places
<1>9. Piece("E", p, n, b, 3, hi)
  <2>1. \A i \in DOMAIN p : <<3, 4, 5>>[i] \in 3 .. hi
    BY <1>1, <1>2
  <2> QED BY <1>2, <1>6, <1>8, <2>1, PieceByPlaces
<1>10. Apart("S", p)
  <2>1. /\ Tame(p[1]) /\ ItemOf("S", p[1]) = Nothing /\ Tame(p[2]) /\ ItemOf("S", p[2]) = Nothing
        /\ Tame(p[3]) /\ ItemOf("S", p[3]) = Nothing
    BY <1>3, <1>4, <1>5, <1>6, DoesPieces
  <2> QED BY <1>1, <2>1 DEF Apart, Silent
<1>11. /\ Has("E", p, n, At("captured", n), 3) /\ Has("E", p, n, Plan(n, 1), 4)
       /\ Has("E", p, n, At("logits", n), 5)
  BY <1>1, <1>3, <1>4, <1>5, HasAt
<1>12. Has("E", p, n, At("logits", n), hi)
  BY <1>2, <1>9, <1>11, HasEarlier
<1> QED BY <1>9, <1>10, <1>11, <1>12 DEF p, hi

\* eager layers run on plans copied just before them
LEMMA LayerPieces ==
  ASSUME NEW n \in 1 .. MaxSteps, NEW b \in BatchTypes
  PROVE  /\ Piece("E", EagerLayers(n, b), n, b, 3, 2 * Layers + 3)
         /\ Apart("S", EagerLayers(n, b))
         /\ \A use \in 1 .. Layers : use = 1 \/ b.phase = "prefill" =>
              Has("E", EagerLayers(n, b), n, Plan(n, use), 2 * use + 2)
         /\ Has("E", EagerLayers(n, b), n, At("logits", n), 2 * Layers + 3)
<1> DEFINE p == EagerLayers(n, b)
           R == Inputs(n) \cup Metadata(n)
           hi == 2 * Layers + 3
           L(use) == RunLayer(n, R, use)
<1>1. R \in SUBSET Accesses
  BY StepsBefore, AccessesAre DEF Inputs, Metadata
<1>2. p \in Programs /\ n \in Nat /\ "S" \in Streams /\ "E" \in Streams /\ Other("E") = "S"
      /\ hi \in Int
  BY ForwardIs, OtherIs, RingSlots DEF Streams
<1>3. \A use \in 1 .. Layers :
        /\ Does("E", Stage(n, use), n, b, 2 * use + 2, Plan(n, use))
        /\ use = 1 \/ b.phase = "prefill" => Does("E", L(use), n, b, 2 * use + 3, At("logits", n))
  BY <1>1, StageDoes, LayerDoes
<1>4. CASE b.phase = "prefill"
  <2>1. p = [i \in 1 .. 2 * Layers |-> IF i % 2 = 1 THEN Stage(n, (i + 1) \div 2)
                                       ELSE L(i \div 2)]
    BY <1>4 DEF EagerLayers, RunLayer
  <2> HIDE DEF p, L, R
  <2> DEFINE W(i) == IF i % 2 = 1 THEN Plan(n, (i + 1) \div 2) ELSE At("logits", n)
  <2>2. ASSUME NEW i \in 1 .. 2 * Layers
        PROVE  Does("E", p[i], n, b, i + 3, W(i))
    <3>1. CASE i % 2 = 1
      <4>1. (i + 1) \div 2 \in 1 .. Layers /\ 2 * ((i + 1) \div 2) + 2 = i + 3
        BY <3>1, RingSlots
      <4>2. p[i] = Stage(n, (i + 1) \div 2) /\ W(i) = Plan(n, (i + 1) \div 2)
        BY <2>1, <3>1
      <4> HIDE DEF W
      <4>3. Does("E", Stage(n, (i + 1) \div 2), n, b, 2 * ((i + 1) \div 2) + 2,
                 Plan(n, (i + 1) \div 2))
        BY <1>3, <4>1
      <4> QED BY <4>1, <4>2, <4>3
    <3>2. CASE i % 2 # 1
      <4>1. i \div 2 \in 1 .. Layers /\ 2 * (i \div 2) + 3 = i + 3
        BY <3>2, RingSlots
      <4>2. p[i] = L(i \div 2) /\ W(i) = At("logits", n)
        BY <2>1, <3>2
      <4> HIDE DEF W
      <4>3. Does("E", L(i \div 2), n, b, 2 * (i \div 2) + 3, At("logits", n))
        BY <1>3, <1>4, <4>1
      <4> QED BY <4>1, <4>2, <4>3
    <3> QED BY <3>1, <3>2
  <2>3. DOMAIN p = 1 .. 2 * Layers /\ 2 * Layers \in Nat /\ \A i \in 1 .. 2 * Layers : i \in Int
    BY <2>1, RingSlots
  <2> DEFINE f == [i \in 1 .. 2 * Layers |-> i + 3]
  <2>4. \A i \in 1 .. 2 * Layers : f[i] = i + 3 /\ f[i] \in 3 .. hi
    BY RingSlots
  <2>5. DOMAIN f = 1 .. 2 * Layers
    OBVIOUS
  <2> HIDE DEF f, W, hi
  <2>6. Places("E", p, n, b, f)
    <3>1. ASSUME NEW i \in DOMAIN p
          PROVE  f[i] \in Int /\ Piece("E", <<p[i]>>, n, b, f[i], f[i])
      <4>1. f[i] = i + 3 /\ Does("E", p[i], n, b, i + 3, W(i)) /\ i + 3 \in Int
        BY <2>2, <2>3, <2>4
      <4> QED BY <1>2, <4>1, DoesPieces
    <3>2. \A i, j \in DOMAIN p : i < j => f[i] <= f[j]
      BY <2>3, <2>4
    <3> QED BY <2>3, <2>5, <3>1, <3>2 DEF Places
  <2>7. Piece("E", p, n, b, 3, hi)
    BY <1>2, <2>3, <2>4, <2>6, PieceByPlaces
  <2>8. Apart("S", p)
    <3>1. \A i \in DOMAIN p : Tame(p[i]) /\ ItemOf("S", p[i]) = Nothing
      BY <1>2, <2>2, <2>3, DoesPieces
    <3> QED BY <3>1 DEF Apart, Silent
  <2>9. ASSUME NEW use \in 1 .. Layers
        PROVE  Has("E", p, n, Plan(n, use), 2 * use + 2)
    <3> DEFINE i == 2 * use - 1
    <3>1. i \in 1 .. 2 * Layers /\ i % 2 = 1 /\ (i + 1) \div 2 = use /\ i + 3 = 2 * use + 2
      BY RingSlots
    <3> HIDE DEF i
    <3>2. W(i) = Plan(n, use)
      BY <3>1 DEF W
    <3>3. i \in DOMAIN p /\ Does("E", p[i], n, b, i + 3, Plan(n, use)) /\ i + 3 \in Int
      BY <2>2, <2>3, <3>1, <3>2
    <3>4. Has("E", p, n, Plan(n, use), i + 3)
      BY <3>3, HasAt
    <3> QED BY <3>1, <3>4
  <2>10. Has("E", p, n, At("logits", n), hi)
    <3> DEFINE i == 2 * Layers
    <3>1. i \in 1 .. 2 * Layers /\ i % 2 # 1 /\ i + 3 = hi
      BY RingSlots DEF hi
    <3> HIDE DEF i
    <3>2. W(i) = At("logits", n)
      BY <3>1 DEF W
    <3>3. i \in DOMAIN p /\ Does("E", p[i], n, b, i + 3, At("logits", n)) /\ i + 3 \in Int
      BY <2>2, <2>3, <3>1, <3>2
    <3>4. Has("E", p, n, At("logits", n), i + 3)
      BY <3>3, HasAt
    <3> QED BY <3>1, <3>4
  <2> QED BY <2>7, <2>8, <2>9, <2>10 DEF p, hi
<1>5. CASE b.phase # "prefill"
  <2> DEFINE d == [l \in 1 .. Layers |-> L(1)]
             one == <<Stage(n, 1)>>
  <2>1. p = one \o d
    BY <1>5 DEF EagerLayers, RunLayer
  <2>2. 1 \in 1 .. Layers /\ Layers \in Nat /\ 2 * 1 + 2 = 4 /\ 2 * 1 + 3 = 5 /\ 5 <= hi /\ 4 <= hi
    BY RingSlots
  <2>3. DOMAIN one = {1} /\ one[1] = Stage(n, 1) /\ Len(one) = 1
    OBVIOUS
  <2> HIDE DEF p, L, R, hi
  <2>4. /\ DOMAIN p = 1 .. Layers + 1 /\ p[1] = Stage(n, 1)
        /\ \A i \in 2 .. Layers + 1 : p[i] = L(1)
    <3> DEFINE X == {L(1), Stage(n, 1)}
    <3>1. d \in Seq(X) /\ one \in Seq(X) /\ Len(d) = Layers
          /\ \A i \in 1 .. Layers : d[i] = L(1)
      BY <2>2
    <3> HIDE DEF d, one, X
    <3>2. /\ DOMAIN p = 1 .. 1 + Layers /\ p[1] = one[1]
          /\ \A i \in 1 .. Layers : p[1 + i] = d[i]
      <4>1. DOMAIN (one \o d) = 1 .. 1 + Layers /\ (one \o d)[1] = one[1]
            /\ \A i \in 1 .. Layers : (one \o d)[1 + i] = d[i]
        <5>1. /\ DOMAIN (one \o d) = 1 .. Len(one) + Len(d)
              /\ \A i \in 1 .. Len(one) : (one \o d)[i] = one[i]
              /\ \A i \in 1 .. Len(d) : (one \o d)[Len(one) + i] = d[i]
          BY <3>1
        <5> QED BY <2>2, <2>3, <3>1, <5>1
      <4> QED BY <2>1, <4>1
    <3>3. \A i \in 2 .. Layers + 1 : i - 1 \in 1 .. Layers /\ 1 + (i - 1) = i
      BY <2>2
    <3>4. Layers + 1 = 1 + Layers
      BY <2>2
    <3>5. \A i \in 2 .. Layers + 1 : p[i] = L(1)
      BY <3>1, <3>2, <3>3
    <3> QED BY <2>3, <3>2, <3>4, <3>5
  <2>5. /\ Does("E", p[1], n, b, 4, Plan(n, 1))
        /\ \A i \in 2 .. Layers + 1 : Does("E", p[i], n, b, 5, At("logits", n))
    <3>1. Does("E", Stage(n, 1), n, b, 2 * 1 + 2, Plan(n, 1))
          /\ Does("E", L(1), n, b, 2 * 1 + 3, At("logits", n))
      BY <1>3, <2>2
    <3> QED BY <2>2, <2>4, <3>1
  <2> DEFINE f == [i \in 1 .. Layers + 1 |-> IF i = 1 THEN 4 ELSE 5]
  <2>6. /\ \A i \in 1 .. Layers + 1 : f[i] = (IF i = 1 THEN 4 ELSE 5) /\ f[i] \in 3 .. hi
        /\ DOMAIN f = 1 .. Layers + 1
    BY <1>2, <2>2
  <2> HIDE DEF f, d, one
  <2>7. \A i \in DOMAIN p : i = 1 \/ i \in 2 .. Layers + 1
    BY <2>2, <2>4
  <2>8. Places("E", p, n, b, f)
    <3>1. ASSUME NEW i \in DOMAIN p
          PROVE  f[i] \in Int /\ Piece("E", <<p[i]>>, n, b, f[i], f[i])
      <4>1. CASE i = 1
        <5>1. f[i] = 4
          BY <2>4, <2>6, <4>1
        <5> QED BY <1>2, <2>5, <4>1, <5>1, DoesPieces
      <4>2. CASE i \in 2 .. Layers + 1
        <5>1. f[i] = 5
          BY <2>2, <2>4, <2>6, <4>2
        <5> QED BY <1>2, <2>5, <4>2, <5>1, DoesPieces
      <4> QED BY <2>7, <4>1, <4>2
    <3>2. \A i, j \in DOMAIN p : i < j => f[i] <= f[j]
      BY <2>2, <2>4, <2>6
    <3> QED BY <2>4, <2>6, <3>1, <3>2 DEF Places
  <2>9. Piece("E", p, n, b, 3, hi)
    <3>1. \A i \in DOMAIN p : f[i] \in 3 .. hi
      BY <2>4, <2>6
    <3> QED BY <1>2, <2>8, <3>1, PieceByPlaces
  <2>10. Apart("S", p)
    <3>1. \A i \in DOMAIN p : Tame(p[i]) /\ ItemOf("S", p[i]) = Nothing
      BY <1>2, <2>5, <2>7, DoesPieces
    <3> QED BY <3>1 DEF Apart, Silent
  <2>11. Has("E", p, n, Plan(n, 1), 4)
    <3>1. 1 \in DOMAIN p
      BY <2>2, <2>4
    <3> QED BY <2>5, <3>1, HasAt
  <2>12. Has("E", p, n, At("logits", n), hi)
    <3>1. 2 \in DOMAIN p /\ 2 \in 2 .. Layers + 1
      BY <2>2, <2>4
    <3>2. Has("E", p, n, At("logits", n), 5)
      BY <2>5, <3>1, HasAt
    <3> QED BY <1>2, <2>2, <2>9, <3>2, HasEarlier
  <2> QED BY <1>5, <2>2, <2>9, <2>10, <2>11, <2>12 DEF p, hi
<1> QED BY <1>4, <1>5

\* the sampler runs after the layers
LEMMA SamplePieces ==
  ASSUME NEW n \in 1 .. MaxSteps, NEW b \in BatchTypes
  PROVE  /\ Piece("E", Sample(n, b), n, b, 2 * Layers + 4, 2 * Layers + 4)
         /\ Apart("S", Sample(n, b))
         /\ Has("E", Sample(n, b), n, At("sampled", n), 2 * Layers + 4)
<1> DEFINE p == Sample(n, b)
           k == 2 * Layers + 4
           o == Enqueue("E", Run({At("logits", n)}
                       \cup IF b.sampling = "greedy" THEN {} ELSE {Arguments(n)},
                     {At("sampled", n)}))
           rest == IF b.sampling = "filtered" THEN <<Drain("E")>> ELSE <<>>
<1>1. p \in Programs /\ n \in Nat /\ "S" \in Streams /\ "E" \in Streams /\ Other("E") = "S"
      /\ k \in Int
  BY ForwardIs, OtherIs, RingSlots DEF Streams
<1>2. p = <<o>> \o rest
  BY DEF Sample
<1> HIDE DEF o
<1>3. /\ p[1] = o /\ 1 \in DOMAIN p
      /\ \A i \in DOMAIN p : i = 1 \/ (i = 2 /\ p[i] = Drain("E"))
  BY <1>2
<1>4. Does("E", p[1], n, b, k, At("sampled", n))
  BY <1>3, SampleDoes DEF o
<1>5. Quiet(Drain("E"))
  BY QuietAre
<1> HIDE DEF p, k, rest
<1> DEFINE f == [i \in DOMAIN p |-> k]
<1>6. Places("E", p, n, b, f)
  <2>1. \A i \in DOMAIN p : Piece("E", <<p[i]>>, n, b, k, k)
    <3>1. Piece("E", <<p[1]>>, n, b, k, k)
      BY <1>1, <1>4, DoesPieces
    <3>2. Piece("E", <<Drain("E")>>, n, b, k, k)
      BY <1>1, <1>5, QuietPiece
    <3> QED BY <1>3, <3>1, <3>2
  <2> QED BY <1>1, <2>1 DEF Places
<1>7. Piece("E", p, n, b, k, k)
  <2>1. \A i \in DOMAIN p : f[i] \in k .. k
    BY <1>1
  <2> QED BY <1>1, <1>6, <2>1, PieceByPlaces
<1>8. Apart("S", p)
  <2>1. Tame(p[1]) /\ ItemOf("S", p[1]) = Nothing
    BY <1>1, <1>4, DoesPieces
  <2>2. Tame(Drain("E")) /\ ItemOf("S", Drain("E")) = Nothing
    BY <1>1, <1>5 DEF Quiet
  <2> QED BY <1>3, <2>1, <2>2 DEF Apart, Silent
<1>9. Has("E", p, n, At("sampled", n), k)
  BY <1>1, <1>3, <1>4, HasAt
<1> QED BY <1>7, <1>8, <1>9 DEF p, k

\* an event of a program is among its items
LEMMA EndOf ==
  ASSUME NEW s, NEW p, NEW i \in DOMAIN p, NEW n \in Nat
  PROVE  /\ ItemOf(s, p[i]) = End(n) => End(n) \in ItemsIn(s, p)
         /\ ItemOf(s, p[i]) = Gate(n) => Gate(n) \in ItemsIn(s, p)
BY ItemThere, GatesAre

\* the answer and the token pool are written before the forward is recorded
LEMMA PublishPieces ==
  ASSUME NEW n \in 1 .. MaxSteps, NEW b \in BatchTypes
  PROVE  /\ Piece("E", Publish(n), n, b, 2 * Layers + 5, 2 * Layers + 6)
         /\ Apart("S", Publish(n))
         /\ Has("E", Publish(n), n, Answer(n), 2 * Layers + 5)
         /\ Has("E", Publish(n), n, At("tokenPool", n), 2 * Layers + 5)
         /\ End(n) \in ItemsIn("E", Publish(n))
<1> DEFINE p == Publish(n)
           k == 2 * Layers + 5
           hi == 2 * Layers + 6
<1>1. p \in Programs /\ n \in Nat /\ "S" \in Streams /\ "E" \in Streams /\ Other("E") = "S"
      /\ k \in Int /\ hi \in Int /\ k <= hi /\ n \in 1 .. MaxSteps + 1 /\ n <= MaxSteps
  BY ForwardIs, OtherIs, RingSlots DEF Streams
<1>2. /\ DOMAIN p = 1 .. 3
      /\ p[1] = Enqueue("E", Run({At("sampled", n)}, {Answer(n)}))
      /\ p[2] = Enqueue("E", Run({At("sampled", n), At("write", n)}, {At("tokenPool", n)}))
      /\ p[3] = Enqueue("E", Record(ForwardDone(n)))
  BY DEF Publish
<1> HIDE DEF p
<1>3. /\ Does("E", p[1], n, b, k, Answer(n)) /\ Does("E", p[2], n, b, k, At("tokenPool", n))
  BY <1>2, EngineCommands
<1>4. /\ ItemOf("E", p[3]) = End(n) /\ ItemOf("S", p[3]) = Nothing /\ Tame(p[3])
      /\ Piece("E", <<p[3]>>, n, b, hi, hi)
  BY <1>1, <1>2, EventsAre, GatePieces
<1> HIDE DEF k, hi
<1>5. Places("E", p, n, b, <<k, k, hi>>)
  <2> DEFINE f == <<k, k, hi>>
  <2>1. DOMAIN f = 1 .. 3 /\ f[1] = k /\ f[2] = k /\ f[3] = hi
    OBVIOUS
  <2> HIDE DEF f
  <2>2. Piece("E", <<p[1]>>, n, b, k, k) /\ Piece("E", <<p[2]>>, n, b, k, k)
    BY <1>1, <1>3, DoesPieces
  <2>3. \A i \in 1 .. 3 : i = 1 \/ i = 2 \/ i = 3
    OBVIOUS
  <2>4. \A i \in 1 .. 3 : f[i] \in Int /\ Piece("E", <<p[i]>>, n, b, f[i], f[i])
    BY <1>1, <1>4, <2>1, <2>2, <2>3
  <2>5. \A i, j \in 1 .. 3 : i < j => f[i] <= f[j]
    BY <1>1, <2>1
  <2>6. Places("E", p, n, b, f)
    BY <1>2, <2>1, <2>4, <2>5 DEF Places
  <2> QED BY <2>6 DEF f
<1>6. Piece("E", p, n, b, k, hi)
  <2>1. \A i \in DOMAIN p : <<k, k, hi>>[i] \in k .. hi
    BY <1>1, <1>2
  <2> QED BY <1>1, <1>5, <2>1, PieceByPlaces
<1>7. Apart("S", p)
  <2>1. /\ Tame(p[1]) /\ ItemOf("S", p[1]) = Nothing /\ Tame(p[2]) /\ ItemOf("S", p[2]) = Nothing
    BY <1>1, <1>3, DoesPieces
  <2> QED BY <1>2, <1>4, <2>1 DEF Apart, Silent
<1>8. Has("E", p, n, Answer(n), k) /\ Has("E", p, n, At("tokenPool", n), k)
  BY <1>1, <1>2, <1>3, HasAt
<1>9. End(n) \in ItemsIn("E", p)
  BY <1>1, <1>2, <1>4, EndOf
<1> QED BY <1>6, <1>7, <1>8, <1>9 DEF p, k, hi

\* the preparation is recorded on one stream and waited for on the other
LEMMA HandoverPieces ==
  ASSUME NEW n \in 1 .. MaxSteps, NEW b \in BatchTypes
  PROVE  /\ Piece("S", Handover(n), n, b, 2 * Layers + 6, 2 * Layers + 6)
         /\ Piece("E", Handover(n), n, b, 2, 2)
         /\ End(n) \in ItemsIn("S", Handover(n)) /\ Gate(n) \in ItemsIn("E", Handover(n))
         /\ DOMAIN Handover(n) = 1 .. 2 /\ ItemOf("S", Handover(n)[2]) = Nothing
<1> DEFINE p == Handover(n)
           hi == 2 * Layers + 6
<1>1. p \in Programs /\ n \in Nat /\ hi \in Int /\ n \in 1 .. MaxSteps + 1 /\ n <= MaxSteps
  BY ForwardIs, RingSlots
<1>2. /\ DOMAIN p = 1 .. 2 /\ p[1] = Enqueue("S", Record(PrepareDone(n)))
      /\ p[2] = Enqueue("E", Wait(PrepareDone(n)))
  BY DEF Handover
<1> HIDE DEF p
<1>3. /\ ItemOf("S", p[1]) = End(n) /\ ItemOf("E", p[1]) = Nothing /\ Tame(p[1])
      /\ ItemOf("E", p[2]) = Gate(n) /\ ItemOf("S", p[2]) = Nothing /\ Tame(p[2])
      /\ Piece("S", <<p[1]>>, n, b, hi, hi) /\ Piece("E", <<p[2]>>, n, b, 2, 2)
  BY <1>1, <1>2, EventsAre, GatePieces
<1> HIDE DEF hi
<1>4. Piece("S", <<p[2]>>, n, b, hi, hi) /\ Piece("E", <<p[1]>>, n, b, 2, 2)
  <2>1. 2 \in Int
    OBVIOUS
  <2> QED BY <1>1, <1>3, <2>1, PieceOne
<1>5. Places("S", p, n, b, <<hi, hi>>)
  BY <1>1, <1>2, <1>3, <1>4 DEF Places
<1>6. Places("E", p, n, b, <<2, 2>>)
  BY <1>2, <1>3, <1>4 DEF Places
<1>7. Piece("S", p, n, b, hi, hi)
  <2>1. \A i \in DOMAIN p : <<hi, hi>>[i] \in hi .. hi
    BY <1>1, <1>2
  <2> QED BY <1>1, <1>5, <2>1, PieceByPlaces
<1>8. Piece("E", p, n, b, 2, 2)
  <2>1. \A i \in DOMAIN p : <<2, 2>>[i] \in 2 .. 2
    BY <1>2
  <2> QED BY <1>1, <1>6, <2>1, PieceByPlaces
<1>9. End(n) \in ItemsIn("S", p) /\ Gate(n) \in ItemsIn("E", p)
  BY <1>1, <1>2, <1>3, EndOf
<1> QED BY <1>2, <1>3, <1>7, <1>8, <1>9 DEF p, hi

\* all that _prepare_batch enqueues on the two streams
LEMMA PreparePieces ==
  ASSUME NEW n \in 1 .. MaxSteps, NEW b \in BatchTypes
  PROVE  LET p == PrepareBatch(n, b)
         IN  /\ Piece("S", p, n, b, 3, 5) /\ Piece("E", p, n, b, 0, 1)
             /\ Has("S", p, n, At("pageWrite", n), 3) /\ Has("S", p, n, At("positions", n), 4)
             /\ Has("S", p, n, At("write", n), 4) /\ Has("S", p, n, At("outLoc", n), 5)
             /\ Has("S", p, n, At("inputIds", n), 5)
             /\ b.sampling # "greedy" => Has("S", p, n, Arguments(n), 5)
             /\ Has("E", p, n, At("decode", n), 0) /\ Has("E", p, n, At("indices", n), 1)
<1> DEFINE p1 == WritePageTable(n)
           p2 == PrepareInputs(n)
           p3 == PrepareMetadata(n, b)
           p4 == PrepareSampling(n, b)
           q2 == p1 \o p2
           q3 == q2 \o p3
           q4 == q3 \o p4
<1>1. PrepareBatch(n, b) = q4
  BY PrepareIs
<1>2. /\ p1 \in Programs /\ p2 \in Programs /\ p3 \in Programs /\ p4 \in Programs
      /\ n \in Nat
  BY PrepareIs
<1>3. /\ Piece("S", p1, n, b, 3, 4) /\ Apart("E", p1) /\ Has("S", p1, n, At("pageWrite", n), 3)
  BY PageTablePieces
<1>4. /\ Piece("S", p2, n, b, 4, 5) /\ Apart("E", p2)
      /\ Has("S", p2, n, At("positions", n), 4) /\ Has("S", p2, n, At("write", n), 4)
      /\ Has("S", p2, n, At("outLoc", n), 5) /\ Has("S", p2, n, At("inputIds", n), 5)
  BY InputPieces
<1>5. /\ Piece("E", p3, n, b, 0, 1) /\ Apart("S", p3)
      /\ Has("E", p3, n, At("decode", n), 0) /\ Has("E", p3, n, At("indices", n), 1)
  BY MetadataPieces
<1>6. /\ Piece("S", p4, n, b, 5, 5) /\ Apart("E", p4)
      /\ b.sampling # "greedy" => Has("S", p4, n, Arguments(n), 5)
  BY SamplingPieces
<1> HIDE DEF p1, p2, p3, p4
<1>7. q2 \in Programs /\ Piece("S", q2, n, b, 3, 5) /\ Apart("E", q2)
  BY <1>2, <1>3, <1>4, PieceJoin, ApartJoin, Sequenced
<1>8. /\ Has("S", q2, n, At("pageWrite", n), 3) /\ Has("S", q2, n, At("positions", n), 4)
      /\ Has("S", q2, n, At("write", n), 4) /\ Has("S", q2, n, At("outLoc", n), 5)
      /\ Has("S", q2, n, At("inputIds", n), 5)
  BY <1>2, <1>3, <1>4, HasJoin
<1> HIDE DEF q2
<1>9. Piece("S", p3, n, b, 5, 5) /\ Piece("E", q2, n, b, 0, 0) /\ Piece("E", p4, n, b, 1, 1)
  BY <1>5, <1>6, <1>7, ApartPiece
<1>10. q3 \in Programs /\ Piece("S", q3, n, b, 3, 5) /\ Piece("E", q3, n, b, 0, 1)
  <2>1. Piece("S", q3, n, b, 3, 5)
    BY <1>2, <1>7, <1>9, PieceJoin
  <2>2. Piece("E", q3, n, b, 0, 1)
    BY <1>2, <1>5, <1>7, <1>9, PieceJoin
  <2> QED BY <1>2, <1>7, <2>1, <2>2, Sequenced
<1>11. /\ Has("S", q3, n, At("pageWrite", n), 3) /\ Has("S", q3, n, At("positions", n), 4)
       /\ Has("S", q3, n, At("write", n), 4) /\ Has("S", q3, n, At("outLoc", n), 5)
       /\ Has("S", q3, n, At("inputIds", n), 5)
       /\ Has("E", q3, n, At("decode", n), 0) /\ Has("E", q3, n, At("indices", n), 1)
  BY <1>2, <1>5, <1>7, <1>8, HasJoin
<1> HIDE DEF q3
<1>12. Piece("S", q4, n, b, 3, 5)
  BY <1>2, <1>6, <1>10, PieceJoin
<1>13. Piece("E", q4, n, b, 0, 1)
  BY <1>2, <1>9, <1>10, PieceJoin
<1>14. /\ Has("S", q4, n, At("pageWrite", n), 3) /\ Has("S", q4, n, At("positions", n), 4)
       /\ Has("S", q4, n, At("write", n), 4) /\ Has("S", q4, n, At("outLoc", n), 5)
       /\ Has("S", q4, n, At("inputIds", n), 5)
       /\ b.sampling # "greedy" => Has("S", q4, n, Arguments(n), 5)
       /\ Has("E", q4, n, At("decode", n), 0) /\ Has("E", q4, n, At("indices", n), 1)
  BY <1>2, <1>6, <1>10, <1>11, HasJoin
<1> QED BY <1>1, <1>12, <1>13, <1>14

\* the plans of a step that are staged
Planned(b, use) == use = 1 \/ b.phase = "prefill"

\* the layers of a forward, replayed or eager
LEMMA WorkPieces ==
  ASSUME NEW n \in 1 .. MaxSteps, NEW b \in BatchTypes
  PROVE  LET p == IF CanUseCudaGraph(b) THEN Replay(n) ELSE EagerLayers(n, b)
         IN  /\ p \in Programs
             /\ Piece("E", p, n, b, 3, 2 * Layers + 3) /\ Apart("S", p)
             /\ CanUseCudaGraph(b) => Has("E", p, n, At("captured", n), 3)
             /\ \A use \in 1 .. Layers : Planned(b, use) => Has("E", p, n, Plan(n, use), 2 * use + 2)
             /\ Has("E", p, n, At("logits", n), 2 * Layers + 3)
<1>1. CASE CanUseCudaGraph(b)
  <2>1. b.phase # "prefill" /\ 2 * 1 + 2 = 4
    BY <1>1 DEF CanUseCudaGraph
  <2> QED BY <1>1, <2>1, ReplayPieces, ForwardIs DEF Planned
<1>2. CASE ~CanUseCudaGraph(b)
  BY <1>2, LayerPieces, ForwardIs DEF Planned
<1> QED BY <1>1, <1>2

\* all that _forward enqueues on the two streams
LEMMA ForwardPieces ==
  ASSUME NEW n \in 1 .. MaxSteps, NEW b \in BatchTypes
  PROVE  LET p == Forward(n, b)
         IN  /\ Piece("S", p, n, b, 2 * Layers + 6, 2 * Layers + 6)
             /\ Piece("E", p, n, b, 2, 2 * Layers + 6)
             /\ CanUseCudaGraph(b) => Has("E", p, n, At("captured", n), 3)
             /\ \A use \in 1 .. Layers : Planned(b, use) => Has("E", p, n, Plan(n, use), 2 * use + 2)
             /\ Has("E", p, n, At("logits", n), 2 * Layers + 3)
             /\ Has("E", p, n, At("sampled", n), 2 * Layers + 4)
             /\ Has("E", p, n, Answer(n), 2 * Layers + 5)
             /\ Has("E", p, n, At("tokenPool", n), 2 * Layers + 5)
             /\ End(n) \in ItemsIn("S", p) /\ End(n) \in ItemsIn("E", p)
             /\ Gate(n) \in ItemsIn("E", p)
             /\ \A i \in DOMAIN p : i > 1 => ItemOf("S", p[i]) = Nothing
<1> DEFINE p1 == Handover(n)
           p2 == IF CanUseCudaGraph(b) THEN Replay(n) ELSE EagerLayers(n, b)
           p3 == Sample(n, b)
           p4 == Publish(n)
           q2 == p1 \o p2
           q3 == q2 \o p3
           q4 == q3 \o p4
           hi == 2 * Layers + 6
           m3 == 2 * Layers + 3
           m4 == 2 * Layers + 4
           m5 == 2 * Layers + 5
<1>1. Forward(n, b) = q4
  BY ForwardIs
<1>2. /\ p1 \in Programs /\ p2 \in Programs /\ p3 \in Programs /\ p4 \in Programs
      /\ n \in Nat
  BY ForwardIs
<1>3. /\ Piece("S", p1, n, b, hi, hi) /\ Piece("E", p1, n, b, 2, 2)
      /\ End(n) \in ItemsIn("S", p1) /\ Gate(n) \in ItemsIn("E", p1)
      /\ DOMAIN p1 = 1 .. 2 /\ ItemOf("S", p1[2]) = Nothing
  BY HandoverPieces
<1>4. /\ Piece("E", p2, n, b, 3, m3) /\ Apart("S", p2)
      /\ CanUseCudaGraph(b) => Has("E", p2, n, At("captured", n), 3)
      /\ \A use \in 1 .. Layers : Planned(b, use) => Has("E", p2, n, Plan(n, use), 2 * use + 2)
      /\ Has("E", p2, n, At("logits", n), m3)
  BY WorkPieces
<1>5. /\ Piece("E", p3, n, b, m4, m4) /\ Apart("S", p3)
      /\ Has("E", p3, n, At("sampled", n), m4)
  BY SamplePieces
<1>6. /\ Piece("E", p4, n, b, m5, hi) /\ Apart("S", p4)
      /\ Has("E", p4, n, Answer(n), m5) /\ Has("E", p4, n, At("tokenPool", n), m5)
      /\ End(n) \in ItemsIn("E", p4)
  BY PublishPieces
<1>7. /\ hi \in Int /\ m3 \in Int /\ m4 \in Int /\ m5 \in Int
      /\ 3 <= m3 /\ m3 <= m4 /\ m4 <= m5 /\ m5 <= hi /\ 2 <= m3 /\ 2 <= m4 /\ 2 <= hi
  BY RingSlots
<1> HIDE DEF p1, p2, p3, p4, hi, m3, m4, m5
<1>8. /\ Piece("S", p2, n, b, hi, hi) /\ Piece("S", p3, n, b, hi, hi)
      /\ Piece("S", p4, n, b, hi, hi)
  BY <1>4, <1>5, <1>6, ApartPiece
<1>9. q2 \in Programs /\ Piece("S", q2, n, b, hi, hi) /\ Piece("E", q2, n, b, 2, m3)
  <2>1. Piece("S", q2, n, b, hi, hi)
    BY <1>2, <1>3, <1>7, <1>8, PieceJoin
  <2>2. Piece("E", q2, n, b, 2, m3)
    BY <1>2, <1>3, <1>4, <1>7, PieceJoin
  <2> QED BY <1>2, <2>1, <2>2, Sequenced
<1>10. /\ CanUseCudaGraph(b) => Has("E", q2, n, At("captured", n), 3)
       /\ \A use \in 1 .. Layers : Planned(b, use) => Has("E", q2, n, Plan(n, use), 2 * use + 2)
       /\ Has("E", q2, n, At("logits", n), m3)
       /\ End(n) \in ItemsIn("S", q2) /\ Gate(n) \in ItemsIn("E", q2)
  BY <1>2, <1>3, <1>4, HasJoin, ItemsJoin
<1> HIDE DEF q2
<1>11. q3 \in Programs /\ Piece("S", q3, n, b, hi, hi) /\ Piece("E", q3, n, b, 2, m4)
  <2>1. Piece("S", q3, n, b, hi, hi)
    BY <1>2, <1>9, <1>7, <1>8, PieceJoin
  <2>2. Piece("E", q3, n, b, 2, m4)
    BY <1>2, <1>5, <1>9, <1>7, PieceJoin
  <2> QED BY <1>2, <1>9, <2>1, <2>2, Sequenced
<1>12. /\ CanUseCudaGraph(b) => Has("E", q3, n, At("captured", n), 3)
       /\ \A use \in 1 .. Layers : Planned(b, use) => Has("E", q3, n, Plan(n, use), 2 * use + 2)
       /\ Has("E", q3, n, At("logits", n), m3) /\ Has("E", q3, n, At("sampled", n), m4)
       /\ End(n) \in ItemsIn("S", q3) /\ Gate(n) \in ItemsIn("E", q3)
  BY <1>2, <1>5, <1>9, <1>10, HasJoin, ItemsJoin
<1> HIDE DEF q3
<1>13. Piece("S", q4, n, b, hi, hi)
  BY <1>2, <1>11, <1>7, <1>8, PieceJoin
<1>14. Piece("E", q4, n, b, 2, hi)
  BY <1>2, <1>6, <1>11, <1>7, PieceJoin
<1>15. /\ CanUseCudaGraph(b) => Has("E", q4, n, At("captured", n), 3)
       /\ \A use \in 1 .. Layers : Planned(b, use) => Has("E", q4, n, Plan(n, use), 2 * use + 2)
       /\ Has("E", q4, n, At("logits", n), m3) /\ Has("E", q4, n, At("sampled", n), m4)
       /\ Has("E", q4, n, Answer(n), m5) /\ Has("E", q4, n, At("tokenPool", n), m5)
       /\ End(n) \in ItemsIn("S", q4) /\ Gate(n) \in ItemsIn("E", q4)
       /\ End(n) \in ItemsIn("E", q4)
  BY <1>2, <1>6, <1>11, <1>12, HasJoin, ItemsJoin
<1>16. ASSUME NEW i \in DOMAIN q4, i > 1  PROVE ItemOf("S", q4[i]) = Nothing
  <2> DEFINE T(p) == \A j \in DOMAIN p : j > 1 => ItemOf("S", p[j]) = Nothing
  <2>1. T(p1)
    BY <1>3
  <2>2. ASSUME NEW p \in Programs, NEW q \in Programs, T(p), Apart("S", q), Len(p) > 0
        PROVE  T(p \o q) /\ Len(p \o q) > 0
    <3>1. /\ DOMAIN (p \o q) = 1 .. Len(p) + Len(q) /\ Len(p) \in Nat /\ Len(q) \in Nat
          /\ DOMAIN p = 1 .. Len(p) /\ DOMAIN q = 1 .. Len(q) /\ Len(p \o q) = Len(p) + Len(q)
          /\ \A j \in 1 .. Len(p) : (p \o q)[j] = p[j]
          /\ \A j \in 1 .. Len(q) : (p \o q)[Len(p) + j] = q[j]
      BY DEF Programs
    <3>2. ASSUME NEW j \in DOMAIN (p \o q), j > 1  PROVE ItemOf("S", (p \o q)[j]) = Nothing
      <4>1. CASE j <= Len(p)
        BY <2>2, <3>1, <3>2, <4>1
      <4>2. CASE j > Len(p)
        <5>1. j - Len(p) \in DOMAIN q /\ Len(p) + (j - Len(p)) = j
          BY <3>1, <4>2
        <5>2. (p \o q)[j] = q[j - Len(p)]
          BY <3>1, <5>1
        <5> QED BY <2>2, <5>1, <5>2 DEF Apart, Silent
      <4> QED BY <3>1, <4>1, <4>2
    <3> QED BY <2>2, <3>1, <3>2
  <2>3. Len(p1) > 0
    BY DEF p1, Handover
  <2> HIDE DEF T
  <2>4. T(q2) /\ Len(q2) > 0
    BY <1>2, <1>4, <2>1, <2>2, <2>3 DEF q2
  <2>5. T(q3) /\ Len(q3) > 0
    BY <1>2, <1>5, <1>9, <2>2, <2>4 DEF q3
  <2>6. T(q4)
    BY <1>2, <1>6, <1>11, <2>2, <2>5
  <2> QED BY <1>16, <2>6 DEF T
<1> QED BY <1>1, <1>13, <1>14, <1>15, <1>16 DEF hi, m3, m4, m5

-----------------------------------------------------------------------------
(* The whole program of a step.                                            *)

\* nothing for the scheduler's stream comes after the engine's gate
Ahead(p) ==
  \A i, j \in DOMAIN p :
    i < j /\ ItemOf("E", p[i]) # Nothing /\ ItemOf("E", p[i]).place >= 2 =>
      ItemOf("S", p[j]) = Nothing

\* an operation of two programs is one of the first or of the second
LEMMA JoinIndex ==
  ASSUME NEW p \in Programs, NEW q \in Programs, NEW i \in DOMAIN (p \o q)
  PROVE  /\ Len(p) \in Nat /\ Len(q) \in Nat /\ i \in Nat \ {0} /\ Len(p \o q) = Len(p) + Len(q)
         /\ DOMAIN p = 1 .. Len(p) /\ DOMAIN q = 1 .. Len(q)
         /\ \/ i \in DOMAIN p /\ (p \o q)[i] = p[i] /\ i <= Len(p)
            \/ i > Len(p) /\ i - Len(p) \in DOMAIN q /\ (p \o q)[i] = q[i - Len(p)]
<1>1. /\ DOMAIN (p \o q) = 1 .. Len(p) + Len(q) /\ Len(p) \in Nat /\ Len(q) \in Nat
      /\ DOMAIN p = 1 .. Len(p) /\ DOMAIN q = 1 .. Len(q) /\ Len(p \o q) = Len(p) + Len(q)
      /\ \A j \in 1 .. Len(p) : (p \o q)[j] = p[j]
      /\ \A j \in 1 .. Len(q) : (p \o q)[Len(p) + j] = q[j]
  BY DEF Programs
<1>2. CASE i <= Len(p)
  BY <1>1, <1>2
<1>3. CASE i > Len(p)
  <2>1. i - Len(p) \in DOMAIN q /\ Len(p) + (i - Len(p)) = i
    BY <1>1, <1>3
  <2> QED BY <1>1, <1>3, <2>1
<1> QED BY <1>1, <1>2, <1>3

\* two programs keep the scheduler's stream ahead of the engine's wait
LEMMA AheadJoin ==
  ASSUME NEW p \in Programs, NEW q \in Programs, Ahead(p), Ahead(q),
         \/ Silent("S", q)
         \/ \A x \in ItemsIn("E", p) : ~(x.place >= 2)
  PROVE  Ahead(p \o q)
<1> SUFFICES ASSUME NEW i \in DOMAIN (p \o q), NEW j \in DOMAIN (p \o q), i < j,
                    ItemOf("E", (p \o q)[i]) # Nothing,
                    ItemOf("E", (p \o q)[i]).place >= 2
             PROVE  ItemOf("S", (p \o q)[j]) = Nothing
  BY DEF Ahead
<1>1. /\ Len(p) \in Nat /\ i \in Nat /\ j \in Nat
      /\ \/ i \in DOMAIN p /\ (p \o q)[i] = p[i] /\ i <= Len(p)
         \/ i > Len(p) /\ i - Len(p) \in DOMAIN q /\ (p \o q)[i] = q[i - Len(p)]
      /\ \/ j \in DOMAIN p /\ (p \o q)[j] = p[j] /\ j <= Len(p)
         \/ j > Len(p) /\ j - Len(p) \in DOMAIN q /\ (p \o q)[j] = q[j - Len(p)]
  BY JoinIndex
<1>2. CASE j \in DOMAIN p /\ (p \o q)[j] = p[j] /\ j <= Len(p)
  <2>1. i \in DOMAIN p /\ (p \o q)[i] = p[i]
    BY <1>1, <1>2
  <2> QED BY <1>2, <2>1 DEF Ahead
<1>3. CASE j > Len(p) /\ j - Len(p) \in DOMAIN q /\ (p \o q)[j] = q[j - Len(p)]
  <2>1. CASE Silent("S", q)
    BY <1>3, <2>1 DEF Silent
  <2>2. CASE \A x \in ItemsIn("E", p) : ~(x.place >= 2)
    <3>1. ~(i \in DOMAIN p /\ (p \o q)[i] = p[i])
      BY <2>2, ItemThere
    <3>2. i - Len(p) \in DOMAIN q /\ (p \o q)[i] = q[i - Len(p)]
      BY <1>1, <3>1
    <3>3. i - Len(p) < j - Len(p)
      BY <1>1
    <3> QED BY <1>3, <3>2, <3>3 DEF Ahead
  <2> QED BY <2>1, <2>2
<1> QED BY <1>1, <1>2, <1>3

\* so does a program in which either stream has nothing that matters
LEMMA AheadIf ==
  ASSUME NEW p, Silent("S", p) \/ (\A x \in ItemsIn("E", p) : ~(x.place >= 2))
  PROVE  Ahead(p)
BY ItemThere DEF Ahead, Silent

\* what is nothing to the streams, and the empty program
LEMMA QuietApart ==
  ASSUME NEW s \in Streams
  PROVE  /\ \A o : Quiet(o) => Apart(s, <<o>>)
         /\ Apart(s, <<>>)
<1>1. ASSUME NEW o, Quiet(o)  PROVE Apart(s, <<o>>)
  <2> DEFINE p == <<o>>
  <2>1. DOMAIN p = {1} /\ p[1] = o
    OBVIOUS
  <2> HIDE DEF p
  <2>2. Apart(s, p)
    BY <1>1, <2>1 DEF Apart, Silent, Quiet
  <2> QED BY <2>2 DEF p
<1>2. Apart(s, <<>>)
  BY DEF Apart, Silent
<1> QED BY <1>1, <1>2

\* flush_deferred_resource_actions and schedule_next_batch
LEMMA LeadPieces ==
  ASSUME NEW n \in 1 .. MaxSteps + 1, NEW b \in BatchTypes,
         NEW p \in {ScheduleNextBatch(n, b), FlushDeferred(n, b) \o ScheduleNextBatch(n, b)}
  PROVE  /\ p \in Programs
         /\ Piece("S", p, n, b, 2, 2) /\ Apart("E", p)
         /\ Gate(n) \in ItemsIn("S", p)
         /\ ItemsIn("S", p) \subseteq {Gate(n)}
<1> DEFINE one == <<Enqueue("S", Wait(ForwardDone(n - 1)))>>
           rest == IF b.phase = "prefill" THEN <<Drain("S")>> ELSE <<>>
           q == one \o rest
           r == FlushDeferred(n, b)
<1>1. n \in Nat /\ n - 1 \in Nat /\ n - 1 + 1 = n /\ "S" \in Streams /\ "E" \in Streams
  BY RingSlots DEF Streams
<1>2. one \in Programs /\ rest \in Programs /\ r \in Programs
  <2>1. ForwardDone(n - 1) \in Events
    BY <1>1, OperationsAre
  <2> QED BY <2>1, OperationsAre DEF FlushDeferred, Programs
<1>3. Apart("S", rest) /\ Apart("E", rest) /\ Apart("S", r) /\ Apart("E", r)
  BY <1>1, QuietAre, QuietApart DEF FlushDeferred
<1>4. /\ ItemOf("S", Enqueue("S", Wait(ForwardDone(n - 1)))) = Gate(n)
      /\ ItemOf("E", Enqueue("S", Wait(ForwardDone(n - 1)))) = Nothing
      /\ Tame(Enqueue("S", Wait(ForwardDone(n - 1))))
  BY <1>1, EventsAre
<1>5. Piece("S", one, n, b, 2, 2)
  BY GatePieces
<1>6. Apart("E", one) /\ ItemsIn("S", one) = {Gate(n)}
  <2>1. DOMAIN one = {1} /\ one[1] = Enqueue("S", Wait(ForwardDone(n - 1)))
    OBVIOUS
  <2>2. ItemsIn("S", one) = {Gate(n)} \ {Nothing} /\ Gate(n) # Nothing
    BY <1>1, <1>4, ItemsOne, GatesAre
  <2> HIDE DEF one
  <2>3. Apart("E", one)
    BY <1>4, <2>1 DEF Apart, Silent
  <2> QED BY <2>2, <2>3
<1>7. ScheduleNextBatch(n, b) = q
  BY DEF ScheduleNextBatch
<1> HIDE DEF one, rest, r
<1>8. q \in Programs /\ Piece("S", q, n, b, 2, 2) /\ Apart("E", q)
      /\ ItemsIn("S", q) = {Gate(n)}
  <2>1. Piece("S", rest, n, b, 2, 2) /\ ItemsIn("S", rest) = {}
    BY <1>3, ApartPiece
  <2>2. 2 \in Int /\ 2 <= 2
    OBVIOUS
  <2>3. Piece("S", q, n, b, 2, 2)
    BY <1>1, <1>2, <1>5, <2>1, <2>2, PieceJoin
  <2>4. q \in Programs
    BY <1>2, Sequenced
  <2>5. Apart("E", q)
    BY <1>2, <1>3, <1>6, ApartJoin
  <2>6. ItemsIn("S", q) = ItemsIn("S", one) \cup ItemsIn("S", rest)
    BY <1>2, ItemsJoin
  <2> HIDE DEF q
  <2> QED BY <1>6, <2>1, <2>3, <2>4, <2>5, <2>6
<1> HIDE DEF q
<1>9. r \o q \in Programs /\ Piece("S", r \o q, n, b, 2, 2) /\ Apart("E", r \o q)
      /\ ItemsIn("S", r \o q) = {Gate(n)}
  <2>1. Piece("S", r, n, b, 2, 2) /\ ItemsIn("S", r) = {}
    BY <1>3, ApartPiece
  <2>2. 2 \in Int /\ 2 <= 2
    OBVIOUS
  <2>3. Piece("S", r \o q, n, b, 2, 2)
    BY <1>1, <1>2, <1>8, <2>1, <2>2, PieceJoin
  <2>4. r \o q \in Programs
    BY <1>2, <1>8, Sequenced
  <2>5. Apart("E", r \o q)
    BY <1>2, <1>3, <1>8, ApartJoin
  <2>6. ItemsIn("S", r \o q) = ItemsIn("S", r) \cup ItemsIn("S", q)
    BY <1>2, <1>8, ItemsJoin
  <2> QED BY <1>8, <2>1, <2>3, <2>4, <2>5, <2>6
<1>10. p = q \/ p = r \o q
  BY <1>7 DEF r
<1> QED BY <1>8, <1>9, <1>10

\* what prepare_batch and forward write for the rest of the step
Prepares(n, b, p) ==
  /\ Has("S", p, n, At("pageWrite", n), 3) /\ Has("S", p, n, At("positions", n), 4)
  /\ Has("S", p, n, At("write", n), 4) /\ Has("S", p, n, At("outLoc", n), 5)
  /\ Has("S", p, n, At("inputIds", n), 5)
  /\ b.sampling # "greedy" => Has("S", p, n, Arguments(n), 5)
  /\ Has("E", p, n, At("decode", n), 0) /\ Has("E", p, n, At("indices", n), 1)

Forwards(n, b, p) ==
  /\ CanUseCudaGraph(b) => Has("E", p, n, At("captured", n), 3)
  /\ \A use \in 1 .. Layers : Planned(b, use) => Has("E", p, n, Plan(n, use), 2 * use + 2)
  /\ Has("E", p, n, At("logits", n), 2 * Layers + 3)
  /\ Has("E", p, n, At("sampled", n), 2 * Layers + 4)
  /\ Has("E", p, n, Answer(n), 2 * Layers + 5)
  /\ Has("E", p, n, At("tokenPool", n), 2 * Layers + 5)
  /\ End(n) \in ItemsIn("S", p) /\ End(n) \in ItemsIn("E", p)
  /\ Gate(n) \in ItemsIn("E", p)

\* a program prepares and computes what one of its parts does
LEMMA SuppliesJoin ==
  ASSUME NEW p \in Programs, NEW q \in Programs, NEW n, NEW b
  PROVE  /\ Prepares(n, b, p) \/ Prepares(n, b, q) => Prepares(n, b, p \o q)
         /\ Forwards(n, b, p) \/ Forwards(n, b, q) => Forwards(n, b, p \o q)
<1> DEFINE r == p \o q
<1>1. \A s, w, k : Has(s, p, n, w, k) \/ Has(s, q, n, w, k) => Has(s, r, n, w, k)
  BY HasJoin
<1>2. \A s, x : x \in ItemsIn(s, p) \/ x \in ItemsIn(s, q) => x \in ItemsIn(s, r)
  BY ItemsJoin
<1> HIDE DEF r
<1>3. Prepares(n, b, p) \/ Prepares(n, b, q) => Prepares(n, b, r)
  BY <1>1 DEF Prepares
<1>4. Forwards(n, b, p) \/ Forwards(n, b, q) => Forwards(n, b, r)
  BY <1>1, <1>2 DEF Forwards
<1> QED BY <1>3, <1>4 DEF r

\* the preparation and the forward of a batch
LEMMA BodyPieces ==
  ASSUME NEW n \in 1 .. MaxSteps, NEW b \in BatchTypes
  PROVE  LET p == PrepareBatch(n, b) \o Forward(n, b)
         IN  /\ p \in Programs
             /\ Piece("S", p, n, b, 3, 2 * Layers + 6) /\ Piece("E", p, n, b, 0, 2 * Layers + 6)
             /\ Prepares(n, b, p) /\ Forwards(n, b, p) /\ Ahead(p)
<1> DEFINE p == PrepareBatch(n, b)
           q == Forward(n, b)
           hi == 2 * Layers + 6
<1>1. p \in Programs /\ q \in Programs /\ n \in Nat
  BY PrepareIs, ForwardIs
<1>2. /\ Piece("S", p, n, b, 3, 5) /\ Piece("E", p, n, b, 0, 1) /\ Prepares(n, b, p)
  BY PreparePieces DEF Prepares
<1>3. /\ Piece("S", q, n, b, hi, hi) /\ Piece("E", q, n, b, 2, hi) /\ Forwards(n, b, q)
      /\ \A i \in DOMAIN q : i > 1 => ItemOf("S", q[i]) = Nothing
  BY ForwardPieces DEF Forwards
<1>4. hi \in Int /\ 5 <= hi /\ 2 <= hi
  BY RingSlots
<1> HIDE DEF p, q, hi
<1>5. Piece("S", p \o q, n, b, 3, hi)
  BY <1>1, <1>2, <1>3, <1>4, PieceJoin
<1>6. Piece("E", p \o q, n, b, 0, hi)
  BY <1>1, <1>2, <1>3, <1>4, PieceJoin
<1>7. Ahead(p \o q)
  <2>1. \A x \in ItemsIn("E", p) : ~(x.place >= 2)
    <3>1. \A x \in ItemsIn("E", p) : x.place \in 0 .. 1
      BY <1>2 DEF Piece
    <3> QED BY <3>1
  <2>2. Ahead(p)
    BY <2>1, AheadIf
  <2>3. Ahead(q)
    <3>1. \A i, j \in DOMAIN q : i < j => j > 1
      BY <1>1 DEF Programs
    <3> QED BY <1>3, <3>1 DEF Ahead
  <2> QED BY <1>1, <2>1, <2>2, <2>3, AheadJoin
<1>8. p \o q \in Programs /\ Prepares(n, b, p \o q) /\ Forwards(n, b, p \o q)
  BY <1>1, <1>2, <1>3, Sequenced, SuppliesJoin
<1> QED BY <1>5, <1>6, <1>7, <1>8 DEF p, q, hi

\* every read of the step's items finds its write in the step, but for the
\* tokens of the forward before
FedIn(s, n, p) ==
  \A x \in ItemsIn(s, p) : \A r \in x.reads :
    \/ r[1] \in Unordered \/ r = At("tokenPool", n - 1)
    \/ \E y \in ItemsIn(s, p) : Earlier(y, x) /\ r \in y.writes
    \/ \E y \in ItemsIn(Other(s), p) : r \in y.writes

\* what is written at a place is written earlier than all later places
LEMMA HasBefore ==
  ASSUME NEW s, NEW p, NEW n \in Nat, NEW b, NEW lo, NEW hi, Piece(s, p, n, b, lo, hi),
         NEW w, NEW k \in Int, Has(s, p, n, w, k), NEW x \in ItemsIn(s, p), x.place > k
  PROVE  \E y \in ItemsIn(s, p) : Earlier(y, x) /\ w \in y.writes
<1>1. PICK y \in ItemsIn(s, p) : w \in y.writes /\ y.step = n /\ y.place <= k
  BY DEF Has
<1>2. x.step = n /\ x.place \in Int /\ y.place \in Int
  BY DEF Piece
<1>3. Earlier(y, x)
  BY <1>1, <1>2 DEF Earlier
<1> QED BY <1>1, <1>3

\* all that a step reads is written earlier in the step, or is what the other
\* stream was waited for
LEMMA StepIsFed ==
  ASSUME NEW n \in 1 .. MaxSteps, NEW b, NEW p, NEW hi,
         Piece("S", p, n, b, 2, hi), Piece("E", p, n, b, 0, hi),
         Prepares(n, b, p), Forwards(n, b, p)
  PROVE  FedIn("S", n, p) /\ FedIn("E", n, p)
<1>1. n \in Nat /\ 2 * Layers + 3 \in Int /\ 2 * Layers + 4 \in Int /\ Layers \in Nat
  BY RingSlots
<1>2. FedIn("S", n, p)
  <2> SUFFICES ASSUME NEW x \in ItemsIn("S", p), NEW r \in x.reads,
                      r[1] \notin Unordered, r # At("tokenPool", n - 1)
               PROVE  \E y \in ItemsIn("S", p) : Earlier(y, x) /\ r \in y.writes
    BY DEF FedIn
  <2>1. Given("S", n, b, x, r)
    BY DEF Piece, Supplied
  <2>2. \/ r = At("pageWrite", n) /\ x.place > 3
        \/ r = At("positions", n) /\ x.place > 4
    BY <2>1 DEF Given
  <2>3. Has("S", p, n, At("pageWrite", n), 3) /\ Has("S", p, n, At("positions", n), 4)
    BY DEF Prepares
  <2>4. CASE r = At("pageWrite", n) /\ x.place > 3
    <3>1. 3 \in Int
      OBVIOUS
    <3> QED BY <1>1, <2>3, <2>4, <3>1, HasBefore
  <2>5. CASE r = At("positions", n) /\ x.place > 4
    <3>1. 4 \in Int
      OBVIOUS
    <3> QED BY <1>1, <2>3, <2>5, <3>1, HasBefore
  <2> QED BY <2>2, <2>4, <2>5
<1>3. FedIn("E", n, p)
  <2> SUFFICES ASSUME NEW x \in ItemsIn("E", p), NEW r \in x.reads, r[1] \notin Unordered
               PROVE  \/ \E y \in ItemsIn("E", p) : Earlier(y, x) /\ r \in y.writes
                      \/ \E y \in ItemsIn("S", p) : r \in y.writes
    BY OtherIs DEF FedIn
  <2>1. Given("E", n, b, x, r)
    BY DEF Piece, Supplied
  <2>2. ASSUME NEW k \in Int, Has("E", p, n, r, k), x.place > k
        PROVE  \E y \in ItemsIn("E", p) : Earlier(y, x) /\ r \in y.writes
    BY <1>1, <2>2, HasBefore
  <2>3. ASSUME NEW k, Has("S", p, n, r, k)
        PROVE  \E y \in ItemsIn("S", p) : r \in y.writes
    BY <2>3 DEF Has
  <2>4. CASE r \in Inputs(n) \cup {At("write", n)}
    <3>1. /\ Has("S", p, n, At("positions", n), 4) /\ Has("S", p, n, At("write", n), 4)
          /\ Has("S", p, n, At("outLoc", n), 5) /\ Has("S", p, n, At("inputIds", n), 5)
      BY DEF Prepares
    <3>2. r \in {At("inputIds", n), At("outLoc", n), At("positions", n), At("write", n)}
      BY <2>4 DEF Inputs
    <3> QED BY <2>3, <3>1, <3>2
  <2>5. CASE r = Arguments(n) /\ b.sampling # "greedy"
    <3>1. Has("S", p, n, Arguments(n), 5)
      BY <2>5 DEF Prepares
    <3> QED BY <2>3, <2>5, <3>1
  <2>6. CASE r = At("decode", n) /\ x.place > 0
    <3>1. Has("E", p, n, At("decode", n), 0) /\ 0 \in Int
      BY DEF Prepares
    <3> QED BY <2>2, <2>6, <3>1
  <2>7. CASE r = At("indices", n) /\ x.place > 1
    <3>1. Has("E", p, n, At("indices", n), 1) /\ 1 \in Int
      BY DEF Prepares
    <3> QED BY <2>2, <2>7, <3>1
  <2>8. CASE r = At("captured", n) /\ x.place > 3 /\ CanUseCudaGraph(b)
    <3>1. Has("E", p, n, At("captured", n), 3) /\ 3 \in Int
      BY <2>8 DEF Forwards
    <3> QED BY <2>2, <2>8, <3>1
  <2>9. CASE \E use \in 1 .. Layers : /\ r = Plan(n, use) /\ x.place > 2 * use + 2
                                      /\ use = 1 \/ b.phase = "prefill"
    <3>1. PICK use \in 1 .. Layers : /\ r = Plan(n, use) /\ x.place > 2 * use + 2
                                     /\ use = 1 \/ b.phase = "prefill"
      BY <2>9
    <3>2. Has("E", p, n, Plan(n, use), 2 * use + 2)
      BY <3>1 DEF Forwards, Planned
    <3>3. 2 * use + 2 \in Int
      OBVIOUS
    <3> QED BY <2>2, <3>1, <3>2, <3>3
  <2>10. CASE r = At("logits", n) /\ x.place > 2 * Layers + 3
    <3>1. Has("E", p, n, At("logits", n), 2 * Layers + 3)
      BY DEF Forwards
    <3> QED BY <1>1, <2>2, <2>10, <3>1
  <2>11. CASE r = At("sampled", n) /\ x.place > 2 * Layers + 4
    <3>1. Has("E", p, n, At("sampled", n), 2 * Layers + 4)
      BY DEF Forwards
    <3> QED BY <1>1, <2>2, <2>11, <3>1
  <2> QED BY <2>1, <2>4, <2>5, <2>6, <2>7, <2>8, <2>9, <2>10, <2>11 DEF Given
<1> QED BY <1>2, <1>3

\* the commands of a step
Complete(n, p) ==
  /\ p \in Programs /\ Ahead(p)
  /\ \A s \in Streams :
       /\ InOrder(s, p) /\ FedIn(s, n, p)
       /\ \A x \in ItemsIn(s, p) : ItemOK(s, x) /\ x.step = n
  /\ n <= MaxSteps =>
       /\ \A s \in Streams : Gate(n) \in ItemsIn(s, p) /\ End(n) \in ItemsIn(s, p)
       /\ \E y \in ItemsIn("E", p) : Answer(n) \in y.writes
       /\ \E y \in ItemsIn("E", p) : At("tokenPool", n) \in y.writes

\* what the host does itself in step n
HostDoes(n, p) ==
  \A i \in DOMAIN p :
    /\ p[i].op = "fill" => p[i].write[1] \in Staging
    /\ p[i].op = "read" => /\ i = Len(p) /\ i > 1 /\ p[i].step \in 1 .. MaxSteps
                           /\ p[i].step <= n
                           /\ p[i - 1] = Synchronize(ForwardDone(p[i].step))

\* a step with a batch, before the answer of the last one is processed
LEMMA WorkComplete ==
  ASSUME NEW n \in 1 .. MaxSteps, NEW b \in BatchTypes,
         NEW p \in {ScheduleNextBatch(n, b), FlushDeferred(n, b) \o ScheduleNextBatch(n, b)}
  PROVE  LET q == p \o (PrepareBatch(n, b) \o Forward(n, b))
         IN  Complete(n, q) /\ \A i \in DOMAIN q : Tame(q[i])
<1> DEFINE r == PrepareBatch(n, b) \o Forward(n, b)
           q == p \o r
           hi == 2 * Layers + 6
<1>1. n \in Nat /\ n \in 1 .. MaxSteps + 1 /\ 2 \in Int /\ 3 \in Int /\ 0 \in Int /\ hi \in Int
      /\ 2 <= 2 /\ 2 <= 3 /\ 3 <= hi /\ 0 <= 0 /\ 0 <= hi
  BY RingSlots
<1>2. /\ p \in Programs /\ Piece("S", p, n, b, 2, 2) /\ Apart("E", p)
      /\ Gate(n) \in ItemsIn("S", p)
  BY <1>1, LeadPieces
<1>3. /\ r \in Programs /\ Piece("S", r, n, b, 3, hi) /\ Piece("E", r, n, b, 0, hi)
      /\ Prepares(n, b, r) /\ Forwards(n, b, r) /\ Ahead(r)
  BY BodyPieces
<1> HIDE DEF r, hi
<1>4. Piece("S", q, n, b, 2, hi)
  BY <1>1, <1>2, <1>3, PieceJoin
<1>5. Piece("E", q, n, b, 0, hi)
  <2>1. Piece("E", p, n, b, 0, 0)
    BY <1>2, ApartPiece
  <2> QED BY <1>1, <1>2, <1>3, <2>1, PieceJoin
<1>6. Ahead(q)
  <2>1. ItemsIn("E", p) = {}
    BY <1>2, ApartPiece
  <2>2. Ahead(p)
    BY <2>1, AheadIf
  <2> QED BY <1>2, <1>3, <2>1, <2>2, AheadJoin
<1>7. q \in Programs /\ Prepares(n, b, q) /\ Forwards(n, b, q)
  BY <1>2, <1>3, Sequenced, SuppliesJoin
<1>8. Gate(n) \in ItemsIn("S", q)
  BY <1>2, <1>3, ItemsJoin
<1> HIDE DEF q
<1>9. FedIn("S", n, q) /\ FedIn("E", n, q)
  BY <1>4, <1>5, <1>7, StepIsFed
<1>10. /\ End(n) \in ItemsIn("S", q) /\ End(n) \in ItemsIn("E", q) /\ Gate(n) \in ItemsIn("E", q)
       /\ \E y \in ItemsIn("E", q) : Answer(n) \in y.writes
       /\ \E y \in ItemsIn("E", q) : At("tokenPool", n) \in y.writes
  BY <1>7 DEF Forwards, Has
<1>11. \A s \in Streams : InOrder(s, q) /\ \A x \in ItemsIn(s, q) : ItemOK(s, x) /\ x.step = n
  BY <1>4, <1>5 DEF Piece, Streams
<1>12. \A i \in DOMAIN q : Tame(q[i])
  BY <1>4 DEF Piece
<1>13. Complete(n, q)
  BY <1>6, <1>7, <1>8, <1>9, <1>10, <1>11 DEF Complete, Streams
<1> QED BY <1>12, <1>13 DEF q, r

\* after the last batch
LEMMA RestComplete ==
  ASSUME NEW b \in BatchTypes,
         NEW p \in {ScheduleNextBatch(MaxSteps + 1, b),
                    FlushDeferred(MaxSteps + 1, b) \o ScheduleNextBatch(MaxSteps + 1, b)}
  PROVE  Complete(MaxSteps + 1, p) /\ \A i \in DOMAIN p : Tame(p[i])
<1> DEFINE n == MaxSteps + 1
<1>1. n \in Nat /\ n \in 1 .. MaxSteps + 1 /\ ~(n <= MaxSteps)
  BY RingSlots
<1>2. p \in {ScheduleNextBatch(n, b), FlushDeferred(n, b) \o ScheduleNextBatch(n, b)}
  OBVIOUS
<1> HIDE DEF n
<1>3. /\ p \in Programs /\ Piece("S", p, n, b, 2, 2) /\ Apart("E", p)
      /\ ItemsIn("S", p) \subseteq {Gate(n)}
  BY <1>1, <1>2, LeadPieces
<1>4. Piece("E", p, n, b, 2, 2) /\ ItemsIn("E", p) = {}
  BY <1>3, ApartPiece
<1>5. Ahead(p)
  BY <1>4, AheadIf
<1>6. FedIn("S", n, p) /\ FedIn("E", n, p)
  BY <1>1, <1>3, <1>4, GatesAre DEF FedIn
<1>7. \A s \in Streams : InOrder(s, p) /\ \A x \in ItemsIn(s, p) : ItemOK(s, x) /\ x.step = n
  BY <1>3, <1>4 DEF Piece, Streams
<1>8. \A i \in DOMAIN p : Tame(p[i])
  BY <1>3 DEF Piece
<1>9. Complete(n, p)
  BY <1>1, <1>3, <1>5, <1>6, <1>7 DEF Complete, Streams
<1> QED BY <1>8, <1>9 DEF n

\* the answer that is read at the end of a step
LEMMA CloseIs ==
  ASSUME NEW k \in 0 .. MaxSteps
  PROVE  LET p == ProcessOutput(k)
         IN  /\ p \in Programs /\ \A s \in Streams : Silent(s, p)
             /\ \/ p = <<>>
                \/ /\ k # 0 /\ Len(p) = 2 /\ DOMAIN p = 1 .. 2
                   /\ p[1] = Synchronize(ForwardDone(k)) /\ p[2] = Read(k)
<1>1. ASSUME NEW s \in Streams
      PROVE  /\ ItemOf(s, Synchronize(ForwardDone(k))) = Nothing
             /\ ItemOf(s, Read(k)) = Nothing
  BY DEF ItemOf, Synchronize, Read
<1>2. CASE k = 0
  BY <1>2, Sequenced DEF ProcessOutput, Silent
<1>3. CASE k # 0
  <2> DEFINE p == <<Synchronize(ForwardDone(k)), Read(k)>>
  <2>1. p \in Programs
    BY <1>3, RingSlots, OperationsAre DEF Programs
  <2>2. /\ DOMAIN p = 1 .. 2 /\ Len(p) = 2
        /\ p[1] = Synchronize(ForwardDone(k)) /\ p[2] = Read(k)
    OBVIOUS
  <2>3. ProcessOutput(k) = p
    BY <1>3 DEF ProcessOutput
  <2> HIDE DEF p
  <2>4. \A s \in Streams : Silent(s, p)
    <3>1. \A i \in DOMAIN p : i = 1 \/ i = 2
      BY <2>2
    <3> QED BY <1>1, <2>2, <3>1 DEF Silent
  <2> QED BY <1>3, <2>1, <2>2, <2>3, <2>4
<1> QED BY <1>2, <1>3

\* processing the last answer adds nothing to the streams, and waits for the
\* answer before it is read
LEMMA CloseComplete ==
  ASSUME NEW n \in 1 .. MaxSteps + 1, NEW p, Complete(n, p), \A i \in DOMAIN p : Tame(p[i]),
         NEW k \in 0 .. MaxSteps, k <= n
  PROVE  LET q == p \o ProcessOutput(k)
         IN  Complete(n, q) /\ HostDoes(n, q)
<1> DEFINE c == ProcessOutput(k)
           q == p \o c
<1>1. /\ c \in Programs /\ \A s \in Streams : Silent(s, c)
      /\ \/ c = <<>>
         \/ /\ k # 0 /\ Len(c) = 2 /\ DOMAIN c = 1 .. 2
            /\ c[1] = Synchronize(ForwardDone(k)) /\ c[2] = Read(k)
  BY CloseIs
<1>2. p \in Programs /\ q \in Programs
  BY <1>1, Sequenced DEF Complete
<1> HIDE DEF c
<1>3. \A s \in Streams : ItemsIn(s, c) = {} /\ InOrder(s, c)
  BY <1>1, SilentHas
<1>4. ASSUME NEW s \in Streams  PROVE ItemsIn(s, q) = ItemsIn(s, p)
  <2>1. ItemsIn(s, q) = ItemsIn(s, p) \cup ItemsIn(s, c)
    BY <1>1, <1>2, ItemsJoin
  <2> HIDE DEF q
  <2> QED BY <1>3, <2>1
<1>5. \A s \in Streams : InOrder(s, q)
  <2>1. \A s \in Streams : InOrder(s, p) /\ Follow(ItemsIn(s, p), ItemsIn(s, c))
    BY <1>3, FollowUnion DEF Complete
  <2>2. p \in Seq(Operations) /\ c \in Seq(Operations)
    BY <1>1, <1>2 DEF Programs
  <2> QED BY <1>3, <2>1, <2>2, InOrderConcat
<1>6. Ahead(q)
  <2>1. Silent("S", c)
    BY <1>1 DEF Streams
  <2>2. Ahead(c)
    BY <2>1, AheadIf
  <2> QED BY <1>1, <1>2, <2>1, <2>2, AheadJoin DEF Complete
<1>7. HostDoes(n, q)
  <2> SUFFICES ASSUME NEW i \in DOMAIN q
               PROVE  /\ q[i].op = "fill" => q[i].write[1] \in Staging
                      /\ q[i].op = "read" =>
                           /\ i = Len(q) /\ i > 1 /\ q[i].step \in 1 .. MaxSteps
                           /\ q[i].step <= n
                           /\ q[i - 1] = Synchronize(ForwardDone(q[i].step))
    BY DEF HostDoes
  <2>1. /\ Len(p) \in Nat /\ Len(c) \in Nat /\ Len(q) = Len(p) + Len(c)
        /\ DOMAIN c = 1 .. Len(c)
        /\ \/ i \in DOMAIN p /\ q[i] = p[i] /\ i <= Len(p)
           \/ i > Len(p) /\ i - Len(p) \in DOMAIN c /\ q[i] = c[i - Len(p)]
    BY <1>1, <1>2, JoinIndex
  <2>2. CASE i \in DOMAIN p /\ q[i] = p[i] /\ i <= Len(p)
    BY <2>2 DEF Tame
  <2>3. CASE i > Len(p) /\ i - Len(p) \in DOMAIN c /\ q[i] = c[i - Len(p)]
    <3>1. /\ k # 0 /\ Len(c) = 2 /\ DOMAIN c = 1 .. 2
          /\ c[1] = Synchronize(ForwardDone(k)) /\ c[2] = Read(k)
      <4>1. c # <<>>
        BY <2>3
      <4> QED BY <1>1, <4>1
    <3>2. i \in Int
      BY <1>1, <1>2, JoinIndex
    <3>3. CASE i - Len(p) = 1
      BY <2>3, <3>1, <3>3 DEF Synchronize
    <3>4. CASE i - Len(p) = 2
      <4>1. q[i] = Read(k) /\ i = Len(q) /\ i > 1
        BY <2>1, <2>3, <3>1, <3>2, <3>4
      <4>2. q[i].op = "read" /\ q[i].step = k
        BY <4>1 DEF Read
      <4>3. i - 1 \in DOMAIN q
        BY <1>2, <3>2, <4>1 DEF Programs
      <4>4. q[i - 1] = c[1]
        <5> DEFINE j == i - 1
        <5>1. j \in DOMAIN q /\ j - Len(p) = 1 /\ j > Len(p)
          BY <2>1, <3>2, <3>4, <4>3
        <5> HIDE DEF j
        <5>2. \/ j \in DOMAIN p /\ q[j] = p[j] /\ j <= Len(p)
              \/ j > Len(p) /\ j - Len(p) \in DOMAIN c /\ q[j] = c[j - Len(p)]
          BY <1>1, <1>2, <5>1, JoinIndex
        <5>3. q[j] = c[1]
          BY <2>1, <5>1, <5>2
        <5> QED BY <5>3 DEF j
      <4>5. k \in 1 .. MaxSteps
        BY <3>1
      <4> QED BY <3>1, <4>1, <4>2, <4>4, <4>5
    <3> QED BY <2>3, <3>1, <3>2, <3>3, <3>4
  <2> QED BY <2>1, <2>2, <2>3
<1> HIDE DEF q
<1>8. \A s \in Streams : FedIn(s, n, q)
  BY <1>4, OtherIs DEF FedIn, Complete
<1>9. Complete(n, q)
  <2>1. "E" \in Streams
    BY DEF Streams
  <2> QED BY <1>2, <1>4, <1>5, <1>6, <1>8, <2>1 DEF Complete
<1> QED BY <1>7, <1>9 DEF q, c

\* Every step gives the streams all of its commands, in their order.
LEMMA StepComplete ==
  ASSUME overlap \in BOOLEAN, NEW n \in 1 .. MaxSteps + 1, NEW b \in BatchTypes,
         n = MaxSteps + 1 <=> b.phase = "none"
  PROVE  Complete(n, StepProgram(n, b)) /\ HostDoes(n, StepProgram(n, b))
<1> DEFINE snb == ScheduleNextBatch(n, b)
           flush == FlushDeferred(n, b)
           body == IF b.phase = "none" THEN <<>> ELSE PrepareBatch(n, b) \o Forward(n, b)
<1>1. n \in Nat /\ n - 1 \in 0 .. MaxSteps /\ n - 1 <= n /\ 0 \in 0 .. MaxSteps /\ 0 <= n
  BY RingSlots
<1>2. snb \in Programs /\ flush \o snb \in Programs
  BY LeadPieces
<1>3. ASSUME NEW p \in {snb, flush \o snb}
      PROVE  Complete(n, p \o body) /\ \A i \in DOMAIN (p \o body) : Tame((p \o body)[i])
  <2>1. CASE b.phase = "none"
    <3>1. n = MaxSteps + 1
      BY <2>1
    <3>2. Complete(n, p) /\ \A i \in DOMAIN p : Tame(p[i])
      BY <3>1, RestComplete
    <3>3. p \o body = p
      <4>1. p \in Seq(Operations)
        BY <1>2 DEF Programs
      <4> QED BY <2>1, <4>1
    <3> QED BY <3>2, <3>3
  <2>2. CASE b.phase # "none"
    <3>1. n \in 1 .. MaxSteps
      BY <2>2, RingSlots
    <3>2. body = PrepareBatch(n, b) \o Forward(n, b)
      BY <2>2
    <3> QED BY <3>1, <3>2, WorkComplete
  <2> QED BY <2>1, <2>2
<1>4. body \in Programs
  <2>1. CASE b.phase = "none"
    BY <2>1, Sequenced
  <2>2. CASE b.phase # "none"
    <3>1. n \in 1 .. MaxSteps
      BY <2>2, RingSlots
    <3> QED BY <2>2, <3>1, BodyPieces
  <2> QED BY <2>1, <2>2
<1>5. CASE overlap
  <2>1. StepProgram(n, b) = ((flush \o snb) \o body) \o ProcessOutput(n - 1)
    BY <1>5 DEF StepProgram
  <2> DEFINE p == (flush \o snb) \o body
  <2>2. Complete(n, p) /\ \A i \in DOMAIN p : Tame(p[i])
    BY <1>3
  <2> HIDE DEF p
  <2>3. Complete(n, p \o ProcessOutput(n - 1)) /\ HostDoes(n, p \o ProcessOutput(n - 1))
    BY <1>1, <2>2, CloseComplete
  <2> QED BY <2>1, <2>3 DEF p
<1>6. CASE ~overlap
  <2> DEFINE p == snb \o body
             k == IF b.phase = "none" THEN 0 ELSE n
  <2>1. Complete(n, p) /\ \A i \in DOMAIN p : Tame(p[i])
    BY <1>3
  <2>2. k \in 0 .. MaxSteps /\ k <= n
    BY <1>1, RingSlots
  <2>3. ProcessOutput(k) \in Programs
    BY <2>2, CloseIs
  <2>4. StepProgram(n, b) = p \o ProcessOutput(k)
    <3>1. CASE b.phase = "none"
      <4>1. ProcessOutput(k) = <<>> /\ body = <<>>
        BY <3>1 DEF ProcessOutput
      <4>2. p \o <<>> = p
        BY <1>2, <1>4, Sequenced DEF Programs
      <4>3. StepProgram(n, b) = p
        BY <1>6, <3>1 DEF StepProgram
      <4> QED BY <4>1, <4>2, <4>3
    <3>2. CASE b.phase # "none"
      <4>1. StepProgram(n, b) = snb \o (body \o ProcessOutput(k))
        BY <1>6, <3>2 DEF StepProgram
      <4>2. snb \o (body \o ProcessOutput(k)) = p \o ProcessOutput(k)
        <5> HIDE DEF snb, body, k
        <5>1. /\ snb \in Seq(Operations) /\ body \in Seq(Operations)
              /\ ProcessOutput(k) \in Seq(Operations)
          BY <1>2, <1>4, <2>3 DEF Programs
        <5> QED BY <5>1, ConcatAssociative
      <4> QED BY <4>1, <4>2
    <3> QED BY <3>1, <3>2
  <2> HIDE DEF p, k
  <2>5. Complete(n, p \o ProcessOutput(k)) /\ HostDoes(n, p \o ProcessOutput(k))
    BY <2>1, <2>2, CloseComplete
  <2> QED BY <2>4, <2>5
<1> QED BY <1>5, <1>6

-----------------------------------------------------------------------------
(* Who may overwrite what.                                                 *)

\* no buffer is written by both streams, or by a stream and the host
LEMMA OutAre ==
  /\ Out("S") \cap Out("E") = {}
  /\ \A s \in Streams : Out(s) \subseteq Buffers \ (Staging \cup Ring)
  /\ \A s \in Streams : \A s2 \in Streams : \A b : b \in Out(s) /\ b \in Out(s2) => s = s2
<1>1. Out("S") \cap Out("E") = {}
  <2>1. \A b \in Out("S") :
          b[1] \in {"pageWrite", "positions", "write", "pageTable", "outLoc", "inputIds",
                    "sampler"}
    BY DEF Out
  <2>2. \A b \in Out("E") :
          b[1] \in {"decode", "indices", "captured", "intWorkspace", "logits", "sampled",
                    "tokenPool", "tokensCpu"}
    BY DEF Out, Local
  <2> QED BY <2>1, <2>2
<1>2. Out("S") \subseteq Buffers
  BY DEF Out, Buffers
<1>3. Out("E") \subseteq Buffers
  BY DEF Out, Local, Buffers
<1>4. \A s \in Streams : \A b \in Out(s) : b \notin Staging /\ b \notin Ring
  <2>1. \A b \in Staging \cup Ring :
          b[1] \in {"pageWriteHost", "positionsHost", "writeHost", "decodeHost",
                    "samplerHost", "ring"}
    BY DEF Staging, Ring
  <2>2. \A b \in Out("S") :
          b[1] \in {"pageWrite", "positions", "write", "pageTable", "outLoc", "inputIds",
                    "sampler"}
    BY DEF Out
  <2>3. \A b \in Out("E") :
          b[1] \in {"decode", "indices", "captured", "intWorkspace", "logits", "sampled",
                    "tokenPool", "tokensCpu"}
    BY DEF Out, Local
  <2> QED BY <2>1, <2>2, <2>3 DEF Streams
<1> QED BY <1>1, <1>2, <1>3, <1>4 DEF Streams

\* a stream reads what one of the streams writes, or what is not ordered
LEMMA ForeignAre ==
  /\ \A n : Foreign("S", n) = {At("tokenPool", n - 1)}
  /\ \A n \in Nat : \A s \in Streams : \A r \in Foreign(s, n) :
       r[1] \in Out(Other(s)) /\ r[1] # Workspace /\ r[2] = <<n - Lag(Other(s)), 0>>
  /\ \A s \in Streams : Local(s) \subseteq Out(s)
<1>1. \A n \in Nat : n % 2 \in 0 .. 1
  OBVIOUS
<1>2. \A n \in Nat : \A r \in Foreign("E", n) :
        r[1] \in Out("S") /\ r[1] # Workspace /\ r[2] = <<n, 0>>
  BY <1>1 DEF Foreign, Out, At, AtIndex, Arguments, Workspace
<1>3. \A n \in Nat : \A r \in Foreign("S", n) :
        r[1] \in Out("E") /\ r[1] # Workspace /\ r[2] = <<n - 1, 0>>
  BY DEF Foreign, Out, At, AtIndex, Workspace
<1>4. \A s \in Streams : Local(s) \subseteq Out(s)
  BY DEF Local, Out, Streams
<1>5. \A n \in Nat : n - 0 = n
  OBVIOUS
<1> QED BY <1>2, <1>3, <1>4, <1>5, OtherIs DEF Foreign, Streams

-----------------------------------------------------------------------------
(* The order at the beginning, and at the beginning of a step.             *)

LEMMA OrderInit == Init => OrderInv
<1> SUFFICES ASSUME Init  PROVE OrderInv
  OBVIOUS
<1>1. /\ todo = <<>> /\ step = 0 /\ misread = {} /\ DOMAIN todo = {}
      /\ \A s \in Streams : queue[s] = <<>>
      /\ \A b \in Buffers : buffer[b] = <<0, 0>>
  BY DEF Init
<1>2. \A s \in Streams : /\ ItemsIn(s, queue[s]) = {} /\ ItemsIn(s, todo) = {}
                         /\ InOrder(s, queue[s]) /\ InOrder(s, todo)
  BY <1>1, ItemsOne
<1>3. \A s \in Streams : Pend(s) = {}
  BY <1>2 DEF Pend
<1>4. \A s \in Streams : Lined(s)
  BY <1>2, <1>3, FollowUnion DEF Lined
<1>5. \A s \in Streams : Ends(s) /\ Handshake(s) /\ Fed(s)
  BY <1>3 DEF Ends, Handshake, Fed
<1>6. \A s \in Streams : Behind(s)
  BY <1>1, <1>3, OutAre DEF Behind
<1>7. Last = 0
  BY <1>1, RingSlots DEF Last
<1>8. Coming(At("tokenPool", step))
  <2>1. buffer[<<"tokenPool", 0>>] = <<0, 0>>
    BY <1>1, PlainBuffers
  <2> QED BY <1>1, <2>1 DEF Coming, At, AtIndex
<1>9. Announced
  <2>1. "E" \in Streams
    BY DEF Streams
  <2> QED BY <1>1, <1>2, <2>1 DEF Announced
<1>10. \A k \in 1 .. Last : Coming(Answer(k))
  BY <1>7
<1> QED BY <1>1, <1>4, <1>5, <1>6, <1>8, <1>9, <1>10 DEF OrderInv

\* the last step that has a batch is not after this one
LEMMA LastIs ==
  ASSUME RingInv
  PROVE  /\ step \in Nat /\ Last \in Nat /\ Last <= step /\ Last <= MaxSteps
         /\ \A m \in 1 .. MaxSteps : m <= step => m <= Last
BY RingSlots DEF RingInv, Last

\* what a pending item is
LEMMA PendIs ==
  ASSUME RingInv, OrderInv, NEW s \in Streams, NEW x \in Pend(s)
  PROVE  /\ ItemOK(s, x) /\ x.step \in Nat /\ x.step <= step
         /\ \A w \in x.writes :
              /\ WriteOK(s, x, w) /\ x.op = "run" /\ x.writes = {w} /\ x.step \in 1 .. Last
         /\ \A r \in x.reads :
              ReadOK(s, x, r) /\ x.op = "run" /\ x.step \in 1 .. Last /\ x.place \in Nat
<1>1. ItemOK(s, x) /\ x.step <= step
  BY DEF OrderInv, Lined
<1>2. /\ Gate(x.step).writes = {} /\ Gate(x.step).reads = {}
      /\ End(x.step).writes = {} /\ End(x.step).reads = {}
  BY ItemFields DEF Gate, End
<1>3. x.step \in Nat
  BY <1>1, RingSlots DEF ItemOK
<1>4. ASSUME x.writes # {} \/ x.reads # {}
      PROVE  /\ x.step \in 1 .. MaxSteps /\ x.place \in Nat /\ x.op = "run"
             /\ \E w \in x.writes : x.writes = {w} /\ WriteOK(s, x, w)
             /\ \A r \in x.reads : ReadOK(s, x, r)
  <2>1. x # Gate(x.step) /\ x # End(x.step)
    BY <1>2, <1>4
  <2> QED BY <1>1, <2>1, RingSlots DEF ItemOK
<1>5. x.step \in 1 .. MaxSteps => x.step \in 1 .. Last
  BY <1>1, LastIs
<1> QED BY <1>1, <1>3, <1>4, <1>5

\* a step begins behind everything that is still to be done
LEMMA BeginOrder ==
  ASSUME RingInv, OrderInv, BeginStep
  PROVE  OrderInv'
<1> DEFINE n == step + 1
           p == todo'
           Old(s) == ItemsIn(s, queue[s])
           New(s) == ItemsIn(s, p)
<1>1. /\ todo = <<>> /\ step <= MaxSteps /\ step' = n /\ queue' = queue /\ buffer' = buffer
      /\ misread' = misread /\ batch' \in BatchesOf(n) /\ p = StepProgram(n, batch')
  BY DEF BeginStep
<1>2. step \in Nat /\ n \in 1 .. MaxSteps + 1 /\ Last = step /\ n \in Nat /\ step < n
      /\ n - 1 = step
  BY <1>1, RingSlots DEF RingInv, Last
<1>3. Complete(n, p) /\ HostDoes(n, p)
  <2>1. batch' \in BatchTypes /\ (n = MaxSteps + 1 <=> batch'.phase = "none")
    BY <1>1, <1>2, BatchesAre
  <2> QED BY <1>1, <1>2, <2>1, StepComplete DEF RingInv
<1>4. \A s \in Streams : Pend(s) = Old(s)
  BY <1>1, ItemsOne DEF Pend
<1>5. \A s \in Streams : Pend(s)' = Old(s) \cup New(s)
  BY <1>1 DEF Pend
<1> HIDE DEF p
<1>6. \A s \in Streams : \A x \in Old(s) : ItemOK(s, x) /\ x.step \in Nat /\ x.step <= step
  BY <1>4, PendIs
<1>7. \A s \in Streams : \A x \in New(s) : ItemOK(s, x) /\ x.step = n
  BY <1>3 DEF Complete
<1>8. /\ Last' \in Nat /\ Last' <= n /\ Last' <= MaxSteps
      /\ \A k \in Nat : k <= Last' => k <= step \/ (k = n /\ n <= MaxSteps)
      /\ n <= MaxSteps => Last' = n
  BY <1>1, <1>2, RingSlots DEF Last
<1>9. ASSUME NEW s \in Streams  PROVE Lined(s)'
  <2>1. InOrder(s, queue[s]) /\ InOrder(s, p)
    BY <1>3 DEF OrderInv, Lined, Complete
  <2>2. Follow(Old(s), New(s))
    BY <1>2, <1>6, <1>7 DEF Follow, Earlier
  <2>3. \A x \in Old(s) \cup New(s) : ItemOK(s, x) /\ x.step <= n
    BY <1>2, <1>6, <1>7
  <2> QED BY <1>1, <1>5, <1>7, <2>1, <2>2, <2>3 DEF Lined, p
<1>10. ASSUME NEW s \in Streams, NEW x \in Pend(s)', NEW k \in x.step .. Last'
       PROVE  /\ End(k) \in Pend(s)'
              /\ k \in x.step + Lag(s) .. Last' => Gate(k) \in Pend(Other(s))'
  <2>1. k \in Nat /\ x.step \in Nat /\ Lag(s) \in Nat
    BY <1>2, <1>5, <1>6, <1>7, <1>8, OtherIs DEF Streams
  <2>2. CASE k = n /\ n <= MaxSteps
    <3>1. \A t \in Streams : End(n) \in New(t) /\ Gate(n) \in New(t)
      BY <1>3, <2>2 DEF Complete
    <3> QED BY <1>5, <2>2, <3>1, OtherIs
  <2>3. CASE k <= step
    <3>1. x \in Pend(s)
      BY <1>2, <1>4, <1>5, <1>7, <2>1, <2>3
    <3>2. k \in x.step .. Last
      BY <1>2, <2>1, <2>3
    <3>3. End(k) \in Pend(s)
      BY <3>1, <3>2 DEF OrderInv, Ends
    <3>4. k \in x.step + Lag(s) .. Last' => k \in x.step + Lag(s) .. Last
      BY <1>2, <2>1, <2>3
    <3>5. k \in x.step + Lag(s) .. Last' => Gate(k) \in Pend(Other(s))
      BY <3>1, <3>4 DEF OrderInv, Handshake
    <3> QED BY <1>4, <1>5, <3>3, <3>5, OtherIs
  <2> QED BY <1>8, <2>1, <2>2, <2>3
<1>11. ASSUME NEW s \in Streams  PROVE Ends(s)' /\ Handshake(s)'
  <2>1. Ends(s)'
    BY <1>10, <1>11 DEF Ends
  <2>2. ASSUME NEW x \in Pend(s)', NEW k \in x.step + Lag(s) .. Last'
        PROVE  k \in x.step .. Last'
    <3>1. x.step \in Nat /\ Lag(s) \in Nat
      BY <1>2, <1>5, <1>6, <1>7, <1>11, OtherIs DEF Streams
    <3> QED BY <1>8, <3>1
  <2>3. Handshake(s)'
    BY <1>10, <1>11, <2>2 DEF Handshake
  <2> QED BY <2>1, <2>3
<1>12. ASSUME NEW s \in Streams  PROVE Fed(s)'
  <2> SUFFICES ASSUME NEW x \in Pend(s)', NEW r \in x.reads, r[1] \notin Unordered,
                      buffer[r[1]] # r[2]
               PROVE  \/ \E y \in Pend(s)' : Earlier(y, x) /\ r \in y.writes
                      \/ \E y \in Pend(Other(s))' : r \in y.writes
    BY <1>1, <1>12 DEF Fed
  <2>0. Other(s) \in Streams
    BY <1>12, OtherIs
  <2>1. CASE x \in Old(s)
    <3>1. \/ \E y \in Pend(s) : Earlier(y, x) /\ r \in y.writes
          \/ \E y \in Pend(Other(s)) : r \in y.writes
      BY <1>4, <1>12, <2>1 DEF OrderInv, Fed
    <3> QED BY <1>4, <1>5, <1>12, <2>0, <3>1
  <2>2. CASE x \in New(s)
    <3>1. \/ r = At("tokenPool", n - 1)
          \/ \E y \in New(s) : Earlier(y, x) /\ r \in y.writes
          \/ \E y \in New(Other(s)) : r \in y.writes
      BY <1>3, <1>12, <2>2 DEF Complete, FedIn
    <3>2. CASE r = At("tokenPool", n - 1)
      <4>1. Coming(At("tokenPool", step)) /\ r = At("tokenPool", step)
        BY <1>1, <1>2, <3>2 DEF OrderInv
      <4>2. PICK y \in Pend("E") : r \in y.writes
        BY <4>1 DEF Coming
      <4>3. CASE s = "E"
        <5>1. y.step \in Nat /\ y.step <= step /\ x.step = n
          BY <1>4, <1>6, <1>7, <1>12, <2>2, <4>3
        <5>2. Earlier(y, x)
          BY <1>2, <5>1 DEF Earlier
        <5> QED BY <1>4, <1>5, <1>12, <4>2, <4>3, <5>2
      <4>4. CASE s = "S"
        BY <1>4, <1>5, <2>0, <4>2, <4>4, OtherIs
      <4> QED BY <1>12, <4>3, <4>4 DEF Streams
    <3> QED BY <1>5, <1>12, <2>0, <3>1, <3>2
  <2> QED BY <1>5, <1>12, <2>1, <2>2
<1>13. ASSUME NEW s \in Streams  PROVE Behind(s)'
  <2>1. \A b \in Out(s) : buffer[b][1] <= step /\ buffer[b][1] \in Nat
    <3>1. \A b \in Out(s) : buffer[b] \in Tags
      BY <1>13, OutAre DEF RingInv
    <3>2. \A b \in Out(s) : buffer[b][1] \in Nat
      BY <3>1 DEF Tags
    <3> QED BY <1>13, <3>2 DEF OrderInv, Behind
  <2>2. \A b \in Out(s) : buffer[b][1] <= n
    BY <1>2, <2>1
  <2>3. ASSUME NEW x \in New(s), NEW w \in x.writes
        PROVE  Upto(buffer[w[1]], w[2])
    <3>1. w[1] \in Out(s) /\ w[2][1] = n
      <4>1. x # Gate(x.step) /\ x # End(x.step)
        BY <2>3, ItemFields DEF Gate, End
      <4> QED BY <1>7, <1>13, <4>1 DEF ItemOK, WriteOK
    <3>2. buffer[w[1]][1] <= step /\ buffer[w[1]][1] \in Nat
      BY <2>1, <3>1
    <3> QED BY <1>2, <3>1, <3>2 DEF Upto
  <2>4. \A x \in Old(s) : \A w \in x.writes : Upto(buffer[w[1]], w[2])
    BY <1>4, <1>13 DEF OrderInv, Behind
  <2> QED BY <1>1, <1>5, <1>13, <2>2, <2>3, <2>4 DEF Behind
<1>14. "E" \in Streams /\ \A a : Coming(a) => Coming(a)'
  BY <1>1, <1>4, <1>5 DEF Coming, Streams
<1>15. ASSUME NEW k \in 1 .. Last'  PROVE Coming(Answer(k))'
  <2>1. CASE k <= step
    <3>1. k \in 1 .. Last
      BY <1>2, <2>1
    <3> QED BY <1>14, <3>1 DEF OrderInv
  <2>2. CASE k = n /\ n <= MaxSteps
    <3>1. \E y \in New("E") : Answer(n) \in y.writes
      BY <1>3, <2>2 DEF Complete
    <3> QED BY <1>5, <1>14, <2>2, <3>1 DEF Coming
  <2> QED BY <1>8, <2>1, <2>2
<1>16. step' <= MaxSteps => Coming(At("tokenPool", step))'
  <2> SUFFICES ASSUME n <= MaxSteps  PROVE Coming(At("tokenPool", step))'
    BY <1>1
  <2>1. \E y \in New("E") : At("tokenPool", n) \in y.writes
    BY <1>3 DEF Complete
  <2> QED BY <1>1, <1>5, <1>14, <2>1 DEF Coming
<1>17. Announced'
  <2>1. \A i, j \in DOMAIN p :
          i < j /\ ItemOf("E", p[i]) # Nothing /\ ItemOf("E", p[i]).place >= 2 =>
            ItemOf("S", p[j]) = Nothing
    BY <1>3 DEF Complete, Ahead
  <2>2. Gate(n) \notin Old("E")
    BY <1>2, <1>6, <1>14, GatesAre
  <2>3. \A i \in DOMAIN p : p[i].op = "fill" => p[i].write[1] \in Staging
    BY <1>3 DEF HostDoes
  <2>4. \A i \in DOMAIN p : p[i].op = "read" =>
          /\ i = Len(p) /\ p[i].step <= Last'
          /\ i > 1 /\ p[i - 1] = Synchronize(ForwardDone(p[i].step))
    <3>1. \A k \in 1 .. MaxSteps : k <= n => k <= Last'
      BY <1>1, <1>2, <1>8, RingSlots DEF Last
    <3> QED BY <1>3, <3>1 DEF HostDoes
  <2> QED BY <1>1, <2>1, <2>2, <2>3, <2>4 DEF Announced, p
<1> QED BY <1>1, <1>9, <1>11, <1>12, <1>13, <1>15, <1>16, <1>17 DEF OrderInv

-----------------------------------------------------------------------------
(* The host's operations.                                                  *)

OneItem(s, o) == {ItemOf(s, o)} \ {Nothing}

\* what is left of a sequence when its head is gone
LEMMA HeadItems ==
  ASSUME NEW s, NEW X, NEW p \in Seq(X), p # <<>>
  PROVE  /\ ItemsIn(s, p) = OneItem(s, Head(p)) \cup ItemsIn(s, Tail(p))
         /\ InOrder(s, p) => /\ InOrder(s, Tail(p))
                             /\ Follow(OneItem(s, Head(p)), ItemsIn(s, Tail(p)))
<1> DEFINE h == Head(p)
           t == Tail(p)
<1>1. h \in X /\ t \in Seq(X) /\ <<h>> \in Seq(X) /\ p = <<h>> \o t
  BY HeadTailProperties
<1>2. ItemsIn(s, <<h>>) = OneItem(s, h)
  BY ItemsOne DEF OneItem
<1> DEFINE one == <<h>>
<1>3. one \in Seq(X) /\ p = one \o t /\ ItemsIn(s, one) = OneItem(s, h)
  BY <1>1, <1>2
<1> HIDE DEF h, t, one
<1>4. ItemsIn(s, one \o t) = ItemsIn(s, one) \cup ItemsIn(s, t)
  BY <1>1, <1>3, ItemsConcat
<1>5. InOrder(s, one \o t) <=>
        InOrder(s, one) /\ InOrder(s, t) /\ Follow(ItemsIn(s, one), ItemsIn(s, t))
  BY <1>1, <1>3, InOrderConcat
<1> QED BY <1>3, <1>4, <1>5 DEF h, t

\* a command more at the end of a sequence
LEMMA AppendItems ==
  ASSUME NEW s, NEW X, NEW p \in Seq(X), NEW c \in X
  PROVE  /\ ItemsIn(s, Append(p, c)) = ItemsIn(s, p) \cup OneItem(s, c)
         /\ InOrder(s, p) /\ Follow(ItemsIn(s, p), OneItem(s, c)) => InOrder(s, Append(p, c))
<1> DEFINE q == <<c>>
<1>1. q \in Seq(X) /\ Append(p, c) = p \o q
  BY AppendIsConcat
<1>2. ItemsIn(s, q) = OneItem(s, c) /\ InOrder(s, q)
  BY ItemsOne DEF OneItem
<1> HIDE DEF q
<1>3. ItemsIn(s, p \o q) = ItemsIn(s, p) \cup ItemsIn(s, q)
  BY <1>1, ItemsConcat
<1>4. InOrder(s, p \o q) <=>
        InOrder(s, p) /\ InOrder(s, q) /\ Follow(ItemsIn(s, p), ItemsIn(s, q))
  BY <1>1, InOrderConcat
<1> QED BY <1>1, <1>2, <1>3, <1>4

\* what the buffers are
LEMMA ReadsWritten ==
  ASSUME RingInv, OrderInv, NEW s \in Streams, NEW x \in Pend(s), NEW r \in x.reads,
         r[1] \notin Unordered
  PROVE  \E t \in Streams : r[1] \in Out(t)
<1>1. ReadOK(s, x, r) /\ x.step \in 1 .. Last
  BY PendIs
<1>2. x.step \in Nat
  BY <1>1
<1>3. r[1] \in Local(s) \/ r \in Foreign(s, x.step)
  BY <1>1 DEF ReadOK
<1> QED BY <1>2, <1>3, ForeignAre, OtherIs

\* answers and the token pool are written by the engine's stream only
LEMMA AnswersAre ==
  /\ \A k : k \in 1 .. MaxSteps => Answer(k)[1] \in Out("E")
  /\ \A k : Answer(k)[1] = <<"tokensCpu", k>> /\ Answer(k)[2] = <<k, 0>>
  /\ \A k : At("tokenPool", k)[1] \in Out("E") /\ At("tokenPool", k)[2] = <<k, 0>>
  /\ \A k : At("tokenPool", k)[1] = <<"tokenPool", 0>>
BY DEF Answer, At, AtIndex, Out

\* nothing changes as long as the same is pending and the buffers are kept
LEMMA SamePending ==
  ASSUME RingInv, OrderInv, step' = step,
         \A s \in Streams : Pend(s)' = Pend(s),
         \A s \in Streams : \A b \in Out(s) : buffer'[b] = buffer[b]
  PROVE  /\ \A s \in Streams : Ends(s)' /\ Handshake(s)' /\ Fed(s)' /\ Behind(s)'
         /\ \A k \in 1 .. Last' : Coming(Answer(k))'
         /\ step' <= MaxSteps => Coming(At("tokenPool", step))'
<1>1. Last' = Last
  BY DEF Last
<1>2. \A s \in Streams : Other(s) \in Streams
  BY OtherIs
<1>3. \A s \in Streams : Ends(s)'
  BY <1>1 DEF OrderInv, Ends
<1>4. \A s \in Streams : Handshake(s)'
  BY <1>1, <1>2 DEF OrderInv, Handshake
<1>5. ASSUME NEW s \in Streams  PROVE Fed(s)'
  <2> SUFFICES ASSUME NEW x \in Pend(s), NEW r \in x.reads, r[1] \notin Unordered,
                      buffer'[r[1]] # r[2]
               PROVE  \/ \E y \in Pend(s) : Earlier(y, x) /\ r \in y.writes
                      \/ \E y \in Pend(Other(s)) : r \in y.writes
    BY <1>2, <1>5 DEF Fed
  <2>1. buffer'[r[1]] = buffer[r[1]]
    BY <1>5, ReadsWritten
  <2> QED BY <1>5, <2>1 DEF OrderInv, Fed
<1>6. ASSUME NEW s \in Streams  PROVE Behind(s)'
  <2>1. \A x \in Pend(s) : \A w \in x.writes : w[1] \in Out(s)
    BY <1>6, PendIs DEF WriteOK
  <2> QED BY <1>6, <2>1 DEF OrderInv, Behind
<1>7. "E" \in Streams /\ \A a : a[1] \in Out("E") /\ Coming(a) => Coming(a)'
  BY DEF Coming, Streams
<1>8. \A k \in 1 .. Last : k \in 1 .. MaxSteps
  BY LastIs, RingSlots
<1> QED BY <1>1, <1>3, <1>4, <1>5, <1>6, <1>7, <1>8, AnswersAre DEF OrderInv

\* the rest of the program after its first operation
LEMMA RestOfProgram ==
  ASSUME RingInv, todo # <<>>
  PROVE  /\ Len(todo) \in Nat \ {0} /\ Len(Tail(todo)) = Len(todo) - 1
         /\ DOMAIN todo = 1 .. Len(todo) /\ todo[1] = Head(todo)
         /\ DOMAIN Tail(todo) = 1 .. Len(todo) - 1
         /\ \A i \in DOMAIN Tail(todo) :
              i \in Nat \ {0} /\ i + 1 \in DOMAIN todo /\ Tail(todo)[i] = todo[i + 1]
         /\ Head(todo) \in Operations /\ Tail(todo) \in Programs
<1>1. todo \in Seq(Operations)
  BY DEF RingInv, Programs
<1> DEFINE p == todo
           t == Tail(todo)
<1>2. /\ Len(p) \in Nat \ {0} /\ Len(t) = Len(p) - 1 /\ p[1] = Head(p)
      /\ DOMAIN p = 1 .. Len(p) /\ t \in Seq(Operations)
      /\ Head(p) \in Operations
  BY <1>1, HeadTailProperties
<1>3. DOMAIN t = 1 .. Len(p) - 1 /\ \A i \in 1 .. Len(p) - 1 : t[i] = p[i + 1]
  BY <1>1, <1>2, HeadLeaves
<1> HIDE DEF p, t
<1>4. \A i \in DOMAIN t : i \in Nat \ {0} /\ i + 1 \in DOMAIN p /\ t[i] = p[i + 1]
  BY <1>2, <1>3
<1> QED BY <1>2, <1>3, <1>4 DEF p, t, Programs

\* what holds of an operation, and of what a stream gets from it, when the host
\* has done it
LEMMA HeadDone ==
  ASSUME RingInv, OrderInv, todo # <<>>, todo' = Tail(todo), step' = step,
         \A s \in Streams : /\ ItemsIn(s, queue'[s]) =
                                 ItemsIn(s, queue[s]) \cup OneItem(s, Head(todo))
                            /\ InOrder(s, queue'[s]),
         \A s \in Streams : \A b \in Out(s) : buffer'[b] = buffer[b],
         misread' \subseteq Unordered,
         \A k \in 1 .. Last :
           /\ Len(todo) = 2 /\ todo[2].op = "read"
           /\ Head(todo) = Synchronize(ForwardDone(k))
           => buffer[Answer(k)[1]] = Answer(k)[2]
  PROVE  OrderInv'
<1> DEFINE t == Tail(todo)
           h == Head(todo)
<1>1. todo \in Seq(Operations) /\ todo # <<>>
  BY DEF RingInv, Programs
<1>2. \A s \in Streams :
        /\ ItemsIn(s, todo) = OneItem(s, h) \cup ItemsIn(s, t)
        /\ InOrder(s, t) /\ Follow(OneItem(s, h), ItemsIn(s, t))
  BY <1>1, HeadItems DEF OrderInv, Lined
<1>3. /\ Len(todo) \in Nat \ {0} /\ Len(t) = Len(todo) - 1
      /\ DOMAIN todo = 1 .. Len(todo) /\ todo[1] = h
      /\ \A i \in DOMAIN t : i \in Nat \ {0} /\ i + 1 \in DOMAIN todo /\ t[i] = todo[i + 1]
      /\ DOMAIN t = 1 .. Len(todo) - 1
  BY RestOfProgram
<1>4. todo' = t
  OBVIOUS
<1> HIDE DEF t, h
<1>5. \A s \in Streams : Pend(s)' = Pend(s)
  <2> SUFFICES ASSUME NEW s \in Streams  PROVE Pend(s)' = Pend(s)
    OBVIOUS
  <2>1. Pend(s)' = ItemsIn(s, queue'[s]) \cup ItemsIn(s, t)
    BY <1>4 DEF Pend
  <2>2. ItemsIn(s, queue'[s]) = ItemsIn(s, queue[s]) \cup OneItem(s, h)
    BY DEF h
  <2> QED BY <1>2, <2>1, <2>2 DEF Pend
<1>6. Last' = Last
  BY DEF Last
<1>7. ASSUME NEW s \in Streams  PROVE Lined(s)'
  <2>1. Follow(ItemsIn(s, queue'[s]), ItemsIn(s, t))
    <3>1. Follow(ItemsIn(s, queue[s]), ItemsIn(s, todo))
      BY <1>7 DEF OrderInv, Lined
    <3>2. Follow(ItemsIn(s, queue[s]), ItemsIn(s, t))
      BY <1>2, <1>7, <3>1 DEF Follow
    <3>3. ItemsIn(s, queue'[s]) = ItemsIn(s, queue[s]) \cup OneItem(s, h)
      BY <1>7 DEF h
    <3>4. Follow(OneItem(s, h), ItemsIn(s, t))
      BY <1>2, <1>7
    <3> DEFINE Q == ItemsIn(s, queue[s])
               N == OneItem(s, h)
               T == ItemsIn(s, t)
    <3>5. Follow(Q, T) /\ Follow(N, T) /\ ItemsIn(s, queue'[s]) = Q \cup N
      BY <3>2, <3>3, <3>4
    <3> HIDE DEF Q, N, T
    <3>6. Follow(Q \cup N, T)
      BY <3>5, FollowUnion
    <3> QED BY <3>5, <3>6 DEF T
  <2>2. \A x \in ItemsIn(s, t) : x.step = step
    BY <1>2, <1>7 DEF OrderInv, Lined
  <2>3. \A x \in Pend(s) : ItemOK(s, x) /\ x.step <= step
    BY <1>7 DEF OrderInv, Lined
  <2>4. InOrder(s, queue'[s]) /\ InOrder(s, t)
    BY <1>2, <1>7
  <2> QED BY <1>4, <1>5, <1>7, <2>1, <2>2, <2>3, <2>4 DEF Lined
<1>8. Announced
  BY DEF OrderInv
<1>9. \A i, j \in DOMAIN t :
        i < j /\ ItemOf("E", t[i]) # Nothing /\ ItemOf("E", t[i]).place >= 2 =>
          ItemOf("S", t[j]) = Nothing
  <2>1. \A i, j \in DOMAIN t : i < j => i + 1 < j + 1
    BY <1>3
  <2> QED BY <1>3, <1>8, <2>1 DEF Announced
<1>10. ASSUME Gate(step) \in ItemsIn("E", queue'["E"])
       PROVE  ItemsIn("S", t) = {}
  <2>0. "E" \in Streams /\ "S" \in Streams
    BY DEF Streams
  <2>1. CASE Gate(step) \in ItemsIn("E", queue["E"])
    <3>1. ItemsIn("S", todo) = {}
      BY <1>8, <2>1 DEF Announced
    <3> QED BY <1>2, <2>0, <3>1
  <2>2. CASE Gate(step) = ItemOf("E", h) /\ ItemOf("E", h) # Nothing
    <3>1. ItemOf("E", todo[1]) # Nothing /\ ItemOf("E", todo[1]).place >= 2
      BY <1>3, <2>2, ItemFields DEF Gate
    <3>2. 1 \in DOMAIN todo /\ \A j \in DOMAIN t : 1 < j + 1
      BY <1>3
    <3>3. \A j \in DOMAIN t : ItemOf("S", t[j]) = Nothing
      BY <1>3, <1>8, <3>1, <3>2 DEF Announced
    <3> QED BY <3>3 DEF ItemsIn
  <2>3. ItemsIn("E", queue'["E"]) = ItemsIn("E", queue["E"]) \cup OneItem("E", h)
    BY <2>0 DEF h
  <2> QED BY <1>10, <2>1, <2>2, <2>3 DEF OneItem
<1>11. \A i \in DOMAIN t : t[i].op = "fill" => t[i].write[1] \in Staging
  BY <1>3, <1>8 DEF Announced
<1>12. ASSUME NEW i \in DOMAIN t, t[i].op = "read"
       PROVE  /\ i = Len(t) /\ t[i].step <= Last'
              /\ \/ buffer'[Answer(t[i].step)[1]] = Answer(t[i].step)[2]
                 \/ i > 1 /\ t[i - 1] = Synchronize(ForwardDone(t[i].step))
  <2> DEFINE k == t[i].step
  <2>1. i \in Nat \ {0} /\ i + 1 \in DOMAIN todo /\ t[i] = todo[i + 1]
    BY <1>3, <1>12
  <2>2. /\ i + 1 = Len(todo) /\ k <= Last
        /\ \/ buffer[Answer(k)[1]] = Answer(k)[2]
           \/ i + 1 > 1 /\ todo[i + 1 - 1] = Synchronize(ForwardDone(k))
    BY <1>8, <1>12, <2>1 DEF Announced
  <2>3. k \in 1 .. MaxSteps /\ k \in 1 .. Last
    <3>1. todo[i + 1] \in Operations
      BY <1>1, <2>1
    <3>2. k \in 1 .. MaxSteps
      BY <1>12, <2>1, <3>1, OperationFields
    <3> QED BY <2>2, <3>2, LastIs
  <2>4. buffer'[Answer(k)[1]] = buffer[Answer(k)[1]]
    BY <2>3, AnswersAre DEF Streams
  <2>5. i + 1 - 1 = i /\ i = Len(t)
    BY <1>3, <2>1, <2>2
  <2>6. CASE buffer[Answer(k)[1]] = Answer(k)[2]
    BY <1>6, <2>2, <2>4, <2>5, <2>6
  <2>7. CASE todo[i] = Synchronize(ForwardDone(k))
    <3>1. CASE i = 1
      <4>1. Len(todo) = 2 /\ todo[2].op = "read" /\ h = Synchronize(ForwardDone(k))
        BY <1>3, <1>12, <2>1, <2>2, <2>7, <3>1
      <4>2. buffer[Answer(k)[1]] = Answer(k)[2]
        BY <2>3, <4>1 DEF h
      <4> QED BY <1>6, <2>2, <2>4, <2>5, <4>2
    <3>2. CASE i > 1
      <4>1. i - 1 \in DOMAIN t /\ i - 1 + 1 = i
        BY <1>3, <1>12, <3>2
      <4>2. t[i - 1] = todo[i]
        BY <1>3, <4>1
      <4> QED BY <1>6, <2>2, <2>5, <2>7, <3>2, <4>2
    <3> QED BY <2>1, <3>1, <3>2
  <2> QED BY <2>2, <2>5, <2>6, <2>7
<1>13. Announced'
  BY <1>4, <1>9, <1>10, <1>11, <1>12 DEF Announced
<1>14. /\ \A s \in Streams : Ends(s)' /\ Handshake(s)' /\ Fed(s)' /\ Behind(s)'
       /\ \A k \in 1 .. Last' : Coming(Answer(k))'
       /\ step' <= MaxSteps => Coming(At("tokenPool", step))'
  BY <1>5, SamePending
<1> QED BY <1>7, <1>13, <1>14 DEF OrderInv

\* what the host's next operation is to the streams
LEMMA NextItems ==
  ASSUME RingInv, OrderInv, todo # <<>>, NEW s \in Streams
  PROVE  /\ InOrder(s, queue[s])
         /\ Follow(ItemsIn(s, queue[s]), OneItem(s, Head(todo)))
<1>1. todo \in Seq(Operations) /\ todo # <<>>
  BY DEF RingInv, Programs
<1>2. ItemsIn(s, todo) = OneItem(s, Head(todo)) \cup ItemsIn(s, Tail(todo))
  BY <1>1, HeadItems
<1>3. InOrder(s, queue[s]) /\ Follow(ItemsIn(s, queue[s]), ItemsIn(s, todo))
  BY DEF OrderInv, Lined
<1> QED BY <1>2, <1>3 DEF Follow

\* an operation that is nothing to the streams leaves their queues alone
LEMMA IdleHead ==
  ASSUME RingInv, OrderInv, todo # <<>>, queue' = queue,
         Head(todo).op \notin {"run", "wait", "record", "enqueue", "stage"}
  PROVE  \A s \in Streams : /\ ItemsIn(s, queue'[s]) =
                                 ItemsIn(s, queue[s]) \cup OneItem(s, Head(todo))
                            /\ InOrder(s, queue'[s])
<1> SUFFICES ASSUME NEW s \in Streams
             PROVE  /\ ItemsIn(s, queue[s]) = ItemsIn(s, queue[s]) \cup OneItem(s, Head(todo))
                    /\ InOrder(s, queue[s])
  OBVIOUS
<1>1. OneItem(s, Head(todo)) = {}
  BY DEF OneItem, ItemOf
<1> QED BY <1>1, NextItems

\* a command moves from the host's program to the end of its queue
LEMMA HostEnqueueOrder ==
  ASSUME RingInv, OrderInv, HostEnqueue
  PROVE  OrderInv'
<1> DEFINE h == Head(todo)
<1>1. /\ todo # <<>> /\ h.op = "enqueue" /\ todo' = Tail(todo) /\ step' = step
      /\ buffer' = buffer /\ misread' = misread
      /\ queue' = [queue EXCEPT ![h.stream] = Append(queue[h.stream], h.command)]
  BY DEF HostEnqueue, Doing
<1>2. h \in Operations
  BY <1>1, RestOfProgram
<1> HIDE DEF h
<1>3. h.stream \in Streams /\ h.command \in Commands
  BY <1>1, <1>2, OperationFields
<1>4. h.command \in AllCommands /\ h.command.op \in {"run", "wait", "record"}
  BY <1>3 DEF AllCommands, Commands
<1>5. ASSUME NEW s \in Streams
      PROVE  /\ ItemsIn(s, queue'[s]) = ItemsIn(s, queue[s]) \cup OneItem(s, h)
             /\ InOrder(s, queue'[s])
  <2>1. InOrder(s, queue[s]) /\ Follow(ItemsIn(s, queue[s]), OneItem(s, h))
    BY <1>1, <1>5, NextItems DEF h
  <2>2. queue \in [Streams -> Seq(AllCommands)]
    BY DEF RingInv
  <2>3. CASE s = h.stream
    <3>1. queue'[s] = Append(queue[s], h.command) /\ queue[s] \in Seq(AllCommands)
      BY <1>1, <1>3, <2>2, <2>3
    <3>2. OneItem(s, h.command) = OneItem(s, h)
      BY <1>1, <1>4, <2>3 DEF OneItem, ItemOf
    <3> QED BY <1>4, <2>1, <3>1, <3>2, AppendItems
  <2>4. CASE s # h.stream
    <3>1. queue'[s] = queue[s]
      BY <1>1, <1>3, <2>2, <2>4
    <3>2. OneItem(s, h) = {}
      BY <1>1, <2>4 DEF OneItem, ItemOf
    <3> QED BY <2>1, <3>1, <3>2
  <2> QED BY <2>3, <2>4
<1>6. \A k : h # Synchronize(ForwardDone(k))
  BY <1>1 DEF Synchronize
<1> QED BY <1>1, <1>5, <1>6, HeadDone DEF OrderInv, h

\* the host's writes touch nothing that the streams have ordered
LEMMA HostFillOrder ==
  ASSUME RingInv, OrderInv, HostFill
  PROVE  OrderInv'
<1> DEFINE h == Head(todo)
           w == Head(todo).write
<1>1. /\ todo # <<>> /\ h.op = "fill" /\ todo' = Tail(todo) /\ step' = step
      /\ misread' = misread /\ queue' = queue
      /\ buffer' = [buffer EXCEPT ![w[1]] = w[2]]
  BY DEF HostFill, Doing
<1>2. w[1] \in Staging
  <2>1. 1 \in DOMAIN todo /\ todo[1] = h
    BY <1>1, RestOfProgram
  <2> QED BY <1>1, <2>1 DEF OrderInv, Announced
<1>3. \A s \in Streams : \A b \in Out(s) : buffer'[b] = buffer[b]
  <2>1. buffer \in [Buffers -> Tags]
    BY DEF RingInv
  <2> HIDE DEF w
  <2> QED BY <1>1, <1>2, <2>1, OutAre
<1>4. \A k : h # Synchronize(ForwardDone(k))
  BY <1>1 DEF Synchronize
<1>5. \A s \in Streams : /\ ItemsIn(s, queue'[s]) = ItemsIn(s, queue[s]) \cup OneItem(s, h)
                         /\ InOrder(s, queue'[s])
  BY <1>1, IdleHead
<1> QED BY <1>1, <1>3, <1>4, <1>5, HeadDone DEF OrderInv, h

\* an end that is pending is a record in the queue
LEMMA EndsInQueue ==
  ASSUME RingInv, NEW s \in Streams, NEW k \in Nat, End(k) \in ItemsIn(s, queue[s])
  PROVE  \E i \in DOMAIN queue[s] :
           queue[s][i] = Record(IF s = "S" THEN PrepareDone(k) ELSE ForwardDone(k))
<1>1. PICK i \in DOMAIN queue[s] : ItemOf(s, queue[s][i]) = End(k)
  BY DEF ItemsIn
<1> DEFINE c == queue[s][i]
<1>2. c \in AllCommands
  <2>1. queue[s] \in Seq(AllCommands)
    BY DEF RingInv
  <2> QED BY <1>1, <2>1
<1> HIDE DEF c
<1>3. ItemOf(s, c) = End(k)
  BY <1>1 DEF c
<1>4. c.op \in {"run", "wait", "record"}
  BY <1>2 DEF AllCommands, Commands, RingCopies, RingCopy, Run
<1>5. CommandItem(s, c) = End(k)
  BY <1>3, <1>4 DEF ItemOf
<1>6. c.op = "record" /\ c.event[1] = (IF s = "S" THEN "prepare" ELSE "forward")
      /\ End(k) = End(c.event[2])
  <2>1. End(k).op = "record" /\ Nothing.op = "nothing"
    BY ItemFields DEF End, Nothing
  <2>2. \A R, W : RunItem(R, W).op = "run"
    BY ItemFields DEF RunItem
  <2>3. \A n : Gate(n).op = "wait"
    BY ItemFields DEF Gate
  <2> QED BY <1>5, <2>1, <2>2, <2>3 DEF CommandItem
<1>7. c.event[2] = k
  <2>1. \A n : End(n).step = n
    BY ItemFields DEF End
  <2> QED BY <1>6, <2>1
<1>8. c \in Commands /\ c.event \in Events /\ c = [op |-> "record", event |-> c.event]
  <2>1. c \notin RingCopies
    BY <1>6 DEF RingCopies, RingCopy, Run
  <2>2. c \in [op : {"record", "wait"}, event : Events]
    BY <1>2, <1>6, <2>1 DEF AllCommands, Commands
  <2> QED BY <1>6, <2>2 DEF Commands
<1>9. c.event = IF s = "S" THEN PrepareDone(k) ELSE ForwardDone(k)
  <2>1. c.event = <<c.event[1], c.event[2]>>
    BY <1>8 DEF Events
  <2> QED BY <1>6, <1>7, <2>1 DEF PrepareDone, ForwardDone
<1>10. c = Record(IF s = "S" THEN PrepareDone(k) ELSE ForwardDone(k))
  BY <1>8, <1>9 DEF Record
<1> QED BY <1>1, <1>10 DEF c

\* the tokens of a step whose forward is done are there
LEMMA AnswerIsThere ==
  ASSUME RingInv, OrderInv, NEW k \in 1 .. Last, Done(ForwardDone(k)),
         ItemsIn("E", todo) = {}
  PROVE  buffer[Answer(k)[1]] = Answer(k)[2]
<1> SUFFICES ASSUME buffer[Answer(k)[1]] # Answer(k)[2]  PROVE FALSE
  OBVIOUS
<1>1. "E" \in Streams /\ k \in Nat /\ Last \in Nat
  BY LastIs DEF Streams
<1>2. PICK y \in Pend("E") : Answer(k) \in y.writes
  BY DEF OrderInv, Coming
<1>3. y.step = k
  BY <1>1, <1>2, PendIs, AnswersAre DEF WriteOK
<1>4. k \in y.step .. Last
  BY <1>1, <1>3
<1>5. End(k) \in Pend("E")
  BY <1>1, <1>4 DEF OrderInv, Ends
<1>6. End(k) \in ItemsIn("E", queue["E"])
  BY <1>5 DEF Pend
<1>7. \E i \in DOMAIN queue["E"] : queue["E"][i] = Record(ForwardDone(k))
  BY <1>1, <1>6, EndsInQueue
<1> QED BY <1>1, <1>7 DEF Done

\* when the event is recorded the answer is there
LEMMA HostSynchronizeOrder ==
  ASSUME RingInv, OrderInv, HostSynchronize
  PROVE  OrderInv'
<1> DEFINE h == Head(todo)
<1>1. /\ todo # <<>> /\ todo' = Tail(todo) /\ step' = step
      /\ misread' = misread /\ queue' = queue /\ buffer' = buffer
      /\ h.op = "drain" \/ (h.op = "synchronize" /\ Done(h.event))
  BY DEF HostSynchronize, Doing
<1>2. \A s \in Streams : /\ ItemsIn(s, queue'[s]) = ItemsIn(s, queue[s]) \cup OneItem(s, h)
                         /\ InOrder(s, queue'[s])
  BY <1>1, IdleHead
<1>3. ASSUME NEW k \in 1 .. Last, Len(todo) = 2, todo[2].op = "read",
             h = Synchronize(ForwardDone(k))
      PROVE  buffer[Answer(k)[1]] = Answer(k)[2]
  <2>1. h.op = "synchronize" /\ h.event = ForwardDone(k)
    BY <1>3 DEF Synchronize
  <2>2. DOMAIN todo = {1, 2} /\ todo[1] = h
    BY <1>1, <1>3, RestOfProgram
  <2>3. ItemOf("E", todo[1]) = Nothing /\ ItemOf("E", todo[2]) = Nothing
    BY <1>3, <2>1, <2>2 DEF ItemOf
  <2>4. ItemsIn("E", todo) = {}
    BY <2>2, <2>3 DEF ItemsIn
  <2> QED BY <1>1, <2>1, <2>4, AnswerIsThere
<1> QED BY <1>1, <1>2, <1>3, HeadDone DEF OrderInv, h

\* the host reads the answer that it has waited for
LEMMA HostReadOrder ==
  ASSUME RingInv, OrderInv, HostRead
  PROVE  OrderInv'
<1> DEFINE h == Head(todo)
<1>1. /\ todo # <<>> /\ h.op = "read" /\ todo' = Tail(todo) /\ step' = step
      /\ queue' = queue /\ buffer' = buffer
      /\ misread' = misread \cup Misreads({Answer(h.step)})
  BY DEF HostRead, Doing
<1>2. \A s \in Streams : /\ ItemsIn(s, queue'[s]) = ItemsIn(s, queue[s]) \cup OneItem(s, h)
                         /\ InOrder(s, queue'[s])
  BY <1>1, IdleHead
<1>3. \A k : h # Synchronize(ForwardDone(k))
  BY <1>1 DEF Synchronize
<1>4. misread' \subseteq Unordered
  <2>1. 1 \in DOMAIN todo /\ todo[1] = h
    BY <1>1, RestOfProgram
  <2>2. buffer[Answer(h.step)[1]] = Answer(h.step)[2]
    BY <1>1, <2>1 DEF OrderInv, Announced
  <2>3. Misreads({Answer(h.step)}) = {}
    BY <2>2 DEF Misreads
  <2> QED BY <1>1, <2>3 DEF OrderInv
<1> QED BY <1>1, <1>2, <1>3, <1>4, HeadDone DEF h

\* the copy from the slot is to the stream what the plan was to the host
LEMMA HostStageOrder ==
  ASSUME RingInv, OrderInv, HostStage
  PROVE  OrderInv'
<1> DEFINE h == Head(todo)
           u == Head(todo).tag
           a == RingCopy(slot, u)
           r == Record(<<"slot", u>>)
<1>1. /\ todo # <<>> /\ h.op = "stage" /\ todo' = Tail(todo) /\ step' = step
      /\ misread' = misread /\ buffer' = [buffer EXCEPT ![<<"ring", slot>>] = u]
      /\ queue' = [queue EXCEPT !["E"] = queue["E"] \o <<a, r>>]
  BY DEF HostStage, UseSlot, Doing, RingCopy
<1>2. h \in Operations
  BY <1>1, RestOfProgram
<1>3. u \in Tags /\ slot \in Slots /\ "E" \in Streams /\ "S" \in Streams
  BY <1>1, <1>2, OperationFields DEF RingInv, Streams
<1>4. OneItem("E", a) = OneItem("E", h) /\ OneItem("E", r) = {} /\ OneItem("S", h) = {}
  <2> DEFINE w == <<<<"intWorkspace", 0>>, u>>
             read == <<<<"ring", slot>>, u>>
  <2>1. a.op = "run" /\ a.reads = {read} /\ a.writes = {w}
    BY DEF RingCopy, Run
  <2>2. read[1] \in Ring
    BY <1>3 DEF Ring
  <2>3. w[1][1] = "intWorkspace"
    OBVIOUS
  <2>4. ItemOf("E", h) = RunItem({}, {w})
    BY <1>1 DEF ItemOf
  <2>5. r.op = "record" /\ r.event[1] = "slot"
    BY DEF Record
  <2> HIDE DEF h, u, a, r, w, read
  <2>6. {x \in {read} : x[1] \notin Ring} = {} /\ {x \in {} : x[1] \notin Ring} = {}
    BY <2>2
  <2>7. \A R : PlaceOf(w, R) = 2 * w[2][2] + 2
    BY <2>3 DEF PlaceOf
  <2>8. (CHOOSE v \in {w} : TRUE) = w
    OBVIOUS
  <2>9. RunItem({read}, {w}) = RunItem({}, {w})
    BY <2>6, <2>7, <2>8 DEF RunItem
  <2>10. ItemOf("E", a) = RunItem({read}, {w})
    BY <2>1 DEF ItemOf, CommandItem
  <2>11. ItemOf("E", r) = Nothing
    BY <2>5 DEF ItemOf, CommandItem
  <2>12. ItemOf("S", h) = Nothing
    BY <1>1 DEF ItemOf, h
  <2> QED BY <2>4, <2>9, <2>10, <2>11, <2>12 DEF OneItem
<1>5. a \in AllCommands /\ r \in AllCommands /\ queue \in [Streams -> Seq(AllCommands)]
  <2>1. a \in RingCopies
    BY <1>3 DEF RingCopies
  <2>2. r \in Commands
    BY <1>3 DEF Record, Commands, Events
  <2> QED BY <2>1, <2>2 DEF AllCommands, RingInv
<1> HIDE DEF a, r, h, u
<1>6. ASSUME NEW s \in Streams
      PROVE  /\ ItemsIn(s, queue'[s]) = ItemsIn(s, queue[s]) \cup OneItem(s, h)
             /\ InOrder(s, queue'[s])
  <2>1. InOrder(s, queue[s]) /\ Follow(ItemsIn(s, queue[s]), OneItem(s, h))
    BY <1>1, <1>6, NextItems DEF h
  <2>2. CASE s = "E"
    <3> DEFINE q == queue[s]
               q1 == Append(q, a)
               q2 == Append(q1, r)
    <3>1. q \in Seq(AllCommands) /\ queue'[s] = q \o <<a, r>>
      BY <1>1, <1>3, <1>5, <2>2
    <3>2. q1 \in Seq(AllCommands) /\ q \o <<a, r>> = q2
      BY <1>5, <3>1
    <3> HIDE DEF q
    <3>3. ItemsIn(s, q1) = ItemsIn(s, q) \cup OneItem(s, h) /\ InOrder(s, q1)
      BY <1>4, <1>5, <2>1, <2>2, <3>1, AppendItems DEF q
    <3> HIDE DEF q1
    <3>4. Follow(ItemsIn(s, q1), {})
      BY FollowUnion
    <3>5. OneItem(s, r) = {} /\ r \in AllCommands
      BY <1>4, <1>5, <2>2
    <3>6. /\ ItemsIn(s, Append(q1, r)) = ItemsIn(s, q1) \cup OneItem(s, r)
          /\ InOrder(s, q1) /\ Follow(ItemsIn(s, q1), OneItem(s, r)) =>
               InOrder(s, Append(q1, r))
      BY <3>2, <3>5, AppendItems
    <3> HIDE DEF q2
    <3>7. ItemsIn(s, q2) = ItemsIn(s, q1) /\ InOrder(s, q2)
      BY <3>3, <3>4, <3>5, <3>6 DEF q2
    <3> QED BY <3>1, <3>2, <3>3, <3>7 DEF q
  <2>3. CASE s # "E"
    <3>1. queue'[s] = queue[s] /\ s = "S"
      BY <1>1, <1>5, <1>6, <2>3 DEF Streams
    <3> QED BY <1>4, <2>1, <3>1
  <2> QED BY <2>2, <2>3
<1>7. \A s \in Streams : \A b \in Out(s) : buffer'[b] = buffer[b]
  <2>1. <<"ring", slot>> \in Ring /\ buffer \in [Buffers -> Tags]
    BY <1>3 DEF RingInv, Ring
  <2> QED BY <1>1, <2>1, OutAre
<1>8. \A k : h # Synchronize(ForwardDone(k))
  BY <1>1 DEF Synchronize
<1> QED BY <1>1, <1>6, <1>7, <1>8, HeadDone DEF OrderInv, h

-----------------------------------------------------------------------------
(* The streams' commands.                                                  *)

\* x, first in stream s, leaves it and writes its buffers
Leaves(s, x) ==
  /\ todo' = todo /\ step' = step
  /\ Pend(s)' \subseteq Pend(s) /\ Pend(Other(s))' = Pend(Other(s))
  /\ \A y \in Pend(s) : y \in Pend(s)' \/ y = x
  /\ x.writes # {} => x \in Pend(s)
  /\ x \in Pend(s) => \A y \in Pend(s) : ~Earlier(y, x)
  /\ \A b \in Buffers :
       \/ \E w \in x.writes : w[1] = b /\ buffer'[b] = w[2]
       \/ (\A w \in x.writes : w[1] # b) /\ buffer'[b] = buffer[b]

\* the end of a step is the last of its places
LEMMA PlacesAre ==
  ASSUME RingInv, OrderInv, NEW s \in Streams, NEW x \in Pend(s)
  PROVE  /\ x.step \in Nat /\ x.place \in 0 .. 2 * Layers + 6
         /\ x.place = 2 * Layers + 6 => x = End(x.step)
<1>1. ItemOK(s, x) /\ x.step \in Nat
  BY PendIs
<1>2. /\ Gate(x.step).place = 2 /\ End(x.step).place = 2 * Layers + 6
      /\ 2 * Layers + 6 \in Nat /\ 2 * Layers + 6 > 7
  BY <1>1, GatesAre
<1>3. CASE x = Gate(x.step)
  BY <1>1, <1>2, <1>3
<1>4. CASE x = End(x.step)
  BY <1>1, <1>2, <1>4
<1>5. CASE x.place \in 0 .. 2 * Layers + 5
  BY <1>1, <1>5, RingSlots
<1> QED BY <1>1, <1>3, <1>4, <1>5 DEF ItemOK

\* nothing of a step that the other stream waits for is ahead of its gate
LEMMA GateAhead ==
  ASSUME RingInv, OrderInv, NEW s \in Streams, NEW x \in Pend(s),
         \A y \in Pend(s) : ~Earlier(y, x),
         NEW z \in Pend(Other(s)), x.step \in z.step + Lag(Other(s)) .. Last
  PROVE  x.place <= 2
<1>1. Other(s) \in Streams /\ Other(Other(s)) = s
  BY OtherIs
<1>2. Gate(x.step) \in Pend(s)
  BY <1>1 DEF OrderInv, Handshake
<1>3. ~Earlier(Gate(x.step), x)
  BY <1>2
<1>4. x.step \in Nat /\ x.place \in Nat /\ Gate(x.step).step = x.step /\ Gate(x.step).place = 2
  BY PlacesAre, GatesAre
<1> QED BY <1>3, <1>4 DEF Earlier

\* no command overwrites what one behind it, or one of the other stream, has to read
LEMMA NotOverwritten ==
  ASSUME RingInv, OrderInv, NEW s \in Streams, NEW x, Leaves(s, x),
         NEW t \in Streams, NEW y \in Pend(t), NEW r \in y.reads, r[1] \notin Unordered,
         buffer[r[1]] = r[2]
  PROVE  buffer'[r[1]] = r[2]
<1>1. ReadOK(t, y, r) /\ y.step \in 1 .. Last /\ y.place \in Nat
  BY PendIs
<1>2. PICK t2 \in Streams : r[1] \in Out(t2)
  BY ReadsWritten
<1>3. r[1] \in Buffers
  BY <1>2, OutAre
<1> SUFFICES ASSUME NEW w \in x.writes, w[1] = r[1]
             PROVE  w[2] = r[2]
  BY <1>3 DEF Leaves
<1>4. x \in Pend(s) /\ \A z \in Pend(s) : ~Earlier(z, x)
  BY DEF Leaves
<1>5. WriteOK(s, x, w) /\ x.step \in 1 .. Last /\ x.place \in Nat
  BY <1>4, PendIs, PlacesAre
<1>6. /\ w[1] \in Out(s) /\ w[2] \in Tags /\ w[2][1] = x.step
      /\ x.place <= 2 => w[1] \in {"decode", "indices"} \X {0}
      /\ IF w[1] = Workspace THEN x.place = 2 * w[2][2] + 2 ELSE w[2][2] = 0
  BY <1>5 DEF WriteOK
<1>7. w[2] = <<x.step, w[2][2]>> /\ w[2][2] \in Nat
  BY <1>6, RingSlots DEF Tags
<1>8. Upto(r[2], w[2])
  BY <1>4 DEF OrderInv, Behind
<1>9. Last \in Nat /\ x.step \in Nat /\ y.step \in Nat
  BY <1>1, <1>5, LastIs
<1>10. CASE t = s
  <2>1. ~Earlier(y, x)
    BY <1>4, <1>10
  <2>2. r[1] \in Local(s)
    <3>1. r \in Foreign(s, y.step) => r[1] \in Out(Other(s))
      BY <1>9, ForeignAre
    <3>2. r[1] \notin Out(Other(s))
      BY <1>6, OutAre, OtherIs
    <3> QED BY <1>1, <1>10, <3>1, <3>2 DEF ReadOK
  <2>3. /\ r[2] \in Tags /\ r[2][1] = y.step
        /\ IF r[1] = Workspace THEN y.place <= 2 * r[2][2] + 3 ELSE r[2][2] = 0
    <3>1. r \notin Foreign(s, y.step)
      <4>1. r \in Foreign(s, y.step) => r[1] \in Out(Other(s))
        BY <1>9, ForeignAre
      <4>2. r[1] \notin Out(Other(s))
        BY <1>6, OutAre, OtherIs
      <4> QED BY <4>1, <4>2
    <3> QED BY <1>1, <1>10, <3>1 DEF ReadOK
  <2>4. r[2] = <<y.step, r[2][2]>> /\ r[2][2] \in Nat
    BY <2>3, RingSlots DEF Tags
  <2>5. y.step = x.step /\ r[2][2] <= w[2][2] /\ x.place <= y.place
    <3>1. y.step < x.step \/ (y.step = x.step /\ r[2][2] <= w[2][2])
      BY <1>6, <1>8, <2>3 DEF Upto
    <3>2. ~(y.step < x.step) /\ (y.step = x.step => ~(y.place < x.place))
      BY <2>1 DEF Earlier
    <3> QED BY <1>1, <1>5, <3>1, <3>2
  <2>6. r[2][2] = w[2][2]
    <3> DEFINE i == r[2][2]
               j == w[2][2]
    <3>1. i \in Nat /\ j \in Nat /\ i <= j
      BY <1>7, <2>4, <2>5
    <3>2. CASE r[1] = Workspace
      <4>1. x.place = 2 * j + 2 /\ y.place <= 2 * i + 3
        BY <1>6, <2>3, <3>2
      <4> HIDE DEF i, j
      <4>2. i = j
        BY <1>1, <1>5, <2>5, <3>1, <4>1
      <4> QED BY <4>2 DEF i, j
    <3>3. CASE r[1] # Workspace
      BY <1>6, <2>3, <3>3
    <3> QED BY <3>2, <3>3
  <2> QED BY <1>7, <2>4, <2>5, <2>6
<1>11. CASE t # s
  <2>1. t = Other(s) /\ s = Other(t)
    BY <1>11 DEF Streams, Other
  <2>2. r \in Foreign(t, y.step)
    <3>1. r[1] \notin Local(t)
      BY <1>6, <1>11, OutAre, ForeignAre
    <3> QED BY <1>1, <3>1 DEF ReadOK
  <2>3. r[1] # Workspace /\ r[2] = <<y.step - Lag(s), 0>>
    BY <1>9, <2>1, <2>2, ForeignAre
  <2>4. w[2] = <<x.step, 0>>
    BY <1>6, <1>7, <2>3
  <2>5. Lag(s) \in {0, 1} /\ Lag(t) = 1 - Lag(s)
    BY <2>1 DEF Lag, Other, Streams
  <2>6. y.step - Lag(s) <= x.step
    BY <1>8, <1>9, <2>3, <2>4, <2>5 DEF Upto
  <2>7. CASE y.step - Lag(s) = x.step
    BY <2>3, <2>4, <2>7
  <2>8. CASE y.step - Lag(s) < x.step
    <3>1. x.step \in y.step + Lag(Other(s)) .. Last
      BY <1>5, <1>9, <2>1, <2>5, <2>8
    <3>2. x.place <= 2
      BY <1>4, <2>1, <3>1, GateAhead
    <3>3. w[1] \in {"decode", "indices"} \X {0}
      BY <1>6, <3>2
    <3>4. CASE t = "S"
      <4>1. r = At("tokenPool", y.step - 1)
        BY <2>2, <3>4, ForeignAre
      <4>2. r[1] = <<"tokenPool", 0>>
        BY <4>1 DEF At, AtIndex
      <4>3. <<"tokenPool", 0>> \notin {"decode", "indices"} \X {0}
        OBVIOUS
      <4> QED BY <3>3, <4>2, <4>3
    <3>5. CASE t = "E"
      <4>1. w[1] \in Out("E")
        BY <3>3 DEF Out, Local
      <4>2. s = "S"
        BY <2>1, <3>5 DEF Other
      <4> QED BY <1>6, <4>1, <4>2, OutAre
    <3> QED BY <3>4, <3>5 DEF Streams
  <2>9. y.step - Lag(s) \in Int
    BY <1>9, <2>5
  <2> QED BY <1>9, <2>6, <2>7, <2>8, <2>9
<1> QED BY <1>10, <1>11

\* what the first command of a stream reads is what was meant for it
LEMMA HeadReads ==
  ASSUME RingInv, OrderInv, NEW s \in Streams, NEW x \in Pend(s),
         \A y \in Pend(s) : ~Earlier(y, x),
         NEW r \in x.reads, r[1] \notin Unordered
  PROVE  buffer[r[1]] = r[2]
<1>1. \/ buffer[r[1]] = r[2]
      \/ \E y \in Pend(s) : Earlier(y, x) /\ r \in y.writes
      \/ \E y \in Pend(Other(s)) : r \in y.writes
  BY DEF OrderInv, Fed
<1> SUFFICES ASSUME NEW y \in Pend(Other(s)), r \in y.writes  PROVE FALSE
  BY <1>1
<1>2. ReadOK(s, x, r) /\ x.step \in 1 .. Last
  BY PendIs
<1>3. Other(s) \in Streams /\ Other(Other(s)) = s /\ Other(s) # s /\ Lag(Other(s)) \in Nat
  BY OtherIs DEF Streams
<1>4. r[1] \in Out(Other(s)) /\ r[2][1] = y.step /\ y.step \in 1 .. Last
  BY <1>3, PendIs DEF WriteOK
<1>5. x.step \in Nat /\ y.step \in Nat /\ Last \in Nat
  BY <1>2, <1>4, LastIs
<1>6. r[1] \notin Local(s)
  BY <1>3, <1>4, OutAre, ForeignAre
<1>7. x.place > 2 /\ r \in Foreign(s, x.step)
  BY <1>2, <1>6 DEF ReadOK
<1>8. r[2] = <<x.step - Lag(Other(s)), 0>>
  BY <1>5, <1>7, ForeignAre
<1>9. x.step \in y.step + Lag(Other(s)) .. Last
  <2>1. y.step = x.step - Lag(Other(s))
    BY <1>4, <1>8
  <2> QED BY <1>2, <1>3, <1>5, <2>1
<1>10. x.place <= 2
  BY <1>9, GateAhead
<1>11. x.place \in Nat
  BY PlacesAre
<1> QED BY <1>7, <1>10, <1>11

\* when a command leaves, what is still to be read is there or still to come
LEMMA FedKept ==
  ASSUME RingInv, OrderInv, NEW s \in Streams, NEW x, Leaves(s, x), NEW t \in Streams
  PROVE  Fed(t)'
<1>1. /\ Pend(t)' \subseteq Pend(t) /\ Pend(Other(t))' \subseteq Pend(Other(t))
      /\ \A y \in Pend(t) : y \in Pend(t)' \/ y = x
      /\ \A y \in Pend(Other(t)) : y \in Pend(Other(t))' \/ y = x
  <2>1. CASE t = s
    BY <2>1 DEF Leaves
  <2>2. CASE t = Other(s)
    BY <2>2, OtherIs DEF Leaves
  <2> QED BY <2>1, <2>2 DEF Streams, Other
<1> SUFFICES ASSUME NEW y \in Pend(t)', NEW r \in y.reads, r[1] \notin Unordered,
                    buffer'[r[1]] # r[2]
             PROVE  \/ \E z \in Pend(t)' : Earlier(z, y) /\ r \in z.writes
                    \/ \E z \in Pend(Other(t))' : r \in z.writes
  BY DEF Fed
<1>2. y \in Pend(t)
  BY <1>1
<1>3. r \notin x.writes
  <2> SUFFICES ASSUME r \in x.writes  PROVE FALSE
    OBVIOUS
  <2>1. x \in Pend(s)
    BY DEF Leaves
  <2>2. x.writes = {r} /\ r[1] \in Out(s)
    BY <2>1, PendIs DEF WriteOK
  <2>3. r[1] \in Buffers
    BY <2>2, OutAre
  <2>4. buffer'[r[1]] = r[2]
    BY <2>2, <2>3 DEF Leaves
  <2> QED BY <2>4
<1>4. buffer[r[1]] # r[2]
  BY <1>2, NotOverwritten
<1>5. \/ \E z \in Pend(t) : Earlier(z, y) /\ r \in z.writes
      \/ \E z \in Pend(Other(t)) : r \in z.writes
  BY <1>2, <1>4 DEF OrderInv, Fed
<1> QED BY <1>1, <1>3, <1>5

\* when a command leaves, no buffer gets ahead of what is still to be written
LEMMA BehindKept ==
  ASSUME RingInv, OrderInv, NEW s \in Streams, NEW x, Leaves(s, x), NEW t \in Streams
  PROVE  Behind(t)'
<1>1. Pend(t)' \subseteq Pend(t) /\ step' = step
  BY OtherIs DEF Leaves, Streams
<1>2. Behind(t)
  BY DEF OrderInv
<1>3. ASSUME NEW b \in Out(t)
      PROVE  \/ buffer'[b] = buffer[b]
             \/ /\ t = s /\ x \in Pend(s) /\ WriteOK(s, x, <<b, buffer'[b]>>)
                /\ \A z \in Pend(s) : ~Earlier(z, x)
  <2>1. b \in Buffers
    BY <1>3, OutAre
  <2>2. CASE \E w \in x.writes : w[1] = b /\ buffer'[b] = w[2]
    <3>1. PICK w \in x.writes : w[1] = b /\ buffer'[b] = w[2]
      BY <2>2
    <3>2. x \in Pend(s) /\ \A z \in Pend(s) : ~Earlier(z, x)
      BY <3>1 DEF Leaves
    <3>3. WriteOK(s, x, w)
      BY <3>1, <3>2, PendIs
    <3>4. t = s
      BY <1>3, <3>1, <3>3, OutAre DEF WriteOK
    <3>5. WriteOK(s, x, <<b, buffer'[b]>>)
      BY <3>1, <3>3 DEF WriteOK
    <3> QED BY <3>2, <3>4, <3>5
  <2>3. CASE buffer'[b] = buffer[b]
    BY <2>3
  <2> QED BY <2>1, <2>2, <2>3 DEF Leaves
<1>4. ASSUME NEW b \in Out(t)  PROVE buffer'[b][1] <= step
  <2>1. ASSUME WriteOK(s, x, <<b, buffer'[b]>>), x \in Pend(s)
        PROVE  buffer'[b][1] <= step
    BY <2>1, PendIs DEF WriteOK
  <2> QED BY <1>2, <1>3, <1>4, <2>1 DEF Behind
<1>5. ASSUME NEW y \in Pend(t), NEW w \in y.writes
      PROVE  Upto(buffer'[w[1]], w[2])
  <2>1. WriteOK(t, y, w) /\ y.step \in Nat /\ y.place \in Nat
    BY <1>5, PendIs, PlacesAre
  <2>2. w[1] \in Out(t)
    BY <2>1 DEF WriteOK
  <2>3. CASE buffer'[w[1]] = buffer[w[1]]
    BY <1>2, <1>5, <2>3 DEF Behind
  <2>4. CASE /\ t = s /\ x \in Pend(s) /\ WriteOK(s, x, <<w[1], buffer'[w[1]]>>)
             /\ \A z \in Pend(s) : ~Earlier(z, x)
    <3> DEFINE u == buffer'[w[1]]
               v == w[2]
    <3>1. /\ u \in Tags /\ u[1] = x.step
          /\ IF w[1] = Workspace THEN x.place = 2 * u[2] + 2 ELSE u[2] = 0
      BY <2>4 DEF WriteOK
    <3>2. /\ v \in Tags /\ v[1] = y.step
          /\ IF w[1] = Workspace THEN y.place = 2 * v[2] + 2 ELSE v[2] = 0
      BY <2>1 DEF WriteOK
    <3>3. u[2] \in Nat /\ v[2] \in Nat /\ x.step \in Nat /\ x.place \in Nat
      BY <2>4, <3>1, <3>2, RingSlots, PlacesAre DEF Tags
    <3>4. ~(y.step < x.step) /\ (y.step = x.step => ~(y.place < x.place))
      BY <1>5, <2>4 DEF Earlier
    <3> HIDE DEF u, v
    <3>5. x.step < y.step \/ (x.step = y.step /\ u[2] <= v[2])
      <4>1. CASE w[1] = Workspace
        <5> DEFINE i == u[2]
                   j == v[2]
        <5>1. x.place = 2 * i + 2 /\ y.place = 2 * j + 2 /\ i \in Nat /\ j \in Nat
          BY <3>1, <3>2, <3>3, <4>1
        <5> HIDE DEF i, j
        <5>2. x.step < y.step \/ (x.step = y.step /\ i <= j)
          BY <2>1, <3>3, <3>4, <5>1
        <5> QED BY <5>2 DEF i, j
      <4>2. CASE w[1] # Workspace
        BY <2>1, <3>1, <3>2, <3>3, <3>4, <4>2
      <4> QED BY <4>1, <4>2
    <3>6. Upto(u, v)
      BY <3>1, <3>2, <3>5 DEF Upto
    <3> QED BY <3>6 DEF u, v
  <2> QED BY <1>3, <2>2, <2>3, <2>4
<1> QED BY <1>1, <1>4, <1>5 DEF Behind

\* the tokens of a forward stay where they are once they are there
LEMMA ComingKept ==
  ASSUME RingInv, OrderInv, NEW s \in Streams, NEW x, Leaves(s, x)
  PROVE  /\ \A k \in 1 .. Last :
              /\ buffer[Answer(k)[1]] = Answer(k)[2] => buffer'[Answer(k)[1]] = Answer(k)[2]
              /\ Coming(Answer(k))'
         /\ step <= MaxSteps => Coming(At("tokenPool", step))'
<1>1. ASSUME NEW a, a[1] \in Out("E"), Coming(a),
             \A w \in x.writes : s = "E" /\ x \in Pend("E") /\ w[1] = a[1] =>
               (buffer[a[1]] = a[2] => w[2] = a[2])
      PROVE  /\ buffer[a[1]] = a[2] => buffer'[a[1]] = a[2]
             /\ Coming(a)'
  <2>0. "E" \in Streams /\ a[1] \in Buffers
    BY <1>1, OutAre DEF Streams
  <2>1. \A w \in x.writes : w[1] = a[1] => s = "E" /\ x \in Pend("E")
    <3> SUFFICES ASSUME NEW w \in x.writes, w[1] = a[1]  PROVE s = "E" /\ x \in Pend("E")
      OBVIOUS
    <3>1. x \in Pend(s)
      BY DEF Leaves
    <3>2. w[1] \in Out(s)
      BY <3>1, PendIs DEF WriteOK
    <3> QED BY <1>1, <2>0, <3>1, <3>2, OutAre
  <2>2. buffer[a[1]] = a[2] => buffer'[a[1]] = a[2]
    BY <1>1, <2>0, <2>1 DEF Leaves
  <2>3. ASSUME NEW y \in Pend("E"), a \in y.writes, y \notin Pend("E")'
        PROVE  buffer'[a[1]] = a[2]
    <3>1. y = x
      BY <2>3, OtherIs DEF Leaves, Streams
    <3>2. x.writes = {a}
      BY <2>0, <2>3, <3>1, PendIs
    <3> QED BY <2>0, <3>2 DEF Leaves
  <2> QED BY <1>1, <2>2, <2>3 DEF Coming
<1>2. /\ Last \in Nat /\ step \in Nat /\ \A k \in 1 .. Last : k \in 1 .. MaxSteps
      /\ "E" \in Streams
  BY LastIs, RingSlots DEF Streams
<1>3. ASSUME NEW w \in x.writes, x \in Pend("E")
      PROVE  /\ WriteOK("E", x, w) /\ w[2][1] = x.step /\ x.step <= step /\ x.step \in Nat
             /\ w[1] # Workspace => w[2] = <<x.step, 0>>
  <2>1. WriteOK("E", x, w) /\ x.step <= step /\ x.step \in Nat
    BY <1>2, <1>3, PendIs
  <2>2. /\ w[2] \in Tags /\ w[2][1] = x.step
        /\ IF w[1] = Workspace THEN x.place = 2 * w[2][2] + 2 ELSE w[2][2] = 0
    BY <2>1 DEF WriteOK
  <2>3. w[2] = <<w[2][1], w[2][2]>>
    BY <2>2 DEF Tags
  <2> QED BY <2>1, <2>2, <2>3
<1>4. ASSUME NEW k \in 1 .. Last
      PROVE  /\ buffer[Answer(k)[1]] = Answer(k)[2] => buffer'[Answer(k)[1]] = Answer(k)[2]
             /\ Coming(Answer(k))'
  <2> DEFINE a == Answer(k)
  <2>1. a[1] \in Out("E") /\ Coming(a)
    BY <1>2, <1>4, AnswersAre DEF OrderInv
  <2>2. a[1] = <<"tokensCpu", k>> /\ a[2] = <<k, 0>> /\ a[1] # Workspace
    BY AnswersAre DEF Workspace
  <2> HIDE DEF a
  <2>3. ASSUME NEW w \in x.writes, x \in Pend("E"), w[1] = a[1]
        PROVE  w[2] = a[2]
    <3>1. x.step = k
      BY <1>3, <2>2, <2>3 DEF WriteOK
    <3> QED BY <1>3, <2>2, <2>3, <3>1
  <2>4. /\ buffer[a[1]] = a[2] => buffer'[a[1]] = a[2]
        /\ Coming(a)'
    BY <1>1, <2>1, <2>3
  <2> QED BY <2>4 DEF a
<1>5. ASSUME step <= MaxSteps, NEW m, m = step
      PROVE  Coming(At("tokenPool", m))'
  <2> DEFINE a == At("tokenPool", m)
  <2>1. a[1] \in Out("E") /\ Coming(a)
    BY <1>5, AnswersAre DEF OrderInv
  <2>2. a[1] = <<"tokenPool", 0>> /\ a[2] = <<m, 0>> /\ a[1] # Workspace
    BY AnswersAre DEF Workspace
  <2> HIDE DEF a
  <2>3. ASSUME NEW w \in x.writes, x \in Pend("E"), w[1] = a[1], buffer[a[1]] = a[2]
        PROVE  w[2] = a[2]
    <3>1. Upto(buffer[w[1]], w[2])
      BY <1>2, <2>3 DEF OrderInv, Behind
    <3>2. w[2] = <<x.step, 0>>
      BY <1>3, <2>2, <2>3
    <3>3. step <= x.step
      BY <1>2, <1>3, <1>5, <2>2, <2>3, <3>1, <3>2 DEF Upto
    <3> QED BY <1>2, <1>3, <1>5, <2>2, <2>3, <3>2, <3>3
  <2>4. Coming(a)'
    BY <1>1, <2>1, <2>3
  <2> QED BY <2>4 DEF a
<1>6. step <= MaxSteps => Coming(At("tokenPool", step))'
  BY <1>5 DEF Coming, Leaves
<1> QED BY <1>4, <1>6

\* the end of a step is the last of it to leave
LEMMA EndsKept ==
  ASSUME RingInv, OrderInv, NEW s \in Streams, NEW x, Leaves(s, x), NEW t \in Streams
  PROVE  Ends(t)'
<1>1. Last' = Last
  BY DEF Last, Leaves
<1> SUFFICES ASSUME NEW y \in Pend(t)', NEW k \in y.step .. Last
             PROVE  End(k) \in Pend(t)'
  BY <1>1 DEF Ends
<1>2. y \in Pend(t)
  BY OtherIs DEF Leaves, Streams
<1>3. End(k) \in Pend(t)
  BY <1>2 DEF OrderInv, Ends
<1> SUFFICES ASSUME End(k) = x, t = s
             PROVE  End(k) \in Pend(t)'
  BY <1>3, OtherIs DEF Leaves, Streams
<1>4. ~Earlier(y, x)
  BY <1>2, <1>3 DEF Leaves
<1>5. y.step \in Nat /\ y.place \in 0 .. 2 * Layers + 6 /\ k \in Nat /\ y.step <= k
  BY <1>2, PlacesAre, LastIs
<1>6. x.step = k /\ x.place = 2 * Layers + 6
  BY <1>5, GatesAre
<1>7. y.step = k /\ y.place = 2 * Layers + 6
  BY <1>4, <1>5, <1>6, RingSlots DEF Earlier
<1>8. y = End(k)
  BY <1>2, <1>7, PlacesAre
<1> QED BY <1>8

\* a wait leaves only when the other stream has nothing left that it is for
LEMMA HandshakeKept ==
  ASSUME RingInv, OrderInv, NEW s \in Streams, NEW x, Leaves(s, x), NEW t \in Streams,
         \A k \in Nat : \A y \in Pend(Other(s)) :
           x = Gate(k) => k \notin y.step + Lag(Other(s)) .. Last
  PROVE  Handshake(t)'
<1>1. Last' = Last
  BY DEF Last, Leaves
<1> SUFFICES ASSUME NEW y \in Pend(t)', NEW k \in y.step + Lag(t) .. Last
             PROVE  Gate(k) \in Pend(Other(t))'
  BY <1>1 DEF Handshake
<1>2. y \in Pend(t) /\ Other(t) \in Streams
  BY OtherIs DEF Leaves, Streams
<1>3. Gate(k) \in Pend(Other(t))
  BY <1>2 DEF OrderInv, Handshake
<1>4. k \in Nat
  BY <1>2, PlacesAre, LastIs DEF Lag
<1>5. CASE t = s
  BY <1>3, <1>5 DEF Leaves
<1>6. CASE t = Other(s)
  <2>1. x # Gate(k)
    BY <1>2, <1>4, <1>6
  <2> QED BY <1>3, <1>6, <2>1, OtherIs DEF Leaves
<1> QED BY <1>5, <1>6 DEF Streams, Other

\* the gate of a step is a wait for the event of the other stream
LEMMA GateIsWait ==
  ASSUME NEW s \in Streams, NEW c \in AllCommands, NEW k \in Nat, ItemOf(s, c) = Gate(k)
  PROVE  /\ c.op = "wait"
         /\ c.event = IF s = "S" THEN ForwardDone(k - 1) ELSE PrepareDone(k)
<1>1. c.op \in {"run", "wait", "record"}
  BY DEF AllCommands, Commands, RingCopies, RingCopy, Run
<1>2. CommandItem(s, c) = Gate(k)
  BY <1>1 DEF ItemOf
<1>3. /\ c.op = "wait" /\ c.event[1] = (IF s = "S" THEN "forward" ELSE "prepare")
      /\ Gate(k) = IF s = "S" THEN Gate(c.event[2] + 1) ELSE Gate(c.event[2])
  <2>1. Gate(k).op = "wait" /\ Nothing.op = "nothing"
    BY ItemFields DEF Gate, Nothing
  <2>2. \A R, W : RunItem(R, W).op = "run"
    BY ItemFields DEF RunItem
  <2>3. \A n : End(n).op = "record"
    BY ItemFields DEF End
  <2> QED BY <1>2, <2>1, <2>2, <2>3 DEF CommandItem, Streams
<1>4. k = IF s = "S" THEN c.event[2] + 1 ELSE c.event[2]
  <2>1. \A n : Gate(n).step = n
    BY ItemFields DEF Gate
  <2> QED BY <1>3, <2>1
<1>5. c \in Commands /\ c.event \in Events
  <2>1. c \notin RingCopies
    BY <1>3 DEF RingCopies, RingCopy, Run
  <2> QED BY <1>3, <2>1 DEF AllCommands, Commands
<1>6. c.event = <<c.event[1], c.event[2]>> /\ c.event[2] \in Nat
  BY <1>3, <1>5 DEF Events
<1>7. s = "S" => c.event[2] = k - 1
  BY <1>4, <1>6
<1> QED BY <1>3, <1>4, <1>6, <1>7 DEF ForwardDone, PrepareDone

\* a gate opens when the other stream has nothing left that it is for
LEMMA GateOpens ==
  ASSUME RingInv, OrderInv, NEW s \in Streams, NEW k \in Nat, Gate(k) \in ItemsIn(s, queue[s]),
         Done(IF s = "S" THEN ForwardDone(k - 1) ELSE PrepareDone(k)),
         NEW y \in Pend(Other(s))
  PROVE  k \notin y.step + Lag(Other(s)) .. Last
<1> SUFFICES ASSUME k \in y.step + Lag(Other(s)) .. Last  PROVE FALSE
  OBVIOUS
<1> DEFINE o == Other(s)
           m == k - Lag(o)
<1>1. o \in Streams /\ Lag(o) \in {0, 1} /\ (Lag(o) = 1 <=> s = "S")
      /\ (s = "S" => o = "E") /\ (s = "E" => o = "S")
  BY OtherIs DEF Streams, Lag
<1>2. y.step \in Nat /\ Last \in Nat /\ Last <= step /\ step \in Nat
  BY <1>1, PlacesAre, LastIs
<1>3. m \in Nat /\ m \in y.step .. Last
  BY <1>1, <1>2
<1>4. End(m) \in Pend(o)
  BY <1>1, <1>3 DEF OrderInv, Ends
<1>5. End(m) \notin ItemsIn(o, queue[o])
  <2>1. ASSUME End(m) \in ItemsIn(o, queue[o])
        PROVE  \E i \in DOMAIN queue[o] :
                 queue[o][i] = Record(IF s = "S" THEN ForwardDone(k - 1) ELSE PrepareDone(k))
    <3>1. \E i \in DOMAIN queue[o] :
            queue[o][i] = Record(IF o = "S" THEN PrepareDone(m) ELSE ForwardDone(m))
      BY <1>1, <1>3, <2>1, EndsInQueue
    <3>2. (IF o = "S" THEN PrepareDone(m) ELSE ForwardDone(m))
            = IF s = "S" THEN ForwardDone(k - 1) ELSE PrepareDone(k)
      BY <1>1 DEF Streams
    <3> QED BY <3>1, <3>2
  <2> QED BY <1>1, <2>1 DEF Done
<1>6. End(m) \in ItemsIn(o, todo)
  BY <1>4, <1>5 DEF Pend
<1>7. m = step
  <2>1. End(m).step = m
    BY <1>3, GatesAre
  <2> QED BY <1>1, <1>6, <2>1 DEF OrderInv, Lined
<1>8. s = "E" /\ k = step
  BY <1>1, <1>2, <1>7 DEF Streams
<1>9. ItemsIn("S", todo) = {}
  BY <1>8 DEF OrderInv, Announced
<1> QED BY <1>1, <1>6, <1>8, <1>9

HeadItem(s) == ItemOf(s, Head(queue[s]))

\* the first command of a stream as an item
LEMMA HeadIs ==
  ASSUME RingInv, OrderInv, NEW s \in Streams, queue[s] # <<>>
  PROVE  LET x == HeadItem(s)
             c == Head(queue[s])
         IN  /\ c \in AllCommands
             /\ ItemsIn(s, queue[s]) = OneItem(s, c) \cup ItemsIn(s, Tail(queue[s]))
             /\ InOrder(s, Tail(queue[s]))
             /\ x # Nothing => x \in ItemsIn(s, queue[s]) /\ x \in Pend(s)
             /\ x \in Pend(s) => \A y \in Pend(s) : ~Earlier(y, x)
             /\ c.op = "run" => /\ x \in Pend(s) /\ x.writes = c.writes
                                /\ \A r \in c.reads : r[1] \in Ring \/ r \in x.reads
             /\ c.op # "run" => x.writes = {}
<1> DEFINE x == HeadItem(s)
           c == Head(queue[s])
           q == queue[s]
<1>1. q \in Seq(AllCommands) /\ q # <<>>
  BY DEF RingInv
<1>2. c \in AllCommands
  BY <1>1, HeadLeaves
<1>3. InOrder(s, q) /\ Follow(ItemsIn(s, q), ItemsIn(s, todo))
  BY DEF OrderInv, Lined
<1>4. /\ ItemsIn(s, q) = OneItem(s, c) \cup ItemsIn(s, Tail(q))
      /\ InOrder(s, Tail(q)) /\ Follow(OneItem(s, c), ItemsIn(s, Tail(q)))
  BY <1>1, <1>3, HeadItems
<1>5. OneItem(s, c) = {x} \ {Nothing} /\ Pend(s) = ItemsIn(s, q) \cup ItemsIn(s, todo)
  BY DEF OneItem, HeadItem, Pend
<1> HIDE DEF q
<1>6. x # Nothing => x \in ItemsIn(s, q) /\ x \in Pend(s)
  BY <1>4, <1>5
<1>7. Nothing \notin Pend(s)
  BY DEF Pend, ItemsIn
<1>8. ASSUME x \in Pend(s), NEW y \in Pend(s)  PROVE ~Earlier(y, x)
  <2>1. x # Nothing /\ x \in OneItem(s, c)
    BY <1>5, <1>7, <1>8
  <2>2. CASE y = x
    <3>1. x.step \in Nat /\ x.place \in Nat
      BY <1>8, PlacesAre
    <3> HIDE DEF x
    <3> QED BY <2>2, <3>1 DEF Earlier
  <2>3. CASE y \in ItemsIn(s, Tail(q)) \/ y \in ItemsIn(s, todo)
    BY <1>3, <1>4, <2>1, <2>3 DEF Follow
  <2> QED BY <1>4, <1>5, <1>8, <2>2, <2>3
<1>9. c.op \in {"run", "wait", "record"}
  BY <1>2 DEF AllCommands, Commands, RingCopies, RingCopy, Run
<1>10. x = CommandItem(s, c)
  BY <1>9 DEF HeadItem, ItemOf
<1>11. ASSUME c.op = "run"
       PROVE  /\ x \in Pend(s) /\ x.writes = c.writes
              /\ \A r \in c.reads : r[1] \in Ring \/ r \in x.reads
  <2>1. x = RunItem(c.reads, c.writes)
    BY <1>10, <1>11 DEF CommandItem
  <2>2. /\ x.op = "run" /\ x.writes = c.writes
        /\ x.reads = {r \in c.reads : r[1] \notin Ring}
    BY <2>1, ItemFields DEF RunItem
  <2>3. x # Nothing
    BY <2>2, ItemFields DEF Nothing
  <2> QED BY <1>6, <2>2, <2>3
<1>12. c.op # "run" => x.writes = {}
  <2>1. Nothing.writes = {} /\ \A n : Gate(n).writes = {} /\ End(n).writes = {}
    BY ItemFields DEF Nothing, Gate, End
  <2> QED BY <1>10, <2>1 DEF CommandItem
<1> QED BY <1>2, <1>4, <1>6, <1>8, <1>11, <1>12 DEF q

\* a stream's step takes the first of its items and writes what it writes
LEMMA HeadLeavesQueue ==
  ASSUME RingInv, OrderInv, NEW s \in Streams, StreamRun(s)
  PROVE  Leaves(s, HeadItem(s))
<1> DEFINE x == HeadItem(s)
           c == Head(queue[s])
           o == Other(s)
<1>1. /\ queue[s] # <<>> /\ queue' = [queue EXCEPT ![s] = Tail(queue[s])]
      /\ todo' = todo /\ step' = step
  BY DEF StreamRun
<1>2. /\ ItemsIn(s, queue[s]) = OneItem(s, c) \cup ItemsIn(s, Tail(queue[s]))
      /\ x # Nothing => x \in ItemsIn(s, queue[s]) /\ x \in Pend(s)
      /\ x \in Pend(s) => \A y \in Pend(s) : ~Earlier(y, x)
      /\ c.op = "run" => x \in Pend(s) /\ x.writes = c.writes
      /\ c.op # "run" => x.writes = {}
  BY <1>1, HeadIs
<1>3. o \in Streams /\ o # s /\ queue'[s] = Tail(queue[s]) /\ queue'[o] = queue[o]
  BY <1>1, OtherIs DEF RingInv
<1>4. Pend(o)' = Pend(o)
  BY <1>1, <1>3 DEF Pend
<1>5. /\ Pend(s) = ItemsIn(s, queue[s]) \cup ItemsIn(s, todo)
      /\ Pend(s)' = ItemsIn(s, Tail(queue[s])) \cup ItemsIn(s, todo)
  BY <1>1, <1>3 DEF Pend
<1>6. OneItem(s, c) \subseteq {x}
  BY DEF OneItem, HeadItem
<1>7. Pend(s)' \subseteq Pend(s) /\ \A y \in Pend(s) : y \in Pend(s)' \/ y = x
  BY <1>2, <1>5, <1>6
<1>8. ASSUME NEW b \in Buffers
      PROVE  \/ \E w \in x.writes : w[1] = b /\ buffer'[b] = w[2]
             \/ (\A w \in x.writes : w[1] # b) /\ buffer'[b] = buffer[b]
  <2>1. CASE c.op = "run"
    <3>1. buffer' = [d \in Buffers |->
                IF \E w \in c.writes : w[1] = d
                  THEN (CHOOSE w \in c.writes : w[1] = d)[2] ELSE buffer[d]]
      BY <2>1 DEF StreamRun
    <3>2. x.writes = c.writes
      BY <1>2, <2>1
    <3> HIDE DEF c, x
    <3>3. CASE \E w \in c.writes : w[1] = b
      <4> DEFINE v == CHOOSE w \in c.writes : w[1] = b
      <4>1. v \in c.writes /\ v[1] = b
        BY <3>3
      <4>2. buffer'[b] = v[2]
        BY <3>1, <3>3
      <4> QED BY <3>2, <4>1, <4>2
    <3>4. CASE ~\E w \in c.writes : w[1] = b
      BY <3>1, <3>2, <3>4
    <3> QED BY <3>3, <3>4
  <2>2. CASE c.op # "run"
    <3>1. buffer' = buffer
      BY <2>2 DEF StreamRun
    <3> QED BY <1>2, <2>2, <3>1
  <2> QED BY <2>1, <2>2
<1>9. x.writes # {} => x \in Pend(s)
  BY <1>2
<1> QED BY <1>1, <1>2, <1>4, <1>7, <1>8, <1>9 DEF Leaves

LEMMA StreamRunOrder ==
  ASSUME RingInv, OrderInv, NEW s \in Streams, StreamRun(s)
  PROVE  OrderInv'
<1> DEFINE x == HeadItem(s)
           c == Head(queue[s])
<1>1. /\ queue[s] # <<>> /\ queue' = [queue EXCEPT ![s] = Tail(queue[s])]
      /\ todo' = todo /\ step' = step
      /\ c.op = "run" => misread' = misread \cup Misreads(c.reads)
      /\ c.op # "run" => misread' = misread
  BY DEF StreamRun
<1>2. Leaves(s, x)
  BY HeadLeavesQueue
<1>3. /\ c \in AllCommands
      /\ ItemsIn(s, queue[s]) = OneItem(s, c) \cup ItemsIn(s, Tail(queue[s]))
      /\ InOrder(s, Tail(queue[s]))
      /\ x # Nothing => x \in ItemsIn(s, queue[s])
      /\ x \in Pend(s) => \A y \in Pend(s) : ~Earlier(y, x)
      /\ c.op = "run" => x \in Pend(s) /\ \A r \in c.reads : r[1] \in Ring \/ r \in x.reads
  BY <1>1, HeadIs
<1>4. \A t \in Streams : /\ ItemsIn(t, queue'[t]) \subseteq ItemsIn(t, queue[t])
                         /\ InOrder(t, queue'[t])
  <2> SUFFICES ASSUME NEW t \in Streams
               PROVE  /\ ItemsIn(t, queue'[t]) \subseteq ItemsIn(t, queue[t])
                      /\ InOrder(t, queue'[t])
    OBVIOUS
  <2>1. CASE t = s
    <3>1. queue'[t] = Tail(queue[s])
      BY <1>1, <2>1 DEF RingInv
    <3> QED BY <1>3, <2>1, <3>1
  <2>2. CASE t # s
    <3>1. queue'[t] = queue[t]
      BY <1>1, <2>2 DEF RingInv
    <3> QED BY <3>1 DEF OrderInv, Lined
  <2> QED BY <2>1, <2>2
<1> HIDE DEF x, c
<1>5. \A t \in Streams : Pend(t)' \subseteq Pend(t)
  BY <1>2, OtherIs DEF Leaves, Streams
<1>6. ASSUME NEW t \in Streams  PROVE Lined(t)'
  <2>1. /\ InOrder(t, todo) /\ Follow(ItemsIn(t, queue[t]), ItemsIn(t, todo))
        /\ \A y \in ItemsIn(t, todo) : y.step = step
        /\ \A y \in Pend(t) : ItemOK(t, y) /\ y.step <= step
    BY <1>6 DEF OrderInv, Lined
  <2>2. Follow(ItemsIn(t, queue'[t]), ItemsIn(t, todo))
    BY <1>4, <1>6, <2>1 DEF Follow
  <2> QED BY <1>1, <1>4, <1>5, <1>6, <2>1, <2>2 DEF Lined
<1>7. \A k \in Nat : \A y \in Pend(Other(s)) :
        x = Gate(k) => k \notin y.step + Lag(Other(s)) .. Last
  <2> SUFFICES ASSUME NEW k \in Nat, NEW y \in Pend(Other(s)), x = Gate(k)
               PROVE  k \notin y.step + Lag(Other(s)) .. Last
    OBVIOUS
  <2>1. ItemOf(s, c) = Gate(k) /\ Gate(k) # Nothing
    BY GatesAre DEF x, c, HeadItem
  <2>2. c.op = "wait" /\ c.event = IF s = "S" THEN ForwardDone(k - 1) ELSE PrepareDone(k)
    BY <1>3, <2>1, GateIsWait
  <2>3. Done(c.event)
    BY <2>2 DEF StreamRun, c
  <2>4. Gate(k) \in ItemsIn(s, queue[s])
    BY <1>3, <2>1
  <2> QED BY <2>2, <2>3, <2>4, GateOpens
<1>8. \A t \in Streams : Ends(t)' /\ Handshake(t)' /\ Fed(t)' /\ Behind(t)'
  BY <1>2, <1>7, EndsKept, HandshakeKept, FedKept, BehindKept
<1>9. Last' = Last
  BY <1>1 DEF Last
<1>10. /\ \A k \in 1 .. Last' : Coming(Answer(k))'
       /\ step' <= MaxSteps => Coming(At("tokenPool", step))'
  BY <1>1, <1>2, <1>9, ComingKept
<1>11. Announced'
  <2>1. "E" \in Streams
    BY DEF Streams
  <2>2. Announced
    BY DEF OrderInv
  <2>3. Gate(step) \in ItemsIn("E", queue'["E"]) => ItemsIn("S", todo) = {}
    BY <1>4, <2>1, <2>2 DEF Announced
  <2>4. ASSUME NEW i \in DOMAIN todo, todo[i].op = "read"
        PROVE  /\ i = Len(todo) /\ todo[i].step <= Last
               /\ \/ buffer'[Answer(todo[i].step)[1]] = Answer(todo[i].step)[2]
                  \/ i > 1 /\ todo[i - 1] = Synchronize(ForwardDone(todo[i].step))
    <3> DEFINE k == todo[i].step
    <3>1. /\ i = Len(todo) /\ k <= Last
          /\ \/ buffer[Answer(k)[1]] = Answer(k)[2]
             \/ i > 1 /\ todo[i - 1] = Synchronize(ForwardDone(k))
      BY <2>2, <2>4 DEF Announced
    <3>2. k \in 1 .. MaxSteps
      <4>1. todo \in Seq(Operations)
        BY DEF RingInv, Programs
      <4>2. todo[i] \in Operations
        BY <2>4, <4>1
      <4> QED BY <2>4, <4>2, OperationFields
    <3> HIDE DEF k
    <3>3. k \in 1 .. Last
      BY <3>1, <3>2, LastIs
    <3>4. buffer[Answer(k)[1]] = Answer(k)[2] => buffer'[Answer(k)[1]] = Answer(k)[2]
      BY <1>2, <3>3, ComingKept
    <3>5. \/ buffer'[Answer(k)[1]] = Answer(k)[2]
          \/ i > 1 /\ todo[i - 1] = Synchronize(ForwardDone(k))
      BY <3>1, <3>4
    <3> QED BY <3>1, <3>5 DEF k
  <2> QED BY <1>1, <1>9, <2>2, <2>3, <2>4 DEF Announced
<1>12. misread' \subseteq Unordered
  <2>1. misread \subseteq Unordered
    BY DEF OrderInv
  <2>2. ASSUME c.op = "run"  PROVE Misreads(c.reads) \subseteq Unordered
    <3>1. Misreads(c.reads) \subseteq Buffers \ Ring
      BY <1>1, <2>2, CommandRuns DEF c
    <3>2. ASSUME NEW r \in c.reads, buffer[r[1]] # r[2]
          PROVE  r[1] \in Unordered
      <4>1. r[1] \notin Ring
        BY <3>1, <3>2 DEF Misreads
      <4>2. r \in x.reads /\ x \in Pend(s) /\ \A y \in Pend(s) : ~Earlier(y, x)
        BY <1>3, <2>2, <3>2, <4>1
      <4> QED BY <3>2, <4>2, HeadReads
    <3> QED BY <3>2 DEF Misreads
  <2> QED BY <1>1, <2>1, <2>2
<1> QED BY <1>6, <1>8, <1>10, <1>11, <1>12 DEF OrderInv

\* every step keeps the order
LEMMA OrderNext ==
  ASSUME RingInv, OrderInv, [Next]_vars
  PROVE  OrderInv'
<1>1. CASE BeginStep
  BY <1>1, BeginOrder
<1>2. CASE HostEnqueue
  BY <1>2, HostEnqueueOrder
<1>3. CASE HostFill
  BY <1>3, HostFillOrder
<1>4. CASE HostSynchronize
  BY <1>4, HostSynchronizeOrder
<1>5. CASE HostRead
  BY <1>5, HostReadOrder
<1>6. CASE HostStage
  BY <1>6, HostStageOrder
<1>7. ASSUME NEW s \in Streams, StreamRun(s)  PROVE OrderInv'
  BY <1>7, StreamRunOrder
<1>8. CASE UNCHANGED vars
  <2>1. /\ todo' = todo /\ queue' = queue /\ buffer' = buffer /\ step' = step
        /\ misread' = misread
    BY <1>8 DEF vars
  <2>2. Last' = Last
    BY <2>1 DEF Last
  <2>3. \A s \in Streams : Pend(s)' = Pend(s)
    BY <2>1 DEF Pend
  <2>4. \A s \in Streams : Lined(s)'
    BY <2>1, <2>3 DEF OrderInv, Lined
  <2>5. Announced'
    BY <2>1, <2>2 DEF OrderInv, Announced
  <2>6. /\ \A s \in Streams : Ends(s)' /\ Handshake(s)' /\ Fed(s)' /\ Behind(s)'
        /\ \A k \in 1 .. Last' : Coming(Answer(k))'
        /\ step' <= MaxSteps => Coming(At("tokenPool", step))'
    BY <2>1, <2>3, SamePending
  <2> QED BY <2>1, <2>4, <2>5, <2>6 DEF OrderInv
<1> QED BY <1>1, <1>2, <1>3, <1>4, <1>5, <1>6, <1>7, <1>8 DEF Next, Host

-----------------------------------------------------------------------------
(* Theorems.                                                               *)

\* Every state has its type: the host runs no step after the last, every
\* buffer holds what some step put there, and the slot of the next plan is one
\* of the ring, whatever the number of layers and the size of the ring.
THEOREM TypeCorrect == Spec => []TypeOK
<1>1. RingInv => TypeOK
  BY DEF RingInv, TypeOK, Tags
<1> QED BY <1>1, RingAlways, PTL

\* acquire_pinned_int_workspace never hands out a slot that a plan has still
\* to be copied from: the copies on the engine's stream find their own plans,
\* however many layers are planned on a ring of however few slots.
THEOREM PlansAreCopied == Spec => []RingIntact
<1>1. RingInv => RingIntact
  BY DEF RingInv, RingIntact, Ring
<1> QED BY <1>1, RingAlways, PTL

\* GraphRunner::replay never finds a graph too small: can_use_cuda_graph lets
\* only batches through that the padded graph was captured large enough for,
\* for all configured sizes, lengths and chunks.
THEOREM ReplaysAlwaysFit == Spec => []ReplaysFit
<1>1. RingInv => ReplaysFit
  <2> SUFFICES ASSUME RingInv, batch.phase = "decode", CanUseCudaGraph(batch)
               PROVE  ReplayFits(batch)
    BY DEF ReplaysFit
  <2>1. batch.size \in Nat \ {0} /\ batch.longest \in Nat \ {0}
    BY DEF RingInv, BatchTypes
  <2> QED BY <2>1, GraphFits
<1> QED BY <1>1, RingAlways, PTL

\* Every command reads what was meant for it, and the host the answer that it
\* meant to: the events of preparation and forward order the two streams, so
\* that each forward runs on the inputs, positions, mappings, arguments, plans
\* and captured buffers that were written for its own step, each gather finds
\* the tokens of the forward before, and each answer is that of its step, for
\* any number of layers and slots, with or without overlap. What no event orders
\* is Unordered: the page table on the engine's stream, and the host buffers
\* that the next step fills again while a copy may still read them.
THEOREM ReadsAreOrdered == Spec => []ReadsAsMeant
<1>1. OrderInv => ReadsAsMeant
  BY DEF OrderInv, ReadsAsMeant
<1>2. RingInv /\ OrderInv /\ [Next]_vars => OrderInv'
  BY OrderNext
<1> QED BY OrderInit, RingAlways, <1>1, <1>2, PTL DEF Spec
=============================================================================
