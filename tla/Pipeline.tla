------------------------------ MODULE Pipeline -------------------------------
(***************************************************************************)
(* How the host, the scheduler's CUDA stream and the engine's CUDA stream  *)
(* work on a sequence of forwards.  The host enqueues commands to the two  *)
(* streams and runs on; a stream runs its commands in order; only events   *)
(* order the two and the host.                                             *)
(*                                                                         *)
(* A buffer is what was last written to it: a tag <<step, use>>.  A        *)
(* command names the tags it was enqueued to read; it runs whatever the    *)
(* buffers hold, and a buffer with another tag is noted in misread.        *)
(***************************************************************************)
EXTENDS Integers, Sequences, FiniteSets, GraphRunner

CONSTANTS
  OverlapModes, \* the values of enable_overlap_scheduling
  MaxSteps,     \* bound: forwards
  DecodeShapes, \* bound: decode batches, <<requests, largest device_len>>
  Samplings,    \* bound: of {"greedy", "temperature", "filtered"}
  Layers,       \* the layers of the model
  RingSize      \* kPinnedIntWorkspaceRingSize

ASSUME PipelineAssumption ==
  /\ OverlapModes \subseteq BOOLEAN
  /\ MaxSteps \in Nat \ {0} /\ Layers \in Nat \ {0} /\ RingSize \in Nat \ {0}
  /\ Samplings \subseteq {"greedy", "temperature", "filtered"}
  /\ DecodeShapes \subseteq (Nat \ {0}) \X (1 .. MaxSeqLen)

VARIABLES
  overlap,   \* enable_overlap_scheduling
  step,      \* the step the host is in
  batch,     \* the batch of the step
  todo,      \* what the host has still to do in the step
  queue,     \* stream -> its commands
  buffer,    \* buffer -> the tag of what was written last
  slot,      \* next_pinned_int_workspace_slot_
  slotUse,   \* slot -> the tag of its last user
  misread,   \* the buffers in which a read found something else
  answered   \* the steps whose tokens the host has read

vars == <<overlap, step, batch, todo, queue, buffer, slot, slotUse, misread, answered>>

Streams == {"S", "E"}  \* scheduler_stream_ and engine_.stream()
Slots == 0 .. RingSize - 1

\* pinned host buffers refilled in every step
Staging ==
  {"pageWriteHost", "positionsHost", "writeHost", "decodeHost", "samplerHost"} \X {0}

Buffers ==
  Staging
    \cup ({"pageWrite", "positions", "write", "decode", "pageTable", "tokenPool", "outLoc",
           "inputIds", "indices", "captured", "intWorkspace", "logits", "sampled"} \X {0})
    \cup ({"ring"} \X Slots)
    \cup ({"sampler"} \X (0 .. 1))
    \cup ({"tokensCpu"} \X (1 .. MaxSteps))

------------------------------------------------------------------------------
(* Commands of streams and operations of the host *)

\* what step n puts into one of the buffers of a name, or into the only one
AtIndex(name, i, n) == <<<<name, i>>, <<n, 0>>>>
At(name, n) == AtIndex(name, 0, n)

Run(reads, writes) == [op |-> "run", reads |-> reads, writes |-> writes]
Record(event) == [op |-> "record", event |-> event]
Wait(event) == [op |-> "wait", event |-> event]

Enqueue(s, command) == [op |-> "enqueue", stream |-> s, command |-> command]
Fill(name, n) == [op |-> "fill", write |-> At(name, n)]
Copy(s, from, to, n) == Enqueue(s, Run({At(from, n)}, {At(to, n)}))
Synchronize(event) == [op |-> "synchronize", event |-> event]
Drain(s) == [op |-> "drain", stream |-> s]
Read(n) == [op |-> "read", step |-> n]
Stage(n, use) == [op |-> "stage", tag |-> <<n, use>>]

ForwardDone(n) == <<"forward", n>>   \* copy_done_event of step n
PrepareDone(n) == <<"prepare", n>>   \* prepare_done_event

------------------------------------------------------------------------------
(* The host's program of a step *)

\* flush_deferred_resource_actions
FlushDeferred(n, b) ==
  IF b.deferred THEN <<Synchronize(ForwardDone(n - 1))>> ELSE <<>>

\* schedule_next_batch; the prompt of a prefill is copied from pageable memory,
\* which waits for the stream
ScheduleNextBatch(n, b) ==
  <<Enqueue("S", Wait(ForwardDone(n - 1)))>>
    \o IF b.phase = "prefill" THEN <<Drain("S")>> ELSE <<>>

\* allocate_paged and write_page_table
WritePageTable(n) ==
  <<Fill("pageWriteHost", n),
    Copy("S", "pageWriteHost", "pageWrite", n),
    Copy("S", "pageWrite", "pageTable", n)>>

\* prepare_metadata, on the engine's stream; for a prefill its tensors are
\* made from pageable memory
PrepareMetadata(n, b) ==
  IF b.phase = "decode"
    THEN <<Fill("decodeHost", n),
           Copy("E", "decodeHost", "decode", n),
           Enqueue("E", Run({At("pageTable", n), At("decode", n)}, {At("indices", n)}))>>
    ELSE <<Copy("E", "pageTable", "indices", n),
           Enqueue("E", Run({}, {At("decode", n)})),
           Drain("E")>>

Arguments(n) == AtIndex("sampler", n % 2, n)
Answer(n) == AtIndex("tokensCpu", n, n)

\* Sampler::prepare: the arguments are staged whether they are used or not
PrepareSampling(n, b) ==
  <<Fill("samplerHost", n)>>
    \o IF b.sampling = "greedy" THEN <<>>
       ELSE <<Enqueue("S", Run({At("samplerHost", n)}, {Arguments(n)}))>>

\* prepare_batch
PrepareBatch(n, b) ==
  WritePageTable(n)
    \o <<Fill("positionsHost", n),
         Copy("S", "positionsHost", "positions", n),
         Fill("writeHost", n),
         Copy("S", "writeHost", "write", n),
         Enqueue("S", Run({At("pageTable", n), At("positions", n)}, {At("outLoc", n)})),
         Enqueue("S", Run({At("tokenPool", n - 1), At("positions", n)},
                          {At("inputIds", n)}))>>
    \o PrepareMetadata(n, b)
    \o PrepareSampling(n, b)

Inputs(n) == {At("inputIds", n), At("outLoc", n), At("positions", n)}
Metadata(n) == {At("decode", n), At("indices", n)}
Plan(n, use) == <<<<"intWorkspace", 0>>, <<n, use>>>>

\* FlashInferBackend::forward in every layer: a prefill is planned in each, a
\* decode once
EagerLayers(n, b) ==
  LET Layer(use) == Enqueue("E", Run(Inputs(n) \cup Metadata(n) \cup {Plan(n, use)},
                                     {At("logits", n)}))
  IN IF b.phase = "prefill"
     THEN [i \in 1 .. 2 * Layers |-> IF i % 2 = 1 THEN Stage(n, (i + 1) \div 2)
                                                  ELSE Layer(i \div 2)]
     ELSE <<Stage(n, 1)>> \o [l \in 1 .. Layers |-> Layer(1)]

\* GraphRunner::replay: the inputs and the metadata go to the captured buffers
Replay(n) ==
  <<Enqueue("E", Run(Inputs(n) \cup Metadata(n), {At("captured", n)})),
    Stage(n, 1),
    Enqueue("E", Run({At("captured", n), Plan(n, 1)}, {At("logits", n)}))>>

\* Sampler::sample; after filtering the host looks whether it succeeded
Sample(n, b) ==
  <<Enqueue("E", Run({At("logits", n)}
                       \cup IF b.sampling = "greedy" THEN {} ELSE {Arguments(n)},
                     {At("sampled", n)}))>>
    \o IF b.sampling = "filtered" THEN <<Drain("E")>> ELSE <<>>

\* mutant: the event is not recorded again after the write to the token pool
ForwardRecordedOnce(n, b) ==
  <<Enqueue("S", Record(PrepareDone(n))), Enqueue("E", Wait(PrepareDone(n)))>>
    \o (IF CanUseCudaGraph(b) THEN Replay(n) ELSE EagerLayers(n, b))
    \o Sample(n, b)
    \o <<Enqueue("E", Run({At("sampled", n)}, {Answer(n)})),
         Enqueue("E", Record(ForwardDone(n))),
         Enqueue("E", Run({At("sampled", n), At("write", n)}, {At("tokenPool", n)}))>>

\* forward and forward_batch; the event that forward_batch recorded after the
\* copy of the tokens is recorded again before anyone waits for it
Forward(n, b) ==
  <<Enqueue("S", Record(PrepareDone(n))), Enqueue("E", Wait(PrepareDone(n)))>>
    \o (IF CanUseCudaGraph(b) THEN Replay(n) ELSE EagerLayers(n, b))
    \o Sample(n, b)
    \o <<Enqueue("E", Run({At("sampled", n)}, {Answer(n)})),
         Enqueue("E", Run({At("sampled", n), At("write", n)}, {At("tokenPool", n)})),
         Enqueue("E", Record(ForwardDone(n)))>>

\* process_forward_output
ProcessOutput(n) == IF n = 0 THEN <<>> ELSE <<Synchronize(ForwardDone(n)), Read(n)>>

\* mutant: without a next batch the pending output is forgotten
StepProgramForgets(n, b) ==
  IF b.phase = "none" THEN <<>>
  ELSE FlushDeferred(n, b) \o ScheduleNextBatch(n, b) \o PrepareBatch(n, b)
         \o Forward(n, b) \o ProcessOutput(n - 1)

\* step_overlap and step_no_overlap
StepProgram(n, b) ==
  IF overlap
    THEN FlushDeferred(n, b)
           \o ScheduleNextBatch(n, b)
           \o (IF b.phase = "none" THEN <<>> ELSE PrepareBatch(n, b) \o Forward(n, b))
           \o ProcessOutput(n - 1)
    ELSE ScheduleNextBatch(n, b)
           \o (IF b.phase = "none" THEN <<>>
               ELSE PrepareBatch(n, b) \o Forward(n, b) \o ProcessOutput(n))

------------------------------------------------------------------------------
(* The state machine *)

NoBatch(deferred) ==
  [phase |-> "none", size |-> 0, longest |-> 0, sampling |-> "greedy", deferred |-> deferred]

\* the batches of a step, a prefill before any decode; something may be
\* deferred when an output was processed with a forward pending
BatchesOf(n) ==
  LET deferred == IF overlap /\ n > 2 THEN BOOLEAN ELSE {FALSE}
      shapes == IF n = 1 THEN {} ELSE DecodeShapes
  IN IF n > MaxSteps THEN {NoBatch(d) : d \in deferred}
     ELSE {[phase |-> "prefill", size |-> 1, longest |-> 1, sampling |-> s, deferred |-> d] :
             s \in Samplings, d \in deferred}
            \cup {[phase |-> "decode", size |-> shape[1], longest |-> shape[2],
                   sampling |-> s, deferred |-> d] :
                    shape \in shapes, s \in Samplings, d \in deferred}

Init ==
  /\ overlap \in OverlapModes
  /\ step = 0
  /\ batch = NoBatch(FALSE)
  /\ todo = <<>>
  /\ queue = [s \in Streams |-> <<>>]
  /\ buffer = [b \in Buffers |-> <<0, 0>>]
  /\ slot = 0
  /\ slotUse = [s \in Slots |-> <<0, 0>>]
  /\ misread = {}
  /\ answered = {}

\* an event that was recorded in no stream counts as done, as in CUDA
Done(event) ==
  \A s \in Streams : \A i \in DOMAIN queue[s] : queue[s][i] # Record(event)

\* the host begins a step
BeginStep ==
  /\ todo = <<>>
  /\ step <= MaxSteps
  /\ step' = step + 1
  /\ batch' \in BatchesOf(step + 1)
  /\ todo' = StepProgram(step + 1, batch')
  /\ UNCHANGED <<overlap, queue, buffer, slot, slotUse, misread, answered>>

Doing(op) == todo # <<>> /\ Head(todo).op = op

HostEnqueue ==
  /\ Doing("enqueue")
  /\ todo' = Tail(todo)
  /\ queue' = [queue EXCEPT ![Head(todo).stream] = Append(@, Head(todo).command)]
  /\ UNCHANGED <<overlap, step, batch, buffer, slot, slotUse, misread, answered>>

\* the host fills a staging buffer
HostFill ==
  /\ Doing("fill")
  /\ todo' = Tail(todo)
  /\ buffer' = [buffer EXCEPT ![Head(todo).write[1]] = Head(todo).write[2]]
  /\ UNCHANGED <<overlap, step, batch, queue, slot, slotUse, misread, answered>>

\* the host waits for an event or for a stream
HostSynchronize ==
  /\ \/ Doing("synchronize") /\ Done(Head(todo).event)
     \/ Doing("drain") /\ queue[Head(todo).stream] = <<>>
  /\ todo' = Tail(todo)
  /\ UNCHANGED <<overlap, step, batch, queue, buffer, slot, slotUse, misread, answered>>

\* the buffers of reads that hold something else
Misreads(reads) == {r[1] : r \in {r \in reads : buffer[r[1]] # r[2]}}

HostRead ==
  /\ Doing("read")
  /\ todo' = Tail(todo)
  /\ misread' = misread \cup Misreads({Answer(Head(todo).step)})
  /\ answered' = answered \cup {Head(todo).step}
  /\ UNCHANGED <<overlap, step, batch, queue, buffer, slot, slotUse>>

\* mutant: the next slot may be past the last one
UseSlotPastEnd ==
  /\ todo' = Tail(todo)
  /\ buffer' = [buffer EXCEPT ![<<"ring", slot>>] = Head(todo).tag]
  /\ slotUse' = [slotUse EXCEPT ![slot] = Head(todo).tag]
  /\ slot' = IF slot = RingSize THEN 0 ELSE slot + 1
  /\ UNCHANGED <<overlap, step, batch, queue, misread, answered>>

\* the slot is filled, copied from, and its event recorded
UseSlot ==
  /\ todo' = Tail(todo)
  /\ buffer' = [buffer EXCEPT ![<<"ring", slot>>] = Head(todo).tag]
  /\ slotUse' = [slotUse EXCEPT ![slot] = Head(todo).tag]
  /\ slot' = (slot + 1) % RingSize
  /\ queue' = [queue EXCEPT !["E"] = @ \o
                 <<Run({<<<<"ring", slot>>, Head(todo).tag>>}, {<<<<"intWorkspace", 0>>, Head(todo).tag>>}),
                   Record(<<"slot", Head(todo).tag>>)>>]
  /\ UNCHANGED <<overlap, step, batch, misread, answered>>

\* mutant: a slot is taken whether it was copied from or not
HostStageAtOnce == Doing("stage") /\ UseSlot

\* acquire_pinned_int_workspace: the copy from the slot must have been done
HostStage ==
  /\ Doing("stage")
  /\ Done(<<"slot", slotUse[slot]>>)
  /\ UseSlot

\* a stream runs its next command
StreamRun(s) ==
  /\ queue[s] # <<>>
  /\ LET c == Head(queue[s])
     IN \/ /\ c.op = "run"
           /\ misread' = misread \cup Misreads(c.reads)
           /\ buffer' = [b \in Buffers |->
                IF \E w \in c.writes : w[1] = b
                  THEN (CHOOSE w \in c.writes : w[1] = b)[2] ELSE buffer[b]]
        \/ /\ c.op = "record"
           /\ UNCHANGED <<misread, buffer>>
        \/ /\ c.op = "wait"
           /\ Done(c.event)
           /\ UNCHANGED <<misread, buffer>>
  /\ queue' = [queue EXCEPT ![s] = Tail(@)]
  /\ UNCHANGED <<overlap, step, batch, todo, slot, slotUse, answered>>

Host == BeginStep \/ HostEnqueue \/ HostFill \/ HostSynchronize \/ HostRead \/ HostStage

Next == Host \/ \E s \in Streams : StreamRun(s)

Spec == Init /\ [][Next]_vars

\* the host runs on, and the device runs every stream that can
FairSpec == Spec /\ WF_vars(Host) /\ \A s \in Streams : WF_vars(StreamRun(s))

------------------------------------------------------------------------------
(* Properties *)

\* The type of the state.
TypeOK ==
  /\ step \in 0 .. MaxSteps + 1
  /\ DOMAIN queue = Streams
  /\ buffer \in [Buffers -> (0 .. MaxSteps) \X (0 .. Layers)]
  /\ slot \in Slots
  /\ answered \subseteq 1 .. MaxSteps

\* what is read by the engine's stream from the page table, and from buffers
\* that the host fills again in the next step
Unordered == Staging \cup {<<"pageTable", 0>>}

\* Every command and the host read what was meant for them: each forward its
\* own inputs, positions, sampling arguments and plans, each gather the tokens
\* of the forward before, each answer the tokens of its step.
ReadsAsMeant == misread \subseteq Unordered

\* A plan is copied from its slot of the ring before the slot is filled again.
RingIntact == misread \cap ({"ring"} \X Slots) = {}

\* A graph is replayed only for a batch that it was captured large enough for.
ReplaysFit ==
  batch.phase = "decode" /\ CanUseCudaGraph(batch) => ReplayFits(batch)

\* Every step is answered: host and streams never wait for one another.
EveryStepAnswered == <>(answered = 1 .. MaxSteps /\ todo = <<>> /\ step > MaxSteps)

\* "all scheduler-produced tensors consumed on the engine stream must remain
\* protected" by recordStream "or explicit CUDA event ordering"; no host
\* workspace is overwritten before the copy from it is done.
AllReadsOrdered == misread = {}
==============================================================================
