----------------------------- MODULE GraphRunner -----------------------------
(***************************************************************************)
(* GraphRunner (engine/engine.cc): for which decode batches a captured     *)
(* CUDA graph is replayed, and what is captured for them.  A batch is      *)
(* described by its phase, its number of requests and the largest          *)
(* device_len among them.                                                  *)
(***************************************************************************)
EXTENDS Integers, FiniteSets, FiniteSetsExt

CONSTANTS
  EnableCudaGraph,
  ConfiguredSizes,      \* cuda_graph_batch_sizes, {} when not given
  MaxGraphBatch,        \* cuda_graph_max_batch_size or max_running_req
  MaxSeqLen,            \* the columns of the page table
  CaptureMaxSeqLenSet,  \* cuda_graph_capture_max_seq_len, 0 when not given
  KvChunk               \* kv_chunk_size of the plans made at capture

ASSUME GraphRunnerAssumption ==
  /\ EnableCudaGraph \in BOOLEAN
  /\ ConfiguredSizes \subseteq Int /\ MaxGraphBatch \in Int
  /\ MaxSeqLen \in Nat \ {0} /\ CaptureMaxSeqLenSet \in Int
  /\ KvChunk \in Nat \ {0}

\* determine_batch_sizes
GraphBatchSizes ==
  IF ~EnableCudaGraph THEN {}
  ELSE {s \in 1 .. MaxGraphBatch :
          IF ConfiguredSizes # {} THEN s \in ConfiguredSizes
          ELSE s \in {1, 2, MaxGraphBatch} \cup {2 ^ i : i \in 2 .. MaxGraphBatch}}

\* max_batch_size_
MaxBatchSize == IF GraphBatchSizes = {} THEN 0 ELSE Max(GraphBatchSizes)

CaptureMaxSeqLen ==
  IF CaptureMaxSeqLenSet > 0 THEN Min({CaptureMaxSeqLenSet, MaxSeqLen}) ELSE MaxSeqLen

\* mutant: no look at the lengths
CanUseAnyLength(b) ==
  /\ EnableCudaGraph
  /\ b.phase = "decode"
  /\ GraphBatchSizes # {}
  /\ b.size <= MaxBatchSize

\* can_use_cuda_graph
CanUseCudaGraph(b) ==
  /\ EnableCudaGraph
  /\ b.phase = "decode"
  /\ GraphBatchSizes # {}
  /\ b.size <= MaxBatchSize
  /\ b.longest <= CaptureMaxSeqLen

\* pad_batch: the size with dummy requests, that of the next larger graph
PaddedSize(b) ==
  IF CanUseCudaGraph(b) THEN Min({s \in GraphBatchSizes : s >= b.size}) ELSE b.size

Tiles(len) == (len + KvChunk - 1) \div KvChunk

\* prepare_for_capture: the capacity of the plan and of the indices of a
\* graph, captured with requests of the largest length
CapturedTiles(size) == size * Tiles(CaptureMaxSeqLen)
CapturedIndices(size) == size * CaptureMaxSeqLen

\* prepare_for_replay: what a padded batch needs of them at most; a dummy
\* request has one token
ReplayTiles(b) == b.size * Tiles(b.longest) + (PaddedSize(b) - b.size) * Tiles(1)
ReplayIndices(b) == b.size * b.longest + (PaddedSize(b) - b.size)

\* replay: the checks that throw when the graph does not fit the batch
ReplayFits(b) ==
  /\ PaddedSize(b) \in GraphBatchSizes
  /\ ReplayTiles(b) <= CapturedTiles(PaddedSize(b))
  /\ ReplayIndices(b) <= CapturedIndices(PaddedSize(b))
==============================================================================
