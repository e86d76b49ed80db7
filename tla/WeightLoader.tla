---------------------------- MODULE WeightLoader -----------------------------
(***************************************************************************)
(* WeightLoader (models/weight_loader.cc): one rank reads the safetensors  *)
(* files of a checkpoint, fuses the tensors of each file and copies its    *)
(* shard of every fused tensor into the parameter of that name.  Reader    *)
(* threads run ahead of the copying, which takes the files in order.       *)
(*                                                                         *)
(* A tensor is its axes, each a sequence of labels: which rows or columns  *)
(* of which projection these are.  head_dim is 1.  A name is a record:     *)
(* the projection (slot or fused group), the kind, and the expert: Dense   *)
(* for none, Packed for the stack of all.                                  *)
(***************************************************************************)
EXTENDS Integers, Sequences, SequencesExt, FiniteSets, FiniteSetsExt

CONSTANTS
  Configs,        \* [heads, kvHeads, inter, experts, bias, fp8, size]
  Layouts(_, _),  \* the layouts of a set of tensors over the files: sets of
                  \* functions from name to the files that hold the tensor
  NumFiles,       \* *.safetensors in the directory
  EnvParallelism, \* SGLANG_WEIGHT_LOAD_PARALLELISM, 0 when not set
  HwThreads,      \* hardware_concurrency()
  MemoryShards    \* shards of 48 GiB that memory.max holds, 0 for no limit

VARIABLES
  config, rank,
  layout,    \* name -> the files with that tensor
  nextFile,  \* next_file, from 1
  inFlight,  \* in_flight: the files being read, in order
  reader,    \* file -> its reader: "none", "reading", "read" or "threw"
  params,    \* param_map: name -> the tensor last copied to it
  outcome    \* of load_weights: "loading", "unwinding", "loaded" or "failed"

vars == <<config, rank, layout, nextFile, inFlight, reader, params, outcome>>

Files == 1 .. NumFiles
Dense == -1
Packed == -2
Hidden == 2

AtLeast(n, m) == IF n >= m THEN n ELSE m
AtMost(n, m) == IF n <= m THEN n ELSE m

ASSUME ConfigsAssumption ==
  \A c \in Configs : /\ c.size \in Nat \ {0}
                     /\ c.heads % c.size = 0 /\ c.kvHeads % c.size = 0
                     /\ c.inter % c.size = 0

ASSUME FilesAssumption ==
  /\ NumFiles \in Nat \ {0}
  /\ EnvParallelism \in Nat /\ HwThreads \in Nat /\ MemoryShards \in Nat

------------------------------------------------------------------------------
(* The checkpoint *)

Name(slot, kind, expert) == [slot |-> slot, kind |-> kind, expert |-> expert]

ExpertIds(c) == IF c.experts = 0 THEN {Dense} ELSE 0 .. c.experts - 1

MlpNames(c) ==
  {Name(s, "weight", e) : s \in {"gate", "up", "down"}, e \in ExpertIds(c)}

CheckpointNames(c) ==
  {Name(s, "weight", Dense) : s \in {"q", "k", "v", "o", "norm", "vision"}}
    \cup (IF c.bias THEN {Name(s, "bias", Dense) : s \in {"q", "k", "v"}} ELSE {})
    \cup MlpNames(c)
    \cup (IF c.fp8 THEN {[n EXCEPT !.kind = "scale_inv"] : n \in MlpNames(c)} ELSE {})

Labels(slot, n) == [i \in 1 .. n |-> <<slot, i>>]
HiddenAxis == Labels("hidden", Hidden)

\* the rows (of o and down: the columns) of a projection
Width(c, slot) ==
  CASE slot \in {"q", "o"} -> c.heads
    [] slot \in {"k", "v"} -> c.kvHeads
    [] slot \in {"gate", "up", "down"} -> c.inter
    [] OTHER -> Hidden

\* read_safetensors: the tensor of a name as file holds it
Stored(c, n, file) ==
  [axes |-> CASE n.kind = "bias" -> <<Labels(n.slot, Width(c, n.slot))>>
              [] n.slot \in {"o", "down"} ->
                   <<HiddenAxis, Labels(n.slot, Width(c, n.slot))>>
              [] n.slot = "norm" -> <<HiddenAxis>>
              [] OTHER -> <<Labels(n.slot, Width(c, n.slot)), HiddenAxis>>,
   fp8  |-> c.fp8 /\ n \in MlpNames(c),
   file |-> file]

Sizes(t) == [i \in DOMAIN t.axes |-> Len(t.axes[i])]

------------------------------------------------------------------------------
(* merge_weights: the tensors of one file, fused *)

\* MERGE_GROUPS and SLOT_NAMES
SlotsOf(group) ==
  CASE group = "qkv" -> <<"q", "k", "v">>
    [] group = "gate_up" -> <<"gate", "up">>
    [] OTHER -> <<group>>

GroupOf(slot) ==
  CASE slot \in {"q", "k", "v"} -> "qkv"
    [] slot \in {"gate", "up"} -> "gate_up"
    [] OTHER -> slot

MergedName(n) == [n EXCEPT !.slot = GroupOf(n.slot)]
PackedName(n) == IF n.expert = Dense THEN n ELSE [n EXCEPT !.expert = Packed]

\* the names of a file that are weights of the language model
Weights(names) == {n \in names : n.kind # "scale_inv" /\ n.slot # "vision"}

\* a weight is dequantized when its scale is in the same file
Dequantized(names, n, t) ==
  IF [n EXCEPT !.kind = "scale_inv"] \in names THEN [t EXCEPT !.fp8 = FALSE] ELSE t

GroupFilled(names, m) ==
  \A s \in ToSet(SlotsOf(m.slot)) : [m EXCEPT !.slot = s] \in names

ExpertsIn(names, p) ==
  {n.expert : n \in {n \in Weights(names) : PackedName(MergedName(n)) = p}}

\* "Incomplete merge groups" and "Incomplete expert tensor group"
MergeThrows(names) ==
  \E n \in Weights(names) :
    \/ ~GroupFilled(names, MergedName(n))
    \/ /\ n.expert # Dense
       /\ LET es == ExpertsIn(names, PackedName(MergedName(n)))
          IN es # 0 .. Cardinality(es) - 1

\* torch::cat along the first axis
Cat(ts) ==
  [axes |-> [Head(ts).axes EXCEPT ![1] = FlattenSeq([i \in DOMAIN ts |-> ts[i].axes[1]])],
   fp8  |-> \E i \in DOMAIN ts : ts[i].fp8,
   file |-> Head(ts).file]

Fused(c, names, file, m) ==
  Cat([i \in DOMAIN SlotsOf(m.slot) |->
         LET n == [m EXCEPT !.slot = SlotsOf(m.slot)[i]]
         IN Dequantized(names, n, Stored(c, n, file))])

\* torch::stack: an axis of experts before those of each
Stack(c, names, file, p) ==
  LET of(e) == Fused(c, names, file, [p EXCEPT !.expert = e])
      experts == ExpertsIn(names, p)
  IN [axes |-> <<Labels("expert", Cardinality(experts))>> \o of(0).axes,
      fp8  |-> \E e \in experts : of(e).fp8,
      file |-> file]

MergeWeights(c, names, file) ==
  LET merged == {MergedName(n) : n \in Weights(names)}
  IN [p \in {PackedName(m) : m \in merged} |->
        IF p.expert = Dense THEN Fused(c, names, file, p)
        ELSE Stack(c, names, file, p)]

------------------------------------------------------------------------------
(* shard_tensor_for_parameter *)

ParamNames(c) ==
  {PackedName(MergedName(n)) : n \in Weights(CheckpointNames(c))}

\* the sizes LinearQKVMerged, LinearColParallelMerged, LinearRowParallel,
\* LinearOProj and MoELayer give their parameters
ParamSizes(c, p) ==
  LET local(slot) == Width(c, slot) \div c.size
      matrix == CASE p.slot = "qkv" -> <<local("q") + 2 * local("k"), Hidden>>
                  [] p.slot = "gate_up" -> <<2 * local("gate"), Hidden>>
                  [] p.slot \in {"o", "down"} -> <<Hidden, local(p.slot)>>
                  [] OTHER -> <<Hidden>>
  IN IF p.kind = "bias" THEN <<matrix[1]>>
     ELSE IF p.expert = Packed THEN <<c.experts>> \o matrix
     ELSE matrix

\* narrow
Narrow(axis, from, n) == SubSeq(axis, from + 1, from + n)

OnAxis(t, i, axis) == [t EXCEPT !.axes[i] = axis]

\* slice_dim; 0-based rank r
SliceDim(c, r, t, i) ==
  LET n == Len(t.axes[i]) \div c.size IN OnAxis(t, i, Narrow(t.axes[i], r * n, n))

\* shard_qkv_weight
ShardQKV(c, r, t) ==
  LET q == c.heads \div c.size
      kv == c.kvHeads \div c.size
  IN OnAxis(t, 1, Narrow(t.axes[1], r * q, q)
                    \o Narrow(t.axes[1], c.heads + r * kv, kv)
                    \o Narrow(t.axes[1], c.heads + c.kvHeads + r * kv, kv))

\* shard_gate_up_2d, and shard_expert_tensor on the axis after the experts
ShardGateUp(c, r, t, i) ==
  LET half == Len(t.axes[i]) \div 2
      n == half \div c.size
  IN OnAxis(t, i, Narrow(t.axes[i], r * n, n) \o Narrow(t.axes[i], half + r * n, n))

\* mutant: one contiguous slice of gate and up together
ShardForParameterWhole(c, r, p, t) ==
  IF Sizes(t) = ParamSizes(c, p) \/ c.size = 1 THEN t
  ELSE IF p.kind = "bias" THEN SliceDim(c, r, t, 1)
  ELSE IF p.slot = "qkv" THEN ShardQKV(c, r, t)
  ELSE SliceDim(c, r, t, CHOOSE i \in DOMAIN t.axes : Sizes(t)[i] # ParamSizes(c, p)[i])

\* a bias has one axis: its contiguous slice; no rule is met only by names of
\* no model of the repository
ShardForParameter(c, r, p, t) ==
  IF Sizes(t) = ParamSizes(c, p) \/ c.size = 1 THEN t
  ELSE IF p.expert = Packed
         THEN IF p.slot = "gate_up" THEN ShardGateUp(c, r, t, 2) ELSE SliceDim(c, r, t, 3)
  ELSE IF p.slot = "qkv" /\ p.kind = "weight" THEN ShardQKV(c, r, t)
  ELSE IF p.slot = "gate_up" THEN ShardGateUp(c, r, t, 1)
  ELSE IF Len(t.axes) = 1 THEN SliceDim(c, r, t, 1)
  ELSE SliceDim(c, r, t, 2)

------------------------------------------------------------------------------
(* load_weights *)

\* determine_weight_load_parallelism
LoadParallelism ==
  IF NumFiles <= 1 THEN 1
  ELSE IF EnvParallelism > 0 THEN AtMost(EnvParallelism, NumFiles)
  ELSE AtLeast(1, AtMost(NumFiles, AtMost(
         AtLeast(1, HwThreads \div AtLeast(1, config.size * 24)),
         IF MemoryShards = 0 THEN NumFiles
         ELSE AtLeast(1, MemoryShards \div AtLeast(1, config.size)))))

NamesIn(f) == {n \in DOMAIN layout : f \in layout[n]}

\* the files that enqueue_next starts to read when held are in flight
Started(held) ==
  LET n == AtMost(NumFiles - nextFile + 1, LoadParallelism - held)
  IN [i \in 1 .. n |-> nextFile + i - 1]

\* copy_shard: what has no parameter or not its shape is skipped
CopyShard(f) ==
  LET shard == MergeWeights(config, NamesIn(f), f)
      sharded(p) == ShardForParameter(config, rank, p, shard[p])
  IN [p \in DOMAIN params |->
        IF p \in DOMAIN shard /\ Sizes(sharded(p)) = ParamSizes(config, p)
          THEN sharded(p) ELSE params[p]]

Uninitialized == [axes |-> <<>>, fp8 |-> FALSE, file |-> 0]

Init ==
  /\ config \in Configs
  /\ rank \in 0 .. config.size - 1
  /\ layout \in Layouts(config, CheckpointNames(config))
  /\ params = [p \in ParamNames(config) |-> Uninitialized]
  /\ inFlight = [i \in 1 .. AtMost(NumFiles, LoadParallelism) |-> i]
  /\ nextFile = Len(inFlight) + 1
  /\ reader = [f \in Files |-> IF f < nextFile THEN "reading" ELSE "none"]
  /\ outcome = "loading"

\* load_shard in its thread: it throws when the groups of its file are
\* incomplete, or when the file cannot be read
Read(f) ==
  /\ reader[f] = "reading"
  /\ \/ /\ ~MergeThrows(NamesIn(f))
        /\ reader' = [reader EXCEPT ![f] = "read"]
     \/ reader' = [reader EXCEPT ![f] = "threw"]
  /\ UNCHANGED <<config, rank, layout, nextFile, inFlight, params, outcome>>

\* mutant: whichever future is ready
TakeReady ==
  /\ outcome = "loading"
  /\ \E f \in ToSet(inFlight) :
       /\ reader[f] = "read"
       /\ LET started == Started(Len(inFlight) - 1)
          IN /\ params' = CopyShard(f)
             /\ inFlight' = SelectSeq(inFlight, LAMBDA g : g # f) \o started
             /\ nextFile' = nextFile + Len(started)
             /\ reader' = [g \in Files |-> IF g \in ToSet(started) THEN "reading" ELSE reader[g]]
             /\ outcome' = IF inFlight' = <<>> THEN "loaded" ELSE outcome
  /\ UNCHANGED <<config, rank, layout>>

\* the first future is ready: its shard is copied, its place taken
TakeFront ==
  /\ outcome = "loading"
  /\ inFlight # <<>>
  /\ reader[Head(inFlight)] = "read"
  /\ LET started == Started(Len(inFlight) - 1)
     IN /\ params' = CopyShard(Head(inFlight))
        /\ inFlight' = Tail(inFlight) \o started
        /\ nextFile' = nextFile + Len(started)
        /\ reader' = [f \in Files |-> IF f \in ToSet(started) THEN "reading" ELSE reader[f]]
        /\ outcome' = IF inFlight' = <<>> THEN "loaded" ELSE outcome
  /\ UNCHANGED <<config, rank, layout>>

\* the future of the first file throws out of load_weights
TakeThrows ==
  /\ outcome = "loading"
  /\ inFlight # <<>>
  /\ reader[Head(inFlight)] = "threw"
  /\ outcome' = "unwinding"
  /\ UNCHANGED <<config, rank, layout, nextFile, inFlight, reader, params>>

\* mutant: the readers are left behind
UnwindAtOnce ==
  /\ outcome = "unwinding"
  /\ outcome' = "failed"
  /\ UNCHANGED <<config, rank, layout, nextFile, inFlight, reader, params>>

\* the futures of std::async wait for their readers when they are destroyed
Unwind ==
  /\ outcome = "unwinding"
  /\ \A f \in ToSet(inFlight) : reader[f] # "reading"
  /\ outcome' = "failed"
  /\ UNCHANGED <<config, rank, layout, nextFile, inFlight, reader, params>>

Next == (\E f \in Files : Read(f)) \/ TakeFront \/ TakeThrows \/ Unwind

Spec == Init /\ [][Next]_vars
------------------------------------------------------------------------------
(* Properties *)

\* The type of the state; the files in flight are the last ones started.
TypeOK ==
  /\ rank \in 0 .. config.size - 1
  /\ nextFile \in 1 .. NumFiles + 1
  /\ inFlight = [i \in 1 .. Len(inFlight) |-> nextFile - Len(inFlight) + i - 1]
  /\ reader \in [Files -> {"none", "reading", "read", "threw"}]
  /\ DOMAIN params = ParamNames(config)
  /\ outcome \in {"loading", "unwinding", "loaded", "failed"}

\* rank r's part of a projection, when its heads or channels are dealt out
\* in order
PartOf(c, r, slot) ==
  SelectSeq(Labels(slot, Width(c, slot)),
            LAMBDA l : (l[2] - 1) \div (Width(c, slot) \div c.size) = r)

\* what the layers of rank r expect parameter p to be
ShareOf(c, r, p) ==
  LET parts == FlattenSeq([i \in DOMAIN SlotsOf(p.slot) |-> PartOf(c, r, SlotsOf(p.slot)[i])])
      matrix == CASE p.slot = "norm" -> <<HiddenAxis>>
                  [] p.slot \in {"o", "down"} -> <<HiddenAxis, parts>>
                  [] p.kind = "bias" -> <<parts>>
                  [] OTHER -> <<parts, HiddenAxis>>
  IN IF p.expert = Packed THEN <<Labels("expert", c.experts)>> \o matrix ELSE matrix

LastFileOf(p) ==
  Max(UNION {layout[n] : n \in {n \in Weights(DOMAIN layout) : PackedName(MergedName(n)) = p}})

\* Loading ends with every parameter holding its rank's part of each of its
\* projections, one projection after the other as the layers read them,
\* dequantized, and from the last of the files that have it; whatever the
\* order in which the readers end.
RankHoldsItsShare ==
  outcome = "loaded" =>
    \A p \in DOMAIN params :
      params[p] = [axes |-> ShareOf(config, rank, p), fp8 |-> FALSE, file |-> LastFileOf(p)]

\* No reader is left when load_weights has returned or thrown.
ReadersJoined ==
  outcome \in {"loaded", "failed"} => \A f \in Files : reader[f] # "reading"

\* The part of a bias goes with the part of the weights: shard_qkv_weight
\* takes "QKV weight/bias".
BiasGoesWithWeight ==
  outcome = "loaded" =>
    \A p \in DOMAIN params :
      p.kind = "bias" => params[p].axes[1] = params[[p EXCEPT !.kind = "weight"]].axes[1]
==============================================================================
