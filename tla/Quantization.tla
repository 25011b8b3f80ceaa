---------------------------- MODULE Quantization ----------------------------
(***************************************************************************)
(* convert_weight with quantization (interface/convert_weight.py,          *)
(* quantization/*.py, loader/huggingface_loader.py): the model's modules   *)
(* are replaced by quantized ones, each weight of the checkpoint is        *)
(* quantized, its pieces are cut for the workers and checked against the   *)
(* shapes the quantized modules declare.  Afterwards every worker          *)
(* dequantizes what it holds.                                              *)
(*                                                                         *)
(* A weight is a matrix of its own coordinates <<o, i>>, so that every     *)
(* packed field says which element it holds, and a scale is the block of   *)
(* elements it was computed from: what a worker reads back can be compared *)
(* with what it should have.  Sizes are scaled down: GroupSize stands for  *)
(* 32 or 40, NumElem for 8 or 10 elements per storage unit.                *)
(***************************************************************************)
EXTENDS QuantMethods, Sequences, FiniteSets, FiniteSetsExt, SequencesExt

CONSTANTS Jobs,         \* the conversions that may be asked for
          GroupSize,    \* elements that share a scale
          NumElem,      \* num_elem_per_storage
          Block,        \* weight_block_size of block-scale quantization
          MaxJobs       \* conversions in one process

ASSUME SizesAssumption ==
  /\ GroupSize \in Nat /\ NumElem \in Nat /\ Block \in Nat /\ MaxJobs \in Nat
  /\ NumElem > 0 /\ Block > 0 /\ GroupSize % NumElem = 0 /\ GroupSize > 0
  /\ \A j \in Jobs : j.quant \in DOMAIN QUANTIZATION /\ j.model \in DOMAIN Quantizable

FTAlign == 4                       \* out_features % 8 or % 4 in the code
StoragePerGroup == GroupSize \div NumElem
CeilDiv(a, b) == (a + b - 1) \div b

VARIABLES
  job,     \* the conversion under way
  phase,   \* "idle", "visit", "load", "done", "rejected" or "failed"
  shared,  \* tensor_parallel_shards of each registered GroupQuantize object
  next,    \* the next module to visit or weight to load
  ops,     \* the modules that replaced the visited ones
  qmap,    \* the quantize map: names to be quantized, and by which function
  held,    \* what each worker holds of each parameter
  jobs     \* conversions started

vars == <<job, phase, shared, next, ops, qmap, held, jobs>>

Config == QUANTIZATION[job.quant]
Workers == 0..(job.shards - 1)
-----------------------------------------------------------------------------
(* The modules of a model with the shapes one worker declares. *)
Linear(name, out, in) ==
  [name |-> name, type |-> "linear", out |-> out, in |-> in, axis |-> -1, segs |-> <<>>,
   final |-> FALSE, gate |-> FALSE, fixed |-> FALSE]
Fused(name, width, in) == [Linear(name, 2 * width, in) EXCEPT !.axis = 0, !.segs = <<width, width>>]
InRows(name, out, in) == [Linear(name, out, in) EXCEPT !.axis = 1]
Experts(linear) == [linear EXCEPT !.type = "experts"]

Nodes(j) ==
  LET model == Quantizable[j.model]
      dense == <<[Linear("embed", 2, j.hidden) EXCEPT !.type = "embedding"],
                 Fused("gate_up", j.inter, j.hidden), InRows("down", j.hidden, j.inter)>>
      moe == <<[Linear("gate", j.experts, j.hidden) EXCEPT !.gate = TRUE],
               Experts(Fused("e1_e3", j.inter, j.hidden)), Experts(InRows("e2", j.hidden, j.inter))>>
  IN  dense \o (IF model.sparse THEN moe ELSE <<>>)
            \o (IF model.vision THEN <<[Linear("vision", 4, j.hidden) EXCEPT !.fixed = TRUE]>> ELSE <<>>)
            \o <<[Linear("lm_head", 4, j.hidden) EXCEPT !.final = TRUE]>>
Whole(n) == [out |-> IF n.axis = 0 THEN n.out * job.shards ELSE n.out,
             in  |-> IF n.axis = 1 THEN n.in * job.shards ELSE n.in]

Param(name, rows, cols, axis, segs) ==
  [name |-> name, rows |-> rows, cols |-> cols, axis |-> axis, segs |-> segs]
Tensor(rows, cols, f(_, _)) ==
  [rows |-> rows, cols |-> cols, at |-> [x \in (0..(rows - 1)) \X (0..(cols - 1)) |-> f(x[1], x[2])]]
Transposed(t) == [rows |-> t.cols, cols |-> t.rows, at |-> [x \in {<<y[2], y[1]>> : y \in DOMAIN t.at} |-> t.at[<<x[2], x[1]>>]]]
Zero == <<-1, -1>>
-----------------------------------------------------------------------------
(* What each visitor makes of a module: the operation that replaces it, and *)
(* the function the quantize map has for its weight ("" for no entry).      *)
Visited(op, fn) == [op |-> op, fn |-> fn]
Kept == Visited("plain", "")

GroupVisit(n) ==
  CASE n.fixed -> Kept
    [] n.type = "linear" /\ (~n.final \/ Config.final_fc) /\ ~n.gate -> Visited("group", "group")
    [] n.type = "embedding" /\ Config.embedding -> Visited("rows", "rows")
    [] n.type = "experts" -> Visited("rows", "rows")
    [] OTHER -> Kept

\* The entry of the map is made before the module is known to be a gate.
FTVisit(n) ==
  CASE n.type = "linear" /\ (n.final \/ n.out % FTAlign # 0) -> Visited("rows", "rows")
    [] n.type = "linear" /\ ~n.gate -> Visited("ft", "ft")
    [] n.type = "linear" -> Visited("plain", "missing")
    [] n.type = "embedding" -> Visited("rows", "rows")
    [] OTHER -> Kept

AWQVisit(n) == IF n.type = "linear" /\ ~n.final /\ ~n.gate THEN Visited("awq", "") ELSE Kept

PerTensorVisit(n) ==
  IF \/ n.type = "linear" /\ (~n.final \/ Config.final_fc) /\ ~n.gate
     \/ n.type = "embedding" /\ Config.embedding
     \/ n.type = "experts"
  THEN Visited("tensor", "tensor") ELSE Kept

BlockVisit(n) ==
  IF ~n.fixed /\ (n.type = "experts" \/ (n.type = "linear" /\ ~n.final /\ ~n.gate))
  THEN Visited("block", "") ELSE Kept

Visit(n) ==
  CASE Config.kind = "group-quant" -> GroupVisit(n)
    [] Config.kind = "ft-quant" -> FTVisit(n)
    [] Config.kind = "awq" -> AWQVisit(n)
    [] Config.kind = "per-tensor-quant" -> PerTensorVisit(n)
    [] Config.kind = "block-scale-quant" -> BlockVisit(n)
    [] OTHER -> Kept

\* The constructors' own checks.  GroupQuantizeLinear trusts the number of
\* workers in the shared object; the fallback objects of FTQuantize have 0.
Raises(n, op) ==
  \/ /\ op = "group"
     /\ shared[job.quant] > 1
     /\ ((n.in * shared[job.quant]) \div GroupSize) % shared[job.quant] # 0
  \/ n.type = "experts" /\ op = "rows" /\ Config.layout = "KN"
-----------------------------------------------------------------------------
(* The parameters a quantized module declares.  Strategies are handed on by *)
(* apply_sharding with their dimension, whatever the layout.                *)
RowParams(n) ==
  LET groups == CeilDiv(n.in, GroupSize)
  IN  <<Param("q_weight", n.out, StoragePerGroup * groups, n.axis, n.segs),
        Param("q_scale", n.out, groups, n.axis, n.segs)>>
GroupParams(n) ==
  LET groups == CeilDiv(n.in, GroupSize)
  IN  IF Config.layout = "NK" THEN RowParams(n)
      ELSE <<Param("q_weight", StoragePerGroup * groups, n.out, n.axis, n.segs),
             Param("q_scale", groups, n.out, n.axis, n.segs)>>
FTParams(n) ==
  <<Param("q_weight", n.in, CeilDiv(n.out, NumElem), -1, <<>>), Param("q_scale", 1, n.out, -1, <<>>)>>
AWQParams(n) ==
  <<Param("qweight", n.in, n.out \div NumElem, -1, <<>>),
    Param("qzeros", n.in \div GroupSize, n.out \div NumElem, -1, <<>>),
    Param("scales", n.in \div GroupSize, n.out, -1, <<>>)>>
PerTensorParams(n) ==
  <<Param("q_weight", n.out, n.in, n.axis, n.segs)>>
  \o (IF Config.use_scale THEN <<Param("q_scale", 1, 1, -1, <<>>)>> ELSE <<>>)
  \o (IF Config.use_scale /\ Config.calibrated /\ n.type # "embedding"
      THEN <<Param("q_calibration_scale", 1, 1, -1, <<>>)>> ELSE <<>>)
BlockParams(n) ==
  <<Param("weight", n.out, n.in, n.axis, n.segs),
    Param("weight_scale_inv", CeilDiv(n.out, Block), CeilDiv(n.in, Block), n.axis,
          [k \in 1..Len(n.segs) |-> n.segs[k] \div Block])>>
Params(n, op) ==
  CASE op = "group" -> GroupParams(n)
    [] op = "rows" -> RowParams(n)
    [] op = "ft" -> FTParams(n)
    [] op = "awq" -> AWQParams(n)
    [] op = "tensor" -> PerTensorParams(n)
    [] op = "block" -> BlockParams(n)
    [] OTHER -> <<Param("weight", n.out, n.in, n.axis, n.segs)>>

(* What the quantize functions make of the whole weight, in the same order. *)
\* Mutant: padding only up to the next storage unit, not the next group.
GroupQuantizedUnpadded(w) ==
  LET groups == CeilDiv(w.in, GroupSize)
      field(o, i) == IF i < w.in THEN <<o, i>> ELSE Zero
  IN  <<Tensor(w.out, CeilDiv(w.in, NumElem), LAMBDA o, s : [r \in 0..(NumElem - 1) |-> field(o, s * NumElem + r)]),
        Tensor(w.out, groups, LAMBDA o, g : <<o, g>>)>>
GroupQuantized(w) ==
  LET groups == CeilDiv(w.in, GroupSize)
      field(o, i) == IF i < w.in THEN <<o, i>> ELSE Zero
  IN  <<Tensor(w.out, StoragePerGroup * groups, LAMBDA o, s : [r \in 0..(NumElem - 1) |-> field(o, s * NumElem + r)]),
        Tensor(w.out, groups, LAMBDA o, g : <<o, g>>)>>
FTQuantized(w) ==
  LET field(o, i) == IF o < w.out THEN <<o, i>> ELSE Zero
  IN  <<Tensor(w.in, CeilDiv(w.out, NumElem), LAMBDA i, s : [r \in 0..(NumElem - 1) |-> field(s * NumElem + r, i)]),
        Tensor(1, w.out, LAMBDA g, o : <<o, 0>>)>>
\* Made by AutoAWQ, not by this program.
AWQCheckpoint(w) ==
  <<Tensor(w.in, w.out \div NumElem, LAMBDA i, s : [r \in 0..(NumElem - 1) |-> <<s * NumElem + r, i>>]),
    Tensor(w.in \div GroupSize, w.out \div NumElem, LAMBDA g, s : <<s, g>>),
    Tensor(w.in \div GroupSize, w.out, LAMBDA g, o : <<o, g>>)>>
PerTensorQuantized(w) ==
  <<Tensor(w.out, w.in, LAMBDA o, i : <<o, i>>)>>
  \o (IF Config.use_scale THEN <<Tensor(1, 1, LAMBDA a, b : <<0, 0>>)>> ELSE <<>>)
\* Made by the publisher of the checkpoint.
BlockCheckpoint(w) ==
  <<Tensor(w.out, w.in, LAMBDA o, i : <<o, i>>),
    Tensor(CeilDiv(w.out, Block), CeilDiv(w.in, Block), LAMBDA a, b : <<a, b>>)>>
\* The function of the map, with the empty calibration scale it appends; a
\* weight without an entry is taken over as the checkpoint has it.
Quantized(n, op, fn) ==
  LET w == Whole(n)
  IN  CASE fn = "group" -> IF Config.layout = "NK" THEN GroupQuantized(w)
                           ELSE <<Transposed(GroupQuantized(w)[1]), Transposed(GroupQuantized(w)[2])>>
        [] fn = "rows" -> GroupQuantized(w)
        [] fn = "ft" -> FTQuantized(w)
        [] fn = "tensor" -> PerTensorQuantized(w)
                            \o (IF Len(PerTensorParams(n)) = 3 THEN <<Tensor(1, 1, LAMBDA a, b : Zero)>> ELSE <<>>)
        [] op = "awq" -> AWQCheckpoint(w)
        [] op = "block" -> BlockCheckpoint(w)
        [] OTHER -> <<Tensor(w.out, w.in, LAMBDA o, i : <<o, i>>)>>
-----------------------------------------------------------------------------
(* Sharding: ShardSingleDim on a tensor, for the worker w. *)
Total(s) == FoldLeft(LAMBDA sum, x : sum + x, 0, s)
\* The index in the whole tensor of index x of a worker's piece.
\* Mutant: one contiguous piece per worker, whatever the segments.
GlobalIndexUnsegmented(segs, w, x) == w * Total(segs) + x
GlobalIndex(segs, w, x) ==
  LET before(k) == Total(SubSeq(segs, 1, k - 1))
      k == CHOOSE k \in 1..Len(segs) : before(k) <= x /\ x < before(k) + segs[k]
  IN  job.shards * before(k) + w * segs[k] + (x - before(k))
Extent(p) == IF p.axis = 0 THEN p.rows ELSE p.cols
SegsOf(p) == IF p.segs = <<>> THEN <<Extent(p)>> ELSE p.segs
Cut(p) == p.axis # -1 /\ job.shards > 1
Fits(p, t) ==
  IF Cut(p)
  THEN /\ Total(SegsOf(p)) = Extent(p)
       /\ t.rows = p.rows * (IF p.axis = 0 THEN job.shards ELSE 1)
       /\ t.cols = p.cols * (IF p.axis = 1 THEN job.shards ELSE 1)
  ELSE t.rows = p.rows /\ t.cols = p.cols
Piece(p, t, w) ==
  IF ~Cut(p) THEN t
  ELSE Tensor(p.rows, p.cols, LAMBDA a, b :
         IF p.axis = 0 THEN t.at[<<GlobalIndex(SegsOf(p), w, a), b>>]
         ELSE t.at[<<a, GlobalIndex(SegsOf(p), w, b)>>])

\* Element (o, i) of the module as worker w dequantizes it, with its scale.
Read(op, t, o, i) ==
  CASE op = "group" /\ Config.layout = "KN" ->
         <<t[1].at[<<i \div NumElem, o>>][i % NumElem], t[2].at[<<i \div GroupSize, o>>]>>
    [] op \in {"group", "rows"} ->
         <<t[1].at[<<o, i \div NumElem>>][i % NumElem], t[2].at[<<o, i \div GroupSize>>]>>
    [] op = "ft" -> <<t[1].at[<<i, o \div NumElem>>][o % NumElem], t[2].at[<<0, o>>]>>
    [] op = "awq" -> <<t[1].at[<<i, o \div NumElem>>][o % NumElem], t[3].at[<<i \div GroupSize, o>>]>>
    [] op = "tensor" -> <<t[1].at[<<o, i>>], <<0, 0>>>>
    [] op = "block" -> <<t[1].at[<<o, i>>], t[2].at[<<o \div Block, i \div Block>>]>>
    [] OTHER -> <<t[1].at[<<o, i>>], <<0, 0>>>>
\* The scale that was computed from element (o, i) of the whole weight.
ScaleOf(op, o, i) ==
  CASE op \in {"group", "rows", "awq"} -> <<o, i \div GroupSize>>
    [] op = "ft" -> <<o, 0>>
    [] op = "block" -> <<o \div Block, i \div Block>>
    [] OTHER -> <<0, 0>>
-----------------------------------------------------------------------------
NoJob == [model |-> "llama", quant |-> "q0f16", shards |-> 1, hidden |-> 1, inter |-> 1, experts |-> 1]
Init ==
  /\ job = NoJob /\ phase = "idle" /\ next = 1 /\ ops = <<>> /\ qmap = <<>> /\ held = <<>> /\ jobs = 0
  /\ shared = [q \in {j.quant : j \in Jobs} |-> 0]

\* The entry of _convert_args, and the model's quantization function up to
\* quantize_model.
Start(j) ==
  /\ phase = "idle" /\ jobs < MaxJobs
  /\ QUANTIZATION[j.quant].kind \in Quantizable[j.model].kinds
  /\ job' = j
  /\ jobs' = jobs + 1
  /\ phase' = IF QUANTIZATION[j.quant].kind = "ft-quant" /\ j.shards > 1 THEN "rejected" ELSE "visit"
  /\ shared' = IF QUANTIZATION[j.quant].kind = "group-quant" /\ Quantizable[j.model].tells
               THEN [shared EXCEPT ![j.quant] = j.shards] ELSE shared
  /\ UNCHANGED <<next, ops, qmap, held>>

\* _Mutator.visit_module for the next module.
VisitModule ==
  /\ phase = "visit" /\ next <= Len(Nodes(job))
  /\ LET n == Nodes(job)[next]
         v == Visit(n)
     IN  IF Raises(n, v.op)
         THEN phase' = "rejected" /\ UNCHANGED <<next, ops, qmap>>
         ELSE /\ ops' = Append(ops, v.op)
              /\ qmap' = Append(qmap, v.fn)
              /\ next' = next + 1
              /\ UNCHANGED phase
  /\ UNCHANGED <<job, shared, held, jobs>>

Visits ==
  /\ phase = "visit" /\ next > Len(Nodes(job))
  /\ phase' = "load" /\ next' = 1
  /\ UNCHANGED <<job, shared, ops, qmap, held, jobs>>

\* HuggingFaceLoader.load for the next weight: _load_or_quantize, presharding,
\* _check_param of convert_weight.  zip() stops at the shorter of names and
\* tensors, and a declared parameter that got none is an error at the end.
LoadWeight ==
  /\ phase = "load" /\ next <= Len(Nodes(job))
  /\ LET n == Nodes(job)[next]
         params == Params(n, ops[next])
         tensors == Quantized(n, ops[next], qmap[next])
     IN  IF /\ qmap[next] # "missing"
            /\ Len(tensors) = Len(params)
            /\ \A k \in 1..Len(params) : Fits(params[k], tensors[k])
         THEN /\ held' = Append(held, [w \in Workers |-> [k \in 1..Len(params) |-> Piece(params[k], tensors[k], w)]])
              /\ next' = next + 1
              /\ UNCHANGED phase
         ELSE phase' = "failed" /\ UNCHANGED <<held, next>>
  /\ UNCHANGED <<job, shared, ops, qmap, jobs>>

Loads ==
  /\ phase = "load" /\ next > Len(Nodes(job))
  /\ phase' = "done"
  /\ UNCHANGED <<job, shared, next, ops, qmap, held, jobs>>

\* The next conversion of the process.
Again ==
  /\ phase \in {"done", "rejected", "failed"}
  /\ phase' = "idle" /\ job' = NoJob /\ next' = 1 /\ ops' = <<>> /\ qmap' = <<>> /\ held' = <<>>
  /\ UNCHANGED <<shared, jobs>>

Next == (\E j \in Jobs : Start(j)) \/ VisitModule \/ Visits \/ LoadWeight \/ Loads \/ Again
Spec == Init /\ [][Next]_vars
-----------------------------------------------------------------------------
\* What the constructors accept is converted: no tensor has another shape than
\* the module declares, no weight is without a function.
AcceptedConverts == phase # "failed"

\* A conversion is refused only when a linear that the workers share by its
\* input features cannot be cut between groups.
RefusedForCause ==
  phase = "rejected" =>
    \/ Config.kind = "ft-quant" /\ job.shards > 1
    \/ Config.layout = "KN"
    \/ job.shards > 1 /\ \E k \in 1..Len(Nodes(job)) :
         Nodes(job)[k].axis = 1 /\ Nodes(job)[k].in % GroupSize # 0

\* The indices of a dimension of the whole weight that belong to worker w, in
\* order: from each segment its w-th part.
Owned(segs, w) ==
  LET start(k) == job.shards * Total(SubSeq(segs, 1, k - 1)) + w * segs[k]
      mine == UNION {start(k)..(start(k) + segs[k] - 1) : k \in 1..Len(segs)}
  IN  SelectSeq([y \in 1..(job.shards * Total(segs)) |-> y - 1], LAMBDA y : y \in mine)

\* Every worker dequantizes exactly its elements, each with the scale that was
\* computed from it.
DequantizesOwnShard ==
  phase = "done" =>
    \A k \in 1..Len(Nodes(job)) : \A w \in Workers :
      LET n == Nodes(job)[k]
          mine == Owned(IF n.segs = <<>> THEN <<IF n.axis = 1 THEN n.in ELSE n.out>> ELSE n.segs, w)
          go(o) == IF n.axis = 0 THEN mine[o + 1] ELSE o
          gi(i) == IF n.axis = 1 THEN mine[i + 1] ELSE i
      IN  \A o \in 0..(n.out - 1), i \in 0..(n.in - 1) :
            Read(ops[k], held[k][w], o, i) = <<<<go(o), gi(i)>>, ScaleOf(ops[k], go(o), gi(i))>>
=============================================================================
