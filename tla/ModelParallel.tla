---------------------------- MODULE ModelParallel ----------------------------
(***************************************************************************)
(* One model on N workers (tensor_parallel_shards).  First its parameters  *)
(* are read from the checkpoint, put together by the model's loader and    *)
(* cut by its sharding functions (support/tensor_parallel.py,              *)
(* support/preshard.py, interface/convert_weight.py).  Then the runtime    *)
(* calls the functions the model exports: every worker executes the same   *)
(* program on its own shards, and meets the others in broadcasts and       *)
(* all-reduces.                                                            *)
(*                                                                         *)
(* The hidden states of a worker are what they are a sum of: the residual  *)
(* stream, one term for each unit (an attention head or a channel of the   *)
(* MLP) of each sublayer, and the biases, in fractions of Whole.  "Mixed"  *)
(* collects what units return whose weights do not belong together.        *)
(***************************************************************************)
EXTENDS ModelLoaders, FiniteSets, FiniteSetsExt, SequencesExt

CONSTANTS Configs   \* the models to run: records of the model's name (arch), its entry in
                    \*   MODELS (model: its layers, loaders and exported functions, see
                    \*   ModelTable), the number of workers (shards), num_attention_heads
                    \*   (heads) and whether the config asks for its optional biases (bias)

ASSUME ConfigsAssumption ==
  \A c \in Configs : /\ c.shards \in {1, 2, 4}
                     /\ c.heads \in Nat /\ c.heads > 0 /\ c.heads % (2 * c.shards) = 0
                     /\ c.bias \in BOOLEAN

HeadDim == 2
Hidden == 4
Inter == 4
Whole == 16

-----------------------------------------------------------------------------
VARIABLES
  config,   \* the model and how it is run
  params,   \* named_parameters() of the model
  phase,    \* "load", "failed", "idle" or "run"
  todo,     \* the next parameter to be converted
  fns,      \* the sharding functions made so far, by name
  weights,  \* the rows of each parameter that each worker holds
  call,     \* the exported function that runs
  program,  \* its instructions
  pc,       \* the next instruction of each worker
  input,    \* whether a worker holds what the host passed for this call
  rows,     \* the positions of the sequences each worker still computes
  done,     \* the sublayers whose output a worker has not added yet
  hid       \* the hidden states of each worker

vars == <<config, params, phase, todo, fns, weights, call, program, pc, input, rows, done, hid>>

N == config.shards   \* tensor_parallel_shards
Heads == config.heads
Workers == 0..(N - 1)
Layers(model) == 1..Len(model.layers)
SubOrder == <<"attn", "mlp", "shared">>

\* named_parameters(), as far as tensor parallelism is concerned.
Params(model, bias) ==
  LET wanted(p) == p.optional => bias
      of(l, s) == IF s \in DOMAIN model.layers[l].subs
                  THEN LET ps == SelectSeq(model.layers[l].subs[s].params, wanted)
                       IN  [i \in DOMAIN ps |-> [layer |-> l, sub |-> s, p |-> ps[i]]]
                  ELSE <<>>
  IN  FlattenSeq([l \in Layers(model) |-> FlattenSeq([i \in DOMAIN SubOrder |-> of(l, SubOrder[i])])])

Width(role, group) ==
  CASE role \in {"q", "o", "kv"} -> Heads
    [] role \in {"k", "v"} -> Heads \div group
    [] role = "head" -> HeadDim
    [] role = "hidden" -> Hidden
    [] OTHER -> Inter

Total(widths) == FoldLeft(LAMBDA sum, w : sum + w, 0, widths)
Group(t) == config.model.layers[t.layer].subs[t.sub].group

\* The width of a part of a parameter as the model declares it.
Local(t, role) == Width(role, Group(t)) \div (N ^ t.p.divided)
Declared(t) == Total([i \in 1..Len(t.p.roles) |-> Local(t, t.p.roles[i])])

\* What the loader makes of the checkpoint: the rows of the whole parameter.
Part(t, role) == [j \in 1..Width(role, Group(t)) |-> <<role, j - 1>>]
Interleaved(t, g) ==
  FlattenSeq([k \in 1..(Heads \div g) |->
    [x \in 1..g |-> <<"q", (k - 1) * g + x - 1>>] \o <<<<"k", k - 1>>, <<"v", k - 1>>>>])
Regrouped(t, g) ==
  LET w == Interleaved(t, g)
  IN  [h \in 1..Heads |-> w[((h - 1) \div g) * (g + 2) + ((h - 1) % g) + 1]]
      \o [k \in 1..(Heads \div g) |-> w[(k - 1) * (g + 2) + g + 1]]
      \o [k \in 1..(Heads \div g) |-> w[(k - 1) * (g + 2) + g + 2]]
Entry(t) ==
  LET loader == config.model.loaders[t.layer]
  IN  IF t.p.name \in DOMAIN loader THEN loader[t.p.name]
      ELSE [Fuse(t.p.roles) EXCEPT !.axis = config.model.out_axis]
Loaded(t) ==
  CASE Entry(t).from \in {"heads", "groups"} -> Regrouped(t, Group(t))
    [] Entry(t).from = "as_is" -> Interleaved(t, Group(t))
    [] OTHER -> FlattenSeq([i \in 1..Len(Entry(t).roles) |-> Part(t, Entry(t).roles[i])])
\* Parts joined along another dimension than the output features.
Misjoined(t) == Len(Entry(t).roles) > 1 /\ Entry(t).axis # config.model.out_axis

\* ShardSingleDim.gen_tir: segment by segment, the worker's piece of each.
Segs(t) == [i \in 1..Len(t.p.segs) |-> Width(t.p.segs[i], Group(t)) \div N]
ShardFn(t) == [dim |-> t.p.dim, width |-> Declared(t),
               segs |-> IF t.p.segs = <<>> THEN <<Declared(t)>> ELSE Segs(t)]
\* Mutant: the segments are taken to be as long as the whole parameter's.
SliceNoOffset(fn, loaded, w) ==
  FlattenSeq([i \in 1..Len(fn.segs) |->
    [j \in 1..fn.segs[i] |-> loaded[Total(SubSeq(fn.segs, 1, i - 1)) + w * fn.segs[i] + j]]])
Slice(fn, loaded, w) ==
  LET offset(i) == N * Total(SubSeq(fn.segs, 1, i - 1))
  IN  FlattenSeq([i \in 1..Len(fn.segs) |->
        [j \in 1..fn.segs[i] |-> loaded[offset(i) + w * fn.segs[i] + j]]])
-----------------------------------------------------------------------------
(* What a sublayer of a worker adds to the hidden states. *)
MaxUnits == Max({Heads, Inter})
BiasUnit == -1
Mixed == -2
X == <<0, "x", 0>>
Terms == {X} \cup ((1..2) \X {"attn", "mlp", "shared"} \X ((0..(MaxUnits - 1)) \cup {BiasUnit, Mixed}))

\* The row a worker uses as unit j of a part of a parameter, and the one that
\* belongs to unit h of the whole model.
Index(t, role, j) == IF role \in {"k", "v"} THEN j \div Group(t) ELSE j
RowAt(t, w, i, j) ==
  weights[w][<<t.layer, t.sub, t.p.name>>]
    [Total([k \in 1..(i - 1) |-> Local(t, t.p.roles[k])]) + Index(t, t.p.roles[i], j) + 1]
Split(t) == {i \in 1..Len(t.p.roles) : t.p.roles[i] \notin {"head", "hidden"}}
ParamsOf(l, s) == {t \in ToSet(params) : t.layer = l /\ t.sub = s}
Units(l, s) ==
  LET out == CHOOSE t \in ParamsOf(l, s) : t.p.roles \in {<<"o">>, <<"down">>}
  IN  0..(Declared(out) - 1)
UnitOf(w, l, s, j) ==
  LET fits(h) == \A t \in ParamsOf(l, s) : \A i \in Split(t) :
                   RowAt(t, w, i, j) = <<t.p.roles[i], Index(t, t.p.roles[i], h)>>
  IN  IF \E h \in 0..(MaxUnits - 1) : fits(h)
      THEN CHOOSE h \in 0..(MaxUnits - 1) : fits(h) ELSE Mixed
Shift(l, s) == Max({Entry(t).shift : t \in ParamsOf(l, s)})
BiasOf(l, s) ==
  LET bias == config.model.layers[l].subs[s].bias
  IN  IF bias = "optional" THEN IF config.bias THEN "whole" ELSE "none" ELSE bias
BiasShare(l, s) ==
  CASE BiasOf(l, s) = "none" -> 0
    [] BiasOf(l, s) = "whole" -> Whole
    [] OTHER -> Whole \div N   \* tp.shard_bias

Nothing == [t \in Terms |-> 0]
Sum(f, g) == [t \in Terms |-> f[t] + g[t]]
SumOver(S, f(_)) == FoldSet(LAMBDA x, acc : Sum(f(x), acc), Nothing, S)
Output(w, l, s) ==
  [t \in Terms |->
    IF t[1] # l \/ t[2] # s THEN 0
    ELSE IF t[3] = BiasUnit THEN BiasShare(l, s)
    ELSE Cardinality({j \in Units(l, s) : UnitOf(w, l, s, j) = t[3]}) * (Whole \div 2 ^ Shift(l, s))]
Outputs(w, l, subs) == SumOver(subs, LAMBDA s : Output(w, l, s))

\* What one device computes for the whole model.
Reference(l, s) ==
  [t \in Terms |->
    IF t[1] # l \/ t[2] # s THEN 0
    ELSE IF t[3] = BiasUnit THEN IF BiasOf(l, s) = "none" THEN 0 ELSE Whole
    ELSE IF t[3] \in 0..((IF s = "attn" THEN Heads ELSE Inter) - 1) THEN Whole ELSE 0]
-----------------------------------------------------------------------------
\* The instructions of one call on every worker.
Step(do) == [do |-> do, subs |-> {}, how |-> "", layer |-> 0]
Code(model, n, f) ==
  LET layer(l) == [i \in DOMAIN model.layers[l].prog |-> model.layers[l].prog[i] @@ [layer |-> l]]
      layers == FlattenSeq([l \in Layers(model) |-> layer(l)]) \o <<Step("norm")>>
      steps == model.entry.calls[f]
  IN  FlattenSeq([i \in DOMAIN steps |->
        CASE steps[i] = "layers" -> layers
          [] steps[i] = "bcast" /\ n = 1 -> <<>>
          [] OTHER -> <<Step(steps[i])>>])
At(w) == IF pc[w] <= Len(program) THEN program[pc[w]] ELSE Step("return")

\* The positions the host prefills, and those whose logits it wants: two
\* sequences of two and one tokens.
Positions(f) == IF f \in {"decode", "batch_decode", "decode_to_last_hidden_states"} THEN <<1>> ELSE <<1, 2, 3>>
LogitPositions == <<2, 3>>
Asked(f) ==
  CASE f \in {"prefill", "extend"} -> <<3>>
    [] f \in {"batch_prefill", "batch_extend", "batch_select_last_hidden_states"} -> LogitPositions
    [] OTHER -> Positions(f)

Init ==
  /\ config \in Configs
  /\ params = Params(config.model, config.bias)
  /\ phase = "load"
  /\ todo = 1
  /\ fns = [n \in {} |-> 0]
  /\ weights = [w \in Workers |-> [k \in {} |-> <<>>]]
  /\ call = "" /\ program = <<>>
  /\ pc = [w \in Workers |-> 1]
  /\ input = [w \in Workers |-> "none"]
  /\ rows = [w \in Workers |-> <<>>]
  /\ done = [w \in Workers |-> {}]
  /\ hid = [w \in Workers |-> Nothing]

\* convert_weight: the next parameter is loaded, cut and checked against the
\* shape the model declares.  A sharding function is made for the first
\* parameter with its name and used for all others.
LoadParam ==
  /\ phase = "load" /\ todo <= Len(params)
  /\ LET t == params[todo]
         cut == N > 1 /\ t.p.fn # "none"
         fn == IF cut /\ t.p.fn \in DOMAIN fns THEN fns[t.p.fn] ELSE ShardFn(t)
         fits == /\ ~Misjoined(t)
                 /\ cut => /\ Total(fn.segs) = fn.width
                           /\ fn.dim = t.p.dim
                           /\ Len(Loaded(t)) = fn.width * N
                           /\ fn.width = Declared(t)
                 /\ ~cut => Len(Loaded(t)) = Declared(t)
     IN  /\ phase' = IF fits THEN "load" ELSE "failed"
         /\ todo' = todo + 1
         /\ fns' = IF cut /\ fits THEN (t.p.fn :> fn) @@ fns ELSE fns
         /\ weights' = IF ~fits THEN weights
                       ELSE [w \in Workers |->
                              (<<t.layer, t.sub, t.p.name>> :> IF cut THEN Slice(fn, Loaded(t), w) ELSE Loaded(t))
                              @@ weights[w]]
  /\ UNCHANGED <<config, params, call, program, pc, input, rows, done, hid>>

LoadDone ==
  /\ phase = "load" /\ todo > Len(params)
  /\ phase' = "idle"
  /\ fns' = [n \in {} |-> 0]   \* gone with the conversion
  /\ UNCHANGED <<config, params, todo, weights, call, program, pc, input, rows, done, hid>>

\* The host calls an exported function.  The tensor it passes is copied to
\* worker 0 (FunctionTable::CopyToWorker0); the others have an old one.
Call(f) ==
  /\ phase = "idle"
  /\ phase' = "run"
  /\ call' = f /\ program' = Code(config.model, N, f)
  /\ pc' = [w \in Workers |-> 1]
  /\ input' = [w \in Workers |-> IF w = 0 THEN "new" ELSE "old"]
  /\ rows' = [w \in Workers |-> Positions(f)]
  /\ done' = [w \in Workers |-> {}]
  /\ hid' = [w \in Workers |-> [Nothing EXCEPT ![X] = Whole]]
  /\ UNCHANGED <<config, params, todo, fns, weights>>

Advance(w) == pc' = [pc EXCEPT ![w] = @ + 1]
Together == /\ phase = "run"
            /\ \A w \in Workers : pc[w] = pc[0]
            /\ pc' = [w \in Workers |-> pc[w] + 1]
Frame == UNCHANGED <<config, params, phase, todo, fns, weights, call, program>>

\* RMSNorm, LayerNorm; reading the host's tensor without a change of rows.
Local1(w) ==
  /\ phase = "run" /\ At(w).do \in {"norm", "read"}
  /\ Advance(w)
  /\ Frame /\ UNCHANGED <<input, rows, done, hid>>

RunSub(w) ==
  /\ phase = "run" /\ At(w).do = "run"
  /\ done' = [done EXCEPT ![w] = @ \cup At(w).subs]
  /\ Advance(w)
  /\ Frame /\ UNCHANGED <<input, rows, hid>>

\* A residual without a collective.
AddLocally(w) ==
  /\ phase = "run" /\ At(w).do = "add" /\ (N = 1 \/ At(w).how = "local")
  /\ hid' = [hid EXCEPT ![w] = Sum(@, Outputs(w, At(w).layer, At(w).subs))]
  /\ done' = [done EXCEPT ![w] = @ \ At(w).subs]
  /\ Advance(w)
  /\ Frame /\ UNCHANGED <<input, rows>>

\* _apply_residual with more than one worker.
Reduced(how, l, subs) ==
  IF how = "reduce"
  THEN [w \in Workers |-> Sum(SumOver(Workers, LAMBDA v : Outputs(v, l, subs)), hid[w])]
  ELSE [w \in Workers |->
         SumOver(Workers, LAMBDA v : Sum(Outputs(v, l, subs), [t \in Terms |-> hid[v][t] \div N]))]
AllReduce ==
  /\ Together /\ N > 1 /\ At(0).do = "add" /\ At(0).how # "local"
  /\ hid' = Reduced(At(0).how, At(0).layer, At(0).subs)
  /\ done' = [w \in Workers |-> done[w] \ At(0).subs]
  /\ Frame /\ UNCHANGED <<input, rows>>

Broadcast ==
  /\ Together /\ At(0).do = "bcast"
  /\ input' = [w \in Workers |-> input[0]]
  /\ Frame /\ UNCHANGED <<rows, done, hid>>

HalveHidden(w) ==
  /\ phase = "run" /\ At(w).do = "halve"
  /\ hid' = [hid EXCEPT ![w] = [t \in Terms |-> @[t] \div 2]]
  /\ Advance(w)
  /\ Frame /\ UNCHANGED <<input, rows, done>>

\* The last position, or the positions logit_positions names; there may be
\* fewer positions left than it assumes.
Select(w) ==
  /\ phase = "run" /\ At(w).do \in {"last", "take"}
  /\ rows' = [rows EXCEPT ![w] =
       IF At(w).do = "last" THEN <<Last(@)>>
       ELSE [i \in 1..Len(LogitPositions) |->
               IF LogitPositions[i] \in DOMAIN @ THEN @[LogitPositions[i]] ELSE 0]]
  /\ Advance(w)
  /\ Frame /\ UNCHANGED <<input, done, hid>>

Return ==
  /\ phase = "run"
  /\ \A w \in Workers : At(w).do = "return"
  /\ phase' = "idle"
  /\ call' = "" /\ program' = <<>>
  /\ pc' = [w \in Workers |-> 1]
  /\ input' = [w \in Workers |-> "none"]
  /\ rows' = [w \in Workers |-> <<>>]
  /\ hid' = [w \in Workers |-> Nothing]
  /\ UNCHANGED <<config, params, todo, fns, weights, done>>

Work(w) == Local1(w) \/ RunSub(w) \/ AddLocally(w) \/ HalveHidden(w) \/ Select(w)
Next ==
  \/ LoadParam \/ LoadDone
  \/ \E f \in DOMAIN config.model.entry.calls : Call(f)
  \/ \E w \in Workers : Work(w)
  \/ AllReduce \/ Broadcast \/ Return

Spec == Init /\ [][Next]_vars
-----------------------------------------------------------------------------
(* Properties.                                                             *)

\* The heads the KV cache of a worker is created with.
CacheHeads(kind) ==
  CASE kind = "heads" -> Heads \div N
    [] kind = "kv_heads" -> (Heads \div 2) \div N
    [] OTHER -> 1

\* Every parameter is cut and put together without an assertion of gen_tir or a
\* shape of convert_weight's check failing, and the KV cache of a worker has as many
\* heads as its attention produces from the parameters it was given.
ShapesAgree ==
  /\ phase # "failed"
  /\ \A i \in DOMAIN params :
       LET t == params[i]
       IN  /\ phase # "load" /\ config.model.entry.cache.kv # "one"
           /\ t.sub = "attn" /\ "k" \in ToSet(t.p.roles)
           => Local(t, "k") = CacheHeads(config.model.entry.cache.kv)

\* The hidden states that one device with the whole model has where worker w stands.
Before(w) == {i \in 1..(pc[w] - 1) : i <= Len(program)}
Halvings(S) == Cardinality({i \in S : program[i].do = "halve"})
Expected(w) ==
  LET sum == Sum([Nothing EXCEPT ![X] = Whole],
                 SumOver({i \in Before(w) : program[i].do = "add"}, LAMBDA i :
                   SumOver(program[i].subs, LAMBDA s : Reference(program[i].layer, s))))
  IN  [t \in Terms |-> sum[t] \div 2 ^ Halvings(Before(w))]

\* The workers compute what one device computes.  None uses a tensor of an earlier
\* call: what the host passes reaches all of them before they read it.  Whenever one
\* normalises its hidden states or returns them they are what one device has: no
\* term is missing, there twice, or mixed from weights that do not belong together.
\* The positions returned are those the runtime asks for, which it checks the shape
\* of the logits for.  RWKV, which keeps only the last position of every call, is not
\* held to it in batch_prefill and batch_verify.
ComputesAsOneDevice ==
  phase = "run" => \A w \in Workers :
    /\ At(w).do \in {"read", "take"} => input[w] = "new"
    /\ At(w).do \in {"norm", "return"} => hid[w] = Expected(w)
    /\ At(w).do = "return"
         /\ ~(config.arch \in {"rwkv5", "rwkv6"} /\ call \in {"batch_prefill", "batch_verify"})
         => rows[w] = Asked(call)
=============================================================================
