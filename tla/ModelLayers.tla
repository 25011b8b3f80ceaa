----------------------------- MODULE ModelLayers -----------------------------
(***************************************************************************)
(* The decoder layers of the model definitions (model/*/*_model.py), as    *)
(* far as running them on several workers depends on them.                 *)
(*                                                                         *)
(* A layer is a set of sublayers and a program.  A sublayer has the        *)
(* parameters that tensor parallelism cuts and says what it adds as the    *)
(* bias of its last projection.  A parameter has the name of its sharding  *)
(* function (ShardSingleDim.name, "none" without a strategy), the          *)
(* dimension and segments of the strategy, the parts the forward pass cuts *)
(* it into, how often the model divided its width by the number of         *)
(* workers, and whether only a config with biases has it.  A program is    *)
(* what forward() does: normalise the hidden states, run a sublayer, add   *)
(* what sublayers returned to the residual.                                *)
(***************************************************************************)
EXTENDS Integers, Sequences

\* A weight (or its bias) cut by its output features.
Col(name, fn, roles) ==
  [name |-> name, fn |-> fn, dim |-> 0, roles |-> roles, divided |-> 1, optional |-> FALSE,
   segs |-> IF Len(roles) > 1 THEN roles ELSE <<>>]
\* A weight cut by its input features.
Row(name, fn, role) == [Col(name, fn, <<role>>) EXCEPT !.dim = 1]
\* The same for the stacked weights of MixtralExperts, whose first dimension
\* is the expert.
Expert(p) == [p EXCEPT !.dim = @ + 1]
Unset(p) == [p EXCEPT !.fn = "none", !.segs = <<>>]
\* What depends on the config's switch for optional biases: attention_bias,
\* use_bias, use_qkv_bias, add_bias_linear, mlp_bias or bias.
IfBias(params) == [i \in DOMAIN params |-> [params[i] EXCEPT !.optional = TRUE]]
WholeIfBias == "optional"

Sub(params, bias) == [params |-> params, bias |-> bias, group |-> 2]
MHA(sub) == [sub EXCEPT !.group = 1]

Norm == [do |-> "norm", subs |-> {}, how |-> ""]
Run(sub) == [do |-> "run", subs |-> {sub}, how |-> ""]
Add(subs, how) == [do |-> "add", subs |-> subs, how |-> how]
Halve == [do |-> "halve", subs |-> {}, how |-> ""]

\* _apply_residual is "reduce": ccl_allreduce(out, "sum") + residual, or
\* "share": ccl_allreduce(out + residual / shards, "sum"); "local" adds without
\* a collective.  With one worker all of them add.
Sequential(attn, mlp, how) ==
  [subs |-> [attn |-> attn, mlp |-> mlp],
   prog |-> <<Norm, Run("attn"), Add({"attn"}, how), Norm, Run("mlp"), Add({"mlp"}, how)>>]
OneResidual(attn, mlp, how) ==
  [subs |-> [attn |-> attn, mlp |-> mlp],
   prog |-> <<Norm, Run("attn"), Run("mlp"), Add({"attn", "mlp"}, how)>>]
WithShared(attn, moe, shared, how) ==
  [subs |-> [attn |-> attn, mlp |-> moe, shared |-> shared],
   prog |-> <<Norm, Run("attn"), Add({"attn"}, how),
              Norm, Run("mlp"), Run("shared"), Add({"mlp", "shared"}, how)>>]

QKV == <<"q", "k", "v">>
GateUp == <<"gate", "up">>
-----------------------------------------------------------------------------
LlamaDecoderLayer ==
  Sequential(Sub(<<Col("qkv_proj", "_shard_qkv", QKV), Row("o_proj", "_shard_o", "o")>>, "none"),
             Sub(<<Col("gate_up_proj", "_shard_mlp_up", GateUp),
                   Row("down_proj", "_shard_mlp_down", "down")>>, "none"),
             "reduce")

\* Mutant: the widths of the attention are not divided by the number of workers.
MistralUndivided ==
  Sequential(Sub(<<[Col("qkv_proj", "_shard_qkv", QKV) EXCEPT !.divided = 0], Row("o_proj", "_shard_o", "o")>>, "none"),
             Sub(<<Col("gate_up_proj", "_shard_mlp_up", GateUp),
                   Row("down_proj", "_shard_mlp_down", "down")>>, "none"),
             "reduce")
MistralDecoderLayer ==
  Sequential(Sub(<<Col("qkv_proj", "_shard_qkv", QKV), Row("o_proj", "_shard_o", "o")>>, "none"),
             Sub(<<Col("gate_up_proj", "_shard_mlp_up", GateUp),
                   Row("down_proj", "_shard_mlp_down", "down")>>, "none"),
             "reduce")

OrionDecoderLayer ==
  Sequential(Sub(<<Col("qkv_proj", "_shard_qkv", QKV), Row("o_proj", "_shard_o", "o")>>, "none"),
             Sub(<<Col("gate_up_proj", "_shard_mlp_up", GateUp),
                   Row("down_proj", "_shard_mlp_down", "down")>>, "none"),
             "reduce")

OLMoDecoderLayer ==
  Sequential(Sub(<<Col("qkv_proj", "_shard_qkv", QKV), Row("o_proj", "_shard_o", "o")>>, "none"),
             Sub(<<Col("gate_up_proj", "_shard_mlp_up", GateUp),
                   Row("down_proj", "_shard_mlp_down", "down")>>, "none"),
             "reduce")

\* Layer 0 of the draft model has no input_layernorm.
EagleDecoderLayer(index) ==
  LET layer == Sequential(
        Sub(<<Col("qkv_proj", "_shard_qkv", QKV), Row("o_proj", "_shard_o", "o")>>, "none"),
        Sub(<<Col("gate_up_proj", "_shard_mlp_up", GateUp),
              Row("down_proj", "_shard_mlp_down", "down")>>, "none"),
        "reduce")
  IN  IF index = 0 THEN [layer EXCEPT !.prog = Tail(@)] ELSE layer

\* attention_bias gives qkv_proj a bias that has no strategy.
GemmaAttention ==
  Sub(<<Col("qkv_proj", "_shard_qkv", QKV), Row("o_proj", "_shard_o", "o")>>
      \o IfBias(<<Unset(Col("qkv_proj_bias", "", QKV))>>), WholeIfBias)
GemmaDecoderLayer ==
  Sequential(GemmaAttention,
             Sub(<<Col("gate_up_proj", "_shard_mlp_up", GateUp),
                   Row("down_proj", "_shard_mlp_down", "down")>>, "none"),
             "reduce")

\* The sum of all workers is normalised once more before it is added.
Gemma2DecoderLayer ==
  Sequential(GemmaAttention,
             Sub(<<Col("gate_up_proj", "_shard_mlp_up", GateUp),
                   Row("down_proj", "_shard_mlp_down", "down")>>, "none"),
             "reduce")

Gemma3DecoderLayer ==
  LET head(name, fn) == [Col(name, fn, <<"head">>) EXCEPT !.divided = 0]
  IN  Sequential(
        Sub(<<Col("q_proj", "_shard_q", <<"q">>), Col("k_proj", "_shard_k", <<"k">>),
              Col("v_proj", "_shard_v", <<"v">>), Row("o_proj", "_shard_o", "o"),
              head("q_norm", "_shard_q_norm"), head("k_norm", "_shard_k_norm")>>
            \o IfBias(<<Unset(Col("q_proj_bias", "", <<"q">>)), Unset(Col("k_proj_bias", "", <<"k">>)),
                        Unset(Col("v_proj_bias", "", <<"v">>))>>), WholeIfBias),
        Sub(<<Col("gate_up_proj", "_shard_mlp_up", GateUp),
              Row("down_proj", "_shard_mlp_down", "down")>>, "none"),
        "reduce")

BaichuanDecoderLayer ==
  Sequential(MHA(Sub(<<Col("W_pack", "_shard_qkv_weight", QKV), Row("o_proj", "_shard_o", "o")>>, "none")),
             Sub(<<Col("gate_up_proj", "_shard_mlp_gate_up", GateUp),
                   Row("down_proj", "_shard_mlp_down_proj", "down")>>, "none"),
             "reduce")

\* dense_h_to_4h holds gate and up, its strategy has no segments; the biases of
\* the last projections have strategies of their own.
GLMBlock ==
  LET hidden(name, fn, dim) == [Col(name, fn, <<"hidden">>) EXCEPT !.dim = dim, !.divided = 0]
  IN  Sequential(
        Sub(<<Col("query_key_value", "_shard_qkv_weight", QKV),
              Row("dense", "_shard_dense_weight", "o")>>
            \o IfBias(<<Col("query_key_value_bias", "_shard_qkv_bias", QKV),
                        hidden("dense_bias", "_shard_dense_bias", 0)>>), WholeIfBias),
        Sub(<<[Col("dense_h_to_4h", "_shard_dense_h_to_4h_weight", GateUp) EXCEPT !.segs = <<>>],
              Row("dense_4h_to_h", "_shard_dense_4h_to_h", "down")>>
            \o IfBias(<<[Col("dense_h_to_4h_bias", "_shard_dense_h_to_4h_bias", GateUp) EXCEPT !.segs = <<>>],
                        hidden("dense_4h_to_h_bias", "_shard_dense_4h_to_h_bias", 1)>>), WholeIfBias),
        "reduce")

\* gate_proj and up_proj are separate, each with the segments of a fused weight.
CohereDecoderLayer ==
  LET fused(name, fn, role) == [Col(name, fn, <<role>>) EXCEPT !.segs = GateUp]
  IN  [subs |-> [attn |-> Sub(<<Col("qkv_proj", "_shard_qkv", QKV), Row("out_proj", "_shard_o", "o")>>, "none"),
                 mlp |-> Sub(<<fused("gate_proj", "_shard_mlp_gate", "gate"),
                               fused("up_proj", "_shard_mlp_up", "up"),
                               Row("down_proj", "_shard_mlp_down", "down")>>, "none")],
       prog |-> <<Norm, Run("attn"), Run("mlp"), Add({"attn"}, "share"), Add({"mlp"}, "share")>>]

InternLMDecoderLayer ==
  Sequential(MHA(Sub(<<Col("wqkv_pack", "_shard_qkv_weight", QKV), Row("o_proj", "_shard_o_weight", "o")>>
                     \o IfBias(<<Col("wqkv_pack_bias", "_shard_qkv_bias", QKV),
                                 [Col("o_proj_bias", "_shard_o_bias", <<"hidden">>) EXCEPT !.divided = 0]>>),
                     WholeIfBias)),
             Sub(<<Col("gate_up_proj", "_shard_mlp_gate_up", GateUp),
                   Row("down_proj", "_shard_mlp_down_proj", "down")>>, "none"),
             "reduce")

InternLM2DecoderLayer ==
  Sequential(Sub(<<Col("wqkv", "_shard_qkv_weight", QKV), Row("wo", "_shard_o", "o")>>
                 \o IfBias(<<Col("wqkv_bias", "_shard_qkv_bias", QKV)>>), WholeIfBias),
             Sub(<<Col("gate_up_proj", "_shard_mlp_up", GateUp), Row("w2", "_shard_mlp_down", "down")>>, "none"),
             "reduce")
-----------------------------------------------------------------------------
\* Each worker adds its share of the biases and of the residual.
GPT2Block ==
  Sequential(MHA(Sub(<<Col("c_attn", "_shard_qkv_weight", QKV), Col("c_attn_bias", "_shard_qkv_bias", QKV),
                       Row("c_proj", "_shard_attn_c_proj", "o")>>, "shared")),
             Sub(<<Col("c_fc", "_shard_c_fc_weight", <<"up">>), Col("c_fc_bias", "_shard_c_fc_bias", <<"up">>),
                   Row("mlp_c_proj", "_shard_mlp_c_proj", "down")>>, "shared"),
             "share")

\* One worker only: every width is whole and there is no collective.
GPTBigCodeBlock ==
  LET whole(p) == [p EXCEPT !.divided = 0]
  IN  Sequential(
        Sub(<<whole(Col("c_attn", "_shard_c_attn", QKV)), whole(Row("c_proj", "_shard_c_proj", "o")),
              Unset(whole(Col("c_attn_bias", "", QKV)))>>, "whole"),
        Sub(<<whole(Col("c_fc", "_shard_mlp_c_fc", <<"up">>)), whole(Row("mlp_c_proj", "_shard_mlp_c_proj", "down")),
              Unset(whole(Col("c_fc_bias", "", <<"up">>)))>>, "whole"),
        "local")

\* The widths are whole, the segments are a worker's.
GPTJBlock ==
  LET whole(p) == [p EXCEPT !.divided = 0]
  IN  OneResidual(
        MHA(Sub(<<whole(Col("c_attn", "_shard_qkv_weight", QKV)), whole(Row("out_proj", "_shard_o", "o"))>>, "none")),
        Sub(<<whole(Col("fc_in", "_shard_c_fc_weight", <<"up">>)),
              whole(Row("fc_out", "_shard_mlp_c_proj", "down")),
              Unset(whole(Col("fc_in_bias", "", <<"up">>)))>>, "whole"),
        "reduce")

\* shard_bias is used for the attention always, for the MLP only when the
\* residuals are sequential; with use_parallel_residual nothing is summed.
GPTNeoXLayer(use_parallel_residual) ==
  LET attn == MHA(Sub(<<Col("query_key_value", "_shard_qkv_weight", QKV),
                        Col("query_key_value_bias", "_shard_qkv_bias", QKV),
                        Row("dense", "_shard_dense", "o")>>, "shared"))
      mlp(bias) == Sub(<<Col("dense_h_to_4h", "_shard_dense_h_to_4h_weight", <<"up">>),
                         Col("dense_h_to_4h_bias", "_shard_dense_h_to_4h_bias", <<"up">>),
                         Row("dense_4h_to_h", "_shard_dense_4h_to_h", "down")>>, bias)
  IN  IF use_parallel_residual THEN OneResidual(attn, mlp("whole"), "local")
      ELSE Sequential(attn, mlp("shared"), "share")

PhiParallelBlock ==
  OneResidual(Sub(<<Col("Wqkv", "_shard_qkv_weight", QKV), Col("Wqkv_bias", "_shard_qkv_bias", QKV),
                    Row("out_proj", "_shard_o_weight", "o")>>, "shared"),
              Sub(<<Col("fc1", "_shard_mlp_fc1_weight", <<"up">>), Col("fc1_bias", "_shard_mlp_fc1_bias", <<"up">>),
                    Row("fc2", "_shard_mlp_fc2_weight", "down")>>, "shared"),
              "share")

Phi3ParallelBlock ==
  Sequential(Sub(<<Col("qkv_proj", "_shard_qkv", QKV), Row("out_proj", "_shard_o", "o")>>, "none"),
             Sub(<<Col("gate_up_proj", "_shard_mlp_up", GateUp),
                   Row("down_proj", "_shard_mlp_down", "down")>>, "none"),
             "share")

\* The MLP is not divided, and the strategy of up_proj cuts its input features.
NemotronDecoderLayer ==
  LET whole(p) == [p EXCEPT !.divided = 0]
  IN  Sequential(Sub(<<Col("qkv_proj", "_shard_qkv", QKV), Row("o_proj", "_shard_o", "o")>>, "none"),
                 Sub(<<whole(Row("up_proj", "_shard_mlp_up", "hidden")),
                       whole(Row("down_proj", "_shard_mlp_down", "down"))>>
                     \o IfBias(<<Unset(whole(Col("up_proj_bias", "", <<"up">>)))>>), WholeIfBias),
                 "reduce")

Starcoder2DecoderLayer ==
  Sequential(Sub(<<Col("wqkv_pack", "_shard_qkv_weight", QKV), Row("o_proj", "_shard_o", "o")>>
                 \o IfBias(<<Col("wqkv_pack_bias", "_shard_qkv_bias", QKV)>>), WholeIfBias),
             Sub(<<Col("c_fc", "_shard_c_fc_weight", <<"up">>), Row("c_proj", "_shard_mlp_c_proj", "down")>>
                 \o IfBias(<<Col("c_fc_bias", "_shard_c_fc_bias", <<"up">>),
                             [Col("c_proj_bias", "_shard_mlp_c_proj_bias", <<"hidden">>) EXCEPT !.divided = 0]>>),
                 WholeIfBias),
             "reduce")

StableLmDecoderLayer ==
  Sequential(Sub(<<Col("qkv_proj", "_shard_qkv_weight", QKV), Row("o_proj", "_shard_o", "o")>>
                 \o IfBias(<<Col("qkv_proj_bias", "_shard_qkv_bias", QKV)>>), "none"),
             Sub(<<Col("gate_up_proj", "_shard_mlp_up", GateUp),
                   Row("down_proj", "_shard_mlp_down", "down")>>, "none"),
             "reduce")
-----------------------------------------------------------------------------
\* The MLP computes x1 * silu(x2): its first half is what others call up.
QWenBlock ==
  Sequential(MHA(Sub(<<Col("c_attn", "_shard_qkv_weight", QKV), Col("c_attn_bias", "_shard_qkv_bias", QKV),
                       Row("c_proj", "_shard_attn_c_proj", "o")>>, "none")),
             Sub(<<Col("gate_up_proj", "_shard_mlp_gate_up_proj", <<"up", "gate">>),
                   Row("mlp_c_proj", "_shard_mlp_c_proj", "down")>>, "none"),
             "reduce")

QWen2DecoderLayer ==
  Sequential(Sub(<<Col("c_attn", "_shard_qkv_weight", QKV), Col("c_attn_bias", "_shard_qkv_bias", QKV),
                   Row("o_proj", "_shard_o", "o")>>, "none"),
             Sub(<<Col("gate_up_proj", "_shard_mlp_up", GateUp),
                   Row("down_proj", "_shard_mlp_down", "down")>>, "none"),
             "reduce")

Qwen2MoeDecoderLayer ==
  WithShared(Sub(<<Col("c_attn", "_shard_qkv_weight", QKV), Col("c_attn_bias", "_shard_qkv_bias", QKV),
                   Row("o_proj", "_shard_o", "o")>>, "none"),
             Sub(<<Expert(Col("moe_gate_up_proj", "_shard_moe_mlp_up", GateUp)),
                   Expert(Row("moe_down_proj", "_shard_moe_mlp_down", "down"))>>, "none"),
             Sub(<<Col("shared_gate_up_proj", "_shard_shared_mlp_up", GateUp),
                   Row("shared_down_proj", "_shard_shared_mlp_down", "down")>>, "none"),
             "reduce")

\* attention_bias gives o_proj a bias too, which every worker adds in full.
Qwen3Attention ==
  Sub(<<Col("c_attn", "_shard_qkv_weight", QKV), Row("o_proj", "_shard_o", "o")>>
      \o IfBias(<<Col("c_attn_bias", "_shard_qkv_bias", QKV)>>), WholeIfBias)
Qwen3DecoderLayer ==
  Sequential(Qwen3Attention,
             Sub(<<Col("gate_up_proj", "_shard_mlp_up", GateUp),
                   Row("down_proj", "_shard_mlp_down", "down")>>, "none"),
             "reduce")

Qwen3MoeDecoderLayer ==
  Sequential(Qwen3Attention,
             Sub(<<Expert(Col("moe_gate_up_proj", "_shard_moe_mlp_up", GateUp)),
                   Expert(Row("moe_down_proj", "_shard_moe_mlp_down", "down"))>>, "none"),
             "reduce")

MixtralMoE ==
  Sub(<<Expert(Col("e1_e3", "_shard_mlp_up", GateUp)), Expert(Row("e2", "_shard_mlp_down", "down"))>>, "none")
MixtralDecoderLayer ==
  Sequential(Sub(<<Col("qkv_proj", "_shard_qkv", QKV), Row("o_proj", "_shard_o", "o")>>, "none"),
             MixtralMoE, "reduce")

MiniCPMMoE ==
  Sub(<<Expert(Col("e1_e3", "_shard_mlp_up", GateUp)), Expert(Row("e2", "_shard_mlp_down", "down"))>>, "none")
MiniCPMDecoderLayer(num_experts) ==
  Sequential(Sub(<<Col("wqkv_pack", "_shard_qkv_weight", QKV), Row("o_proj", "_shard_o", "o")>>, "none"),
             IF num_experts > 0 THEN MiniCPMMoE
             ELSE Sub(<<Col("gate_up_proj", "_shard_mlp_up", GateUp),
                        Row("down_proj", "_shard_mlp_down", "down")>>, "none"),
             "reduce")

\* The shared experts are an MLP of a worker's width, which divides it again.
DeepseekMoE ==
  Sub(<<Expert(Col("moe_gate_up_proj", "_shard_mlp_up", GateUp)),
        Expert(Row("moe_down_proj", "_shard_mlp_down", "down"))>>, "none")
DeepseekDecoderLayer(layer_idx) ==
  LET attn == Sub(<<Col("wqkv_pack", "_shard_qkv_weight", QKV), Row("o_proj", "_shard_o", "o")>>
                  \o IfBias(<<Unset(Col("wqkv_pack_bias", "", QKV))>>), WholeIfBias)
      twice(p) == [Unset(p) EXCEPT !.divided = 2]
  IN  IF layer_idx >= 1   \* first_k_dense_replace
      THEN WithShared(attn, DeepseekMoE,
                      Sub(<<twice(Col("shared_gate_up_proj", "", GateUp)),
                            twice(Row("shared_down_proj", "", "down"))>>, "none"), "reduce")
      ELSE Sequential(attn, Sub(<<Col("gate_up_proj", "_shard_mlp_up", GateUp),
                                  Row("down_proj", "_shard_mlp_down", "down")>>, "none"), "reduce")

\* kv_b_proj serves the prefill; w_uk and w_uv are its two halves for decoding.
DeepseekV2Attention ==
  MHA(Sub(<<Col("q_proj", "_shard_q_weight", <<"q">>), Col("kv_b_proj", "_shard_kv_b_weight", <<"kv">>),
            Col("w_uk", "_shard_kv_b_weight_w_uk", <<"k">>), Col("w_uv", "_shard_kv_b_weight_w_uv", <<"v">>),
            Row("o_proj", "_shard_o", "o")>>, WholeIfBias))
DeepseekV2MoE ==
  Sub(<<Expert(Col("moe_gate_up_proj", "_shard_moe_gate_up", GateUp)),
        Expert(Row("moe_down_proj", "_shard_moe_mlp_down", "down"))>>, "none")
DeepseekV2DecoderLayer(layer_idx) ==
  IF layer_idx >= 1
  THEN WithShared(DeepseekV2Attention, DeepseekV2MoE,
                  Sub(<<Col("shared_gate_up_proj", "_shard_shared_experts_gate_up", GateUp),
                        Row("shared_down_proj", "_shard_shared_experts_down", "down")>>, "none"), "reduce")
  ELSE Sequential(DeepseekV2Attention,
                  Sub(<<Col("gate_up_proj", "_shard_gate_up", GateUp),
                        Row("down_proj", "_shard_down", "down")>>, "none"), "reduce")
-----------------------------------------------------------------------------
\* Encoder layers: the sum is normalised after the residual is added.  The
\* heads are divided, but nothing has a strategy.
BertLayer ==
  LET attn == MHA(Sub(<<Unset(Col("qkv", "", QKV)), Unset(Col("qkv_bias", "", QKV)),
                        [Unset(Row("attn_dense", "", "o")) EXCEPT !.divided = 0]>>, "whole"))
      mlp == Sub(<<[Unset(Col("up_dense", "", <<"up">>)) EXCEPT !.divided = 0],
                   [Unset(Row("down_dense", "", "down")) EXCEPT !.divided = 0]>>, "whole")
  IN  [subs |-> [attn |-> attn, mlp |-> mlp],
       prog |-> <<Run("attn"), Add({"attn"}, "local"), Norm, Run("mlp"), Add({"mlp"}, "local"), Norm>>]

\* Recurrent layers run on one worker.  Every rescale_every layers the hidden
\* states are halved, and the loader scales the weights that follow.
RWKVSubs ==
  [attn |-> Sub(<<[Unset(Row("output", "", "o")) EXCEPT !.divided = 0]>>, "none"),
   mlp |-> Sub(<<[Unset(Row("value", "", "down")) EXCEPT !.divided = 0]>>, "none")]
RWKV5_Layer(rescale_every, layer_id) ==
  [subs |-> RWKVSubs,
   prog |-> <<Norm, Run("attn"), Add({"attn"}, "local"), Norm, Run("mlp"), Add({"mlp"}, "local")>>
            \o IF rescale_every > 0 /\ (layer_id + 1) % rescale_every = 0 THEN <<Halve>> ELSE <<>>]
RWKV6_Layer(rescale_every, layer_id) ==
  [subs |-> RWKVSubs,
   prog |-> <<Norm, Run("attn"), Add({"attn"}, "local"), Norm, Run("mlp"), Add({"mlp"}, "local")>>
            \o IF rescale_every > 0 /\ (layer_id + 1) % rescale_every = 0 THEN <<Halve>> ELSE <<>>]
=============================================================================
