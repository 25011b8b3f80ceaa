---------------------------- MODULE ModelLoaders ----------------------------
(***************************************************************************)
(* The parameter mappings of the loaders (model/*/*_loader.py): for a      *)
(* parameter of the model, from which parts of the checkpoint it is put    *)
(* together.  A parameter that a loader does not name comes from the       *)
(* tensor of the same name (or a renamed one), unchanged in its order.     *)
(***************************************************************************)
EXTENDS ModelLayers

\* np.concatenate of one tensor per part along axis; for experts, np.stack of
\* those concatenations.
Fuse(roles) == [from |-> "parts", roles |-> roles, axis |-> 0, shift |-> 0]
FuseAwq(roles, axis) == [Fuse(roles) EXCEPT !.axis = axis]
\* One tensor of the checkpoint that holds q, k, v head by head or key-value
\* group by key-value group, regrouped by the loader or taken over as it is.
Regroup(layout) == [from |-> layout, roles |-> QKV, axis |-> 0, shift |-> 0]
AsIs == [Regroup("groups") EXCEPT !.from = "as_is"]
\* Half of every head of kv_b_proj.
Half(role) == [from |-> "half", roles |-> <<role>>, axis |-> 0, shift |-> 0]
\* A weight divided by 2^shift.
Rescaled(role, shift) == [from |-> "parts", roles |-> <<role>>, axis |-> 0, shift |-> shift]

-----------------------------------------------------------------------------
LlamaLoader == [qkv_proj |-> Fuse(QKV), gate_up_proj |-> Fuse(GateUp)]
MistralLoader == [qkv_proj |-> Fuse(QKV), gate_up_proj |-> Fuse(GateUp)]
GemmaLoader == [qkv_proj |-> Fuse(QKV), gate_up_proj |-> Fuse(GateUp)]
Gemma2Loader == [qkv_proj |-> Fuse(QKV), gate_up_proj |-> Fuse(GateUp)]
EagleLoader == [qkv_proj |-> Fuse(QKV), gate_up_proj |-> Fuse(GateUp)]
LlavaLoader == [qkv_proj |-> Fuse(QKV), gate_up_proj |-> Fuse(GateUp)]
OrionLoader == [qkv_proj |-> Fuse(QKV), gate_up_proj |-> Fuse(GateUp)]
OLMoLoader == [qkv_proj |-> Fuse(QKV), gate_up_proj |-> Fuse(GateUp)]
StableLmLoader == [qkv_proj |-> Fuse(QKV), qkv_proj_bias |-> Fuse(QKV), gate_up_proj |-> Fuse(GateUp)]
InternLMLoader == [wqkv_pack |-> Fuse(QKV), wqkv_pack_bias |-> Fuse(QKV), gate_up_proj |-> Fuse(GateUp)]
QWen2Loader == [c_attn |-> Fuse(QKV), c_attn_bias |-> Fuse(QKV), gate_up_proj |-> Fuse(GateUp)]
Qwen3Loader == [c_attn |-> Fuse(QKV), c_attn_bias |-> Fuse(QKV), gate_up_proj |-> Fuse(GateUp)]
Gemma3Loader == [gate_up_proj |-> Fuse(GateUp)]
BaichuanLoader == [gate_up_proj |-> Fuse(GateUp)]
\* w1 is what the model multiplies by the activation of w2.
QWenLoader == [gate_up_proj |-> Fuse(<<"up", "gate">>)]
CohereLoader == [qkv_proj |-> Fuse(QKV)]
NemotronLoader == [qkv_proj |-> Fuse(QKV)]
GPTJLoader == [c_attn |-> Fuse(QKV)]
Starcoder2Loader == [wqkv_pack |-> Fuse(QKV), wqkv_pack_bias |-> Fuse(QKV)]
BertLoader == [qkv |-> Fuse(QKV), qkv_bias |-> Fuse(QKV)]
Phi1Loader == [Wqkv |-> Fuse(QKV), Wqkv_bias |-> Fuse(QKV)]
GPTNeoXLoader == [query_key_value |-> Regroup("heads"), query_key_value_bias |-> Regroup("heads")]
\* The bias of wqkv is not regrouped.
InternLM2Loader == [wqkv |-> Regroup("groups"), wqkv_bias |-> AsIs, gate_up_proj |-> Fuse(GateUp)]
\* Every tensor has the order of the model's own parameters.
NoParts == [none |-> Fuse(<<>>)]
GLMLoader == NoParts
PhiLoader == NoParts
Phi3Loader == NoParts
Phi3VLoader == NoParts
GPT2Loader == NoParts
GPTBigCodeLoader == NoParts

Qwen2MoeLoader ==
  [c_attn |-> Fuse(QKV), c_attn_bias |-> Fuse(QKV), shared_gate_up_proj |-> Fuse(GateUp),
   moe_gate_up_proj |-> Fuse(GateUp)]
Qwen3MoeLoader == [c_attn |-> Fuse(QKV), c_attn_bias |-> Fuse(QKV), moe_gate_up_proj |-> Fuse(GateUp)]
DeepseekLoader ==
  [wqkv_pack |-> Fuse(QKV), shared_gate_up_proj |-> Fuse(GateUp), moe_gate_up_proj |-> Fuse(GateUp),
   gate_up_proj |-> Fuse(GateUp)]
DeepseekV2Loader ==
  [w_uk |-> Half("k"), w_uv |-> Half("v"), shared_gate_up_proj |-> Fuse(GateUp),
   moe_gate_up_proj |-> Fuse(GateUp), gate_up_proj |-> Fuse(GateUp)]
MiniCPMLoader == [wqkv_pack |-> Fuse(QKV), e1_e3 |-> Fuse(GateUp), gate_up_proj |-> Fuse(GateUp)]
MixtralLoader == [qkv_proj |-> Fuse(QKV), e1_e3 |-> Fuse(GateUp)]

RWKV5Loader(rescale_every, i) ==
  LET t == IF rescale_every > 0 THEN i \div rescale_every ELSE 0
  IN  [value |-> Rescaled("down", t), output |-> Rescaled("o", t)]
RWKV6Loader(rescale_every, i) ==
  LET t == IF rescale_every > 0 THEN i \div rescale_every ELSE 0
  IN  [value |-> Rescaled("down", t), output |-> Rescaled("o", t)]

\* Checkpoints quantized by AWQ hold qweight, qzeros and scales with the output
\* features in the second dimension.
LlamaAwq == [qkv_proj |-> FuseAwq(QKV, 1), gate_up_proj |-> FuseAwq(GateUp, 1)]
EagleAwq == [qkv_proj |-> FuseAwq(QKV, 1), gate_up_proj |-> FuseAwq(GateUp, 1)]
OLMoAwq == [qkv_proj |-> FuseAwq(QKV, 1), gate_up_proj |-> FuseAwq(GateUp, 1)]
LlavaAwq == [qkv_proj |-> FuseAwq(QKV, 0), gate_up_proj |-> FuseAwq(GateUp, 0)]
=============================================================================
