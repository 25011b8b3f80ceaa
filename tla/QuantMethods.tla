---------------------------- MODULE QuantMethods ----------------------------
(***************************************************************************)
(* The quantization functions of the models (model/*/*_quantization.py)    *)
(* and the registered methods (quantization/quantization.py).              *)
(*                                                                         *)
(* A model has a function for each kind of quantization it is registered   *)
(* with.  All of them build the model in model_dtype and hand it to        *)
(* quantize_model; group_quant first writes the number of workers into the *)
(* GroupQuantize object, which all models of the process share, except     *)
(* where "tells" is FALSE.                                                 *)
(***************************************************************************)
EXTENDS Integers, TLC

Offers(kinds) == [kinds |-> {"no-quant"} \cup kinds, tells |-> TRUE, sparse |-> FALSE, vision |-> FALSE]
Sparse(model) == [model EXCEPT !.sparse = TRUE]
Vision(model) == [model EXCEPT !.vision = TRUE]
Silent(model) == [model EXCEPT !.tells = FALSE]

GroupOnly == {"group-quant"}
Usual == {"group-quant", "ft-quant"}

\* Mutant: the number of workers stays what another model left behind.
LlamaSilent == Silent(Offers(Usual \cup {"awq", "per-tensor-quant"}))
LlamaQuantization == Offers(Usual \cup {"awq", "per-tensor-quant"})
OLMoQuantization == Offers(Usual \cup {"awq", "per-tensor-quant"})
NemotronQuantization == Offers(Usual \cup {"awq", "per-tensor-quant"})
EagleQuantization == Offers(Usual \cup {"awq"})
MistralQuantization == Offers(Usual)
GPT2Quantization == Offers(Usual)
GPTNeoXQuantization == Offers(Usual)
GPTBigCodeQuantization == Offers(Usual)
PhiQuantization == Offers(Usual)
Phi3Quantization == Offers(Usual)
QWenQuantization == Offers(Usual)
QWen2Quantization == Offers(Usual)
Qwen3Quantization == Offers(Usual \cup {"block-scale-quant"})
StableLmQuantization == Offers(Usual)
BaichuanQuantization == Offers(Usual)
InternLMQuantization == Offers(Usual)
InternLM2Quantization == Offers(Usual)
RWKV5Quantization == Offers(Usual)
BertQuantization == Offers(Usual)
Starcoder2Quantization == Offers(Usual)
CohereQuantization == Offers(Usual)
GemmaQuantization == Offers(GroupOnly)
Gemma2Quantization == Offers(GroupOnly)
Gemma3Quantization == Offers(GroupOnly)
OrionQuantization == Offers(GroupOnly)
RWKV6Quantization == Offers(GroupOnly)
ChatGLMQuantization == Offers(GroupOnly)
MedusaQuantization == Offers({})
MixtralQuantization == Sparse(Offers(Usual \cup {"per-tensor-quant"}))
Qwen2MoeQuantization == Sparse(Offers(Usual))
Qwen3MoeQuantization == Sparse(Offers(Usual \cup {"block-scale-quant"}))
DeepseekQuantization == Sparse(Offers(Usual))
DeepseekV2Quantization == Sparse(Offers(Usual \cup {"block-scale-quant"}))
MiniCPMQuantization == Sparse(Offers(Usual))
GPTJQuantization == Silent(Offers(Usual))
LlavaQuantization == Vision(Offers(GroupOnly \cup {"awq"}))
Phi3VQuantization == Vision(Silent(Offers(Usual)))

Quantizable ==
  [llama |-> LlamaQuantization, olmo |-> OLMoQuantization, nemotron |-> NemotronQuantization,
   eagle |-> EagleQuantization, mistral |-> MistralQuantization, gpt2 |-> GPT2Quantization,
   gpt_neox |-> GPTNeoXQuantization, gpt_bigcode |-> GPTBigCodeQuantization, phi |-> PhiQuantization,
   phi3 |-> Phi3Quantization, qwen |-> QWenQuantization, qwen2 |-> QWen2Quantization,
   qwen3 |-> Qwen3Quantization, stablelm |-> StableLmQuantization, baichuan |-> BaichuanQuantization,
   internlm |-> InternLMQuantization, internlm2 |-> InternLM2Quantization, rwkv5 |-> RWKV5Quantization,
   bert |-> BertQuantization, starcoder2 |-> Starcoder2Quantization, cohere |-> CohereQuantization,
   gemma |-> GemmaQuantization, gemma2 |-> Gemma2Quantization, gemma3 |-> Gemma3Quantization,
   orion |-> OrionQuantization, rwkv6 |-> RWKV6Quantization, chatglm |-> ChatGLMQuantization,
   medusa |-> MedusaQuantization, mixtral |-> MixtralQuantization, qwen2_moe |-> Qwen2MoeQuantization,
   qwen3_moe |-> Qwen3MoeQuantization, deepseek |-> DeepseekQuantization,
   deepseek_v3 |-> DeepseekV2Quantization, minicpm |-> MiniCPMQuantization, gptj |-> GPTJQuantization,
   llava |-> LlavaQuantization, phi3_v |-> Phi3VQuantization]
-----------------------------------------------------------------------------
\* The registered methods, as far as they differ: which modules they replace,
\* and how a group-quantized linear is laid out.
NoQuantize == [kind |-> "no-quant", layout |-> "NK", embedding |-> FALSE, final_fc |-> FALSE, use_scale |-> FALSE,
               calibrated |-> FALSE]
GroupQuantize(layout, all) ==
  [NoQuantize EXCEPT !.kind = "group-quant", !.layout = layout, !.embedding = all, !.final_fc = all]
PerTensorQuantize(use_scale, calibrated) ==
  [NoQuantize EXCEPT !.kind = "per-tensor-quant", !.use_scale = use_scale, !.calibrated = calibrated]
QUANTIZATION ==
  [q0f16 |-> NoQuantize,
   q3f16_0 |-> GroupQuantize("KN", TRUE), q3f16_1 |-> GroupQuantize("NK", TRUE),
   q4f16_0 |-> GroupQuantize("KN", TRUE), q4f16_1 |-> GroupQuantize("NK", TRUE),
   q4f16_2 |-> GroupQuantize("NK", FALSE),
   q4f16_autoawq |-> [NoQuantize EXCEPT !.kind = "awq"],
   q4f16_ft |-> [NoQuantize EXCEPT !.kind = "ft-quant"],
   e5m2_e5m2_f16 |-> PerTensorQuantize(FALSE, TRUE),
   e4m3_e4m3_f16 |-> PerTensorQuantize(TRUE, TRUE),
   e4m3_e4m3_f16_max_calibrate |-> PerTensorQuantize(TRUE, FALSE),
   fp8_e4m3fn_bf16_block_scale |-> [NoQuantize EXCEPT !.kind = "block-scale-quant"]]
=============================================================================
