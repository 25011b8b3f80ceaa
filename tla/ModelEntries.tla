---------------------------- MODULE ModelEntries ----------------------------
(***************************************************************************)
(* The functions every model exports to the runtime (get_default_spec) and *)
(* what each of them does around the layers: "bcast" is                    *)
(* ccl_broadcast_from_worker0 of the tensor the host passed, "read" uses   *)
(* that tensor, "layers" runs the decoder layers, "last" keeps the last    *)
(* position of a sequence and "take" the positions the host asks for.      *)
(* "cache" is the number of heads of the KV cache one worker creates,      *)
(* before it is divided by the number of workers.                          *)
(***************************************************************************)
EXTENDS Integers, Sequences, TLC

\* The functions of a model that returns logits.
Serving ==
  [embed         |-> <<"bcast", "read">>,
   prefill       |-> <<"layers", "last">>,
   decode        |-> <<"layers">>,
   batch_prefill |-> <<"bcast", "layers", "take">>,
   batch_decode  |-> <<"layers">>,
   batch_verify  |-> <<"layers">>]
\* Those of a model that can work with a draft model: hidden states and logits
\* are available separately, and the positions are broadcast where they are used.
Speculative ==
  [embed         |-> <<"bcast", "read">>,
   get_logits    |-> <<>>,
   batch_select_last_hidden_states |-> <<"bcast", "take">>,
   prefill       |-> <<"layers", "last">>,
   decode        |-> <<"layers">>,
   prefill_to_last_hidden_states |-> <<"layers">>,
   decode_to_last_hidden_states  |-> <<"layers">>,
   batch_prefill |-> <<"layers", "bcast", "take">>,
   batch_decode  |-> <<"layers">>,
   batch_verify  |-> <<"layers">>,
   batch_prefill_to_last_hidden_states |-> <<"layers">>,
   batch_decode_to_last_hidden_states  |-> <<"layers">>,
   batch_verify_to_last_hidden_states  |-> <<"layers">>]

\* With grouped heads the cache has num_key_value_heads, otherwise
\* num_attention_heads, for keys and values.
Grouped == [q |-> "heads", kv |-> "kv_heads"]
Plain == [q |-> "heads", kv |-> "heads"]
\* Latent attention keeps one head on every worker.
Latent == [q |-> "heads", kv |-> "one"]
-----------------------------------------------------------------------------
LlamaForCausalLM == [calls |-> Speculative, cache |-> Grouped]
NemotronForCausalLM == [calls |-> Speculative, cache |-> Grouped]
OLMoForCausalLM == [calls |-> Speculative, cache |-> Grouped]

BaichuanForCausalLM == [calls |-> Serving, cache |-> Plain]
ChatGLMForCausalLM == [calls |-> Serving, cache |-> Grouped]
CohereForCausalLM == [calls |-> Serving, cache |-> Grouped]
DeepseekForCausalLM == [calls |-> Serving, cache |-> Grouped]
GemmaForCausalLM == [calls |-> Serving, cache |-> Grouped]
Gemma2ForCausalLM == GemmaForCausalLM
Gemma3LanguageModel == [calls |-> Serving, cache |-> Grouped]
Gemma3ForCausalLM == Gemma3LanguageModel
GPT2LMHeadModel == [calls |-> Serving, cache |-> Plain]
GPTBigCodeForCausalLM == [calls |-> Serving, cache |-> Grouped]
GPTJForCausalLM == [calls |-> Serving, cache |-> Plain]
GPTNeoXForCausalLM == [calls |-> Serving, cache |-> Plain]
InternLMForCausalLM == [calls |-> Serving, cache |-> Plain]
InternLM2ForCausalLM == [calls |-> Serving, cache |-> Grouped]
MiniCPMForCausalLM == [calls |-> Serving, cache |-> Grouped]
MistralForCasualLM == [calls |-> Serving, cache |-> Grouped]
MixtralForCasualLM == MistralForCasualLM
OrionForCasualLM == [calls |-> Serving, cache |-> Grouped]
PhiForCausalLM == [calls |-> Serving, cache |-> Grouped]
Phi3ForCausalLM == [calls |-> Serving, cache |-> Grouped]
QWenLMHeadModel == [calls |-> Serving, cache |-> Plain]
QWen2LMHeadModel == [calls |-> Serving, cache |-> Grouped]
Qwen2MoeForCausalLM == [calls |-> Serving, cache |-> Grouped]
Qwen3LMHeadModel == [calls |-> Serving, cache |-> Grouped]
Qwen3MoeForCausalLM == [calls |-> Serving, cache |-> Grouped]
StableLmForCausalLM == [calls |-> Serving, cache |-> Grouped]
Starcoder2ForCausalLM == [calls |-> Serving, cache |-> Grouped]

\* Prefilling with a prefix already in the cache is a function of its own.
DeepseekV2ForCausalLM ==
  [calls |-> Serving @@ [extend |-> <<"layers", "last">>, batch_extend |-> <<"bcast", "layers", "take">>],
   cache |-> Latent]

\* Images are embedded without a broadcast; the rest is the language model's.
LlavaForCasualLM ==
  [calls |-> [f \in DOMAIN Serving |-> LlamaForCausalLM.calls[f]] @@ [image_embed |-> <<"read">>],
   cache |-> Grouped]
Phi3VForCausalLM == [calls |-> Serving @@ [image_embed |-> <<"read">>], cache |-> Grouped]

\* The draft model returns hidden states only.
EagleForCasualLM ==
  [calls |-> [embed |-> <<"bcast", "read">>, fuse_embed_hidden_states |-> <<>>,
              prefill_to_last_hidden_states |-> <<"layers">>,
              decode_to_last_hidden_states |-> <<"layers">>,
              batch_prefill_to_last_hidden_states |-> <<"layers">>,
              batch_decode_to_last_hidden_states |-> <<"layers">>],
   cache |-> Grouped]

\* forward() keeps the last token before it looks at logit_positions, and is
\* what all of the functions call.
RWKVForward(positions) == <<"layers", "last">> \o positions
RWKV5_ForCasualLM ==
  [calls |-> [embed |-> <<"read">>, prefill |-> RWKVForward(<<>>), decode |-> RWKVForward(<<>>),
              batch_prefill |-> RWKVForward(<<"take">>), batch_decode |-> RWKVForward(<<>>),
              batch_verify |-> RWKVForward(<<>>)],
   cache |-> Plain]
RWKV6_ForCasualLM ==
  [calls |-> [embed |-> <<"read">>, prefill |-> RWKVForward(<<>>), decode |-> RWKVForward(<<>>),
              batch_prefill |-> RWKVForward(<<"take">>), batch_decode |-> RWKVForward(<<>>),
              batch_verify |-> RWKVForward(<<>>)],
   cache |-> Plain]

\* An encoder: token ids in, hidden states out, no cache.
BertModel == [calls |-> [prefill_encoder |-> <<"read", "layers">>], cache |-> Plain]
\* Only the heads of a draft model: hidden states in, logits out.
MedusaModel == [calls |-> [get_logits |-> <<>>], cache |-> Plain]
=============================================================================
