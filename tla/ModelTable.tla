------------------------------ MODULE ModelTable ------------------------------
(***************************************************************************)
(* The models the repository defines (model/model.py): two layers of each, *)
(* its loader and the functions it exports, put together from ModelLayers, *)
(* ModelLoaders and ModelEntries.                                          *)
(***************************************************************************)
EXTENDS ModelLoaders, ModelEntries, TLC

RescaleEvery == 1   \* rescale_every of the recurrent models

Model(layer, loader, entry) ==
  [layers |-> <<layer, layer>>, loaders |-> <<loader, loader>>, entry |-> entry, out_axis |-> 0]
TwoKinds(first, second, loader, entry) ==
  [Model(first, loader, entry) EXCEPT !.layers = <<first, second>>]
Awq(model, loader) == [model EXCEPT !.loaders = <<loader, loader>>, !.out_axis = 1]

\* MODELS, in the order of model.py; "awq" is the source format of that name.
LlamaToGPTBigCode ==
  LET llama == Model(LlamaDecoderLayer, LlamaLoader, LlamaForCausalLM)
  IN [llama |-> llama, llama_awq |-> Awq(llama, LlamaAwq),
      mistral |-> Model(MistralDecoderLayer, MistralLoader, MistralForCasualLM),
      gemma |-> Model(GemmaDecoderLayer, GemmaLoader, GemmaForCausalLM),
      gemma2 |-> Model(Gemma2DecoderLayer, Gemma2Loader, Gemma2ForCausalLM),
      gemma3 |-> Model(Gemma3DecoderLayer, Gemma3Loader, Gemma3ForCausalLM),
      gemma3_text |-> Model(Gemma3DecoderLayer, Gemma3Loader, Gemma3ForCausalLM),
      gpt2 |-> Model(GPT2Block, GPT2Loader, GPT2LMHeadModel),
      mixtral |-> Model(MixtralDecoderLayer, MixtralLoader, MixtralForCasualLM),
      gpt_neox |-> Model(GPTNeoXLayer(FALSE), GPTNeoXLoader, GPTNeoXForCausalLM),
      gpt_neox_parallel |-> Model(GPTNeoXLayer(TRUE), GPTNeoXLoader, GPTNeoXForCausalLM),
      gpt_bigcode |-> Model(GPTBigCodeBlock, GPTBigCodeLoader, GPTBigCodeForCausalLM)]

PhiToDeepseekV3 ==
  LET deepseek == TwoKinds(DeepseekV2DecoderLayer(0), DeepseekV2DecoderLayer(1), DeepseekV2Loader, DeepseekV2ForCausalLM)
  IN [phi_msft |-> Model(PhiParallelBlock, PhiLoader, PhiForCausalLM),
      phi |-> Model(PhiParallelBlock, Phi1Loader, PhiForCausalLM),
      phi3 |-> Model(Phi3ParallelBlock, Phi3Loader, Phi3ForCausalLM),
      phi3_v |-> Model(Phi3ParallelBlock, Phi3VLoader, Phi3VForCausalLM),
      qwen |-> Model(QWenBlock, QWenLoader, QWenLMHeadModel),
      qwen2 |-> Model(QWen2DecoderLayer, QWen2Loader, QWen2LMHeadModel),
      qwen2_moe |-> Model(Qwen2MoeDecoderLayer, Qwen2MoeLoader, Qwen2MoeForCausalLM),
      qwen3 |-> Model(Qwen3DecoderLayer, Qwen3Loader, Qwen3LMHeadModel),
      qwen3_moe |-> Model(Qwen3MoeDecoderLayer, Qwen3MoeLoader, Qwen3MoeForCausalLM),
      deepseek_v2 |-> deepseek, deepseek_v3 |-> deepseek]

StableLmToEagle ==
  LET llava == Model(LlamaDecoderLayer, LlavaLoader, LlavaForCasualLM)
      eagle == TwoKinds(EagleDecoderLayer(0), EagleDecoderLayer(1), EagleLoader, EagleForCasualLM)
  IN [stablelm |-> Model(StableLmDecoderLayer, StableLmLoader, StableLmForCausalLM),
      baichuan |-> Model(BaichuanDecoderLayer, BaichuanLoader, BaichuanForCausalLM),
      internlm |-> Model(InternLMDecoderLayer, InternLMLoader, InternLMForCausalLM),
      internlm2 |-> Model(InternLM2DecoderLayer, InternLM2Loader, InternLM2ForCausalLM),
      rwkv5 |-> [TwoKinds(RWKV5_Layer(RescaleEvery, 0), RWKV5_Layer(RescaleEvery, 1), NoParts, RWKV5_ForCasualLM)
                 EXCEPT !.loaders = <<RWKV5Loader(RescaleEvery, 0), RWKV5Loader(RescaleEvery, 1)>>],
      orion |-> Model(OrionDecoderLayer, OrionLoader, OrionForCasualLM),
      llava |-> llava, llava_awq |-> Awq(llava, LlavaAwq),
      rwkv6 |-> [TwoKinds(RWKV6_Layer(RescaleEvery, 0), RWKV6_Layer(RescaleEvery, 1), NoParts, RWKV6_ForCasualLM)
                 EXCEPT !.loaders = <<RWKV6Loader(RescaleEvery, 0), RWKV6Loader(RescaleEvery, 1)>>],
      chatglm |-> Model(GLMBlock, GLMLoader, ChatGLMForCausalLM),
      eagle |-> eagle, eagle_awq |-> Awq(eagle, EagleAwq)]

BertToNemotron ==
  LET olmo == Model(OLMoDecoderLayer, OLMoLoader, OLMoForCausalLM)
  IN [bert |-> Model(BertLayer, BertLoader, BertModel),
      medusa |-> [Model(LlamaDecoderLayer, NoParts, MedusaModel) EXCEPT !.layers = <<>>],
      starcoder2 |-> Model(Starcoder2DecoderLayer, Starcoder2Loader, Starcoder2ForCausalLM),
      cohere |-> Model(CohereDecoderLayer, CohereLoader, CohereForCausalLM),
      minicpm |-> Model(MiniCPMDecoderLayer(0), MiniCPMLoader, MiniCPMForCausalLM),
      minicpm_moe |-> Model(MiniCPMDecoderLayer(8), MiniCPMLoader, MiniCPMForCausalLM),
      deepseek |-> TwoKinds(DeepseekDecoderLayer(0), DeepseekDecoderLayer(1), DeepseekLoader, DeepseekForCausalLM),
      gptj |-> Model(GPTJBlock, GPTJLoader, GPTJForCausalLM),
      olmo |-> olmo, olmo_awq |-> Awq(olmo, OLMoAwq),
      nemotron |-> Model(NemotronDecoderLayer, NemotronLoader, NemotronForCausalLM)]

MODELS == LlamaToGPTBigCode @@ PhiToDeepseekV3 @@ StableLmToEagle @@ BertToNemotron
=============================================================================
