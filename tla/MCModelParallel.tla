--------------------------- MODULE MCModelParallel ---------------------------
(* Instances of ModelParallel: which models run on how many workers. *)
EXTENDS ModelParallel, ModelTable

All(archs, shards, heads, bias) ==
  {[arch |-> a, model |-> MODELS[a], shards |-> shards, heads |-> heads, bias |-> bias] : a \in archs}

\* Every model, on one worker, with its optional biases.
OnOneWorker == DOMAIN MODELS \ {"internlm2", "llava_awq"}
\* The models whose strategies allow more than one worker.
OnTwoWorkers ==
  {"llama", "mistral", "olmo", "orion", "eagle", "gemma", "gemma2", "baichuan", "internlm", "internlm2",
   "gpt2", "gpt_neox", "phi_msft", "phi", "phi3", "starcoder2", "stablelm", "qwen", "qwen2", "qwen2_moe",
   "qwen3", "qwen3_moe", "mixtral", "minicpm", "minicpm_moe", "deepseek_v2", "deepseek_v3"}
\* One model for each way of adding residuals.
OnFourWorkers == {"llama", "gpt2", "phi", "qwen2_moe"}
Sound == All(OnOneWorker, 1, 4, TRUE) \cup All(OnTwoWorkers, 2, 4, FALSE) \cup All(OnFourWorkers, 4, 8, FALSE)
=============================================================================
