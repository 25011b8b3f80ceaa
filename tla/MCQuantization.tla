--------------------------- MODULE MCQuantization ---------------------------
(* Conversions for TLC: which models, methods, sizes and numbers of workers. *)
EXTENDS Quantization

All(models, quants, shards, hiddens, inters, experts) ==
  {[model |-> m, quant |-> q, shards |-> s, hidden |-> h, inter |-> i, experts |-> e] :
     m \in models, q \in quants, s \in shards, h \in hiddens, i \in inters, e \in experts}
Everything == DOMAIN Quantizable

\* Every model with every method it offers on one worker; widths that are
\* multiples of the group, or not.  Only group quantization leaves the image
\* encoder of phi3_v as it is.
Language == Everything \ {"phi3_v"}
OneWorker ==
  All(Everything, {"q0f16", "q4f16_1", "q4f16_2"}, {1}, {4, 5}, {4}, {2})
  \cup All(Language, {"e5m2_e5m2_f16", "e4m3_e4m3_f16", "e4m3_e4m3_f16_max_calibrate",
                     "fp8_e4m3fn_bf16_block_scale"}, {1}, {4, 5}, {4}, {2})
  \cup All(Everything \ {"mixtral", "qwen2_moe", "qwen3_moe", "deepseek", "deepseek_v3", "minicpm"},
           {"q4f16_0"}, {1}, {4, 5}, {4}, {2})
  \cup All(Language \ {"mixtral", "qwen2_moe", "qwen3_moe", "deepseek", "deepseek_v3", "minicpm"},
           {"q4f16_ft"}, {1}, {4, 5}, {4}, {2})
  \cup All({"llama", "olmo", "eagle"}, {"q4f16_autoawq"}, {1}, {4}, {4}, {2})
  \cup All({"mixtral", "qwen2_moe"}, {"q4f16_0", "q4f16_ft"}, {1}, {4}, {4}, {2})
\* Two workers and widths that are multiples of the group, one model after
\* another.
TwoWorkers ==
  All(Everything \ {"gptj", "phi3_v"}, {"q4f16_1", "q4f16_2", "e4m3_e4m3_f16", "fp8_e4m3fn_bf16_block_scale"},
      {1, 2}, {4}, {4}, {2})
  \cup All({"llama"}, {"q4f16_1"}, {1}, {6}, {4}, {2})
AllJobs == OneWorker \cup TwoWorkers
=============================================================================
