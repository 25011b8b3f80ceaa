------------------------------ MODULE MCEngine ------------------------------
(* Deployments of Engine for TLC.  A request is its index in these tuples. *)
EXTENDS Engine

\* Single generations, chunked prompts, a tight KV cache: requests are preempted
\* and the last one is too long.
Single ==
  [Requests |-> {1, 2, 3, 4}, PromptTokens |-> <<21, 9, 6, 30>>, N |-> <<1, 1, 1, 1>>, MaxTokens |-> 5,
   Abortable |-> {2, 3}, MaxSingle |-> 24, MaxTotal |-> 38, MaxNumSequence |-> 2,
   ChunkSize |-> 12, PageSize |-> 2, NumPages |-> 20, Hybrid |-> TRUE,
   Disaggregation |-> FALSE]
\* Several generations of a prompt and plenty of pages.
Parallel ==
  [Requests |-> {1, 2, 3}, PromptTokens |-> <<7, 5, 4>>, N |-> <<2, 1, 2>>, MaxTokens |-> 2,
   Abortable |-> {2}, MaxSingle |-> 12, MaxTotal |-> 160, MaxNumSequence |-> 8,
   ChunkSize |-> 8, PageSize |-> 2, NumPages |-> 81, Hybrid |-> TRUE,
   Disaggregation |-> FALSE]
\* A model built for disaggregation, which aborts instead of preempting.
Disagg ==
  [Requests |-> {1, 2, 3}, PromptTokens |-> <<5, 3, 4>>, N |-> <<1, 1, 1>>, MaxTokens |-> 13,
   Abortable |-> {2}, MaxSingle |-> 24, MaxTotal |-> 28, MaxNumSequence |-> 2,
   ChunkSize |-> 12, PageSize |-> 2, NumPages |-> 15, Hybrid |-> FALSE,
   Disaggregation |-> TRUE]
\* A request with two generations has to be preempted.
Preempt ==
  [Requests |-> {1}, PromptTokens |-> <<12>>, N |-> <<2>>, MaxTokens |-> 10,
   Abortable |-> {}, MaxSingle |-> 24, MaxTotal |-> 36, MaxNumSequence |-> 4,
   ChunkSize |-> 16, PageSize |-> 2, NumPages |-> 19, Hybrid |-> TRUE,
   Disaggregation |-> FALSE]
Served == {Single, Parallel, Disagg}
OnlyPreempt == {Preempt}
=============================================================================
