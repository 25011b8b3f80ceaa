--------------------------- MODULE MCPrefixCache ---------------------------
(***************************************************************************)
(* Instances of PrefixCache.  Pages of two tokens and chunks of two, so    *)
(* that sequences of up to six tokens split, fill and merge pages.         *)
(***************************************************************************)
EXTENDS PrefixCache

\* Prompts that share no token, one, a page or more with each other: without and
\* with a sliding window, with no, one and two sequences kept, and with a request
\* that pins its prompt.
MCConfigs ==
  {[sliding |-> FALSE, limit |-> 2, pinned |-> {}, prompts |-> <<<<1, 1, 2>>, <<1, 1, 2, 1>>, <<1, 2>>>>],
   [sliding |-> FALSE, limit |-> 1, pinned |-> {1}, prompts |-> <<<<1, 1>>, <<1, 1, 2, 1>>, <<1, 1, 1>>>>],
   [sliding |-> TRUE, limit |-> 1, pinned |-> {}, prompts |-> <<<<1, 1>>, <<1, 1, 2>>, <<1, 1, 2, 1>>>>],
   [sliding |-> FALSE, limit |-> 0, pinned |-> {}, prompts |-> <<<<1>>, <<1, 2, 1>>, <<1, 2, 2>>>>]}
=============================================================================
