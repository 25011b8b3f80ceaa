---------------------------- MODULE PrefixCache ----------------------------
(***************************************************************************)
(* The prefix cache (cpp/serve/prefix_cache.cc) and the calls the engine   *)
(* makes of it: sequences whose tokens are in the KV cache are remembered  *)
(* in a radix tree, so that a new request with a common prefix forks one   *)
(* of them or takes over one that has finished.  The prefix cache never    *)
(* looks at the KV cache: what it says is there is what the engine has     *)
(* told it, later than it happened and through references                  *)
(* (token_ids_for_prefix_cache_update).                                    *)
(*                                                                         *)
(* Requests have one generation and only tokens as input.  Which requests  *)
(* are batched, and when memory runs out, is free here; Engine models how  *)
(* that is decided.  All calls are made by one thread: a step of the       *)
(* engine is a sequence of actions under `pc`, and a client's call is      *)
(* executed at "idle".  The KV cache is the tokens of each sequence.       *)
(***************************************************************************)
EXTENDS RadixTree

CONSTANTS
  NumRequests,       \* requests that arrive, in this order
  MaxTokens,         \* generation_cfg->max_tokens
  ChunkSize,         \* prefill_chunk_size
  ReuseNum, ReuseDen,   \* the share of a sequence that must match for it to be taken over, 0.9 in the code
  Configs,           \* records: sliding (a sliding window is used), limit
                     \*   (prefix_cache_max_num_recycling_seqs), the prompts of the requests
                     \*   and pinned (those with debug_config.pinned_system_prompt)
  MaxInterrupts,     \* bound: preemptions, aborts and resets
  PreemptDecoding    \* whether requests that have generated tokens are preempted too

Requests == 1..NumRequests

ASSUME PrefixCacheAssumption ==
  /\ {NumRequests, MaxTokens, ChunkSize, ReuseNum, ReuseDen} \subseteq Nat \ {0}
  /\ MaxInterrupts \in Nat /\ PreemptDecoding \in BOOLEAN
  /\ \A c \in Configs :
       /\ c.sliding \in BOOLEAN /\ c.limit \in Nat /\ c.pinned \subseteq Requests
       /\ \A r \in Requests : c.prompts[r] \in Seq(Tokens) \ {<<>>}

VARIABLES
  config,          \* how the engine was created
  cache,           \* PrefixCacheImpl: tree, seq_states, recycling, uncommitted
  token_ids,       \* token_ids_for_prefix_cache_update of each request
  kv,              \* KV cache: sequence id -> tokens
  available_ids, id_cnt,   \* EngineInternalIDManager
  req,             \* the request state entries
  pc,              \* where Step stands
  batch,           \* the requests of this step (of "finish": those that have finished)
  interrupts       \* preemptions, aborts and resets so far

idVars == <<available_ids, id_cnt>>
vars == <<config, cache, token_ids, kv, idVars, req, pc, batch, interrupts>>

EmptyCache == [tree |-> EmptyTree, seq_states |-> [s \in {} |-> ""], recycling |-> {}, uncommitted |-> <<>>]

Init ==
  /\ config \in Configs
  /\ cache = EmptyCache
  /\ token_ids = [r \in Requests |-> <<>>]
  /\ kv = [s \in {} |-> <<>>]
  /\ available_ids = <<>> /\ id_cnt = 0
  /\ req = [r \in Requests |-> [status |-> "new", id |-> -1, inputs |-> config.prompts[r],
                                prefilled |-> <<>>, committed |-> <<>>, cached |-> 0]]
  /\ pc = "idle" /\ batch = <<>> /\ interrupts = 0

With(f, x, v) == [y \in DOMAIN f \cup {x} |-> IF y = x THEN v ELSE f[y]]
Without(f, x) == Restricted(f, DOMAIN f \ {x})
\* A request that has ended, without its state.
Gone(r) == [req[r] EXCEPT !.status = "kFinished", !.inputs = <<>>, !.prefilled = <<>>, !.committed = <<>>, !.cached = 0]
Alive == {r \in Requests : req[r].status = "kAlive"}
Decodes(r) == req[r].inputs = <<>>
\* The requests in the order in which they come.
Arrival == [r \in Requests |-> r]
-----------------------------------------------------------------------------
(* PrefixCacheImpl, as functions of its state. *)

\* The references are followed when the extensions are committed; those of
\* sequences that have been removed are dropped.
CommitSequenceExtention(c) ==
  LET extended(t, e) == IF HasSequence(t, e[1]) THEN ExtendSequence(t, e[1], token_ids[e[2]]) ELSE t
      tree[i \in 0..Len(c.uncommitted)] ==
        IF i = 0 THEN c.tree ELSE extended(tree[i - 1], c.uncommitted[i])
  IN  [c EXCEPT !.tree = tree[Len(c.uncommitted)], !.uncommitted = <<>>]

Dropped(c, s) ==
  [c EXCEPT !.tree = RemoveSequence(@, s), !.seq_states = Without(@, s), !.recycling = @ \ {s}]

\* RecycleSequence(lazy = true): at the limit one recycling sequence goes, any
\* as the map of time stamps is unordered.
Evicted(c, full, victim) == IF full THEN Dropped(c, victim) ELSE c
RecycleLazily(c, s, full, victim) ==
  LET e == Evicted(c, full, victim)
  IN  [e EXCEPT !.seq_states[s] = "kRecycling", !.recycling = @ \cup {s}]

\* Mutant: a sequence that is taken over can be taken over again.
ReuseStillRecycling(c, s, pop) ==
  [c EXCEPT !.tree = IF pop > 0 THEN RollBackSequence(@, s, pop) ELSE @]
ReuseRecyclingSequence(c, s, pop) ==
  [c EXCEPT !.seq_states[s] = "kActive", !.recycling = @ \ {s},
            !.tree = IF pop > 0 THEN RollBackSequence(@, s, pop) ELSE @]
-----------------------------------------------------------------------------
(* The calls of the clients. *)

\* GetNewId: the id returned last, or a new one.
NewId == IF available_ids = <<>> THEN id_cnt ELSE Last(available_ids)
\* Mutant: an id that was returned is given away again and again.
TakeIdAgain ==
  /\ id_cnt' = IF available_ids = <<>> THEN id_cnt + 1 ELSE id_cnt
  /\ UNCHANGED available_ids
TakeId ==
  \/ /\ available_ids = <<>>
     /\ id_cnt' = id_cnt + 1 /\ UNCHANGED available_ids
  \/ /\ available_ids # <<>>
     /\ available_ids' = Front(available_ids) /\ UNCHANGED id_cnt

AddRequest(r) ==
  /\ pc = "idle" /\ req[r].status = "new"
  /\ r = 1 \/ (r > 1 /\ req[r - 1].status # "new")
  /\ req' = [req EXCEPT ![r].status = "kPending", ![r].id = NewId]
  /\ TakeId
  /\ UNCHANGED <<config, cache, token_ids, kv, pc, batch, interrupts>>

Interrupt == interrupts < MaxInterrupts /\ interrupts' = interrupts + 1

\* RecycleSequence(lazy = false): the sequence leaves cache and KV cache, and its
\* id is free.
RemoveNow(s) ==
  /\ cache' = Dropped(CommitSequenceExtention(cache), s)
  /\ kv' = Without(kv, s)

\* A request that is running leaves cache and KV cache; the id of one that only
\* waits is not returned.
AbortRequest(r) ==
  /\ pc = "idle" /\ Interrupt
  /\ \/ /\ r \in Alive
        /\ RemoveNow(req[r].id)
        /\ available_ids' = Append(available_ids, req[r].id)
     \/ /\ req[r].status = "kPending"
        /\ UNCHANGED <<cache, kv, available_ids>>
  /\ req' = [req EXCEPT ![r] = Gone(r)]
  /\ UNCHANGED <<config, token_ids, id_cnt, pc, batch>>

\* EngineImpl::Reset: all requests are aborted and everything is cleared.
Reset ==
  /\ pc = "idle" /\ Interrupt
  /\ cache' = EmptyCache
  /\ kv' = [s \in {} |-> <<>>]
  /\ available_ids' = <<>> /\ id_cnt' = 0
  /\ req' = [r \in Requests |-> IF req[r].status = "new" THEN req[r] ELSE Gone(r)]
  /\ UNCHANGED <<config, token_ids, pc, batch>>
-----------------------------------------------------------------------------
(* A step of the engine: memory is made, requests are matched and          *)
(* prefilled or decoded, the prefix cache is told.                         *)

TryFreeMemory ==
  /\ pc = "idle"
  /\ \E s \in cache.recycling :
       /\ cache' = Dropped(cache, s)
       /\ kv' = Without(kv, s)
       /\ available_ids' = Append(available_ids, s)
  /\ UNCHANGED <<config, token_ids, id_cnt, req, pc, batch, interrupts>>

\* PreemptLastRunningRequestStateEntry, when nothing is left to be freed: prompt
\* and generated tokens are prefilled again, under the id just returned.  A
\* request that has generated tokens is told to the prefix cache wrongly
\* afterwards (MCPrefixCachePreempt), so that case can be left out.
Preempt(r) ==
  /\ pc = "idle" /\ Interrupt /\ cache.recycling = {}
  /\ r \in Alive /\ (PreemptDecoding \/ req[r].committed = <<>>)
  /\ RemoveNow(req[r].id)
  /\ req' = [req EXCEPT ![r].status = "kPending", ![r].inputs = config.prompts[r] \o req[r].committed,
                        ![r].prefilled = <<>>, ![r].cached = 0]
  /\ UNCHANGED <<config, token_ids, idVars, pc, batch>>

\* The waiting requests, those whose prompt is chunked and, in hybrid mode, those
\* that decode.
SelectPrefill ==
  /\ pc = "idle"
  /\ \E S \in SUBSET {r \in Requests : req[r].status \in {"kPending", "kAlive"}} :
       /\ \E r \in S : req[r].inputs # <<>>
       /\ batch' = InOrder(Arrival, S)
  /\ pc' = "match"
  /\ UNCHANGED <<config, cache, token_ids, kv, idVars, req, interrupts>>

\* BatchDecode: the running requests that are prefilled, at most as many as a
\* chunk has tokens.
SelectDecode ==
  /\ pc = "idle"
  /\ LET decoding == {r \in Alive : Decodes(r)}
     IN  /\ decoding # {}
         /\ \E S \in kSubset(Min({Cardinality(decoding), ChunkSize}), decoding) : batch' = InOrder(Arrival, S)
  /\ pc' = "match"
  /\ UNCHANGED <<config, cache, token_ids, kv, idVars, req, interrupts>>

\* MatchPrefixCache for the next request that is not in the prefix cache yet,
\* where c is the cache after the commit and m what the tree matches of all its
\* tokens but the last.
ToMatch == InOrder(batch, {r \in Requests : req[r].status = "kPending"})
Matching(r) == pc = "match" /\ ToMatch # <<>> /\ r = Head(ToMatch)
Matched(r, c) == MatchPrefix(c.tree, Front(req[r].inputs))

Insert(c, t, s) == [c EXCEPT !.tree = t, !.seq_states = With(@, s, "kActive")]
\* Mutant: what has been found is computed again.
PoppedNothing(r, num, id) == [req EXCEPT ![r].status = "kAlive", ![r].id = id]
\* The request after num tokens of it have been found; it counts as alive from
\* here (UpdateRequestToAlive).
Popped(r, num, id) ==
  [req EXCEPT ![r].status = "kAlive", ![r].id = id, ![r].inputs = SubSeq(@, num + 1, Len(@))]

\* The sequences that can be taken over: with a sliding window only one that ends
\* with the match, without it the shortest if most of it matches.
Reusable(c, m) ==
  LET recycling == {s \in m.seqs : c.seq_states[s] = "kRecycling"}
      length(s) == GetSequenceLength(c.tree, s)
  IN  IF config.sliding THEN {s \in recycling : length(s) = m.offset}
      ELSE {s \in recycling : /\ \A u \in recycling : length(s) <= length(u)
                              /\ m.offset * ReuseDen > length(s) * ReuseNum}

MatchReuse(r) ==
  /\ Matching(r)
  /\ LET c == CommitSequenceExtention(cache)
         m == Matched(r, c)
     IN  \E s \in Reusable(c, m) :
           LET pop == GetSequenceLength(c.tree, s) - m.offset
           IN  /\ cache' = ReuseRecyclingSequence(c, s, pop)
               /\ kv' = [kv EXCEPT ![s] = SubSeq(@, 1, Len(@) - pop)]
               /\ available_ids' = Append(available_ids, req[r].id)
               /\ req' = Popped(r, m.offset, s)
  /\ UNCHANGED <<config, token_ids, id_cnt, pc, batch, interrupts>>

MatchFork(r) ==
  /\ Matching(r) /\ ~config.sliding
  /\ LET c == CommitSequenceExtention(cache)
         m == Matched(r, c)
     IN  /\ m.offset > 0 /\ Reusable(c, m) = {}
         /\ \E s \in m.seqs :
              /\ cache' = Insert(c, ForkSequence(c.tree, req[r].id, s, m.offset), req[r].id)
              /\ kv' = With(kv, req[r].id, SubSeq(kv[s], 1, Min({m.offset, Len(kv[s])})))
         /\ req' = Popped(r, m.offset, req[r].id)
  /\ UNCHANGED <<config, token_ids, idVars, pc, batch, interrupts>>

MatchNothing(r) ==
  /\ Matching(r)
  /\ LET c == CommitSequenceExtention(cache)
         m == Matched(r, c)
     IN  /\ m.offset = 0 \/ (config.sliding /\ Reusable(c, m) = {})
         /\ cache' = Insert(c, AddSequence(c.tree, req[r].id), req[r].id)
  /\ kv' = With(kv, req[r].id, <<>>)
  /\ req' = Popped(r, 0, req[r].id)
  /\ UNCHANGED <<config, token_ids, idVars, pc, batch, interrupts>>

\* The model runs on a chunk of each input, or on the last token of a request
\* that decodes.  The prefix cache commits meanwhile, then a token is sampled for
\* every request without input left.
InBatch == ToSet(batch)
Chunk(r) == SubSeq(req[r].inputs, 1, Min({ChunkSize, Len(req[r].inputs)}))
RestOf(r) == SubSeq(req[r].inputs, Len(Chunk(r)) + 1, Len(req[r].inputs))

Forward ==
  /\ pc = "match" /\ ToMatch = <<>>
  /\ cache' = CommitSequenceExtention(cache)
  /\ kv' = [s \in DOMAIN kv |->
             IF \E r \in InBatch : req[r].id = s
             THEN LET r == CHOOSE r \in InBatch : req[r].id = s
                  IN  kv[s] \o (IF Decodes(r) THEN <<Last(req[r].committed)>> ELSE Chunk(r))
             ELSE kv[s]]
  /\ \E sampled \in [{r \in InBatch : RestOf(r) = <<>>} -> Tokens] :
       req' = [r \in Requests |->
                IF r \notin InBatch THEN req[r]
                ELSE [req[r] EXCEPT !.inputs = RestOf(r),
                                    !.prefilled = @ \o Chunk(r),
                                    !.committed = IF r \in DOMAIN sampled THEN Append(@, sampled[r]) ELSE @]]
  /\ pc' = "post"
  /\ UNCHANGED <<config, token_ids, idVars, batch, interrupts>>

\* ActionStepPostProcess: what is newly prefilled, and the generated tokens but
\* the last, go to the prefix cache.  A request finishes by its length or
\* by what it generated.  (BatchDecode passes all running requests; those
\* it did not decode have nothing new.)
\* Mutant: the last token is told too, before it is in the KV cache.
NewlyCachedAll(r) == req[r].prefilled \o SubSeq(req[r].committed, req[r].cached + 1, Len(req[r].committed))
NewlyCached(r) == req[r].prefilled \o SubSeq(req[r].committed, req[r].cached + 1, Len(req[r].committed) - 1)

ActionStepPostProcess ==
  /\ pc = "post"
  /\ token_ids' = [r \in Requests |-> IF r \in InBatch THEN NewlyCached(r) ELSE token_ids[r]]
  /\ LET told == InOrder(batch, {r \in Requests : NewlyCached(r) # <<>>})
     IN  cache' = [cache EXCEPT !.uncommitted = @ \o [i \in DOMAIN told |-> <<req[told[i]].id, told[i]>>]]
  /\ req' = [r \in Requests |->
              IF r \notin InBatch THEN req[r]
              ELSE [req[r] EXCEPT !.prefilled = <<>>, !.cached = Max({@, Len(req[r].committed) - 1})]]
  /\ \E stopped \in SUBSET {r \in InBatch : req[r].inputs = <<>>} :
       /\ {r \in InBatch : Len(req[r].committed) >= MaxTokens /\ req[r].inputs = <<>>} \subseteq stopped
       /\ batch' = InOrder(batch, stopped)
       /\ pc' = IF stopped = {} THEN "idle" ELSE "finish"
  /\ UNCHANGED <<config, kv, idVars, interrupts>>

\* RemoveRequestStateEntry for the next finished request; one that is pinned
\* keeps its sequence active for good.
Finish ==
  /\ pc = "finish"
  /\ LET r == Head(batch)
         s == req[r].id
         c == CommitSequenceExtention(cache)
         full == Cardinality(c.recycling) = config.limit
     IN  /\ req' = [req EXCEPT ![r] = Gone(r)]
         /\ \/ /\ r \in config.pinned
               /\ UNCHANGED <<cache, kv, available_ids>>
            \/ /\ r \notin config.pinned /\ config.limit = 0
               /\ RemoveNow(s)
               /\ available_ids' = Append(available_ids, s)
            \/ /\ r \notin config.pinned /\ config.limit > 0
               /\ \E victim \in IF full THEN c.recycling ELSE {s} :
                    /\ cache' = RecycleLazily(c, s, full, victim)
                    /\ kv' = IF full THEN Without(kv, victim) ELSE kv
                    /\ available_ids' = IF full THEN Append(available_ids, victim) ELSE available_ids
  /\ batch' = Tail(batch)
  /\ pc' = IF Tail(batch) = <<>> THEN "idle" ELSE "finish"
  /\ UNCHANGED <<config, token_ids, id_cnt, interrupts>>

Step ==
  \/ SelectPrefill \/ SelectDecode \/ Forward
  \/ \E r \in Requests : MatchReuse(r) \/ MatchFork(r) \/ MatchNothing(r)
  \/ ActionStepPostProcess \/ Finish
Next ==
  \/ Step \/ TryFreeMemory \/ Reset
  \/ \E r \in Requests : AddRequest(r) \/ AbortRequest(r) \/ Preempt(r)
Spec == Init /\ [][Next]_vars
-----------------------------------------------------------------------------
\* The pages form a radix tree: none but the root is empty, none is over its
\* capacity, siblings start with different tokens, every leaf ends a sequence, and
\* seq2page names the page that lists the sequence.
TreeWellFormed ==
  LET t == cache.tree
  IN  /\ \A p \in DOMAIN t.pages \ {root} :
           /\ t.pages[p].parent \in DOMAIN t.pages
           /\ Length(t, p) \in 1..PageCapacity
           /\ Children(t, p) = {} => t.pages[p].seq_ids # {}
      /\ \A p, q \in DOMAIN t.pages \ {root} :
           p # q /\ t.pages[p].parent = t.pages[q].parent => t.pages[p].tokens[1] # t.pages[q].tokens[1]
      /\ \A p \in DOMAIN t.pages : t.pages[p].seq_ids = {s \in DOMAIN t.seq2page : t.seq2page[s] = p}

\* What the tree matches is the longest prefix that any of its sequences has in
\* common with the tokens, and all sequences that have it.
MatchIsLongest ==
  LET t == cache.tree
      sequence == [s \in DOMAIN t.seq2page |-> GetSequence(t, s)]
  IN  \A tokens \in ToSet(config.prompts) \cup Range(sequence) :
        LET common == [s \in DOMAIN sequence |-> CommonPrefix(sequence[s], tokens)]
            longest == Max({0} \cup Range(common))
        IN  MatchPrefix(t, tokens) =
              [offset |-> longest,
               seqs |-> {s \in DOMAIN common : common[s] = longest /\ longest > 0}]

\* The prefix cache has, with what it has not committed yet, exactly the tokens
\* of each sequence that are in the KV cache (action_commons.cc:292 tells it of all
\* decoded tokens "except the last token as it is not in KVCache yet").
Pending(s) ==
  LET told(e) == IF e[1] = s THEN token_ids[e[2]] ELSE <<>>
  IN  FlattenSeq([i \in DOMAIN cache.uncommitted |-> told(cache.uncommitted[i])])
TreeHoldsKV ==
  pc # "post" => \A s \in DOMAIN kv : GetSequence(cache.tree, s) \o Pending(s) = kv[s]

\* A request computes on its own tokens: what the KV cache holds for it, matched
\* or computed, continued by its input (or the token to decode) is its prompt and
\* what it has generated.
ContextIsOwn ==
  pc # "post" => \A r \in Alive :
    kv[req[r].id] \o (IF Decodes(r) THEN <<Last(req[r].committed)>> ELSE req[r].inputs)
      = config.prompts[r] \o req[r].committed

\* Tree, sequence states and KV cache know the same sequences (RecycleSequence and
\* TryFreeMemory take one out of all three).  The active ones are those of running
\* or pinned requests, one each, and only sequences without a request are in the
\* queue for eviction, which keeps to its limit.
ActiveHasOwner ==
  /\ DOMAIN cache.seq_states = DOMAIN cache.tree.seq2page
  /\ DOMAIN cache.seq_states = DOMAIN kv
  /\ cache.recycling = {s \in DOMAIN cache.seq_states : cache.seq_states[s] = "kRecycling"}
  /\ Cardinality(cache.recycling) <= config.limit
  /\ \A r, q \in Alive : r # q => req[r].id # req[q].id
  /\ {req[r].id : r \in Alive} \subseteq DOMAIN cache.seq_states \ cache.recycling
  /\ \A s \in DOMAIN cache.seq_states \ cache.recycling :
       \E r \in Alive \cup config.pinned : req[r].id = s

\* An id that can be given to a new sequence is free once, and neither the KV
\* cache nor a request that waits has it.
FreeIdsUnused ==
  /\ IsInjective(available_ids)
  /\ ToSet(available_ids) \cap DOMAIN kv = {}
  /\ \A r \in Requests : req[r].status = "kPending" => req[r].id \notin ToSet(available_ids) \cup DOMAIN kv
=============================================================================
