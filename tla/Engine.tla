------------------------------- MODULE Engine -------------------------------
(***************************************************************************)
(* The request scheduler of the serving engine (engine.cc, engine_state.cc *)
(* and the engine actions of cpp/serve): one model with a paged KV cache,  *)
(* no sliding window, no speculative decoding and the prefix cache         *)
(* disabled (NoPrefixCache).  EngineImpl::Step runs the actions in order,  *)
(* NewRequestPrefill, BatchJumpForward and BatchDecode, until one          *)
(* processes requests; ActionStepPostProcess then streams the new tokens   *)
(* and retires what has finished.  A model built for disaggregation has no *)
(* BatchJumpForward and aborts where the others preempt; here it serves    *)
(* ordinary requests.                                                      *)
(*                                                                         *)
(* Tokens are counted, not named.  A loop of the code is a step per        *)
(* iteration, under a program counter; a client call happens only at       *)
(* "idle", as the background thread makes all the calls.  A failed CHECK   *)
(* of the code, or of the KV cache it calls, sets `fault` and stops.       *)
(***************************************************************************)
EXTENDS Queues

CONSTANT Deployments   \* the engine configurations and workloads that may be served

ASSUME DeploymentsAssumption ==
  \A d \in Deployments :
    /\ d.PromptTokens \in [d.Requests -> Nat \ {0}]
    /\ d.N \in [d.Requests -> Nat \ {0}]
    /\ d.Abortable \subseteq d.Requests
    /\ {d.MaxTokens, d.MaxSingle, d.MaxTotal, d.MaxNumSequence, d.ChunkSize, d.PageSize, d.NumPages}
         \subseteq Nat \ {0}
    /\ {d.Hybrid, d.Disaggregation} \subseteq BOOLEAN

VARIABLES
  deployment,                     \* the one that is served; it never changes
  running_queue, waiting_queue,   \* sequences of requests
  request_states,                 \* the requests that have a state
  entries,                        \* the request state entries of each request
  available_ids, id_cnt,          \* EngineInternalIDManager
  running_rsentries_changed, cached_running_rsentries_,
  kv,                             \* KV cache: sequence id -> tokens of its own
  enginePc,                       \* where Step stands
  prefill,                        \* the selection of entries to prefill
  running_rsentries,              \* the local variable of the decode actions
  finished_rsentries,             \* the workspace of the post-process
  usage,                          \* final usage outputs streamed back, by request
  submitted,                      \* requests given to AddRequest
  fault                           \* the check that failed, or "none"

queueVars == <<running_queue, waiting_queue, request_states>>
idVars    == <<available_ids, id_cnt>>
cacheVars == <<running_rsentries_changed, cached_running_rsentries_>>
stepVars  == <<enginePc, prefill, running_rsentries, finished_rsentries, fault>>
vars == <<queueVars, entries, idVars, cacheVars, kv, stepVars, usage, submitted, deployment>>

(* What is served: the requests, each added at most once, and the limits. *)
Requests == deployment.Requests
PromptTokens == deployment.PromptTokens       \* prompt length of each request
N == deployment.N                             \* generation_cfg->n, the parallel generations
MaxTokens == deployment.MaxTokens             \* generation_cfg->max_tokens
Abortable == deployment.Abortable             \* the requests a client may abort
MaxSingle == deployment.MaxSingle             \* max_single_sequence_length
MaxTotal == deployment.MaxTotal               \* max_total_sequence_length
MaxNumSequence == deployment.MaxNumSequence   \* max_num_sequence
ChunkSize == deployment.ChunkSize             \* prefill_chunk_size
PageSize == deployment.PageSize               \* kv_cache_page_size
NumPages == deployment.NumPages               \* pages of the KV cache
Hybrid == deployment.Hybrid                   \* prefill_mode = kHybrid
Disaggregation == deployment.Disaggregation   \* model_metadata.disaggregation

-----------------------------------------------------------------------------
(* Entries.  entries[r][1] is the input entry; with n > 1 it is the parent *)
(* of one entry for each parallel generation.  An entry is "kPending",     *)
(* "kAlive" or "kFinished".                                                *)

NewEntry(id, inputs) ==
  [status |-> "kPending", id |-> id, inputs |-> inputs, committed |-> 0,
   num_tokens_for_next_decode |-> 0, next_callback_token_pos |-> 0]

NumEntries(r) == IF N[r] = 1 THEN 1 ELSE N[r] + 1
NumChildren(r, i) == IF i = 1 /\ N[r] > 1 THEN N[r] ELSE 0

\* The entries that generate tokens.
Leaves(r) == {i \in 1..NumEntries(r) : NumChildren(r, i) = 0}

Entry(x) == entries[x[1]][x[2]]
AllEntries == UNION {{r} \X DOMAIN entries[r] : r \in Requests}

\* Those of the entries `es` of the requests of a queue that are in S, in queue order.
EntriesOf(queue, es, S) ==
  InOrder(FlattenSeq([q \in DOMAIN queue |-> [i \in DOMAIN es[queue[q]] |-> <<queue[q], i>>]]), S)

AliveIds(r) == {entries[r][i].id : i \in {j \in DOMAIN entries[r] : entries[r][j].status = "kAlive"}}

\* CommitToken
Committed(e) == [e EXCEPT !.committed = @ + 1, !.num_tokens_for_next_decode = @ + 1]

-----------------------------------------------------------------------------
(* Internal ids.                                                           *)

\* The ids that k calls of GetNewId return, in order.
NewIds(k) ==
  LET free == Len(available_ids)
  IN  [j \in 1..k |-> IF j <= free THEN available_ids[free + 1 - j] ELSE id_cnt + (j - free - 1)]

TakeIds(k) ==
  LET free == Len(available_ids)
  IN  /\ available_ids' = SubSeq(available_ids, 1, free - k)
      /\ id_cnt' = IF k <= free THEN id_cnt ELSE id_cnt + (k - free)

-----------------------------------------------------------------------------
(* The KV cache, as the engine uses it.  A sequence forked from a parent   *)
(* shares the parent's pages and owns those of the tokens after the fork.  *)

Pages(tokens) == (tokens + PageSize - 1) \div PageSize
GetNumAvailablePages == NumPages - SumFunction([s \in DOMAIN kv |-> Pages(kv[s])])
GetCurrentTotalSequenceLength == SumFunction(kv)

WithoutSequences(ids) == [s \in DOMAIN kv \ ids |-> kv[s]]

-----------------------------------------------------------------------------
\* No entry considered and none chosen.
NoSelection == [todo |-> <<>>, chosen |-> <<>>, totalInput |-> 0, pages |-> 0, num |-> 0]

Init ==
  /\ deployment \in Deployments
  /\ running_queue = <<>>
  /\ waiting_queue = <<>>
  /\ request_states = {}
  /\ entries = [r \in Requests |-> <<>>]
  /\ available_ids = <<>>
  /\ id_cnt = 0
  /\ running_rsentries_changed = TRUE
  /\ cached_running_rsentries_ = <<>>
  /\ kv = <<>>
  /\ enginePc = "idle"
  /\ prefill = NoSelection
  /\ running_rsentries = <<>>
  /\ finished_rsentries = <<>>
  /\ usage = [r \in Requests |-> 0]
  /\ submitted = {}
  /\ fault = "none"

Fail(what) ==
  /\ fault' = what
  /\ enginePc' = "failed"
  /\ UNCHANGED <<queueVars, entries, idVars, cacheVars, kv, prefill, running_rsentries,
                 finished_rsentries, usage, submitted, deployment>>

\* Mutant: the error is streamed back without the final usage.
StreamBackErrorSilently(r) == UNCHANGED usage

\* StreamBackErrorImpl: a finish reason and the final usage.
StreamBackError(r) == usage' = [usage EXCEPT ![r] = @ + 1]

\* Mutant: the cached list of running entries is never invalidated.
InvalidateRunningForgotten == UNCHANGED running_rsentries_changed

\* running_rsentries_changed = true, wherever the running entries may have changed.
InvalidateRunning == running_rsentries_changed' = TRUE

-----------------------------------------------------------------------------
(* Client calls.                                                           *)

RejectRequest(r) ==
  /\ enginePc = "idle"
  /\ r \notin submitted
  /\ PromptTokens[r] >= MaxSingle
  /\ submitted' = submitted \cup {r}
  /\ StreamBackError(r)
  /\ UNCHANGED <<queueVars, entries, idVars, cacheVars, kv, stepVars, deployment>>

AddRequest(r) ==
  /\ enginePc = "idle"
  /\ r \notin submitted
  /\ PromptTokens[r] < MaxSingle
  /\ submitted' = submitted \cup {r}
  /\ waiting_queue' = Append(waiting_queue, r)
  /\ request_states' = request_states \cup {r}
  /\ LET ids == NewIds(NumEntries(r))
     IN  entries' = [entries EXCEPT ![r] =
                       [i \in 1..NumEntries(r) |->
                          NewEntry(ids[i], IF i = 1 THEN PromptTokens[r] ELSE 0)]]
  /\ TakeIds(NumEntries(r))
  /\ UNCHANGED <<running_queue, cacheVars, kv, stepVars, usage, deployment>>

\* AbortRequestImpl.  The ids are recycled only when the request is running,
\* from the last entry to the first.
DropRequest(r) ==
  /\ request_states' = request_states \ {r}
  /\ running_queue' = InOrder(running_queue, Requests \ {r})
  /\ waiting_queue' = InOrder(waiting_queue, Requests \ {r})
  /\ IF Contains(running_queue, r)
       THEN /\ available_ids' = available_ids \o Reverse([i \in DOMAIN entries[r] |-> entries[r][i].id])
            /\ kv' = WithoutSequences(AliveIds(r))
       ELSE UNCHANGED <<available_ids, kv>>
  /\ entries' = [entries EXCEPT ![r] = <<>>]
  /\ StreamBackError(r)
  /\ InvalidateRunning
  /\ UNCHANGED <<id_cnt, cached_running_rsentries_, enginePc, prefill, finished_rsentries, fault,
                 submitted, deployment>>

AbortRequest(r) ==
  /\ enginePc = "idle"
  /\ r \in request_states \cap Abortable
  /\ IF AliveIds(r) \subseteq DOMAIN kv
       THEN DropRequest(r) /\ UNCHANGED running_rsentries
       ELSE Fail("sequence not in the KV cache")

-----------------------------------------------------------------------------
(* The running entries, cached until running_rsentries_changed is set.     *)

\* Entries that decode: alive leaves without pending input, in queue order.
ComputeRunning ==
  EntriesOf(running_queue, entries, {x \in AllEntries : /\ Entry(x).status = "kAlive"
                                                       /\ x[2] \in Leaves(x[1])
                                                       /\ Entry(x).inputs = 0})

GetRunningRequestStateEntries ==
  IF running_rsentries_changed THEN ComputeRunning ELSE cached_running_rsentries_

RefreshRunning ==
  /\ cached_running_rsentries_' = GetRunningRequestStateEntries
  /\ running_rsentries_changed' = FALSE

-----------------------------------------------------------------------------
(* NewRequestPrefill: which entries can be prefilled.                      *)

DecodeWatermark == 8

HasPrefillSpace(requiredPages, batch, totalInput) ==
  /\ requiredPages + batch <= GetNumAvailablePages
  /\ GetCurrentTotalSequenceLength + totalInput + DecodeWatermark * batch <= MaxTotal

BatchLimit == IF MaxNumSequence <= ChunkSize THEN MaxNumSequence ELSE ChunkSize

\* The running entries count along; their cache was refreshed when the selection began.
CanPrefill(numPrefill, totalInput, requiredPages) ==
  LET batch == Len(cached_running_rsentries_) + numPrefill
  IN  /\ batch <= BatchLimit
      /\ totalInput <= ChunkSize
      /\ HasPrefillSpace(requiredPages, batch, totalInput)

\* An entry with input, whose parent has been prefilled, in queue order.
PrefillCandidates ==
  EntriesOf(waiting_queue, entries, {x \in AllEntries : /\ Entry(x).inputs > 0
                                                       /\ \/ x[2] = 1
                                                          \/ /\ entries[x[1]][1].status # "kPending"
                                                             /\ entries[x[1]][1].inputs = 0})

Empty == running_queue = <<>> /\ waiting_queue = <<>>

NextDecode(x) == Entry(x).num_tokens_for_next_decode

\* Step begins: the candidates, unless not even the running entries can decode.
BeginPrefill ==
  /\ enginePc = "idle"
  /\ ~Empty
  /\ RefreshRunning
  /\ LET running == GetRunningRequestStateEntries
     IN  prefill' = [NoSelection EXCEPT
                       !.todo = IF Len(running) <= GetNumAvailablePages THEN PrefillCandidates
                                ELSE <<>>,
                       !.pages = Len(running),
                       !.totalInput = SumFunction([q \in DOMAIN running |-> NextDecode(running[q])])]
  /\ enginePc' = "select"
  /\ UNCHANGED <<queueVars, entries, idVars, kv, running_rsentries, finished_rsentries, fault,
                 usage, submitted, deployment>>

\* Attempt 1: the numbers of children with which the whole entry fits.
Fitting(x) ==
  {k \in 0..NumChildren(x[1], x[2]) :
     CanPrefill(prefill.num + 1 + k, prefill.totalInput + Entry(x).inputs,
                prefill.pages + Pages(Entry(x).inputs))}

PrefillInput(x, len, k, isDecode) ==
  [rsentry |-> x, len |-> len, children |-> k, isDecode |-> isDecode]

\* The whole entry is taken, with as many children as fit.
TakeWhole ==
  /\ enginePc = "select"
  /\ prefill.todo # <<>>
  /\ LET x == Head(prefill.todo)
         k == Max(Fitting(x))
     IN  /\ Fitting(x) # {}
         /\ prefill' = [todo |-> Tail(prefill.todo),
                        chosen |-> Append(prefill.chosen, PrefillInput(x, Entry(x).inputs, k, FALSE)),
                        totalInput |-> prefill.totalInput + Entry(x).inputs,
                        pages |-> prefill.pages + Pages(Entry(x).inputs),
                        num |-> prefill.num + 1 + k]
  /\ UNCHANGED <<queueVars, entries, idVars, cacheVars, kv, enginePc, running_rsentries,
                 finished_rsentries, fault, usage, submitted, deployment>>

\* Mutant: prefill goes on with the next entry when one does not fit.
TakeChunkAndGoOn ==
  /\ enginePc = "select"
  /\ prefill.todo # <<>>
  /\ Fitting(Head(prefill.todo)) = {}
  /\ prefill' = [prefill EXCEPT !.todo = Tail(@)]
  /\ UNCHANGED <<queueVars, entries, idVars, cacheVars, kv, enginePc, running_rsentries,
                 finished_rsentries, fault, usage, submitted, deployment>>

\* Attempt 2: the part of the entry that fills the chunk, if that fits; prefill stops here.
TakeChunkAndStop ==
  /\ enginePc = "select"
  /\ prefill.todo # <<>>
  /\ LET x == Head(prefill.todo)
         room == ChunkSize - prefill.totalInput
     IN  /\ Fitting(x) = {}
         /\ prefill' = [prefill EXCEPT
              !.todo = <<>>,
              !.chosen = IF /\ 0 < room /\ room < Entry(x).inputs
                            /\ CanPrefill(prefill.num + 1, ChunkSize, prefill.pages + Pages(room))
                           THEN Append(@, PrefillInput(x, room, 0, FALSE)) ELSE @]
  /\ UNCHANGED <<queueVars, entries, idVars, cacheVars, kv, enginePc, running_rsentries,
                 finished_rsentries, fault, usage, submitted, deployment>>

\* What is prefilled; in hybrid mode the running entries decode along.
PrefillInputs ==
  LET running == cached_running_rsentries_
  IN  prefill.chosen \o
        IF Hybrid THEN [q \in DOMAIN running |->
                          PrefillInput(running[q], NextDecode(running[q]), 0, TRUE)]
        ELSE <<>>

-----------------------------------------------------------------------------
(* ActionStepPostProcess, first half: stream the new tokens of the         *)
(* processed requests and collect the entries that finish, on a stop token *)
(* or string (any entry with a new token may) or on a length limit.        *)

ReachesLength(r, e) == e.committed >= MaxTokens \/ PromptTokens[r] + e.committed >= MaxSingle

PostProcess(processed, es) ==
  LET fresh == {x \in UNION {{r} \X Leaves(r) : r \in ToSet(processed)} :
                  es[x[1]][x[2]].next_callback_token_pos < es[x[1]][x[2]].committed}
      atLimit == {x \in fresh : ReachesLength(x[1], es[x[1]][x[2]])}
  IN  \E stopped \in SUBSET (fresh \ atLimit) :
        /\ finished_rsentries' = EntriesOf(processed, es, atLimit \cup stopped)
        /\ entries' = [r \in Requests |-> [i \in DOMAIN es[r] |->
                         IF <<r, i>> \in fresh
                           THEN [es[r][i] EXCEPT !.next_callback_token_pos = es[r][i].committed]
                           ELSE es[r][i]]]
        /\ enginePc' = IF atLimit \cup stopped = {} THEN "idle" ELSE "finish"

\* The requests of the inputs, each once, in the order of first appearance.
RequestsOf(inputs) ==
  LET firsts == InOrder([q \in DOMAIN inputs |-> q],
                  {q \in DOMAIN inputs :
                     \A p \in 1..(q - 1) : inputs[p].rsentry[1] # inputs[q].rsentry[1]})
  IN  [j \in DOMAIN firsts |-> inputs[firsts[j]].rsentry[1]]

-----------------------------------------------------------------------------
(* NewRequestPrefill: run the prefill.                                     *)

\* The entry after its chunk is prefilled (or its decode tokens are processed).
Prefilled(input) ==
  LET e == Entry(input.rsentry)
  IN  IF input.isDecode THEN [e EXCEPT !.num_tokens_for_next_decode = 0]
      ELSE [e EXCEPT !.status = "kAlive", !.inputs = @ - input.len]

\* The children that get their first token when the input of their parent is complete.
Unblocked(input) ==
  LET r == input.rsentry[1]
  IN  {j \in 2..NumEntries(r) : /\ input.rsentry[2] = 1 /\ Prefilled(input).inputs = 0
                                /\ entries[r][j].status = "kPending"
                                /\ entries[r][j].committed = 0}

\* Of those, the first `children` are forked from the parent at once.
Activated(input) ==
  {j \in Unblocked(input) : Cardinality({h \in Unblocked(input) : h <= j}) <= input.children}

\* A child that is not activated gets the token as its input.
WithFirstToken(e, activated) ==
  IF activated THEN [Committed(e) EXCEPT !.status = "kAlive"]
  ELSE [Committed(e) EXCEPT !.inputs = @ + 1]

EntriesAfterPrefill(inputs) ==
  [r \in Requests |-> [i \in DOMAIN entries[r] |->
     LET own == {p \in ToSet(inputs) : p.rsentry = <<r, i>>}
         parent == {p \in ToSet(inputs) : p.rsentry[1] = r /\ i \in Unblocked(p)}
     IN  CASE own # {} ->
                LET e == Prefilled(CHOOSE p \in own : TRUE)
                IN  IF e.inputs = 0 /\ i \in Leaves(r) THEN Committed(e) ELSE e
           [] own = {} /\ parent # {} ->
                WithFirstToken(entries[r][i], \E p \in parent : i \in Activated(p))
           [] OTHER -> entries[r][i]]]

\* The entries whose sequence AddNewSequence or ForkSequence puts into the KV cache.
EntriesToInsert(inputs) ==
  {p.rsentry : p \in {q \in ToSet(inputs) : Entry(q.rsentry).status = "kPending"}}
    \cup UNION {{p.rsentry[1]} \X Activated(p) : p \in ToSet(inputs)}

KVAfterPrefill(inputs, ids) ==
  [s \in DOMAIN kv \cup ids |->
     (IF s \in DOMAIN kv THEN kv[s] ELSE 0)
       + SumFunction([q \in DOMAIN inputs |->
                        IF Entry(inputs[q].rsentry).id = s THEN inputs[q].len ELSE 0])]

\* Mutant: a request starts with every chunk of its prompt.
StartedAgain(inputs) ==
  LET starts == InOrder(inputs, {p \in ToSet(inputs) : ~p.isDecode /\ p.rsentry[2] = 1})
  IN  [q \in DOMAIN starts |-> starts[q].rsentry[1]]

\* UpdateRequestToAlive: requests none of whose other entries was alive.
StartedRequests(inputs) ==
  LET starts == InOrder(inputs, {p \in ToSet(inputs) :
        LET es == entries[p.rsentry[1]]
        IN  /\ es[p.rsentry[2]].status = "kPending"
            /\ \A j \in DOMAIN es \ {p.rsentry[2]} : es[j].status # "kAlive"})
  IN  [q \in DOMAIN starts |-> starts[q].rsentry[1]]

\* RemoveProcessedRequests: every entry has started and has no input left.
FullyPrefilled(es) == \A i \in DOMAIN es : es[i].status # "kPending" /\ es[i].inputs = 0

NewRequestPrefill ==
  /\ enginePc = "select"
  /\ prefill.todo = <<>>
  /\ prefill.chosen # <<>>
  /\ LET inputs == PrefillInputs
         es == EntriesAfterPrefill(inputs)
         inserted == EntriesToInsert(inputs)
         ids == {Entry(x).id : x \in inserted}
         processed == RequestsOf(inputs)
     IN  IF /\ Cardinality(ids) = Cardinality(inserted)
            /\ ids \cap DOMAIN kv = {}
            /\ \A p \in ToSet(inputs) : p.len > 0
           THEN /\ kv' = KVAfterPrefill(inputs, ids)
                /\ running_queue' = running_queue \o StartedRequests(inputs)
                /\ waiting_queue' = InOrder(waiting_queue, {r \in Requests :
                     ~(Contains(processed, r) /\ FullyPrefilled(es[r]))})
                /\ PostProcess(processed, es)
                /\ InvalidateRunning
                /\ prefill' = NoSelection
                /\ UNCHANGED <<request_states, idVars, cached_running_rsentries_,
                               running_rsentries, fault, usage, submitted, deployment>>
           ELSE Fail("a sequence cannot be prefilled")

\* BatchDecode begins; it returns at once, and with it Step, when no request is running.
BeginDecode ==
  IF running_queue = <<>>
    THEN /\ enginePc' = "idle"
         /\ running_rsentries' = <<>>
         /\ UNCHANGED cacheVars
    ELSE /\ enginePc' = "decode"
         /\ running_rsentries' = GetRunningRequestStateEntries
         /\ RefreshRunning

\* Nothing to prefill: on to the next action.
NothingToPrefill ==
  /\ enginePc = "select"
  /\ prefill.todo = <<>>
  /\ prefill.chosen = <<>>
  /\ IF Disaggregation THEN BeginDecode
     ELSE /\ enginePc' = "jumpForward"
          /\ running_rsentries' = cached_running_rsentries_
          /\ UNCHANGED cacheVars
  /\ prefill' = NoSelection
  /\ UNCHANGED <<queueVars, entries, idVars, kv, finished_rsentries, fault, usage, submitted, deployment>>

-----------------------------------------------------------------------------
(* PreemptLastRunningRequestStateEntry                                     *)

LastAlive(r) == Max({j \in DOMAIN entries[r] : entries[r][j].status = "kAlive"})

\* The caller drops the preempted entry from its list if it is the last one there.
ForgetPreempted(x) ==
  running_rsentries' = IF Last(running_rsentries) = x THEN Front(running_rsentries)
                       ELSE running_rsentries

\* Mutant: only the prompt is prefilled again, not the tokens generated since.
InputsAgainPromptOnly(r, i) == IF i = 1 THEN PromptTokens[r] ELSE entries[r][i].committed

\* What a preempted entry has to prefill again.
InputsAgain(r, i) == (IF i = 1 THEN PromptTokens[r] ELSE 0) + entries[r][i].committed

\* Mutant: the preempted request stays in the running queue.
LeaveRunningNever(r, i) == UNCHANGED running_queue

LeaveRunning(r, i) == running_queue' = IF i = 1 THEN Front(running_queue) ELSE running_queue

\* Mutant: the preempted request is not put back.
WaitAgainNever(r, i) == UNCHANGED waiting_queue

\* A partially prefilled request is in the waiting queue already.
WaitAgain(r, i) ==
  waiting_queue' = IF entries[r][i].inputs = 0 /\ i = Len(entries[r])
                     THEN <<r>> \o waiting_queue ELSE waiting_queue

PreemptEntry(r, i) ==
  /\ entries' = [entries EXCEPT ![r][i] =
       [@ EXCEPT !.status = "kPending",
                 !.id = NewIds(1)[1],
                 !.inputs = InputsAgain(r, i),
                 !.num_tokens_for_next_decode = 0]]
  /\ kv' = WithoutSequences({entries[r][i].id})
  /\ TakeIds(1)
  /\ LeaveRunning(r, i)
  /\ WaitAgain(r, i)
  /\ InvalidateRunning
  /\ UNCHANGED <<request_states, cached_running_rsentries_, enginePc, prefill,
                 finished_rsentries, fault, usage, submitted, deployment>>

PreemptLast ==
  LET r == Last(running_queue)
      i == LastAlive(r)
  IN  IF running_queue = <<>> \/ AliveIds(r) = {}
        THEN Fail("no entry to preempt")
      ELSE IF ~(AliveIds(r) \subseteq DOMAIN kv)
        THEN Fail("sequence not in the KV cache")
      ELSE /\ IF Disaggregation THEN DropRequest(r) ELSE PreemptEntry(r, i)
           /\ ForgetPreempted(<<r, i>>)

-----------------------------------------------------------------------------
(* BatchJumpForward.  Without a grammar it only makes room: it preempts    *)
(* until every running entry has 10 pages to jump forward with.            *)

JumpForwardPages == 10

CheckMemForJumpForward == Len(running_rsentries) * JumpForwardPages <= GetNumAvailablePages

JumpForwardPreempt ==
  /\ enginePc = "jumpForward"
  /\ running_queue # <<>>
  /\ ~CheckMemForJumpForward
  /\ PreemptLast

\* ... and on to BatchDecode.
JumpForwardDone ==
  /\ enginePc = "jumpForward"
  /\ running_queue # <<>> => CheckMemForJumpForward
  /\ BeginDecode
  /\ UNCHANGED <<queueVars, entries, idVars, kv, prefill, finished_rsentries, fault, usage,
                 submitted, deployment>>

-----------------------------------------------------------------------------
(* BatchDecode                                                             *)

\* Mutant: one page short.
CanDecodeOffByOne == Len(running_rsentries) <= GetNumAvailablePages + 1

CanDecode == Len(running_rsentries) <= GetNumAvailablePages

DecodePreempt ==
  /\ enginePc = "decode"
  /\ ~CanDecode
  /\ PreemptLast

DecodeBatch ==
  {running_rsentries[q] : q \in {h \in DOMAIN running_rsentries : h <= BatchLimit}}

\* What the ICHECKs of Step and the KV cache need.
BatchIsSound ==
  /\ DecodeBatch # {}
  /\ \A x \in DecodeBatch : /\ x[1] \in request_states
                            /\ NextDecode(x) \in 1..Entry(x).committed
                            /\ Entry(x).id \in DOMAIN kv

Decode ==
  /\ LET es == [r \in Requests |-> [i \in DOMAIN entries[r] |->
                  IF <<r, i>> \in DecodeBatch
                    THEN Committed([entries[r][i] EXCEPT !.num_tokens_for_next_decode = 0])
                    ELSE entries[r][i]]]
     IN  PostProcess(running_queue, es)
  /\ kv' = [s \in DOMAIN kv |->
              LET ofS == {x \in DecodeBatch : Entry(x).id = s}
              IN  IF ofS = {} THEN kv[s] ELSE kv[s] + NextDecode(CHOOSE x \in ofS : TRUE)]
  /\ running_rsentries' = <<>>
  /\ UNCHANGED <<queueVars, idVars, cacheVars, prefill, fault, usage, submitted, deployment>>

BatchDecode ==
  /\ enginePc = "decode"
  /\ CanDecode
  /\ IF BatchIsSound THEN Decode ELSE Fail("no request state entry can run decode")

-----------------------------------------------------------------------------
(* ProcessFinishedRequestStateEntries, one entry per step: the entry, and  *)
(* with the last child its parent, leave the model and return their ids;   *)
(* then the request leaves the engine and its usage is streamed back.      *)

AllFinished(r, es) == \A i \in Leaves(r) : es[i].status = "kFinished"

\* Mutant: the parent leaves with its first finished child.
RemovedEarly(r, i, es) == IF i # 1 THEN <<i, 1>> ELSE <<i>>

\* The parent leaves with its last child.
Removed(r, i, es) == IF AllFinished(r, es) /\ i # 1 THEN <<i, 1>> ELSE <<i>>

FinishEntry ==
  /\ enginePc = "finish"
  /\ LET x == Head(finished_rsentries)
         r == x[1]
         es == [entries[r] EXCEPT ![x[2]].status = "kFinished"]
         all == AllFinished(r, es)
         removed == Removed(r, x[2], es)
         ids == [q \in DOMAIN removed |-> es[removed[q]].id]
     IN  IF ~(ToSet(ids) \subseteq DOMAIN kv)
           THEN Fail("sequence not in the KV cache")
         ELSE IF all /\ ~Contains(running_queue, r)
           THEN Fail("finished request is not in the running queue")
         ELSE
           /\ kv' = WithoutSequences(ToSet(ids))
           /\ available_ids' = available_ids \o ids
           /\ entries' = [entries EXCEPT ![r] = IF all THEN <<>> ELSE es]
           /\ running_queue' = IF all THEN InOrder(running_queue, Requests \ {r}) ELSE running_queue
           /\ request_states' = IF all THEN request_states \ {r} ELSE request_states
           /\ usage' = IF all THEN [usage EXCEPT ![r] = @ + 1] ELSE usage
           /\ finished_rsentries' = Tail(finished_rsentries)
           /\ enginePc' = IF Tail(finished_rsentries) = <<>> THEN "idle" ELSE "finish"
           /\ InvalidateRunning
           /\ UNCHANGED <<waiting_queue, id_cnt, cached_running_rsentries_, prefill,
                          running_rsentries, fault, submitted, deployment>>

-----------------------------------------------------------------------------
Step ==
  \/ BeginPrefill \/ TakeWhole \/ TakeChunkAndStop \/ NewRequestPrefill \/ NothingToPrefill
  \/ JumpForwardPreempt \/ JumpForwardDone
  \/ DecodePreempt \/ BatchDecode
  \/ FinishEntry

Client == \E r \in Requests : RejectRequest(r) \/ AddRequest(r) \/ AbortRequest(r)

Next == Step \/ Client

Spec == Init /\ [][Next]_vars

\* The background loop steps the engine as long as it is not empty.
FairSpec == Spec /\ WF_vars(Step)

-----------------------------------------------------------------------------
(* Properties.                                                             *)

\* No CHECK of the scheduler fails, and the KV cache is never asked for a sequence
\* it does not have or given one it has (batch_decode.cc L72, action_commons.cc L216).
NoFault == fault = "none"

\* GetNewId returns an unused id (engine_state.h L30): no two entries that may still
\* be in the model share an id, and no such id is free to be handed out.
IdsUnused ==
  LET inUse == {x \in AllEntries : Entry(x).status # "kFinished"}
  IN  /\ \A x, y \in inUse : Entry(x).id = Entry(y).id => x = y
      /\ \A x \in inUse : ~Contains(available_ids, Entry(x).id)
      /\ \A a, b \in DOMAIN available_ids : available_ids[a] = available_ids[b] => a = b

\* Between steps the KV cache holds the sequences of the alive entries and no other,
\* and what each holds, with the input still to prefill and the tokens of the next
\* decode, is exactly the entry's tokens: none is skipped, repeated or leaked by
\* chunked prefill, preemption, decode or abort (request_state.h L54, L62).
KVHoldsTokens ==
  enginePc = "idle" =>
    LET alive == {x \in AllEntries : Entry(x).status = "kAlive"}
    IN  /\ DOMAIN kv = {Entry(x).id : x \in alive}
        /\ \A x \in alive :
             kv[Entry(x).id] + Entry(x).inputs + Entry(x).num_tokens_for_next_decode =
               (IF x[2] = 1 THEN PromptTokens[x[1]] ELSE 0) + Entry(x).committed

\* Between steps every request is where the scheduler will find it: in the running
\* queue when its first entry is alive, in the waiting queue when an entry is pending
\* or has input left, once in each, and in neither when it has left the engine.
QueuesHoldRequests ==
  enginePc = "idle" =>
    /\ \A r \in Requests :
         /\ Contains(running_queue, r) = (r \in request_states /\ entries[r][1].status = "kAlive")
         /\ Contains(waiting_queue, r) =
              (r \in request_states /\ \E e \in ToSet(entries[r]) : e.status = "kPending" \/ e.inputs > 0)
    /\ \A q \in {running_queue, waiting_queue} : Cardinality(ToSet(q)) = Len(q)

\* The cached list of running entries is the list it caches, at whatever step of
\* whatever action it is read (engine_state.cc L33).
CacheIsFresh == ~running_rsentries_changed => cached_running_rsentries_ = ComputeRunning

\* The heuristics of prefill, jump-forward and decode together never let the KV
\* cache run out of pages, the running entries stay within the batch limits the later
\* actions check (batch_decode.cc L75, batch_prefill_base.cc L176 and L273), and no
\* generation is longer than asked for (request_state.cc L246).
WithinLimits ==
  LET running == ComputeRunning
  IN  /\ GetNumAvailablePages >= 0
      /\ Len(running) <= MaxNumSequence
      /\ SumFunction([q \in DOMAIN running |->
           Entry(running[q]).num_tokens_for_next_decode]) <= ChunkSize
      /\ \A r \in request_states : \A i \in DOMAIN entries[r] : entries[r][i].committed <= MaxTokens

\* A request's final usage is streamed back exactly once, when it leaves the engine,
\* whichever of rejection, completion, abort and preemption by abort ends it
\* (engine.cc L92: "always stream back final usage").
UsageOnce ==
  \A r \in Requests : usage[r] = IF r \in submitted \ request_states THEN 1 ELSE 0

\* Requests start in the order of the waiting queue: prefill never passes over an
\* earlier one that has not started.
FirstComeFirstServed ==
  [][\A a, b \in DOMAIN waiting_queue :
       LET early == waiting_queue[a] late == waiting_queue[b]
       IN  /\ a < b
           /\ ~Contains(running_queue, late)
           /\ Contains(running_queue', late)
           => Contains(running_queue', early)]_vars

\* Every request given to the engine is eventually answered with its final usage.
EveryRequestAnswered ==
  \A r \in UNION {d.Requests : d \in Deployments} : r \in submitted ~> r \in Requests /\ usage[r] > 0
=============================================================================
