# A TLA+ verification project for the MLC-LLM serving stack

The repository packages MLC-LLM (`mlc-llm/`) with a CI/CD pipeline. The program's own
core logic is a serving stack: a C++ engine (`cpp/serve`) that batches requests through a
model with a paged KV cache, the Python engines, HTTP handlers and router around it
(`python/mlc_llm/serve`, `router`), and the Python definitions of the models with their
loaders, sharding and quantization (`model`, `loader`, `quantization`, `support`). Paths
below are relative to `mlc-llm/`; Python paths to `mlc-llm/python/mlc_llm/`.

## 1. Inventory

| Component | State | Operations | Interacts with | Hard behaviour |
|---|---|---|---|---|
| **Threaded engine** `cpp/serve/threaded_engine.cc` | instruction queue, output vector, their counters, waiting flags, exit flag, reload/unload flags | `Reload`, `Unload`, `Reset`, `AddRequest`, `AbortRequest`, debug call, two loops, `ExitBackgroundLoop` | owns the engine; the Python or JSON FFI engine calls it and runs the loops in threads | lost wakeups, exit racing sleep, stale flags, order of outputs, requests dropped at reset or unload |
| **Engine scheduler** `cpp/serve/engine.cc`, `engine_state.*`, `request_state.*`, `engine_actions/` | running and waiting queue, request state entries (a tree when `n > 1`), internal ids, cached running list | `AddRequest`, `AbortRequest`, `Step` = prefill, jump-forward, decode, post-process; preemption | KV cache of the model, prefix cache, sampler | chunked and hybrid prefill, preemption and re-prefill, parents and children, heuristic memory limits, ids, a cached list |
| **Model / KV cache** `cpp/serve/model.cc` (TVM runtime behind it) | sequences and pages | add, fork, remove, prefill, decode, queries | engine actions | capacity |
| **Prefix cache, radix tree** `prefix_cache.cc`, `radix_tree.cc` | tree of token pages, active and recycling sequences, extensions not committed yet | insert, extend, commit, recycle, evict, roll back, reset | engine actions, KV cache, ids | two views of the same sequences kept in step by the engine alone; references followed later; pages that split and merge |
| **Python engines** `serve/engine.py`, `engine_base.py`, `engine_utils.py` | streams by request id, event loop queue, tasks | generate, abort, cancel, terminate; turning outputs into answers | threaded engine (two threads), HTTP handlers | ids chosen by clients, callbacks that run late, disconnects at every await, partial characters, `n > 1` |
| **Router** `router/router.py`, `interface/router.py`, `serve/entrypoints/microserving_entrypoints.py` | running requests per server | pick a server, the three micro-serving calls, retry | several engines over HTTP | counts on every way out, preemption after part of the answer, failures between reserving and generating |
| **Models on several workers** `model/*`, `support/tensor_parallel.py`, `support/preshard.py`, `loader/` | parameters, shards, hidden states of each worker | load, shard, exported functions, collectives | TVM runtime | strategies written by hand for 40 models, partial sums, biases, broadcasts |
| **Quantization** `quantization/*`, `model/*/*_quantization.py` | module tree, quantize map, packed tensors, a configuration shared by the process | visit, quantize, shard, check, dequantize | loaders, sharding | groups, storage units and shards that need not meet; state left by another model |
| **Speculative decoding** `batch_draft.cc`, `batch_verify.cc`, `eagle_*` | draft tokens, workspace slots | draft, verify, roll back | KV cache | slot accounting |
| **Disaggregation actions** `disagg_*.cc` | KV being transferred | prepare receive, remote send | router | device I/O |
| **JSON FFI engine** `cpp/json_ffi` | `request_map_` | completion, abort, stream-back wrapper | threaded engine | a map shared by two threads |
| Samplers, logit processor, tokenizers and text streamer, config inference, metrics, multi-GPU loading | tensors, bytes, counters | – | – | numeric or byte-level |
| Operators, compiler passes, CLI, benchmark, mobile and web packages, CI/CD, container | – | – | – | no run-time control logic |

What makes the components correct: for the threaded engine, that nothing is slept
through, calls return exactly when they have taken effect, outputs arrive in order, once,
and every request is answered; for the scheduler, that the KV cache always holds exactly
the tokens the entries say, ids are unique, every request is where the scheduler looks
for it, memory limits hold and every request is answered; for the prefix cache, that it
says of every sequence what the KV cache holds and that a request computes on its own
tokens; for the Python engines, that a reader gets its own outputs in order, that nothing
outlives its reader and that the answer put together is what was generated; for the
router, that counts, windows and reservations are exact on every way out; for models on
several workers, that they compute what one device computes; for quantization, that what
is accepted converts and dequantizes to the right shard.

`PROJECT.json` lists all components, with the reason for each one left out, and the
hazards, each at its line.

## 2. Modules

| Module | Models |
|---|---|
| `StreamService` | the abstract specification: what an engine promises to the reader of a request |
| `Queues` | what a loop over a vector selects |
| `ThreadedEngine`, `MCThreadedEngine` | `threaded_engine.cc`, with `terminate()` of `serve/engine_base.py`; implements `StreamService` |
| `ThreadedEngineProofs` | the TLAPS proofs about it |
| `Engine`, `MCEngine` | the scheduler: `engine.cc`, `engine_state.*`, `request_state.cc`, the prefill, jump-forward, decode and common actions |
| `QueueFacts` | lemmas, with proofs, about queues: selection, flattening, distinctness, membership |
| `EngineProofs` | the TLAPS proofs about `Engine`, for any number of generations and for one |
| `RadixTree` | `radix_tree.cc` as pure functions of a tree |
| `PrefixCache`, `MCPrefixCache` | `prefix_cache.cc` and the engine's calls of it |
| `RadixTreeProofs` | the TLAPS proofs of what each operation of the tree does to the sequences |
| `PrefixCacheProofs` | the TLAPS proofs about `PrefixCache` |
| `AsyncEngine`, `MCAsyncEngine` | `AsyncMLCEngine`, its streams and readers; implements `StreamService` |
| `AsyncEngineProofs` | the TLAPS proofs about it |
| `Completions`, `MCCompletions` | how deltas become streamed and collected answers |
| `CompletionsProofs` | the TLAPS proofs about it |
| `Router`, `MCRouter` | the router, its entry point and the micro-serving calls |
| `RouterProofs` | the TLAPS proofs about it |
| `ModelLayers`, `ModelLoaders`, `ModelEntries`, `ModelTable` | the layers, parameter mappings and exported functions of every model, and the table of all models |
| `ModelParallel`, `MCModelParallel` | a model on N workers: loading, sharding, the exported functions |
| `QuantMethods` | which quantizations every model offers and how |
| `Quantization`, `MCQuantization` | `convert_weight` with quantization, and dequantization on every worker |

### ThreadedEngine

Variables carry the names of the members they model. Each thread has a program counter:
`bgPc` (background loop), `scPc` (stream-back loop), `callPc[c]` (a client in one call),
`mainPc` (the thread in `terminate()`). A critical region is one step. A thread asleep
on a condition variable is at `"blocked"`; `notify_one` moves it to `"woken"`, and a
spurious wakeup may do so at any time. Three points decide whether the model is worth
checking:

- every notification is a step of its own, after the unlock, as in the code: other
  threads run between the two;
- the test of a wait's predicate and the sleep are one step only where the mutex makes
  them so. `exit_now_` is written under `background_loop_mutex_` but read by the
  stream-back loop under `request_stream_callback_mutex_`, so there test
  (`FindNoOutputs`) and sleep (`SleepOnOutputs`) are two steps, with the mutex held;
- `Reload` and `Unload` clear their flag before, and outside, the critical region.

`Unload`, `Reload` and `Reset` abort one request per step (`AbortOneOfAll`), each abort
going through the callback wrapper (`PushOutputs`, `NotifyOutputs`). A failed `CHECK`
ends the background thread (`"crashed"`), as an exception does in its Python thread.
Of the engine inside only `live` (the requests it holds) and `emitted` (outputs
produced) remain: a call of `Step` gives some requests an output (`StepEngine`) or none
(`StepQuietly`). `loaded` stands for `background_engine_` and the default generation
config, which are set and cleared together. A client adds a request, or makes a debug
call, only while the engine is loaded: `CreateRequest` fails otherwise.

### Engine

One model, paged KV cache without sliding window, prefix cache disabled
(`NoPrefixCache`), no grammar, no speculative decoding. Tokens are counted, not named:
the scheduler looks at lengths only. `enginePc` says where `Step` stands:

| `enginePc` | code | actions |
|---|---|---|
| `idle` | between steps; client calls | `AddRequest`, `RejectRequest`, `AbortRequest`, `BeginPrefill` |
| `select` | `GetRequestStateEntriesToPrefill` | `TakeWhole`, `TakeChunkAndStop`, then `NewRequestPrefill` or `NothingToPrefill` |
| `jumpForward` | `BatchJumpForward::Step` | `JumpForwardPreempt`, `JumpForwardDone` |
| `decode` | `BatchDecode::Step` | `DecodePreempt`, `BatchDecode` |
| `finish` | `ProcessFinishedRequestStateEntries` | `FinishEntry` |
| `failed` | a CHECK has failed | – |

`entries[r]` is the entry tree of a request: index 1 is the input entry, and with
`n > 1` the parent of one entry per generation. Which entries stop, on a stop token or
string, is a free choice among those with a new token; the length limits are computed.
The KV cache (`kv`) is external: a sequence has tokens of its own, and pages rounded up
from them; adding a sequence it has, or removing one it has not, is a fault, as in TVM.
With `Disaggregation` the action list has no jump-forward and preemption aborts the
request. Preemption without an entry to preempt is a fault (the ICHECKs of
`action_commons.cc:333` and `:345`).

### RadixTree and PrefixCache

A tree is a value (`pages` with parent, tokens and sequence ids; `seq2page`) and each
method of `PagedRadixTreeImpl` a function from trees to trees, split into the same helpers
(`SplitPage`, `MergePage`, `MatchSequence`). `PrefixCache` has tokens by name, since
matching depends on them: `cache` is `PrefixCacheImpl`, `kv` the tokens of each sequence
in the KV cache, `available_ids`/`id_cnt` the id manager, `token_ids` the vectors the
uncommitted extensions refer to. A step of the engine goes through `pc`: `idle` (client
calls, eviction, preemption, selection), `match` (`MatchReuse`, `MatchFork` or
`MatchNothing` for each new request, then `Forward`), `post` (`ActionStepPostProcess`)
and `finish` (`Finish`). Which requests are batched and when memory runs out is free
here; `Engine` models how that is decided, without a prefix cache. `ReuseNum/ReuseDen`
stands for the factor 0.9, page capacity and chunks are two tokens instead of 64 and
thousands, so that all the ways a page can split and merge occur with six tokens.

### AsyncEngine and Completions

A task of `AsyncEngine` is one call of `_generate`; what runs between two awaits is one
step. Outputs go from the engine through `call_soon_threadsafe` (`Send`, `RunCallback`)
into the stream registered for the id when the callback runs. Tasks may be refused,
cancelled at any await, or abandoned by a client that disconnected and closed later by
the garbage collector (`CloseAbandoned`); `abort()` may come from outside and the engine
may be terminated. The threaded engine is reduced to a queue of instructions and the
outputs it produces; that it behaves so is what `ThreadedEngine` shows.

`Completions` takes one request of every kind and the chunks the engine may send for it.
A token whose bytes end inside a character is held back by the text streamer. The steps
are those of the code: detokenize, stream responses, the handlers that yield them, and
the three readers that collect a non-streaming answer.

### Router

`pc[r]` is where the async generator of a request awaits. `num_running_requests` is
changed where the code changes it; `leaked` is a history variable of the ways out that do
not lower it. A client may leave while it streams and, once it has a chunk, at any await of a
later run: the HTTP handler takes the first chunk before it opens the streaming response, and
after that a cancellation reaches the generator wherever it stands. A generator is broken off
(`BreakOff`, by that or by an error) without knowing what became of the call on its way: a
`prep_recv` may have reserved its entries or not, a `start_generate` may have taken them over
and been aborted or not. KV positions are counted per request (`kv`), and a position computed twice
or never shows.

### ModelLayers, ModelLoaders, ModelEntries, ModelTable, ModelParallel

A layer is data: sublayers with their cut parameters (shard function, dimension, segments,
widths the forward pass expects) and a program (norms, sublayers, residual additions),
one definition per model class. A loader is, per parameter, from which parts of the
checkpoint it is put together; an entry is the list of exported functions and what they do
around the layers; `ModelTable` puts them together as `MODELS` of `model/model.py`.
`ModelParallel` executes an entry of that table, which comes with the configuration: it
loads and cuts the parameters, then every worker runs the program on its shards and meets
the others in collectives. Hidden states are what they are a sum of (one term per head or
channel, and biases), so "all workers together compute what one device computes" is an
equation about terms.

### QuantMethods and Quantization

A weight is a matrix of its own coordinates, so every packed field says which element it
holds, and a scale is the block it was computed from. Visiting the modules, quantizing a
weight, sharding its pieces and the shape check are steps of one conversion; two
conversions run in one process and share the configuration object. `GroupSize` stands for
32 or 40, `NumElem` for 8 or 10 elements per storage unit, `Block` for the blocks of
block-scale quantization and `FTAlign` for the alignment of FasterTransformer.

## 3. Runs

| Run | Instance | Shows |
|---|---|---|
| `threaded_one_client` | 1 client, 1 request, good and bad config, 3 calls, 2 outputs | the calls of a lone client take effect and return, every request is answered; the engine implements `StreamService` |
| `threaded_two_clients` | 2 clients, 1 request, 2 calls each (3.5 M states) | no lost wakeup of either loop; order of outputs |
| `threaded_terminate` | 1 client, 1 call | **violated**: finding 1 |
| `engine` | three deployments: 4 requests (one too long) with `n = 1`, 20 pages, chunked hybrid prefill and aborts; 3 requests, two with `n = 2`, ample memory; 3 requests, 15 pages, disaggregation | nothing lost, repeated, leaked or starved by chunking, preemption, forks and abort; page and batch limits |
| `engine_preempt_parallel` | 1 request, `n = 2`, 19 pages | **violated**: finding 2 |
| `prefix_cache` | 3 requests with common prefixes, four deployments (0.3 M) | the tree is a radix tree, matches the longest prefix and agrees with the KV cache; requests compute on their own tokens; ids are used once |
| `prefix_cache_preempt` | one request that decodes is preempted | **violated**: finding 3 |
| `async` | 3 tasks, two of which share an id, 2 faults, abort, termination | own answer in order (refinement) and to its end, no leaked streams, cancelled requests are aborted |
| `completions` | every valid combination of options, 3 tokens per generation, all chunkings | the answer is what was generated, reasons, usage, tool calls and log probabilities reach the reader |
| `router` | 2 requests (prompts of 1 and 4 tokens), 3 servers, both modes, 2 balance factors, 1 preemption each | exact counts, windows that tile the prompt, entries left reserved only where `disagg` is broken off, every request ends |
| `models` | every model on 1 worker, those whose strategies allow it on 2, one per kind of residual on 4 | shapes agree, the workers compute what one device computes on inputs all have been sent |
| `quantization` | every model and method, 1 and 2 workers, two conversions in a row | what is accepted converts, refusals have a cause, every worker dequantizes its own shard |

Deadlock is checked only in `models`, where there is always another call; elsewhere
clients may make no more calls and requests run out, so every instance has states without
a next step.

### Bounds

- `MaxCalls`: three calls by one client are load, add and any operation on top, or two
  reloads around an unload, the longest sequence a flag can be stale over. With two
  clients, two calls each let every pair of calls race.
- `MaxOutputs = 2`: one output that is not final and one that is.
- `Engine`: jump-forward wants 10 pages per running entry and prefill an 8-token margin
  per entry, so 15 to 20 pages of 2 tokens are the smallest caches in which two entries
  run and preemption happens repeatedly; prompts of 21, 9 and 6 tokens against chunks of
  12 give several chunks, a chunk shared by two requests, and decode within prefill. The
  deployment with `n = 2` has ample memory: preemption of parallel generations is finding 2.
- `PrefixCache`: three requests are a sequence, one that forks from it and one that takes
  one of them over or displaces it; one interrupt (`MaxInterrupts`) is an abort, a reset or
  a preemption at any point of that. Each prompt goes over a page boundary, ends on one
  or before one. Preemption is limited to requests that have generated nothing
  (`PreemptDecoding = FALSE`): finding 3 is what happens to the others.
- `AsyncEngine`: two tasks with one id and a third that must not notice; two faults let one
  fault hit the cleanup after another.
- `Completions`: three tokens are a complete one, one inside a character and one that
  completes it, in any order, for one or two generations. Only requests of one generation
  are aborted or preempted (defects below).
- `Router`: a prompt of one token is where `kv_window_end` becomes 0; a preemption runs the
  request a second time; two decode servers are what a choice needs.
- `ModelParallel`: 4 heads on 2 workers and 8 on 4, so that every worker has more than one
  unit and key-value groups are cut; the models not in `OnTwoWorkers` are in section 5.
- `Quantization`: widths 4, 5 and 6 against groups of 4 and units of 2 are a full group,
  a ragged one and a group that two workers share. Two conversions are what it takes for
  one to leave its number of workers to the other.

### Fairness

- `ThreadedEngine`: each thread that can run does (weak fairness of both loops, of
  `terminate()` once begun, and of a call in progress): operating-system scheduling.
  Strong fairness of `PushOutputs`: the stream-back loop takes and releases the mutex
  again and again, and the wrapper obtains it in the end. Strong fairness of `StepEngine`:
  an engine that is stepped forever makes progress on what it holds, which is
  `Engine!EveryRequestAnswered`. Nobody is obliged to call, to exit, or to be woken
  spuriously.
- `Engine`: weak fairness of `Step`, since the background loop steps the engine as long as
  it is not empty.
- `AsyncEngine`: the event loop runs what is ready and asyncio closes abandoned generators;
  the engine takes its instructions and serves its requests. Nobody has to cancel or abort.
- `Router`: a coroutine that can go on does, and a server that was called answers or fails.
- `PrefixCache`, `Completions`, `ModelParallel`, `Quantization`: safety only.

### Refinement

`StreamService` has one variable, the stream of each reader, and one action: it grows by
the reader's next output, unless it has ended. `ThreadedEngine!StreamsBack` maps it to
what the stream callback was given, `AsyncEngine!OwnAnswerInOrder` to what each task has
yielded, for tasks whose id nobody else uses. Both are checked by TLC as a `PROPERTY` and
proved by TLAPS (section 4).

## 4. Proofs

### Threaded engine

`ThreadedEngineProofs` proves, for any sets of clients, requests and configs, any number
of calls and any `MaxOutputs`:

- `TypeCorrect`: `Spec => []TypeOK`
- `BackgroundNeverOversleeps`: `Spec => []NoLostInstruction`
- `StreamNeverOversleeps`: `Spec => []NoLostOutput`
- `OutputsStayInOrder`: `Spec => []OutputsInOrder`
- `ImplementsStreamService`: `Spec => StreamsBack`, the refinement of `StreamService`

The only assumption is `ConstantsAssumption` (bad configs are configs, the bounds are
numbers, a request has at least one output).

The inductive invariant `IInv` has four parts beside the types.

- `InsideInstruction`: while an instruction is under way it is at the head of the local
  queue; without it `Tail` and `Head` could leave their domain.
- `AddInv`: a request's `AddRequest` is at most at one place (a sending client, the
  shared queue, the local queue), only after the request was submitted, and while it is
  under way, or before it was submitted, the engine does not know the request. This
  bounds the outputs: `emitted[r] <= MaxOutputs` is not inductive alone, since a request
  added twice would exceed it. `LiveMayEmit` says that a request in the engine has an
  output to come.
- `SleepInv`: the counters the predicates read are the lengths of the queues, a loop that
  sleeps has announced it in its waiting flag, and between test and sleep of the
  stream-back loop nothing is pushed. With these the two no-lost-wakeup properties
  become inductive: whoever adds work while a loop sleeps sees the flag and so has still
  to notify.
- `PathInv`: `OutputsInOrder` over the concatenation of the four places an output can be
  (delivered, drained, shared vector, callback wrapper), with two shape facts: the
  wrapper holds at most one batch, and the drained batches are delivered before the next
  drain. Pushing, draining and delivering leave the concatenation as it is; only an
  engine call extends it, by one batch numbered `emitted[r] + 1` for requests in it.

The refinement follows from `OutputsInOrder`: what was received is the front of the path, so
the outputs of a request in it have increasing numbers without a gap, which makes each number
its position in the stream (`NumberedFromOne`), and a number has one place, so the stream
only grows.

The proof has frame lemmas first (which actions can change which variables), then per
conjunct the actions that disturb it, then the theorems. `IInv` was model-checked before
it was proved.

### Routing

`RouterProofs` proves, for any set of requests and lengths of prompts, any number of
servers, modes, balance factors, tokens and preemptions:

- `TypeCorrect`: `Spec => []TypeOK`
- `CountsStayExact`: `Spec => []CountsAreExact`
- `PromptComputedOnce`: `Spec => []EachPositionOnce`
- `EntriesKeptOnlyWhenBrokenOff`: `Spec => []KeptOnlyWhenBrokenOff`
- `LeastCongestedPicked`: `Spec => PicksLeastCongested` (an action property)

from the named assumption on the constants (finitely many requests, at least two servers,
prompts that are not empty, balance factors between 0 and 100). The inductive invariant
`IInv` adds three parts to `TypeOK` and `CountsAreExact`: `Windows` says, for each point a
generator can await at, which positions of the prompt have been computed (none before
`prep_recv`, those up to the end of the window after `remote_send`, all once it streams),
without which the exact tiling is not inductive; `Holds` says at which points, and on
which server, a request has entries reserved, and for how long they stay when it is broken
off; `FirstRun` says that a client with a chunk whose request does not stream is not in its
first run, which is why leaving between reserving and generating takes a preemption.
`CountsAreExact` moves with the set of
requests in flight on a server, so three lemmas say how its cardinality changes when a
request joins, leaves or stays; then there is one lemma per step of a generator.

### Asynchronous engine

`AsyncEngineProofs` proves, for any tasks, ids shared in any way, outputs per request and
faults:

- `TypeCorrect`: `Spec => []TypeOK`
- `NoStreamStaysRegistered`: `Spec => []NoStreamLeaks`
- `CancelledRequestsAborted`: `Spec => []CancelledIsAborted`, if at most two tasks share an id
- `ImplementsStreamService`: `Spec => OwnAnswerInOrder`, the refinement of `StreamService`

The hypothesis `AtMostTwoShare` is needed: with three tasks on one id TLC finds the second,
whose stream the final output of the first unregisters, and the third in the engine
together, with one abort on the way for both (section 5). The inductive invariant has
three parts beside the types.

- `StreamInv`: a stream that is registered is open and its task is still there to read or
  close it (`RegisteredOpen`); a stream that has met its end is finished.
- `AddInv`: a task that has not begun has left no trace; an add instruction is there once,
  under the task's id, before the first output; an output on the way carries the id of its
  source, and behind the final one the engine has nothing more to do for it.
- `PathInv`: for an undisturbed task, what it has read, what its stream holds and what is on
  its way through the event loop are together its outputs `1..emitted`, in order. The
  simulation of `StreamService` follows: a step either leaves what has been read or appends
  its next output.

For cancelled tasks `AbortInv` adds that a request whose stream is not registered any more has
an abort behind it or is the only one left with its id, that between two requests with one id
there is an abort, and that the request of a cancelled task has one behind it.

### Scheduler

`EngineProofs` proves for every deployment, with any numbers of generations, limits and
modes:

- `TypeCorrect`: `Spec => []TypeOK`
- `RunningListIsFresh`: `Spec => []CacheIsFresh`
- `UsageStreamedOnce`: `Spec => []UsageOnce`

The inductive `Shape` is the types, `CacheIsFresh` and `Selected`: while entries are selected
the cached list is current and what has been chosen has the input that is to be prefilled.
Each action either sets `running_rsentries_changed` or leaves the running entries as they
are, and the second is the work: `ComputeRunning` is a filter of a flattened queue.

Its second part proves, under `SingleGeneration` (every request asks for `n = 1`, the
default) and for every deployment:

- `IdsNeverShared`: `Spec => []IdsUnused`
- `RequestsNeverLost`: `Spec => []QueuesHoldRequests`
- `TokensNeverLost`: `Spec => []KVHoldsTokens`
- `StartedInTurn`: `Spec => FirstComeFirstServed` (an action property)
- `LimitsKept`: `Spec => []WithinLimits`
- `NeverFaults`: `Spec => []NoFault`, where `Provisioned` holds too

`SingleGeneration` is there because `IdsUnused` and `KVHoldsTokens` are false for larger `n`
(section 5); the run `engine` has instances with `n = 2` where they hold. The properties
speak of states between steps, or of ids only; what a step does in between is in `IInv`:

- `InQueues`: at every location a request is in the running queue exactly when its entry is
  alive, in the waiting queue exactly when it has input left, once;
- `IdsApart`: entries have different ids below the counter, none of them free, the free list
  has none twice;
- `InCache`: the KV cache has the sequences of the alive entries, each with the tokens that
  are neither input nor for the next decode, and a pending entry has all of them as input;
- `InTurn`: what has been chosen for prefill, then what is left to look at, is a prefix of
  the waiting queue, so the selection passes over nobody;
- `StillDecodes`: an entry decode goes on with has no input left, unless it has been
  preempted since the list was made;
- `ToFinish`: the entries to finish are different, alive and without input.

The limits need no assumption about the size of the KV cache: prefill and decode count pages
before they use them, and preempt when there are too few. On top of `IInv`, `LInv` says why
the count is right:

- `Lengths`: an entry is below `max_tokens` and the context limit, or has just reached one of
  them and is about to be finished in the same step;
- `OneEach`, `FewRunning`: an entry that decodes has one token to decode next, and at most
  as many decode as a batch may have; so a decode takes at most a page for each;
- `Room`: no page is used twice; and `Reserved`: while entries are selected, the pages of the
  chosen inputs together with one for each running entry are available. It is what
  `CanPrefill` has tested, kept true for the whole batch when chunks are shortened.

Sums over sequences of entries are split, compared and counted with lemmas of `QueueFacts`
(`SumSplit`, `SumPart`, `SumOfOnes`, `SumGrows`), again by a least counterexample.

That no check of the scheduler fails does depend on memory. A step that neither prefills nor
jumps forward goes on to decode, which checks that some entry decodes. `Provisioned` says that a
sequence of `max_single_sequence_length` fits with the margins of prefill: eight tokens in the total
length and two pages in the cache; `Single` of `MCEngine` is such a deployment. Without it the
check does fail (section 5). `FInv` has the reasons:

- `PartialLast`: at most one request is prefilled in part; it is the last that runs and the first
  that waits, so preemption takes it first and prefill finds it first. `WholeButLast` is why: only
  the last chosen input may be a part;
- `Begun`: what decodes has a token to decode from;
- `Proceeds`: when only a request prefilled in part is alive, it is chosen. Nothing else
  is in the KV cache then, so `Provisioned` leaves room for its next chunk;
- `InStep`: the list that decode goes on with is that of the running requests that decode and
  is not empty, also after preemptions, since the one that remains fits on its own.

None of this uses induction over data as a library theorem. Where a fact about a sequence built
by recursion is needed (`InOrder`, `FlattenSeq`), `QueueFacts` takes the least length at
which it fails, which exists since a set of naturals that is not empty has a least element,
and refutes it by the equation of the recursive function.

### Radix tree

`RadixTreeProofs` proves, for every set of tokens, page capacity and tree, what the methods
of the paged radix tree promise their caller:

- `ExtendHolds`, `ForkHolds`, `RollBackHolds`: the tree after `ExtendSequence`, `ForkSequence`
  and `RollBackSequence` is a tree again and has, for the sequence the call is about, its
  tokens with the new ones, the beginning of its parent, or its own beginning, and for every
  other sequence the tokens it had (`Holding`);
- `RemoveHolds`: so does the tree after `RemoveSequence`, without the sequence (`Removed`);
- `MatchPrefixFacts`: every sequence `MatchPrefix` returns begins with the tokens it says it
  has matched, at most as many as were asked for.

`IsTree(t)` says that there is a function `P` from pages to tokens, the way to each page,
with `P[q]` the way to the parent of `q` followed by the tokens of `q` (`PathsOK`); that pages
have between one token and their capacity, a parent in the tree, and finitely many of them exist
(`PagesOK`); and that a page lists exactly the sequences that end with it (`SeqsOK`). That such a
`P` exists is what makes the parents a tree: they can have no cycle, since a way is longer than the
way to its parent. So the recursive functions that walk up and down (`PathTokens`, `Ancestors`)
have an equation, which is shown by taking the shortest way where it fails. Splitting and
merging pages then reduce to how `P` changes: at the pages cut or joined and nowhere else
(`CutTree`, `SamePath`). The loops (`AppendPages`, `FreePages`, the walk of `MatchSequence`) are
recursive functions on numbers, handled by the least number at which a claim fails.

### Prefix cache

`PrefixCacheProofs` proves, for any number of requests, any prompts, page and chunk sizes
and every configuration (sliding window or not, any limit, any pinned requests), with
preemption of any request:

- `SequencesHaveOwners`: `Spec => []ActiveHasOwner`
- `IdsAreFreeOnce`: `Spec => []FreeIdsUnused`

Of the radix tree these need which sequences it has (`Seqs`): one lemma per operation, down
to the pages, says that merging, splitting, cutting and freeing pages keep the sequences and
that only adding, forking and removing change them. `Knows(c, K)` lifts this to the cache:
tree and states have the sequences `K`, and the queue for eviction those that are recycling;
a commit, whose loop is a recursive function, keeps `K`. What is left is who has which
id, which is about sets only (`Accounted`): a running request has a sequence of its own that is
not recycling (`Running`), every other sequence that is not recycling has an owner (`Owned`),
a waiting request has an id of its own that is neither in use nor free (`Reserved`), and ids in
use or free are below the counter and never both (`Counted`). One lemma for each thing that
can happen to an id (`IdTaken`, `IdReturned`, `IdKept`, `IdLost`, `IdEvicted`, `IdTakenOver`,
`IdUsed`, `IdLeft`) keeps `Accounted`; an action is one of them, or two when eviction makes room.
`BatchAlive` says that the requests of a step have been matched when the model runs, and
are alive, and in the batch once, until they are removed: without it `Finish` could return an
id twice.

If no request is preempted that has generated tokens (`~PreemptDecoding`; with such
preemptions both are false, finding 3), it proves in addition:

- `CacheHoldsKV`: `Spec => []TreeHoldsKV`
- `ContextsAreOwn`: `Spec => []ContextIsOwn`

Neither is inductive: both speak of states outside `"post"`, between the model's run and the call
that tells the prefix cache. `HInv` says what holds there too. `Held`: where a step has run the
model, the tree holds the KV cache but for the tokens `NewlyCached` will tell, and nothing is
uncommitted. `Entry`: a request that waits has its prompt as input and nothing else; one that
decodes has told all generated tokens but the last, and one that still prefills has generated
none. `Context` is `ContextIsOwn` in every state. `CommitExact` turns the first into the fact
every other action starts from, that the tree after a commit holds exactly the KV cache
(`Exact`); the theorems about the radix tree then say that it still does after the action. For a
request that is matched, `MatchPrefixFacts` says that the tokens found in another sequence are its
own. The hypothesis is used in one place, the preemption of a request (`PreemptTexts`): its
generated tokens would become input and be told again.

### Answers

`CompletionsProofs` proves, for any requests, numbers of generations and tokens, and any way
the engine cuts a generation into deltas:

- `AnswersComplete`: `Spec => []AnswerIsComplete`
- `FailuresExpected`: `Spec => []FailsOnlyWhenExpected`
- `TextsAreGenerations`: `Spec => []TextIsTheGeneration`, if only requests with one choice are
  ended early (`OneChoiceInterrupted`)

The hypothesis of the third is the defect of section 5: when a request with several choices
is ended early, a choice that had ended gets its last characters again. `ConstantsAssumption`
says in addition that `None` is not a finish reason. The inductive invariant has beside the
types: what the text streamer holds are the last tokens, in order (`HoldsTheLast`, a `Ramp` of
numbers); where the handler stands and how many usages it has sent (`HandlerAt`); its finish
reasons are the engine's (`ReasonsAgree`); log probabilities increase up to what was produced
(`LogprobsInOrder`); the text has at least what has left the text streamer (`NothingMissing`,
without which the end of a generation could not be flushed) and, under the hypothesis, exactly
that (`TextExact`).

### What is only model-checked

The `TypeCorrect` theorems make a run of `TypeOK` unnecessary; in the other modules the
safety invariants pin the values down and no type invariant is kept.

- All liveness (`CallReturns`, `RequestAnswered`, `EveryRequestAnswered`, `EveryAnswerEnds`,
  `EveryRequestEnds`) and what rests on `ENABLED`: out of the prover's reach.
- `NoFault` and `WithinLimits` of `Engine` for requests with several generations. `NoFault`
  is false for some of them (finding 2), as are `IdsUnused` and `KVHoldsTokens`, on whose
  invariant both proofs rest.
- `TreeWellFormed` and `MatchIsLongest` of `PrefixCache`. The parts of the first that the
  tokens of sequences depend on (parents, capacity, which page lists which sequence) are in
  `IsTree` and proved with it; that siblings start with different tokens and no page is kept
  without use, and with them that a match is the longest, are about how well the tree does.
- `ModelParallel` and `Quantization`: finite tables and one pass through them, which TLC
  enumerates completely.
- `SynchronousCallsTakeEffect` and `CallReturns`, which hold for a lone client only (section 5).

## 5. Findings and known defects

Three disagreements between the code and what it says of itself are runs:

1. **`terminate()` may hang** (`threaded_engine.cc:221`): the exit flag is set under a
   mutex the stream-back loop does not wait with, so its notification can fall between
   that loop's test and its sleep.
2. **Decode without entries** (`action_commons.cc:412`): after all generations of a
   request are preempted the parent stays in the running queue and a check fails.
3. **Generated tokens twice in the prefix cache** (`action_commons.cc:398`): after a
   preemption the generated tokens are part of the input that is prefilled, and are told to
   the prefix cache again as newly decoded.

The passing runs are of instances that avoid further defects met while modelling. Each was
seen as a counterexample of the property named, with the instance widened accordingly.

*ThreadedEngine.* `Reload` and `Unload` sleep on one condition variable with different
predicates and are woken by `notify_one` (`threaded_engine.cc:68`, `:91`, `:296`, `:315`).
When two clients call one each, the first notification can wake the one it is not for, which
sleeps on, and the second the other one, whose own flag is set by then; the one that the second
was for is never woken (`CallReturns` with two clients of one call each).
`SynchronousCallsTakeEffect` is not for two clients either: they share the flags.

*Engine.* Aborting a request with `n > 1` after one generation has finished recycles an id
twice (`engine.cc:127`, `IdsUnused`). A request close to its context limit is preempted by
jump-forward and does not pass prefill's margin again (`batch_jumpforward.cc:103`,
`EveryRequestAnswered`). When `max_total_sequence_length` is not at least seven tokens above
`max_single_sequence_length` (the inferred limits of modes local and interactive,
`config.cc:758`), a prompt near the limit that is prefilled in chunks may be left with a last
part that never passes prefill's margin of eight; if it runs alone no entry decodes and the
check in decode fails (`batch_decode.cc:70`, `NoFault`; a prompt of 10 with both limits 12 and
chunks of 4 suffices). The first token of a generation that could not start with its
parent is prefilled and decoded (`batch_prefill_base.cc:481`, `KVHoldsTokens`).

*Prefix cache*, from reading: `TryFreeMemory` takes `*begin()` of an unordered map, not the
oldest sequence its comment names (`prefix_cache.cc:228`; the model evicts any); the pools
reset their free lists past the end of the vector (`radix_tree.cc:76`, `:409`).

*AsyncEngine.* A second call with an id in use ends, in its cleanup, the first one's stream
(`engine.py:1383`); `abort()` from outside leaves the reader waiting (`engine.py:1402`);
outputs of a cancelled request that are scheduled already reach the next request with the
same id (`engine_base.py:491`). When three tasks have one id, a cancelled request may be left in the
engine without an abort (`engine.py:1383`, `CancelledIsAborted`). `OwnAnswerInOrder` and `EveryAnswerEnds` are therefore about
tasks whose id nobody else uses.

*Completions.* Log probabilities of a delta without text are skipped with it
(`engine_base.py:848`); a request with `n = 2` that is preempted after one generation ended
gets its tail twice (`engine_base.py:524`).

*Router.* A preemption, a client that leaves and an error in mode round-robin leave
`num_running_requests` raised (`router.py:304`, `:308`, `:310`; `leaked`); a streaming answer
is repeated from the start after a preemption (`router.py:131`); KV entries stay reserved
when a call between `prep_recv` and `start_generate` fails, and when a streaming client leaves
there while its request is run again after a preemption (`:127`, `:260`, `:284`, `:297`):
cancelling the generator neither counts down nor tells the decode server.

*Models on several workers* (`ComputesAsOneDevice`, `ShapesAgree`): cohere, chatglm,
nemotron (MLP), gemma3 (norms) and deepseek (names of shard functions) are not right on two
workers; gpt_neox is not with parallel residuals; a bias of a projection that is summed
over workers is added once per worker in qwen3, gemma, gemma3, nemotron, internlm, internlm2,
starcoder2, gpt_j and deepseek; `image_embed` of llava and phi3v is not broadcast; rwkv
returns the last position in `batch_prefill` and `batch_verify`, where others return those
asked for; the AWQ loaders of llava and mistral
concatenate along the wrong axis, nemotron offers AWQ without a source and cohere's loader is
not registered.

*Quantization* (`AcceptedConverts`, `DequantizesOwnShard`, `RefusedForCause`): on two workers the KN layout, groups that a shard cuts and AWQ's
strategies; gpt_j and phi3v do not write the number of workers into the shared
configuration; FasterTransformer's fallback for a gate has no entry in the map; segments of
block-scale quantization are floored; `no_quantization` is ignored by FasterTransformer, AWQ
and per-tensor quantization. The instances of `MCModelParallel` and `MCQuantization` name
what is included.

## 6. What is not modelled

Listed with reasons in `PROJECT.json`. In `Engine`: sliding windows, RNN state, grammars
with jump-forward and retokenization, several models, and special requests of
disaggregation. In `PrefixCache`: several generations, `RollBackSequence` called from
outside, images. In `AsyncEngine`: the synchronous engines' queues. In `Completions`: the
text of a prompt and the parsing of tool calls beyond whether it succeeds. In `Router`:
starting and stopping servers. In `ModelParallel` and `Quantization`: numbers (kernels,
scales, rounding), compiler passes, latent projections under block-scale quantization.
Speculative decoding and the disaggregation actions depend on device results at every
branch; the text streamer and stop-string handler work on bytes; samplers, kernels and
memory estimates are numeric; JSON, templates and images are data conversion.

## 7. Plan

1. *(done)* `ThreadedEngine` and `Engine`, their runs and the first proofs.
2. *(done)* `StreamService` and its two implementations; `AsyncEngine`, `Completions`,
   `Router` with proofs, `RadixTree` and `PrefixCache`, models and quantization.
3. *(done)* Proofs about `AsyncEngine` and `Engine`, and both refinements of `StreamService`.
4. *(done)* Proofs about `RadixTree`, `PrefixCache` and `Completions`; the limits and checks of
   `Engine`.
5. Left: that `MatchPrefix` finds the longest match in every tree, and `Engine` composed with
   `PrefixCache` in one memory budget.
