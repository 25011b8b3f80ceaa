---------------------------- MODULE Completions ----------------------------
(***************************************************************************)
(* How the deltas of one request become an answer: detokenization          *)
(* (serve/engine_base.py, serve/engine.py), the stream responses, the      *)
(* handlers that yield them and the three kinds of readers that put a      *)
(* non-streaming answer together: AsyncMLCEngine, MLCEngine and the HTTP   *)
(* entry points.                                                           *)
(*                                                                         *)
(* A generation's tokens are numbered.  A text is the sequence of the      *)
(* tokens it shows; a token whose bytes end inside a character stays in    *)
(* the text streamer until later tokens complete the character.            *)
(***************************************************************************)
EXTENDS Naturals, Sequences, FiniteSets

CONSTANTS Requests,    \* requests that may be made
          MaxTokens,   \* bound: tokens of one generation
          None,        \* Python's None
          Errors,      \* the reasons for which the engine may end a request early,
          Interrupted  \*   and the requests it may end so

ReaderKinds == {"async", "sync", "http"}

\* ChatCompletionRequest and CompletionRequest, as far as they shape the answer;
\* "usage" stands for stream_options, "tools" for use_function_calling.
Request ==
  [kind : {"chat", "completion"}, reader : ReaderKinds, n : Nat \ {0}, stream : BOOLEAN,
   usage : {"no options", "exclude", "include"}, logprobs : BOOLEAN,
   echo : BOOLEAN, suffix : BOOLEAN, tools : BOOLEAN]

ASSUME ConstantsAssumption ==
  /\ Requests \subseteq Request
  /\ MaxTokens \in Nat \ {0}
  /\ Errors \subseteq {"abort", "preempt"} /\ Interrupted \subseteq Requests
  /\ None \notin {"stop", "length", "abort", "preempt", "tool_calls", "error"}
  /\ \A r \in Requests : /\ r.usage # "no options" => r.stream   \* check_stream_options
                         /\ r.kind = "chat" => ~r.echo /\ ~r.suffix
                         /\ r.kind = "completion" => ~r.tools

VARIABLES
  request,         \* the request
  produced,        \* engine: number of tokens of each generation streamed so far
  ended,           \* engine: why each generation ended
  pending,         \* TextStreamer::pending_tokens_ of each generation
  finish_reasons,  \* the handler's list
  answer,          \* what the reader has put together for each generation
  usages,          \* number of usages the reader has got
  tool_calls,      \* the tool calls of each choice of the final response
  pc

vars == <<request, produced, ended, pending, finish_reasons, answer, usages, tool_calls, pc>>

Generations == 1..request.n

\* Parts of a text that are no tokens.
Echo == 0
Suffix == MaxTokens + 1

Init ==
  /\ request \in Requests
  /\ produced = [i \in Generations |-> 0]
  /\ ended = [i \in Generations |-> None]
  /\ pending = [i \in Generations |-> <<>>]
  /\ finish_reasons = [i \in Generations |-> None]
  /\ answer = [i \in Generations |-> [text |-> <<>>, reason |-> None, logprobs |-> <<>>]]
  /\ usages = 0
  /\ tool_calls = [i \in Generations |-> 0]
  /\ pc = "created"

-----------------------------------------------------------------------------
(* What arrives from the engine.                                           *)

\* The tokens a delta adds to generation i.
NewTokens(i, d) == [k \in 1..d.new |-> produced[i] + k]

\* TextStreamer.put, then finish when the generation ends.  put shows the tokens
\* up to the last complete character; finish shows what is left, and keeps it.
Buffer(i, d) == pending[i] \o NewTokens(i, d)

Left(i, d) ==
  IF d.new = 0 THEN pending[i]
  ELSE SubSeq(Buffer(i, d), Len(Buffer(i, d)) - d.hold + 1, Len(Buffer(i, d)))

\* _request_stream_callback_impl and _async_request_stream_callback_impl: the text
\* of one delta.
Detokenize(i, d) ==
  (IF d.new = 0 THEN <<>> ELSE SubSeq(Buffer(i, d), 1, Len(Buffer(i, d)) - d.hold))
    \o (IF d.reason = None THEN <<>> ELSE Left(i, d))

\* One delta for every generation: RequestStreamOutput as the engine makes it.
\* A generation that has ended gets no tokens and no reason.
Deltas ==
  {ds \in [Generations -> [new : 0..2, hold : 0..2, reason : {None, "stop", "length"}]] :
     \A i \in Generations :
       /\ produced[i] + ds[i].new <= MaxTokens
       /\ ds[i].hold <= (IF ds[i].new = 0 THEN 0 ELSE Len(pending[i]) + ds[i].new)
       /\ ended[i] # None => ds[i] = [new |-> 0, hold |-> 0, reason |-> None]
       /\ produced[i] + ds[i].new = MaxTokens => ended[i] # None \/ ds[i].reason # None}

\* StreamBackErrorImpl ends every generation, also those that have ended.
ErrorDeltas ==
  {[i \in Generations |-> [new |-> 0, hold |-> 0, reason |-> e]] : e \in {x \in Errors : request \in Interrupted}}

-----------------------------------------------------------------------------
(* process_completion_stream_output, process_chat_completion_stream_output *)

\* The reasons the response types accept.
Literals(kind) ==
  IF kind = "chat" THEN {"stop", "length", "tool_calls", "error"} ELSE {"stop", "length", "preempt"}

\* The first reason of a generation stays; with tools it is "tool_calls".
FinishReason(i, d) ==
  IF d.reason # None /\ finish_reasons[i] = None
  THEN IF request.tools THEN "tool_calls" ELSE d.reason
  ELSE finish_reasons[i]

\* Mutant: a choice without text is left out even if it carries the reason.
HasChoiceWithText(i, d) == Detokenize(i, d) # <<>>

\* A generation has a choice in the response if there is text or a new reason.
HasChoice(i, d) ==
  \/ Detokenize(i, d) # <<>>
  \/ FinishReason(i, d) # finish_reasons[i]

Choice(i, d) ==
  [text |-> Detokenize(i, d), reason |-> FinishReason(i, d),
   logprobs |-> IF request.logprobs THEN NewTokens(i, d) ELSE None]

-----------------------------------------------------------------------------
(* The readers.  Each folds a choice into what it has.                     *)

\* Mutant: only a reason that comes with text is kept.
FirstReasonDropped(a, c) == IF a.reason = None /\ c.text # <<>> THEN c.reason ELSE a.reason

FirstReason(a, c) == IF a.reason = None THEN c.reason ELSE a.reason

MoreLogprobs(a, c) == IF c.logprobs = None THEN a.logprobs ELSE a.logprobs \o c.logprobs

\* Mutant: text is replaced, not appended.
AsyncChatReplaces(a, c) ==
  [text |-> c.text, reason |-> FirstReason(a, c), logprobs |-> MoreLogprobs(a, c)]

\* AsyncMLCEngine._chat_completion appends texts and log probabilities.
AsyncChatCompletion(a, c) ==
  [text |-> a.text \o c.text, reason |-> FirstReason(a, c), logprobs |-> MoreLogprobs(a, c)]

\* MLCEngine._chat_completion: the same loop without awaits.
SyncChatCompletion(a, c) == AsyncChatCompletion(a, c)

\* request_chat_completion
HttpChatCompletion(a, c) == AsyncChatCompletion(a, c)

\* AsyncMLCEngine._completion keeps the log probabilities of the last choice only.
AsyncCompletion(a, c) ==
  [text |-> a.text \o c.text, reason |-> FirstReason(a, c),
   logprobs |-> IF c.logprobs = None THEN a.logprobs ELSE c.logprobs]

\* MLCEngine._completion
SyncCompletion(a, c) == AsyncCompletion(a, c)

\* request_completion extends the lists.
HttpCompletion(a, c) ==
  [text |-> a.text \o c.text, reason |-> FirstReason(a, c), logprobs |-> MoreLogprobs(a, c)]

\* The client of a stream appends what it gets.
StreamClient(a, c) ==
  [text |-> a.text \o c.text, reason |-> FirstReason(a, c), logprobs |-> MoreLogprobs(a, c)]

Fold(a, c) ==
  IF request.stream THEN StreamClient(a, c)
  ELSE CASE request.kind = "chat" /\ request.reader = "async" -> AsyncChatCompletion(a, c)
         [] request.kind = "chat" /\ request.reader = "sync" -> SyncChatCompletion(a, c)
         [] request.kind = "chat" /\ request.reader = "http" -> HttpChatCompletion(a, c)
         [] request.kind = "completion" /\ request.reader = "async" -> AsyncCompletion(a, c)
         [] request.kind = "completion" /\ request.reader = "sync" -> SyncCompletion(a, c)
         [] request.kind = "completion" /\ request.reader = "http" -> HttpCompletion(a, c)

-----------------------------------------------------------------------------
(* The handlers.                                                           *)

\* _handle_completion: process_completion_request; echo the prompt first.
EchoPrompt ==
  /\ pc = "created" /\ request.echo
  /\ pc' = "generating"
  /\ answer' = [i \in Generations |->
                  Fold(answer[i], [text |-> <<Echo>>, reason |-> None, logprobs |-> None])]
  /\ UNCHANGED <<request, produced, ended, pending, finish_reasons, usages, tool_calls>>

StartGenerate ==
  /\ pc = "created" /\ ~request.echo
  /\ pc' = "generating"
  /\ UNCHANGED <<request, produced, ended, pending, finish_reasons, answer, usages, tool_calls>>

\* One chunk goes through the callback, process_*_stream_output and the reader.
\* A reason the response type does not know raises a ValidationError.
Process(ds) ==
  /\ produced' = [i \in Generations |-> produced[i] + ds[i].new]
  /\ ended' = [i \in Generations |-> IF ended[i] = None THEN ds[i].reason ELSE ended[i]]
  /\ pending' = [i \in Generations |-> Left(i, ds[i])]
  /\ finish_reasons' = [i \in Generations |-> FinishReason(i, ds[i])]
  /\ IF \E i \in Generations : /\ HasChoice(i, ds[i])
                               /\ FinishReason(i, ds[i]) \notin Literals(request.kind) \cup {None}
     THEN /\ pc' = "failed"
          /\ UNCHANGED answer
     ELSE /\ answer' = [i \in Generations |->
                          IF HasChoice(i, ds[i]) THEN Fold(answer[i], Choice(i, ds[i]))
                          ELSE answer[i]]
          /\ UNCHANGED pc
  /\ UNCHANGED <<request, usages, tool_calls>>

AllEnded == \A i \in Generations : ended[i] # None

Chunk ==
  /\ pc = "generating" /\ ~AllEnded
  /\ \E ds \in Deltas : Process(ds)

ErrorChunk ==
  /\ pc = "generating" /\ ~AllEnded
  /\ \E ds \in ErrorDeltas : Process(ds)

\* The final chunk with the usage: always for a reader, for a stream if asked for.
FinalChunk ==
  /\ pc = "generating" /\ AllEnded
  /\ usages' = IF ~request.stream \/ request.usage = "include" THEN usages + 1 ELSE usages
  /\ pc' = IF request.suffix THEN "suffix" ELSE "end"
  /\ UNCHANGED <<request, produced, ended, pending, finish_reasons, answer, tool_calls>>

\* create_completion_suffix_response: asserts that all generations have a reason
\* and repeats it.
SuffixResponse ==
  /\ pc = "suffix"
  /\ IF \E i \in Generations : finish_reasons[i] = None
     THEN pc' = "failed" /\ UNCHANGED answer
     ELSE /\ pc' = "end"
          /\ answer' = [i \in Generations |->
                          Fold(answer[i], [text |-> <<Suffix>>, reason |-> finish_reasons[i],
                                           logprobs |-> None])]
  /\ UNCHANGED <<request, produced, ended, pending, finish_reasons, usages, tool_calls>>

\* A stream ends with the generator.
EndStream ==
  /\ pc = "end" /\ request.stream
  /\ pc' = "returned"
  /\ UNCHANGED <<request, produced, ended, pending, finish_reasons, answer, usages, tool_calls>>

\* wrap_completion_response, after the assertion on the reasons that only the
\* engines make.
ReturnCompletion ==
  /\ pc = "end" /\ ~request.stream /\ request.kind = "completion"
  /\ pc' = IF request.reader # "http" /\ \E i \in Generations : answer[i].reason = None
           THEN "failed" ELSE "returned"
  /\ UNCHANGED <<request, produced, ended, pending, finish_reasons, answer, usages, tool_calls>>

\* convert_function_str_to_json on one text: the number of calls found, "invalid"
\* for a text Python cannot parse; the empty text has no first character.
Parsed(text) == IF text = <<>> THEN {"IndexError"} ELSE {"invalid", "0", "1"}

\* process_function_call_output: a text without a call becomes an error.
ChoiceOfCalls(a, outcome) ==
  [a EXCEPT !.reason = IF outcome = "1" THEN "tool_calls" ELSE "error"]

\* wrap_chat_completion_response, after process_function_call_output.
ReturnChat ==
  /\ pc = "end" /\ ~request.stream /\ request.kind = "chat"
  /\ IF \E i \in Generations : answer[i].reason = None
     THEN pc' = "failed" /\ UNCHANGED <<answer, tool_calls>>
     ELSE IF \A i \in Generations : answer[i].reason # "tool_calls"
     THEN pc' = "returned" /\ UNCHANGED <<answer, tool_calls>>
     ELSE \E outcomes \in [Generations -> {"IndexError", "invalid", "0", "1"}] :
            /\ \A i \in Generations : outcomes[i] \in Parsed(answer[i].text)
            /\ IF \E i \in Generations : outcomes[i] = "IndexError"
               THEN pc' = "failed" /\ UNCHANGED <<answer, tool_calls>>
               ELSE /\ pc' = "returned"
                    /\ tool_calls' = [i \in Generations |-> IF outcomes[i] = "1" THEN 1 ELSE 0]
                    /\ answer' = [i \in Generations |-> ChoiceOfCalls(answer[i], outcomes[i])]
  /\ UNCHANGED <<request, produced, ended, pending, finish_reasons, usages>>

Next ==
  \/ EchoPrompt \/ StartGenerate \/ Chunk \/ ErrorChunk \/ FinalChunk
  \/ SuffixResponse \/ EndStream \/ ReturnCompletion \/ ReturnChat

Spec == Init /\ [][Next]_vars
-----------------------------------------------------------------------------
(* Properties.                                                             *)

Tokens(k) == [j \in 1..k |-> j]

\* While it grows, the text of a choice never runs ahead of its generation and is
\* short of it by what the text streamer holds only; in the end it is the prompt if
\* it was asked for, every token once and in order, and the suffix if it was asked
\* for ("The delta text generated since the last output", CallbackStreamOutput).
\* Log probabilities come in the same order and none comes twice.
TextIsTheGeneration ==
  \A i \in Generations :
    LET a == answer[i]
        echo == IF request.echo THEN <<Echo>> ELSE <<>>
        suffix == IF request.suffix THEN <<Suffix>> ELSE <<>>
        held == IF ended[i] = None THEN Len(pending[i]) ELSE 0
    IN  /\ pc = "generating" => a.text = echo \o Tokens(produced[i] - held)
        /\ pc = "returned" => a.text = echo \o Tokens(produced[i]) \o suffix
        /\ \A j, k \in DOMAIN a.logprobs : j < k => a.logprobs[j] < a.logprobs[k]

\* Every choice that is returned says why it ended, with the reason of the engine
\* (engine.py: "assert all(finish_reason is not None ...)"), or "tool_calls" exactly
\* if it carries calls; the usage comes once, and in a stream only if it was asked
\* for ("skip usage if stream option does not indicate include usage").
AnswerIsComplete ==
  pc = "returned" =>
    /\ \A i \in Generations :
         IF request.tools
         THEN /\ answer[i].reason \in {"tool_calls", "error"}
              /\ ~request.stream => (answer[i].reason = "tool_calls" <=> tool_calls[i] > 0)
         ELSE answer[i].reason = ended[i]
    /\ usages = (IF request.stream /\ request.usage # "include" THEN 0 ELSE 1)

\* None of the assertions on the way fails: a request that was accepted fails only
\* if the engine ended it with a reason the response type does not know, or if tools
\* were offered and a generation stayed empty.
FailsOnlyWhenExpected ==
  pc = "failed" =>
    \/ \E i \in Generations : ended[i] \notin Literals(request.kind)
    \/ request.tools /\ \E i \in Generations : produced[i] = 0
=============================================================================
