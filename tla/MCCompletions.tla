---------------------------- MODULE MCCompletions ----------------------------
(* Instances of Completions for TLC.                                       *)
EXTENDS Completions

All ==
  [kind : {"chat", "completion"}, reader : ReaderKinds, n : {1, 2}, stream : BOOLEAN,
   usage : {"no options", "exclude", "include"}, logprobs : BOOLEAN,
   echo : BOOLEAN, suffix : BOOLEAN, tools : BOOLEAN]

Valid(r) == /\ r.usage # "no options" => r.stream
            /\ r.stream => r.reader = "async"
            /\ r.kind = "chat" => ~r.echo /\ ~r.suffix
            /\ r.kind = "completion" => ~r.tools
            /\ r.echo = r.suffix

\* Requests whose answer is put together by some reader or streamed.
EveryRequest == {r \in All : Valid(r)}

\* Requests of one generation.
SingleRequests == {r \in EveryRequest : r.n = 1}
=============================================================================
