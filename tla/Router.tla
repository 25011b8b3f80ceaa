------------------------------- MODULE Router -------------------------------
(***************************************************************************)
(* The router for micro-serving (router/router.py), its HTTP entry point   *)
(* (interface/router.py) and the endpoints of the servers behind it        *)
(* (serve/entrypoints/microserving_entrypoints.py).                        *)
(*                                                                         *)
(* A request is handled by an async generator: what it does between two    *)
(* awaits is one step, and the steps of different requests interleave.     *)
(* Server 0 prefills and the others decode in mode "disagg"; in mode       *)
(* "round-robin" every server takes whole requests.  The servers answer,   *)
(* fail, or preempt a request; a client may go away.                       *)
(***************************************************************************)
EXTENDS Integers, Sequences, FiniteSets, FiniteSetsExt

CONSTANTS Requests,
          NumServers,
          Modes,          \* the values of router_mode, "disagg" and "round-robin"
          Balances,       \* the values of pd_balance_factor, in percent
          PromptLength,   \* tokens in the prompt of each request
          MaxTokens,      \* bound: tokens of one answer
          MaxPreempts     \* bound: how often one request is preempted

ASSUME ConstantsAssumption ==
  /\ IsFiniteSet(Requests)
  /\ NumServers \in Nat /\ NumServers >= 2
  /\ Modes \subseteq {"disagg", "round-robin"}
  /\ Balances \subseteq 0..100
  /\ PromptLength \in [Requests -> Nat \ {0}]
  /\ MaxTokens \in Nat \ {0}
  /\ MaxPreempts \in Nat

VARIABLES
  router_mode, pd_balance_factor,   \* Router's settings, which never change
  num_running_requests,  \* Router.num_running_requests
  pc,                    \* where the generator of each request stands
  endpoint,              \* the server a request was given to
  window,                \* prefix_matched_length and kv_window_end of a request
  received,              \* the tokens the client of a request has been sent
  kv,                    \* on the decode server: how often each position of the
                         \*   prompt was computed or found in the prefix cache
  reserved,              \* requests for which each server holds KV entries
  preempts,              \* how often a request was preempted
  leaked                 \* history: generators of each server that were left without
                         \*   counting down

vars == <<num_running_requests, pc, endpoint, window, received, kv, reserved, preempts, leaked,
          router_mode, pd_balance_factor>>
settings == <<router_mode, pd_balance_factor>>

Servers == 0..(NumServers - 1)
InFlight == {"prepare", "send", "start", "post", "stream"}
Ended == {"done", "failed", "gone"}

\* The generation a server is in the middle of for request r.
Running(s) == {r \in Requests : pc[r] \in InFlight /\ endpoint[r] = s}

Nothing(r) == [p \in 0..(PromptLength[r] - 1) |-> 0]

Init ==
  /\ num_running_requests = [s \in Servers |-> 0]
  /\ pc = [r \in Requests |-> "new"]
  /\ endpoint = [r \in Requests |-> 0]
  /\ window = [r \in Requests |-> [matched |-> 0, end |-> 0]]
  /\ received = [r \in Requests |-> <<>>]
  /\ kv = [r \in Requests |-> Nothing(r)]
  /\ reserved = [s \in Servers |-> {}]
  /\ preempts = [r \in Requests |-> 0]
  /\ leaked = [s \in Servers |-> 0]
  /\ router_mode \in Modes
  /\ pd_balance_factor \in Balances

-----------------------------------------------------------------------------
\* Mutant: the first candidate, whatever its count.
PickFirst(candidates) == Min(candidates)

\* The first of the candidates with the smallest count.
PickEndpoint(candidates) ==
  LET least == Min({num_running_requests[s] : s \in candidates})
  IN  Min({s \in candidates : num_running_requests[s] = least})

Candidates == IF router_mode = "disagg" THEN 1..(NumServers - 1) ELSE Servers

\* kv_window_end as the router asks for it: all but the last token, or the
\* share of the prompt that pd_balance_factor leaves to the prefill server.
KVWindowEnd(r) ==
  IF pd_balance_factor = 0 THEN -1 ELSE ((100 - pd_balance_factor) * PromptLength[r]) \div 100

\* ... and as it is used once the metadata is there.
Resolve(r, end) == IF end < 0 THEN PromptLength[r] + end ELSE end

Count(s, d) == num_running_requests' = [num_running_requests EXCEPT ![s] = @ + d]
Goto(r, where) == pc' = [pc EXCEPT ![r] = where]

\* Every position of [begin, end) is computed once more.
Fill(r, begin, end) ==
  kv' = [kv EXCEPT ![r] = [p \in DOMAIN @ |-> IF p \in begin..(end - 1) THEN @[p] + 1 ELSE @[p]]]

-----------------------------------------------------------------------------
(* Both modes: a generator starts, for the first time or after a preemption. *)

\* Mutant: a preempted request is not taken up again.
HandleCompletionOnce(r) ==
  /\ pc[r] = "new"
  /\ LET s == PickEndpoint(Candidates) IN
       /\ endpoint' = [endpoint EXCEPT ![r] = s]
       /\ Count(s, 1)
  /\ Goto(r, IF router_mode = "disagg" THEN "prepare" ELSE "post")
  /\ kv' = [kv EXCEPT ![r] = Nothing(r)]
  /\ UNCHANGED <<window, received, reserved, preempts, leaked, settings>>

\* handle_completion, translate_request, then the pick and the count of
\* _handle_completion_round_robin or _handle_completion_disagg, up to the first
\* request to a server.
HandleCompletion(r) ==
  /\ pc[r] \in {"new", "retry"}
  /\ LET s == PickEndpoint(Candidates) IN
       /\ endpoint' = [endpoint EXCEPT ![r] = s]
       /\ Count(s, 1)
  /\ Goto(r, IF router_mode = "disagg" THEN "prepare" ELSE "post")
  /\ kv' = [kv EXCEPT ![r] = Nothing(r)]
  /\ UNCHANGED <<window, received, reserved, preempts, leaked, settings>>

-----------------------------------------------------------------------------
(* Mode "disagg".                                                          *)

\* send_prepare_receive: the decode server matches a prefix and reserves KV
\* entries; the router checks the window and asks the prefill server, unless
\* the whole window was matched.
PrepareReceive(r) ==
  /\ pc[r] = "prepare"
  /\ LET end == Resolve(r, KVWindowEnd(r)) IN
     \E matched \in 0..end :
       /\ window' = [window EXCEPT ![r] = [matched |-> matched, end |-> end]]
       /\ Fill(r, 0, matched)
       /\ Goto(r, IF matched < end THEN "send" ELSE "start")
  /\ reserved' = [reserved EXCEPT ![endpoint[r]] = @ \cup {r}]
  /\ UNCHANGED <<num_running_requests, endpoint, received, preempts, leaked, settings>>

\* Mutant: the window is sent from its beginning, the matched prefix included.
RemoteSendAll(r) ==
  /\ pc[r] = "send"
  /\ Fill(r, 0, window[r].end)
  /\ Goto(r, "start")
  /\ UNCHANGED <<num_running_requests, endpoint, window, received, reserved, preempts, leaked, settings>>

\* send_remote_send: the prefill server computes the window and sends it.
RemoteSend(r) ==
  /\ pc[r] = "send"
  /\ Fill(r, window[r].matched, window[r].end)
  /\ Goto(r, "start")
  /\ UNCHANGED <<num_running_requests, endpoint, window, received, reserved, preempts, leaked, settings>>

\* send_start_generate: the decode server prefills the rest and generates.
StartGenerate(r) ==
  /\ pc[r] = "start"
  /\ Fill(r, window[r].end, PromptLength[r])
  /\ Goto(r, "stream")
  /\ UNCHANGED <<num_running_requests, endpoint, window, received, reserved, preempts, leaked, settings>>

-----------------------------------------------------------------------------
(* Mode "round-robin".                                                     *)

\* The server takes the request and prefills the prompt.
Post(r) ==
  /\ pc[r] = "post"
  /\ Fill(r, 0, PromptLength[r])
  /\ Goto(r, "stream")
  /\ reserved' = [reserved EXCEPT ![endpoint[r]] = @ \cup {r}]
  /\ UNCHANGED <<num_running_requests, endpoint, window, received, preempts, leaked, settings>>

-----------------------------------------------------------------------------
(* Both modes: the answer.                                                 *)

\* The tokens of the present generation that the client has.
Sent(r) == Cardinality({i \in DOMAIN received[r] : received[r][i].run = preempts[r]})

\* One chunk is passed on.
YieldResponse(r) ==
  /\ pc[r] = "stream"
  /\ Sent(r) < MaxTokens
  /\ received' = [received EXCEPT ![r] = Append(@, [run |-> preempts[r], token |-> Sent(r) + 1])]
  /\ UNCHANGED <<num_running_requests, pc, endpoint, window, kv, reserved, preempts, leaked, settings>>

\* The answer ends: the generators run to their ends and count down.
Complete(r) ==
  /\ pc[r] = "stream"
  /\ Sent(r) > 0
  /\ Goto(r, "done")
  /\ Count(endpoint[r], -1)
  /\ reserved' = [reserved EXCEPT ![endpoint[r]] = @ \ {r}]
  /\ UNCHANGED <<endpoint, window, received, kv, preempts, leaked, settings>>

\* The server preempts the request.  The generator yields None and is left by the
\* break in handle_completion; the GeneratorExit with which it is closed is no
\* Exception, so neither decrement is reached.
Preempt(r) ==
  /\ pc[r] = "stream"
  /\ preempts[r] < MaxPreempts
  /\ preempts' = [preempts EXCEPT ![r] = @ + 1]
  /\ reserved' = [reserved EXCEPT ![endpoint[r]] = @ \ {r}]
  /\ Goto(r, "retry")
  /\ leaked' = [leaked EXCEPT ![endpoint[r]] = @ + 1]
  /\ UNCHANGED <<num_running_requests, endpoint, window, received, kv, settings>>

\* A generator is broken off.  A server that generates is left by the closing session
\* and aborts; nobody tells a decode server that the entries it reserved are not
\* needed.  What becomes of the call that is on its way is not known: the entries may
\* have been reserved by it, or be taken over by a generation that is aborted.
KeptAfter(where) == IF where \in {"prepare", "start"} THEN BOOLEAN ELSE {where = "send"}
BreakOff(r) ==
  \E kept \in KeptAfter(pc[r]) :
    reserved' = [reserved EXCEPT ![endpoint[r]] = IF kept THEN @ \cup {r} ELSE @ \ {r}]

\* Mutant: no decrement when an exception leaves the generator.
ServerErrorUncounted(r) ==
  /\ pc[r] \in InFlight
  /\ Goto(r, "failed")
  /\ BreakOff(r)
  /\ UNCHANGED <<num_running_requests, endpoint, window, received, kv, preempts, leaked, settings>>

\* A server answers with another status than 200, or not at all, and the
\* exception leaves the generator: only mode "disagg" counts down.
ServerError(r) ==
  /\ pc[r] \in InFlight
  /\ Goto(r, "failed")
  /\ IF router_mode = "disagg"
     THEN Count(endpoint[r], -1) /\ UNCHANGED leaked
     ELSE /\ leaked' = [leaked EXCEPT ![endpoint[r]] = @ + 1]
          /\ UNCHANGED num_running_requests
  /\ BreakOff(r)
  /\ UNCHANGED <<endpoint, window, received, kv, preempts, settings>>

\* Mutant: the streaming response is opened before the first chunk is there.
DisconnectAnywhere(r) ==
  /\ pc[r] \in InFlight
  /\ Goto(r, "gone")
  /\ BreakOff(r)
  /\ leaked' = [leaked EXCEPT ![endpoint[r]] = @ + 1]
  /\ UNCHANGED <<num_running_requests, endpoint, window, received, kv, preempts, settings>>

\* The client is gone.  Without streaming request_completion notices it when a response
\* is there.  That a streaming client left is noticed at any await once the streaming
\* response is open, which takes the first chunk; the request may be in a later run by
\* then.  The generators are closed where they stand, and neither the GeneratorExit
\* nor the CancelledError is an Exception, so nothing counts down.
Disconnect(r) ==
  /\ pc[r] = "stream" \/ (pc[r] \in InFlight /\ received[r] # <<>>)
  /\ Goto(r, "gone")
  /\ BreakOff(r)
  /\ leaked' = [leaked EXCEPT ![endpoint[r]] = @ + 1]
  /\ UNCHANGED <<num_running_requests, endpoint, window, received, kv, preempts, settings>>

Next == \E r \in Requests :
  \/ HandleCompletion(r)
  \/ PrepareReceive(r)
  \/ RemoteSend(r)
  \/ StartGenerate(r)
  \/ Post(r)
  \/ YieldResponse(r)
  \/ Complete(r)
  \/ Preempt(r)
  \/ ServerError(r)
  \/ Disconnect(r)

\* The event loop runs what is ready and a server answers in the end; that it
\* stops preempting a request is the bound MaxPreempts.
Fairness == \A r \in Requests :
  /\ WF_vars(HandleCompletion(r) \/ PrepareReceive(r) \/ RemoteSend(r) \/ StartGenerate(r) \/ Post(r))
  /\ WF_vars(YieldResponse(r))
  /\ WF_vars(Complete(r))

Spec == Init /\ [][Next]_vars /\ Fairness

-----------------------------------------------------------------------------
(* Properties                                                              *)

\* The type of the variables.
TypeOK ==
  /\ num_running_requests \in [Servers -> Nat]
  /\ pc \in [Requests -> InFlight \cup Ended \cup {"new", "retry"}]
  /\ endpoint \in [Requests -> Servers]
  /\ window \in [Requests -> [matched : Nat, end : Nat]]
  /\ received \in [Requests -> Seq([run : 0..MaxPreempts, token : 1..MaxTokens])]
  /\ DOMAIN kv = Requests
  /\ \A r \in Requests : kv[r] \in [0..(PromptLength[r] - 1) -> Nat]
  /\ reserved \in [Servers -> SUBSET Requests]
  /\ preempts \in [Requests -> 0..MaxPreempts]
  /\ leaked \in [Servers -> Nat]
  /\ router_mode \in Modes /\ pd_balance_factor \in Balances

\* The count of a server is the number of requests it is working on, and of those
\* whose generator was left where nothing counts down: by a preemption, by a client
\* that went away, by an error in mode "round-robin" (num_running_requests,
\* _handle_completion_round_robin, _handle_completion_disagg).
CountsAreExact == \A s \in Servers : num_running_requests[s] = Cardinality(Running(s)) + leaked[s]

\* As long as no generator was left like that, a request goes to a server that has
\* no more requests in flight than any other candidate (_pick_endpoint: "Pick the
\* least congested endpoint.").
PicksLeastCongested ==
  [][\A r \in Requests :
       (\A s \in Servers : leaked[s] = 0) /\ pc[r] \in {"new", "retry"} /\ pc'[r] \in InFlight =>
         \A s \in Candidates : Cardinality(Running(endpoint'[r])) <= Cardinality(Running(s))]_vars

\* When the decode server generates, every position of the prompt is in its KV
\* cache exactly once: matched there, sent by the prefill server or computed on it,
\* and at least the last one was computed there (the windows begin and end of
\* prep_recv, remote_send and start_generate).
EachPositionOnce ==
  \A r \in Requests : pc[r] = "stream" =>
    /\ \A p \in DOMAIN kv[r] : kv[r][p] = 1
    /\ router_mode = "disagg" => window[r].end < PromptLength[r]

\* KV entries that nobody will use any more stay on a server only where mode "disagg"
\* was broken off between reserving and generating: by an error, or by a client that
\* left while its request was run again after a preemption.  A first run cannot be
\* left there, an answered request or one that is to be run again holds nothing, and
\* the entries of all others are on the server the request is counted on
\* (_handle_completion_disagg, handle_completion, request_completion).
KeptOnlyWhenBrokenOff ==
  \A s \in Servers : \A r \in reserved[s] :
    /\ endpoint[r] = s
    /\ pc[r] \notin {"new", "retry", "done"}
    /\ pc[r] \in {"failed", "gone"} => router_mode = "disagg"
    /\ pc[r] = "gone" => preempts[r] > 0

\* Every request ends: with its answer, an error, or because its client left.
EveryRequestEnds == \A r \in Requests : <>(pc[r] \in Ended)

=============================================================================
