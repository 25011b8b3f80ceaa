----------------------------- MODULE AsyncEngine -----------------------------
(***************************************************************************)
(* AsyncMLCEngine (serve/engine.py), the streams of its requests           *)
(* (serve/engine_base.py) and the HTTP handlers that read them             *)
(* (serve/entrypoints/openai_entrypoints.py), on top of the threaded       *)
(* engine.                                                                 *)
(*                                                                         *)
(* A task is one call of _generate, made in the event loop; its request id *)
(* is chosen by the client (the field "user" of an HTTP request), so two   *)
(* tasks may have the same one.  Everything in the event loop runs between *)
(* two awaits without interruption and is one step.  The stream-back       *)
(* thread hands outputs over with call_soon_threadsafe, so they reach the  *)
(* stream of a request some steps after the engine produced them.          *)
(*                                                                         *)
(* The threaded engine behind it takes instructions in order and produces  *)
(* for every request it holds outputs up to a final one; module            *)
(* ThreadedEngine shows that it does.                                      *)
(***************************************************************************)
EXTENDS Naturals, Sequences, FiniteSets

CONSTANTS Tasks,        \* calls of _generate
          Ids,          \* request ids
          IdOf,         \* the id of each task
          NoTask,       \* no stream is registered
          MaxOutputs,   \* bound: outputs of one request, the final one included
          Abortable,    \* the ids somebody may call AsyncMLCEngine.abort with
          MaxFaults,    \* bound: refusals, cancellations, disconnections, aborts, terminations
          MayTerminate  \* is the engine terminated while it serves?

ASSUME ConstantsAssumption ==
  /\ IdOf \in [Tasks -> Ids]
  /\ NoTask \notin Tasks
  /\ MaxOutputs \in Nat \ {0}
  /\ Abortable \subseteq Ids
  /\ MaxFaults \in Nat
  /\ MayTerminate \in BOOLEAN

VARIABLES
  async_streamers,   \* EngineState: the task whose stream is registered for an id
  queue,             \* AsyncRequestStream._queue of each task
  finished,          \* AsyncRequestStream._finished of each task
  pc,                \* each task: new, streaming, abandoned, done, failed or cancelled
  recv,              \* what each task has read
  loopQueue,         \* callbacks scheduled in the event loop
  instructions,      \* the threaded engine: instructions not yet executed,
  live,              \*   the requests it holds
  emitted,           \*   and the number of outputs produced for each
  terminated,        \* MLCEngineBase._terminated
  faults             \* what has gone wrong so far (bounded by MaxFaults)

taskVars   == <<pc, recv>>
streamVars == <<async_streamers, queue, finished>>
engineVars == <<instructions, live, emitted>>
vars == <<taskVars, streamVars, engineVars, loopQueue, terminated, faults>>

-----------------------------------------------------------------------------
\* A stream's queue holds outputs (which task's, the how many-th, is it final), the
\* end, or an error.
Stop == [kind |-> "StopIteration"]
AlreadyExists == [kind |-> "RuntimeError"]

Init ==
  /\ async_streamers = [id \in Ids |-> NoTask]
  /\ queue = [t \in Tasks |-> <<>>]
  /\ finished = [t \in Tasks |-> FALSE]
  /\ pc = [t \in Tasks |-> "new"]
  /\ recv = [t \in Tasks |-> <<>>]
  /\ loopQueue = <<>>
  /\ instructions = <<>>
  /\ live = {}
  /\ emitted = [t \in Tasks |-> 0]
  /\ terminated = FALSE
  /\ faults = 0

-----------------------------------------------------------------------------
(* The event loop: handlers and generators.                                *)

\* One more thing goes wrong.
Fault == faults < MaxFaults /\ faults' = faults + 1

\* process_chat_completion_request or process_completion_request refuses the
\* request, or the engine has terminated: the caller gets an exception.
Refuse(t) ==
  /\ Fault
  /\ pc[t] = "new"
  /\ pc' = [pc EXCEPT ![t] = "failed"]
  /\ UNCHANGED <<recv, streamVars, engineVars, loopQueue, terminated>>

\* _generate up to its loop: register the stream and add the request, unless a
\* stream is registered for the id; then the new stream gets an error instead.
Generate(t) ==
  /\ pc[t] = "new"
  /\ ~terminated
  /\ pc' = [pc EXCEPT ![t] = "streaming"]
  /\ IF async_streamers[IdOf[t]] # NoTask
     THEN /\ queue' = [queue EXCEPT ![t] = Append(@, AlreadyExists)]
          /\ UNCHANGED <<async_streamers, instructions>>
     ELSE /\ async_streamers' = [async_streamers EXCEPT ![IdOf[t]] = t]
          /\ instructions' = Append(instructions, [op |-> "add", id |-> IdOf[t], task |-> t])
          /\ UNCHANGED queue
  /\ UNCHANGED <<recv, finished, live, emitted, loopQueue, terminated, faults>>

\* Mutant: the stream of an aborted request stays registered.
AbortKeepsStream(id) ==
  /\ instructions' = Append(instructions, [op |-> "abort", id |-> id, task |-> NoTask])
  /\ UNCHANGED async_streamers

\* Mutant: the engine is not told.
AbortLocally(id) ==
  /\ async_streamers' = [async_streamers EXCEPT ![id] = NoTask]
  /\ UNCHANGED instructions

\* _abort: unregister the stream, whoever registered it, and abort the request.
Abort(id) ==
  /\ async_streamers' = [async_streamers EXCEPT ![id] = NoTask]
  /\ instructions' = Append(instructions, [op |-> "abort", id |-> id, task |-> NoTask])

\* Mutant: the item stays in the queue.
YieldAgain(t) ==
  /\ pc[t] = "streaming"
  /\ queue[t] # <<>> /\ Head(queue[t]).kind = "output"
  /\ Len(recv[t]) < MaxOutputs
  /\ recv' = [recv EXCEPT ![t] = Append(@, Head(queue[t]).output)]
  /\ UNCHANGED <<pc, streamVars, engineVars, loopQueue, terminated, faults>>

\* The loop of _generate takes the next output, the handlers convert it and the
\* client reads it.
Yield(t) ==
  /\ pc[t] = "streaming"
  /\ queue[t] # <<>> /\ Head(queue[t]).kind = "output"
  /\ recv' = [recv EXCEPT ![t] = Append(@, Head(queue[t]).output)]
  /\ queue' = [queue EXCEPT ![t] = Tail(@)]
  /\ UNCHANGED <<pc, async_streamers, finished, engineVars, loopQueue, terminated, faults>>

\* __anext__ meets StopIteration: the generator ends.
Finish(t) ==
  /\ pc[t] = "streaming"
  /\ queue[t] # <<>> /\ Head(queue[t]) = Stop
  /\ pc' = [pc EXCEPT ![t] = "done"]
  /\ queue' = [queue EXCEPT ![t] = Tail(@)]
  /\ UNCHANGED <<recv, async_streamers, finished, engineVars, loopQueue, terminated, faults>>

\* __anext__ raises an exception out of the stream; ErrorCleanupScope aborts.
Raise(t) ==
  /\ pc[t] = "streaming"
  /\ queue[t] # <<>> /\ Head(queue[t]) = AlreadyExists
  /\ pc' = [pc EXCEPT ![t] = "failed"]
  /\ queue' = [queue EXCEPT ![t] = Tail(@)]
  /\ Abort(IdOf[t])
  /\ UNCHANGED <<recv, finished, live, emitted, loopQueue, terminated, faults>>

\* The task is cancelled at an await, or its generator is closed.
Cancel(t) ==
  /\ Fault
  /\ pc[t] = "streaming"
  /\ pc' = [pc EXCEPT ![t] = "cancelled"]
  /\ Abort(IdOf[t])
  /\ UNCHANGED <<recv, queue, finished, live, emitted, loopQueue, terminated>>

\* A non-streaming handler finds its client disconnected and returns; the
\* generator is left to the event loop, which closes it later.
Disconnect(t) ==
  /\ Fault
  /\ pc[t] = "streaming"
  /\ recv[t] # <<>>
  /\ pc' = [pc EXCEPT ![t] = "abandoned"]
  /\ UNCHANGED <<recv, streamVars, engineVars, loopQueue, terminated>>

CloseAbandoned(t) ==
  /\ pc[t] = "abandoned"
  /\ pc' = [pc EXCEPT ![t] = "cancelled"]
  /\ Abort(IdOf[t])
  /\ UNCHANGED <<recv, queue, finished, live, emitted, loopQueue, terminated, faults>>

\* AsyncMLCEngine.abort, called by anybody for any id.
AbortCall(id) ==
  /\ Fault
  /\ id \in Abortable
  /\ async_streamers[id] # NoTask
  /\ Abort(id)
  /\ UNCHANGED <<taskVars, queue, finished, live, emitted, loopQueue, terminated>>

\* AsyncRequestStream.push: an error if the stream has finished.
Push(t, output) ==
  Append(queue[t], IF finished[t] THEN AlreadyExists ELSE [kind |-> "output", output |-> output])

\* Mutant: the final chunk does not finish the stream.
RunCallbackNoFinish ==
  /\ loopQueue # <<>>
  /\ loopQueue' = Tail(loopQueue)
  /\ LET delta == Head(loopQueue)
         t == async_streamers[delta.id]
     IN  IF t = NoTask
         THEN UNCHANGED streamVars
         ELSE /\ queue' = [queue EXCEPT ![t] = Push(t, delta.output)]
              /\ async_streamers' = [async_streamers EXCEPT ![delta.id] =
                                       IF delta.output.final THEN NoTask ELSE @]
              /\ UNCHANGED finished
  /\ UNCHANGED <<taskVars, engineVars, terminated, faults>>

\* _async_request_stream_callback_impl: an output for an id that is not registered
\* is dropped; the final chunk finishes the stream and unregisters it.
RunCallback ==
  /\ loopQueue # <<>>
  /\ loopQueue' = Tail(loopQueue)
  /\ LET delta == Head(loopQueue)
         t == async_streamers[delta.id]
         last == delta.output.final
     IN  IF t = NoTask
         THEN UNCHANGED streamVars
         ELSE /\ queue' = [queue EXCEPT ![t] =
                             IF last THEN Append(Push(t, delta.output), Stop)
                                     ELSE Push(t, delta.output)]
              /\ finished' = [finished EXCEPT ![t] = @ \/ last]
              /\ async_streamers' = [async_streamers EXCEPT ![delta.id] =
                                       IF last THEN NoTask ELSE @]
  /\ UNCHANGED <<taskVars, engineVars, terminated, faults>>

\* terminate: the loops of the threaded engine stop.
Terminate ==
  /\ Fault
  /\ MayTerminate /\ ~terminated
  /\ terminated' = TRUE
  /\ UNCHANGED <<taskVars, streamVars, engineVars, loopQueue>>

-----------------------------------------------------------------------------
(* The threaded engine, as module ThreadedEngine leaves it.                *)

\* The next output of a request goes through the stream callback, which schedules
\* it in the event loop (_async_request_stream_callback).
Send(t, last) ==
  loopQueue' = Append(loopQueue,
                      [id |-> IdOf[t],
                       output |-> [source |-> t, n |-> emitted[t] + 1, final |-> last]])

ExecAdd ==
  /\ ~terminated
  /\ instructions # <<>> /\ Head(instructions).op = "add"
  /\ instructions' = Tail(instructions)
  /\ live' = live \cup {Head(instructions).task}
  /\ UNCHANGED <<taskVars, streamVars, emitted, loopQueue, terminated, faults>>

\* Aborting a request the engine holds sends its final output; others are ignored.
ExecAbort ==
  /\ ~terminated
  /\ instructions # <<>> /\ Head(instructions).op = "abort"
  /\ instructions' = Tail(instructions)
  /\ LET held == {t \in live : IdOf[t] = Head(instructions).id}
     IN  IF held = {}
         THEN UNCHANGED <<live, emitted, loopQueue>>
         ELSE \E t \in held :
                /\ live' = live \ {t}
                /\ emitted' = [emitted EXCEPT ![t] = @ + 1]
                /\ Send(t, TRUE)
  /\ UNCHANGED <<taskVars, streamVars, terminated, faults>>

\* One step of the engine gives a request its next output; it removes the request
\* with its final one.
Step(t) ==
  /\ ~terminated
  /\ t \in live
  /\ emitted' = [emitted EXCEPT ![t] = @ + 1]
  /\ \E last \in {emitted[t] + 1 = MaxOutputs, TRUE} :
       /\ Send(t, last)
       /\ live' = IF last THEN live \ {t} ELSE live
  /\ UNCHANGED <<taskVars, streamVars, instructions, terminated, faults>>

Next ==
  \/ \E t \in Tasks : \/ Refuse(t) \/ Generate(t) \/ Yield(t) \/ Finish(t) \/ Raise(t)
                      \/ Cancel(t) \/ Disconnect(t) \/ CloseAbandoned(t) \/ Step(t)
  \/ \E id \in Ids : AbortCall(id)
  \/ RunCallback \/ Terminate \/ ExecAdd \/ ExecAbort

Spec == Init /\ [][Next]_vars

\* The event loop runs what is scheduled and resumes a generator whose stream has
\* an item; an abandoned generator is closed; the engine executes instructions and
\* steps what it holds.  Nobody has to call, cancel, disconnect or terminate.
Fairness ==
  /\ \A t \in Tasks : /\ WF_vars(Yield(t) \/ Finish(t) \/ Raise(t))
                      /\ WF_vars(CloseAbandoned(t))
                      /\ WF_vars(Step(t))
  /\ WF_vars(RunCallback)
  /\ WF_vars(ExecAdd \/ ExecAbort)

FairSpec == Spec /\ Fairness
-----------------------------------------------------------------------------
(* Properties.                                                             *)

\* The tasks whose id nobody else uses, for another request or to abort it.  The
\* others may be on their way at the same time.
Undisturbed ==
  {t \in Tasks : IdOf[t] \notin Abortable /\ \A u \in Tasks \ {t} : IdOf[u] # IdOf[t]}

\* Every undisturbed task reads its own outputs only, all of them, in order, and
\* the final one last, whatever happens to the streams of the others.
Service == INSTANCE StreamService WITH Readers <- Undisturbed, streams <- [t \in Undisturbed |-> recv[t]]
OwnAnswerInOrder == Service!Spec

\* No stream stays registered when its task has ended (async_streamers is the one
\* table that grows with every request).
NoStreamLeaks ==
  \A id \in Ids : async_streamers[id] # NoTask =>
    pc[async_streamers[id]] \in {"streaming", "abandoned"}

\* Every answer of an undisturbed task that is waited for ends, unless the engine is
\* terminated.
EveryAnswerEnds ==
  \A t \in Undisturbed : pc[t] = "streaming" ~>
    (pc[t] \in {"done", "failed", "abandoned", "cancelled"} \/ terminated)

\* A request whose reader is gone does not occupy the engine for long: while the
\* engine holds it, or will, its abort is on the way behind it (ErrorCleanupScope:
\* "The scope will always properly cleanup").  It holds when at most two tasks share an id.
CancelledIsAborted ==
  \A t \in Tasks : pc[t] = "cancelled" =>
    LET aborts == {i \in 1..Len(instructions) :
                     instructions[i].op = "abort" /\ instructions[i].id = IdOf[t]}
    IN  /\ t \in live => aborts # {}
        /\ \A i \in 1..Len(instructions) :
             instructions[i].op = "add" /\ instructions[i].task = t => \E j \in aborts : j > i
=============================================================================
