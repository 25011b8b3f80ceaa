--------------------------- MODULE ThreadedEngine ---------------------------
(***************************************************************************)
(* The threaded engine of mlc-llm (cpp/serve/threaded_engine.cc).          *)
(*                                                                         *)
(* Client threads put instructions into instruction_queue_; the background *)
(* thread (RunBackgroundLoop) drains the queue, applies the instructions   *)
(* to the engine it owns and steps it; the outputs of the engine go through*)
(* request_stream_callback_inputs_ to the stream-back thread               *)
(* (RunBackgroundStreamBackLoop), which hands them to the client.  Three   *)
(* condition variables connect the threads.                                *)
(*                                                                         *)
(* A region guarded by a mutex is one step, except where the code reads in *)
(* it something that another thread writes without that mutex: the         *)
(* stream-back loop tests exit_now_, which ExitBackgroundLoop sets under   *)
(* another mutex, so its test and its going to sleep are two steps and the *)
(* mutex is held between them.  A thread asleep on a condition variable    *)
(* has program counter "blocked"; a notification moves it to "woken".      *)
(*                                                                         *)
(* The engine inside is abstracted to the requests it holds and the number *)
(* of outputs each has produced (module Engine models it in detail).       *)
(***************************************************************************)
EXTENDS Queues, FiniteSets

CONSTANTS Callers,        \* client threads
          Requests,       \* request ids, each submitted at most once
          Configs,        \* engine configurations given to Reload
          BadConfigs,     \* those Engine::Create answers with an error
          MaxCalls,       \* bound: calls a client makes
          MaxOutputs      \* bound: outputs of one request, the final one included

ASSUME ConstantsAssumption ==
  /\ BadConfigs \subseteq Configs
  /\ MaxCalls \in Nat
  /\ MaxOutputs \in Nat \ {0}

VARIABLES
  instruction_queue_,                    \* guarded by background_loop_mutex_
  pending_request_operation_cnt_,
  engine_waiting_,
  exit_now_,
  request_stream_callback_inputs_,       \* guarded by request_stream_callback_mutex_
  pending_request_stream_callback_cnt_,
  stream_callback_waiting_,
  reload_finished_, unload_finished_,    \* guarded by reload_unload_mutex_
  loaded,       \* background_engine_ # nullptr (and the default config is set)
  live,         \* the requests the engine holds
  emitted,      \* number of outputs the engine has produced for each request
  bgPc, local_instruction_queue,         \* the background thread
  outbox, bgNotify,                      \*   and its pass through the callback wrapper
  scPc, local_request_stream_callback_inputs,   \* the stream-back thread
  callPc, call, callsLeft,               \* the client threads
  submitted,                             \* ids for which AddRequest was called
  mainPc,                                \* the thread that runs terminate()
  received                               \* the batches handed to the client

queueVars  == <<instruction_queue_, pending_request_operation_cnt_, engine_waiting_>>
streamVars == <<request_stream_callback_inputs_, pending_request_stream_callback_cnt_,
                stream_callback_waiting_>>
flagVars   == <<reload_finished_, unload_finished_>>
engineVars == <<loaded, live, emitted>>
bgVars     == <<bgPc, local_instruction_queue, outbox, bgNotify>>
scVars     == <<scPc, local_request_stream_callback_inputs, received>>
callVars   == <<callPc, call, callsLeft, submitted>>
exitVars   == <<exit_now_, mainPc>>

vars == <<queueVars, streamVars, flagVars, engineVars, bgVars, scVars, callVars, exitVars>>

-----------------------------------------------------------------------------
NoArg == "none"

Instruction ==
  [kind : {"kAddRequest", "kAbortRequest"}, arg : Requests]
    \cup [kind : {"kReloadEngine"}, arg : Configs]
    \cup [kind : {"kUnloadEngine", "kResetEngine", "kDebugCallFunc"}, arg : {NoArg}]

\* The n-th output of a request; the last one carries the finish reason.
Output == [n : 1..MaxOutputs, final : BOOLEAN]

\* One invocation of the stream callback: outputs of some requests.
Batch == UNION {[S -> Output] : S \in SUBSET Requests}

Init ==
  /\ instruction_queue_ = <<>>
  /\ pending_request_operation_cnt_ = 0
  /\ engine_waiting_ = FALSE
  /\ exit_now_ = FALSE
  /\ request_stream_callback_inputs_ = <<>>
  /\ pending_request_stream_callback_cnt_ = 0
  /\ stream_callback_waiting_ = FALSE
  /\ reload_finished_ = FALSE
  /\ unload_finished_ = FALSE
  /\ loaded = FALSE
  /\ live = {}
  /\ emitted = [r \in Requests |-> 0]
  /\ bgPc = "top"
  /\ local_instruction_queue = <<>>
  /\ outbox = <<>>
  /\ bgNotify = FALSE
  /\ scPc = "top"
  /\ local_request_stream_callback_inputs = <<>>
  /\ callPc = [c \in Callers |-> "idle"]
  /\ call = [c \in Callers |-> [kind |-> "kResetEngine", arg |-> NoArg]]
  /\ callsLeft = [c \in Callers |-> MaxCalls]
  /\ submitted = {}
  /\ mainPc = "running"
  /\ received = <<>>

-----------------------------------------------------------------------------
(* Condition variables.                                                    *)

NotifyBackground == bgPc' = IF bgPc = "blocked" THEN "woken" ELSE bgPc
NotifyStream == scPc' = IF scPc = "blocked" THEN "woken" ELSE scPc

\* reload_unload_cv_.notify_one(): any one of the sleeping callers, if there is one.
NotifyReloadUnload ==
  \/ \E c \in Callers : /\ callPc[c] = "blocked"
                        /\ callPc' = [callPc EXCEPT ![c] = "wait"]
  \/ /\ \A c \in Callers : callPc[c] # "blocked"
     /\ UNCHANGED callPc

\* Mutant: the callback wrapper does not take the stream mutex.
StreamMutexIgnored == TRUE

\* request_stream_callback_mutex_ is held while the stream-back loop stands
\* between the test of its predicate and its going to sleep.
StreamMutexFree == scPc # "block"

-----------------------------------------------------------------------------
(* Client threads.                                                         *)

Start(c, ins) ==
  /\ callPc[c] = "idle"
  /\ callsLeft[c] > 0
  /\ callsLeft' = [callsLeft EXCEPT ![c] = @ - 1]
  /\ call' = [call EXCEPT ![c] = ins]
  /\ callPc' = [callPc EXCEPT ![c] = "enqueue"]
  /\ UNCHANGED <<queueVars, streamVars, engineVars, bgVars, scVars, exitVars>>

\* Mutant: Reload does not clear its flag.
StartReloadStale(c) ==
  /\ \E cfg \in Configs : Start(c, [kind |-> "kReloadEngine", arg |-> cfg])
  /\ UNCHANGED <<flagVars, submitted>>

\* Reload and Unload clear their flag before they send the instruction.
StartReload(c) ==
  /\ \E cfg \in Configs : Start(c, [kind |-> "kReloadEngine", arg |-> cfg])
  /\ reload_finished_' = FALSE
  /\ UNCHANGED <<unload_finished_, submitted>>

StartUnload(c) ==
  /\ Start(c, [kind |-> "kUnloadEngine", arg |-> NoArg])
  /\ unload_finished_' = FALSE
  /\ UNCHANGED <<reload_finished_, submitted>>

StartReset(c) ==
  /\ Start(c, [kind |-> "kResetEngine", arg |-> NoArg])
  /\ UNCHANGED <<flagVars, submitted>>

\* A client builds a request with CreateRequest, which fails in the client
\* unless the default generation config is set, and then calls AddRequest.
StartAddRequest(c) ==
  /\ loaded
  /\ \E r \in Requests \ submitted :
       /\ Start(c, [kind |-> "kAddRequest", arg |-> r])
       /\ submitted' = submitted \cup {r}
  /\ UNCHANGED flagVars

StartAbortRequest(c) ==
  /\ \E r \in submitted : Start(c, [kind |-> "kAbortRequest", arg |-> r])
  /\ UNCHANGED <<flagVars, submitted>>

\* The debug entry point is used by Python engines, which are loaded first.
StartDebugCall(c) ==
  /\ loaded
  /\ Start(c, [kind |-> "kDebugCallFunc", arg |-> NoArg])
  /\ UNCHANGED <<flagVars, submitted>>

IsSynchronous(ins) == ins.kind \in {"kReloadEngine", "kUnloadEngine"}

AfterSend(c) == IF IsSynchronous(call[c]) THEN "wait" ELSE "idle"

\* Mutant: the sender never notifies the background loop.
EnqueueSilently(c) ==
  /\ callPc[c] = "enqueue"
  /\ instruction_queue_' = Append(instruction_queue_, call[c])
  /\ pending_request_operation_cnt_' = pending_request_operation_cnt_ + 1
  /\ callPc' = [callPc EXCEPT ![c] = AfterSend(c)]
  /\ UNCHANGED <<engine_waiting_, streamVars, flagVars, engineVars, bgVars, scVars, exitVars,
                 call, callsLeft, submitted>>

\* The critical region every instruction goes through.
Enqueue(c) ==
  /\ callPc[c] = "enqueue"
  /\ instruction_queue_' = Append(instruction_queue_, call[c])
  /\ pending_request_operation_cnt_' = pending_request_operation_cnt_ + 1
  /\ callPc' = [callPc EXCEPT ![c] = IF engine_waiting_ THEN "notify" ELSE AfterSend(c)]
  /\ UNCHANGED <<engine_waiting_, streamVars, flagVars, engineVars, bgVars, scVars, exitVars,
                 call, callsLeft, submitted>>

NotifyLoop(c) ==
  /\ callPc[c] = "notify"
  /\ NotifyBackground
  /\ callPc' = [callPc EXCEPT ![c] = AfterSend(c)]
  /\ UNCHANGED <<queueVars, streamVars, flagVars, engineVars, scVars, exitVars,
                 local_instruction_queue, outbox, bgNotify, call, callsLeft, submitted>>

Finished(ins) == IF ins.kind = "kReloadEngine" THEN reload_finished_ ELSE unload_finished_

\* reload_unload_cv_.wait(lock, ...): return, or go (back) to sleep.
AwaitFinished(c) ==
  /\ callPc[c] = "wait"
  /\ callPc' = [callPc EXCEPT ![c] = IF Finished(call[c]) THEN "idle" ELSE "blocked"]
  /\ UNCHANGED <<queueVars, streamVars, flagVars, engineVars, bgVars, scVars, exitVars,
                 call, callsLeft, submitted>>

ClientCall(c) ==
  \/ StartReload(c) \/ StartUnload(c) \/ StartReset(c)
  \/ StartAddRequest(c) \/ StartAbortRequest(c) \/ StartDebugCall(c)

ClientStep(c) == Enqueue(c) \/ NotifyLoop(c) \/ AwaitFinished(c)

-----------------------------------------------------------------------------
(* The engine the background thread drives.  Emit(S, F): the requests S    *)
(* produce one output each, the final one for those in F; the outputs are  *)
(* one invocation of the callback wrapper.                                 *)

Emit(S, F) ==
  /\ outbox' = << [r \in S |-> [n |-> emitted[r] + 1, final |-> r \in F]] >>
  /\ emitted' = [r \in Requests |-> IF r \in S THEN emitted[r] + 1 ELSE emitted[r]]

\* Requests whose next output may be one that is not final (bound MaxOutputs).
MayContinue == {r \in Requests : emitted[r] + 1 < MaxOutputs}

-----------------------------------------------------------------------------
(* The background thread.                                                  *)

\* It is not inside the callback wrapper.
OutOfCallback == outbox = <<>> /\ ~bgNotify

BgGoto(from, to) == bgPc = from /\ OutOfCallback /\ bgPc' = to

\* while (!exit_now_)
LoopTest ==
  /\ BgGoto("top", IF exit_now_ THEN "done" ELSE "acquire")
  /\ UNCHANGED <<queueVars, streamVars, flagVars, engineVars, scVars, callVars, exitVars,
                 local_instruction_queue, outbox, bgNotify>>

\* The predicate background_loop_cv_.wait waits for.
WorkToDo ==
  \/ loaded /\ live # {}
  \/ pending_request_operation_cnt_ > 0
  \/ exit_now_

DrainInstructions ==
  /\ bgPc \in {"acquire", "woken"}
  /\ WorkToDo
  /\ engine_waiting_' = FALSE
  /\ local_instruction_queue' = instruction_queue_
  /\ instruction_queue_' = <<>>
  /\ pending_request_operation_cnt_' = 0
  /\ bgPc' = "exec"
  /\ UNCHANGED <<streamVars, flagVars, engineVars, scVars, callVars, exitVars, outbox, bgNotify>>

SleepOnInstructions ==
  /\ bgPc \in {"acquire", "woken"}
  /\ ~WorkToDo
  /\ engine_waiting_' = TRUE
  /\ bgPc' = "blocked"
  /\ UNCHANGED <<instruction_queue_, pending_request_operation_cnt_, streamVars, flagVars,
                 engineVars, scVars, callVars, exitVars, local_instruction_queue, outbox, bgNotify>>

\* The instruction under execution stays at the head until it is finished.
Executing(kind) ==
  /\ bgPc = "exec"
  /\ OutOfCallback
  /\ local_instruction_queue # <<>>
  /\ Head(local_instruction_queue).kind = kind

NextInstruction ==
  /\ local_instruction_queue' = Tail(local_instruction_queue)
  /\ bgPc' = "exec"

Arg == Head(local_instruction_queue).arg

\* CHECK(background_engine_ != nullptr): the background thread ends.
FailNotLoaded ==
  /\ Executing("kAddRequest") \/ Executing("kDebugCallFunc")
  /\ ~loaded
  /\ bgPc' = "crashed"
  /\ UNCHANGED <<queueVars, streamVars, flagVars, engineVars, scVars, callVars, exitVars,
                 local_instruction_queue, outbox, bgNotify>>

\* Engine::AddRequest keeps the request, or answers a prompt that is too long at once.
ExecAddRequest ==
  /\ Executing("kAddRequest")
  /\ loaded
  /\ \/ live' = live \cup {Arg} /\ UNCHANGED <<emitted, outbox>>
     \/ Emit({Arg}, {Arg}) /\ UNCHANGED live
  /\ NextInstruction
  /\ UNCHANGED <<queueVars, streamVars, flagVars, loaded, scVars, callVars, exitVars, bgNotify>>

\* An abort with no engine, or for a request the engine does not hold, is ignored.
ExecAbortRequest ==
  /\ Executing("kAbortRequest")
  /\ IF loaded /\ Arg \in live
       THEN Emit({Arg}, {Arg}) /\ live' = live \ {Arg}
       ELSE UNCHANGED <<outbox, emitted, live>>
  /\ NextInstruction
  /\ UNCHANGED <<queueVars, streamVars, flagVars, loaded, scVars, callVars, exitVars, bgNotify>>

ExecDebugCall ==
  /\ Executing("kDebugCallFunc")
  /\ loaded
  /\ NextInstruction
  /\ UNCHANGED <<queueVars, streamVars, flagVars, engineVars, scVars, callVars, exitVars,
                 outbox, bgNotify>>

\* Unload, Reload and Reset begin with Engine::AbortAllRequests.
BeginAbortAll ==
  /\ Executing("kUnloadEngine") \/ Executing("kReloadEngine") \/ Executing("kResetEngine")
  /\ bgPc' = "abortAll"
  /\ UNCHANGED <<queueVars, streamVars, flagVars, engineVars, scVars, callVars, exitVars,
                 local_instruction_queue, outbox, bgNotify>>

\* Mutant: the requests are dropped without a final output.
AbortOneSilently ==
  /\ bgPc = "abortAll"
  /\ OutOfCallback
  /\ \E r \in live : live' = live \ {r}
  /\ UNCHANGED <<queueVars, streamVars, flagVars, loaded, emitted, scVars, callVars, exitVars,
                 bgPc, local_instruction_queue, outbox, bgNotify>>

AbortOneOfAll ==
  /\ bgPc = "abortAll"
  /\ OutOfCallback
  /\ \E r \in live : Emit({r}, {r}) /\ live' = live \ {r}
  /\ UNCHANGED <<queueVars, streamVars, flagVars, loaded, scVars, callVars, exitVars,
                 bgPc, local_instruction_queue, bgNotify>>

FinishReset ==
  /\ bgPc = "abortAll"
  /\ OutOfCallback
  /\ live = {}
  /\ Head(local_instruction_queue).kind = "kResetEngine"
  /\ NextInstruction
  /\ UNCHANGED <<queueVars, streamVars, flagVars, engineVars, scVars, callVars, exitVars,
                 outbox, bgNotify>>

\* background_engine_ = nullptr, with the configs.
DestroyEngine ==
  /\ BgGoto("abortAll", "unloadFlag")
  /\ live = {}
  /\ Head(local_instruction_queue).kind # "kResetEngine"
  /\ loaded' = FALSE
  /\ UNCHANGED <<queueVars, streamVars, flagVars, live, emitted, scVars, callVars, exitVars,
                 local_instruction_queue, outbox, bgNotify>>

SetUnloadFinished ==
  /\ BgGoto("unloadFlag", "unloadNotify")
  /\ unload_finished_' = TRUE
  /\ UNCHANGED <<queueVars, streamVars, reload_finished_, engineVars, scVars, callVars, exitVars,
                 local_instruction_queue, outbox, bgNotify>>

NotifyUnloaded ==
  /\ bgPc = "unloadNotify"
  /\ OutOfCallback
  /\ NotifyReloadUnload
  /\ IF Head(local_instruction_queue).kind = "kReloadEngine"
       THEN bgPc' = "create" /\ UNCHANGED local_instruction_queue
       ELSE NextInstruction
  /\ UNCHANGED <<queueVars, streamVars, flagVars, engineVars, scVars, exitVars,
                 call, callsLeft, submitted, outbox, bgNotify>>

\* Engine::Create; CHECK(output_res.IsOk()) ends the thread on a bad config.
CreateEngine ==
  /\ BgGoto("create", IF Arg \in BadConfigs THEN "crashed" ELSE "reloadFlag")
  /\ loaded' = (Arg \notin BadConfigs)
  /\ UNCHANGED <<queueVars, streamVars, flagVars, live, emitted, scVars, callVars, exitVars,
                 local_instruction_queue, outbox, bgNotify>>

SetReloadFinished ==
  /\ BgGoto("reloadFlag", "reloadNotify")
  /\ reload_finished_' = TRUE
  /\ UNCHANGED <<queueVars, streamVars, unload_finished_, engineVars, scVars, callVars, exitVars,
                 local_instruction_queue, outbox, bgNotify>>

\* Mutant: the finished reload is not notified.
NotifyReloadedForgotten ==
  /\ BgGoto("reloadNotify", "exec")
  /\ NextInstruction
  /\ UNCHANGED <<queueVars, streamVars, flagVars, engineVars, scVars, callVars, exitVars,
                 outbox, bgNotify>>

NotifyReloaded ==
  /\ bgPc = "reloadNotify"
  /\ OutOfCallback
  /\ NotifyReloadUnload
  /\ NextInstruction
  /\ UNCHANGED <<queueVars, streamVars, flagVars, engineVars, scVars, exitVars,
                 call, callsLeft, submitted, outbox, bgNotify>>

\* background_engine_->Step(): some of the requests make progress ...
StepEngine ==
  /\ BgGoto("exec", "top")
  /\ local_instruction_queue = <<>>
  /\ loaded
  /\ \E S \in (SUBSET live) \ {{}} : \E F \in SUBSET S :
       /\ S \ F \subseteq MayContinue
       /\ Emit(S, F)
       /\ live' = live \ F
  /\ UNCHANGED <<queueVars, streamVars, flagVars, loaded, scVars, callVars, exitVars,
                 local_instruction_queue, bgNotify>>

\* ... or it returns no output (a chunk of a prompt, a preemption), or there is no
\* engine to step, or nothing in it.
StepQuietly ==
  /\ BgGoto("exec", "top")
  /\ local_instruction_queue = <<>>
  /\ UNCHANGED <<queueVars, streamVars, flagVars, engineVars, scVars, callVars, exitVars,
                 local_instruction_queue, outbox, bgNotify>>

\* The callback wrapper: push the outputs and remember whether to notify ...
PushOutputs ==
  /\ outbox # <<>>
  /\ StreamMutexFree
  /\ request_stream_callback_inputs_' = Append(request_stream_callback_inputs_, Head(outbox))
  /\ pending_request_stream_callback_cnt_' = pending_request_stream_callback_cnt_ + 1
  /\ outbox' = <<>>
  /\ bgNotify' = stream_callback_waiting_
  /\ UNCHANGED <<stream_callback_waiting_, queueVars, flagVars, engineVars, scVars, callVars,
                 exitVars, bgPc, local_instruction_queue>>

\* ... and notify after the unlock.
NotifyOutputs ==
  /\ bgNotify
  /\ bgNotify' = FALSE
  /\ NotifyStream
  /\ UNCHANGED <<queueVars, streamVars, flagVars, engineVars, callVars, exitVars, received,
                 local_request_stream_callback_inputs, bgPc, local_instruction_queue, outbox>>

Background ==
  \/ LoopTest \/ DrainInstructions \/ SleepOnInstructions
  \/ FailNotLoaded \/ ExecAddRequest \/ ExecAbortRequest \/ ExecDebugCall
  \/ BeginAbortAll \/ AbortOneOfAll \/ FinishReset \/ DestroyEngine
  \/ SetUnloadFinished \/ NotifyUnloaded
  \/ CreateEngine \/ SetReloadFinished \/ NotifyReloaded
  \/ StepEngine \/ StepQuietly \/ PushOutputs \/ NotifyOutputs

-----------------------------------------------------------------------------
(* The stream-back thread.                                                 *)

StreamLoopTest ==
  /\ scPc = "top"
  /\ scPc' = IF exit_now_ THEN "done" ELSE "acquire"
  /\ UNCHANGED <<queueVars, streamVars, flagVars, engineVars, bgVars, callVars, exitVars,
                 received, local_request_stream_callback_inputs>>

\* The predicate request_stream_callback_cv_.wait waits for.
OutputsToDeliver == pending_request_stream_callback_cnt_ > 0 \/ exit_now_

\* Mutant: the drained outputs stay in the shared vector.
DrainOutputsKeeping ==
  /\ scPc \in {"acquire", "woken"}
  /\ OutputsToDeliver
  /\ stream_callback_waiting_' = FALSE
  /\ local_request_stream_callback_inputs' = request_stream_callback_inputs_
  /\ pending_request_stream_callback_cnt_' = 0
  /\ scPc' = "deliver"
  /\ UNCHANGED <<request_stream_callback_inputs_, queueVars, flagVars, engineVars, bgVars,
                 callVars, exitVars, received>>

DrainOutputs ==
  /\ scPc \in {"acquire", "woken"}
  /\ OutputsToDeliver
  /\ stream_callback_waiting_' = FALSE
  /\ local_request_stream_callback_inputs' = request_stream_callback_inputs_
  /\ request_stream_callback_inputs_' = <<>>
  /\ pending_request_stream_callback_cnt_' = 0
  /\ scPc' = "deliver"
  /\ UNCHANGED <<queueVars, flagVars, engineVars, bgVars, callVars, exitVars, received>>

\* The predicate is false; the thread goes to sleep in a later step.
FindNoOutputs ==
  /\ scPc \in {"acquire", "woken"}
  /\ ~OutputsToDeliver
  /\ stream_callback_waiting_' = TRUE
  /\ scPc' = "block"
  /\ UNCHANGED <<request_stream_callback_inputs_, pending_request_stream_callback_cnt_, queueVars,
                 flagVars, engineVars, bgVars, callVars, exitVars, received,
                 local_request_stream_callback_inputs>>

SleepOnOutputs ==
  /\ scPc = "block"
  /\ scPc' = "blocked"
  /\ UNCHANGED <<queueVars, streamVars, flagVars, engineVars, bgVars, callVars, exitVars,
                 received, local_request_stream_callback_inputs>>

\* All drained batches are flattened and handed over in one call of the client.
DeliverOutputs ==
  /\ scPc = "deliver"
  /\ received' = received \o local_request_stream_callback_inputs
  /\ local_request_stream_callback_inputs' = <<>>
  /\ scPc' = "top"
  /\ UNCHANGED <<queueVars, streamVars, flagVars, engineVars, bgVars, callVars, exitVars>>

StreamBack ==
  \/ StreamLoopTest \/ DrainOutputs \/ FindNoOutputs \/ SleepOnOutputs \/ DeliverOutputs

-----------------------------------------------------------------------------
(* Termination: ExitBackgroundLoop, then the Python engine joins the two   *)
(* threads (engine_base.py, terminate).                                    *)

SetExitNow ==
  /\ mainPc = "running"
  /\ mainPc' = "notifyBg"
  /\ exit_now_' = TRUE
  /\ UNCHANGED <<queueVars, streamVars, flagVars, engineVars, bgVars, scVars, callVars>>

ExitNotifyBackground ==
  /\ mainPc = "notifyBg"
  /\ mainPc' = "notifySc"
  /\ NotifyBackground
  /\ UNCHANGED <<queueVars, streamVars, flagVars, engineVars, scVars, callVars, exit_now_,
                 local_instruction_queue, outbox, bgNotify>>

ExitNotifyStream ==
  /\ mainPc = "notifySc"
  /\ mainPc' = "joinBg"
  /\ NotifyStream
  /\ UNCHANGED <<queueVars, streamVars, flagVars, engineVars, bgVars, callVars, exit_now_,
                 received, local_request_stream_callback_inputs>>

JoinBackground ==
  /\ mainPc = "joinBg"
  /\ bgPc \in {"done", "crashed"}
  /\ mainPc' = "joinSc"
  /\ UNCHANGED <<queueVars, streamVars, flagVars, engineVars, bgVars, scVars, callVars, exit_now_>>

JoinStream ==
  /\ mainPc = "joinSc"
  /\ scPc = "done"
  /\ mainPc' = "terminated"
  /\ UNCHANGED <<queueVars, streamVars, flagVars, engineVars, bgVars, scVars, callVars, exit_now_>>

Terminate == ExitNotifyBackground \/ ExitNotifyStream \/ JoinBackground \/ JoinStream

-----------------------------------------------------------------------------
\* A condition variable may wake a sleeper without a notification.
SpuriousWakeup ==
  /\ \/ bgPc = "blocked" /\ bgPc' = "woken" /\ UNCHANGED <<scPc, callPc>>
     \/ scPc = "blocked" /\ scPc' = "woken" /\ UNCHANGED <<bgPc, callPc>>
     \/ /\ \E c \in Callers : /\ callPc[c] = "blocked"
                              /\ callPc' = [callPc EXCEPT ![c] = "wait"]
        /\ UNCHANGED <<bgPc, scPc>>
  /\ UNCHANGED <<queueVars, streamVars, flagVars, engineVars, exitVars, local_instruction_queue,
                 outbox, bgNotify, local_request_stream_callback_inputs, received,
                 call, callsLeft, submitted>>

Next ==
  \/ \E c \in Callers : ClientCall(c) \/ ClientStep(c)
  \/ Background
  \/ StreamBack
  \/ SetExitNow \/ Terminate
  \/ SpuriousWakeup

Spec == Init /\ [][Next]_vars

\* Every thread that can run does run; a lock that keeps becoming free is
\* eventually obtained; an engine that is stepped again and again makes progress
\* (EveryRequestAnswered of module Engine); nobody has to make a call, exit or
\* wake spuriously.
Fairness ==
  /\ WF_vars(Background)
  /\ SF_vars(PushOutputs)
  /\ SF_vars(StepEngine)
  /\ WF_vars(StreamBack)
  /\ WF_vars(Terminate)
  /\ \A c \in Callers : WF_vars(ClientStep(c))

FairSpec == Spec /\ Fairness
-----------------------------------------------------------------------------
(* Properties.                                                             *)

FlagsOK ==
  /\ engine_waiting_ \in BOOLEAN
  /\ exit_now_ \in BOOLEAN
  /\ stream_callback_waiting_ \in BOOLEAN
  /\ reload_finished_ \in BOOLEAN
  /\ unload_finished_ \in BOOLEAN
  /\ loaded \in BOOLEAN
  /\ bgNotify \in BOOLEAN

QueueTypeOK ==
  /\ instruction_queue_ \in Seq(Instruction)
  /\ pending_request_operation_cnt_ \in Nat

StreamTypeOK ==
  /\ request_stream_callback_inputs_ \in Seq(Batch)
  /\ pending_request_stream_callback_cnt_ \in Nat

EngineTypeOK ==
  /\ live \in SUBSET Requests
  /\ emitted \in [Requests -> 0..MaxOutputs]

BgTypeOK ==
  /\ bgPc \in {"top", "acquire", "blocked", "woken", "exec", "abortAll", "unloadFlag",
               "unloadNotify", "create", "reloadFlag", "reloadNotify", "done", "crashed"}
  /\ local_instruction_queue \in Seq(Instruction)
  /\ outbox \in Seq(Batch)

ScTypeOK ==
  /\ scPc \in {"top", "acquire", "block", "blocked", "woken", "deliver", "done"}
  /\ local_request_stream_callback_inputs \in Seq(Batch)
  /\ received \in Seq(Batch)

CallTypeOK ==
  /\ callPc \in [Callers -> {"idle", "enqueue", "notify", "wait", "blocked"}]
  /\ call \in [Callers -> Instruction]
  /\ callsLeft \in [Callers -> 0..MaxCalls]
  /\ submitted \in SUBSET Requests

ExitTypeOK == mainPc \in {"running", "notifyBg", "notifySc", "joinBg", "joinSc", "terminated"}

\* The values each variable of the threaded engine can have.  The engine produces at
\* most MaxOutputs outputs for a request, which it is given once: a request that stayed
\* in it after its final output, or came back, would exceed them.
TypeOK ==
  /\ QueueTypeOK
  /\ StreamTypeOK
  /\ FlagsOK
  /\ EngineTypeOK
  /\ BgTypeOK
  /\ ScTypeOK
  /\ CallTypeOK
  /\ ExitTypeOK

\* The background loop never sleeps through work (RunBackgroundLoop, L142): while
\* it is asleep an instruction is in the queue, or exit is requested, only if the
\* thread that put it there has still to notify it; and the engine is idle.
NoLostInstruction ==
  bgPc = "blocked" =>
    /\ instruction_queue_ # <<>> => \E c \in Callers : callPc[c] = "notify"
    /\ exit_now_ => mainPc = "notifyBg"
    /\ loaded => live = {}

\* The stream-back loop never sleeps through outputs (L198): while it is asleep
\* outputs are pending only if the callback wrapper has still to notify it.
NoLostOutput ==
  scPc = "blocked" /\ request_stream_callback_inputs_ # <<>> => bgNotify

\* All outputs the engine has produced, from the client back to the callback wrapper.
Path ==
  received \o local_request_stream_callback_inputs \o request_stream_callback_inputs_ \o outbox

\* Where the outputs of request r are in a sequence of batches.
PlacesOf(r, batches) == {i \in 1..Len(batches) : r \in DOMAIN batches[i]}

\* Each request's outputs reach the client in the order the engine produced them,
\* none twice and none skipped, and nothing follows the final one, whatever aborts,
\* resets, unloads and the two queues do in between.
OutputsInOrder ==
  LET path == Path
  IN  \A r \in Requests :
        LET at == PlacesOf(r, path)
        IN  /\ \A i, j \in at : i < j => path[i][r].n < path[j][r].n
            /\ \A n \in 1..emitted[r] : \E i \in at : path[i][r].n = n
            /\ \A i \in at : /\ path[i][r].n <= emitted[r]
                             /\ path[i][r].final => path[i][r].n = emitted[r] /\ r \notin live

\* What the client has been handed of request r.
StreamOf(r) ==
  LET batches == InOrder(received, {b \in ToSet(received) : r \in DOMAIN b})
  IN  [i \in 1..Len(batches) |->
         [source |-> r, n |-> batches[i][r].n, final |-> batches[i][r].final]]

Service == INSTANCE StreamService
             WITH Readers <- Requests, streams <- [r \in Requests |-> StreamOf(r)]

\* The two loops and their queues together are a stream service: what the callback is
\* handed of a request only grows, by its own outputs, in order, up to the final one.
StreamsBack == Service!Spec

\* When Reload returns to a lone client the engine is loaded, and when Unload
\* returns it is not (L66, L89).
SynchronousCallsTakeEffect ==
  [][\A c \in Callers : callPc[c] = "wait" /\ callPc'[c] = "idle" =>
        loaded = (call[c].kind = "kReloadEngine")]_vars

\* Every call of a lone client returns (Reload and Unload wait for the background
\* thread), unless the engine is told to exit or the background thread has failed.
\* With two clients it does not hold: they sleep on one condition variable with
\* different predicates, and notify_one may wake the wrong one (L68, L91, L296, L315).
CallReturns ==
  \A c \in Callers : callPc[c] # "idle" ~> (callPc[c] = "idle" \/ exit_now_ \/ bgPc = "crashed")

\* Every request the engine has taken is eventually answered to the client with a
\* final output, also when it is aborted or the engine is reset, unloaded or reloaded.
RequestAnswered ==
  \A r \in Requests :
    r \in live ~> \/ exit_now_
                  \/ \E i \in 1..Len(received) : r \in DOMAIN received[i] /\ received[i][r].final

\* terminate() (engine_base.py L657: "Terminate the engine.") returns: both loops end.
TerminateReturns == mainPc # "running" ~> mainPc = "terminated"
=============================================================================
