------------------------ MODULE ThreadedEngineProofs ------------------------
(***************************************************************************)
(* What TLAPS proves about ThreadedEngine, for any number of clients,      *)
(* requests and calls: the type invariant, that neither loop sleeps through*)
(* work, and that the outputs of a request stay in order.                  *)
(***************************************************************************)
EXTENDS ThreadedEngine, QueueFacts

-----------------------------------------------------------------------------
(* The inductive invariant.                                                *)

\* The counters the predicates of the two waits read are the lengths of the queues.
CountersMatch ==
  /\ pending_request_operation_cnt_ = Len(instruction_queue_)
  /\ pending_request_stream_callback_cnt_ = Len(request_stream_callback_inputs_)

\* A loop that sleeps, or is about to, has announced it in its flag.
WaitingAnnounced ==
  /\ bgPc \in {"blocked", "woken"} => engine_waiting_
  /\ scPc \in {"block", "blocked", "woken"} => stream_callback_waiting_

\* Between its test and its sleep the stream-back loop holds the mutex: no output comes in.
NothingPushedMeanwhile == scPc = "block" => request_stream_callback_inputs_ = <<>>

\* Reload, Unload and Reset keep their instruction at the head of the local queue.
InsideInstruction ==
  bgPc \in {"abortAll", "unloadFlag", "unloadNotify", "create", "reloadFlag", "reloadNotify"} =>
    local_instruction_queue # <<>>

IsAdd(ins, r) == ins.kind = "kAddRequest" /\ ins.arg = r

Sending(c, r) == callPc[c] = "enqueue" /\ IsAdd(call[c], r)
Queued(i, r)  == i \in 1..Len(instruction_queue_) /\ IsAdd(instruction_queue_[i], r)
Drained(i, r) == i \in 1..Len(local_instruction_queue) /\ IsAdd(local_instruction_queue[i], r)

\* An AddRequest is under way at one place only, ...
AddedOnce ==
  \A r \in Requests :
    /\ \A c, d \in Callers : Sending(c, r) /\ Sending(d, r) => c = d
    /\ \A i, j \in Nat : Queued(i, r) /\ Queued(j, r) => i = j
    /\ \A i, j \in Nat : Drained(i, r) /\ Drained(j, r) => i = j
    /\ \A c \in Callers, i \in Nat : Sending(c, r) => ~Queued(i, r) /\ ~Drained(i, r)
    /\ \A i, j \in Nat : Queued(i, r) => ~Drained(j, r)

\* ... of a request that has been submitted ...
Pending(r) ==
  \/ \E c \in Callers : Sending(c, r)
  \/ \E i \in Nat : Queued(i, r) \/ Drained(i, r)

AddsSubmitted == \A r \in Requests : Pending(r) => r \in submitted

\* ... and that the engine does not know yet.
AddsUnknown ==
  \A r \in Requests : r \notin submitted \/ Pending(r) => emitted[r] = 0 /\ r \notin live

\* A request in the engine has an output to come.
LiveMayEmit == \A r \in live : emitted[r] < MaxOutputs

AddInv == AddedOnce /\ AddsSubmitted /\ AddsUnknown /\ LiveMayEmit

\* The callback wrapper carries at most one batch, and the stream-back loop drains the
\* vector only after it has delivered what it drained before.
OneBatch == outbox = <<>> \/ Len(outbox) = 1

DeliveredFirst == scPc # "deliver" => local_request_stream_callback_inputs = <<>>

SleepInv ==
  /\ CountersMatch
  /\ WaitingAnnounced
  /\ NothingPushedMeanwhile
  /\ NoLostInstruction
  /\ NoLostOutput

PathInv == OneBatch /\ DeliveredFirst /\ OutputsInOrder

IInv == TypeOK /\ InsideInstruction /\ AddInv /\ SleepInv /\ PathInv

-----------------------------------------------------------------------------
\* What Emit puts into the outbox is one batch of outputs, and no request exceeds
\* MaxOutputs, as long as each of those that emit has an output to come.
LEMMA EmitType ==
  ASSUME NEW S \in SUBSET Requests, NEW F \in SUBSET S,
         emitted \in [Requests -> 0..MaxOutputs],
         \A r \in S : emitted[r] < MaxOutputs,
         Emit(S, F)
  PROVE  /\ outbox' \in Seq(Batch)
         /\ emitted' \in [Requests -> 0..MaxOutputs]
         /\ \A r \in Requests : emitted'[r] = IF r \in S THEN emitted[r] + 1 ELSE emitted[r]
<1> DEFINE b == [r \in S |-> [n |-> emitted[r] + 1, final |-> r \in F]]
<1>1. ASSUME NEW r \in S PROVE emitted[r] + 1 \in 1..MaxOutputs
  BY ConstantsAssumption
<1>2. b \in [S -> Output]
  BY <1>1 DEF Output
<1>3. b \in Batch
  BY <1>2 DEF Batch
<1>4. outbox' = <<b>>
  BY DEF Emit
<1>5. outbox' \in Seq(Batch)
  BY <1>3, <1>4
<1>6. \A r \in Requests : emitted'[r] = IF r \in S THEN emitted[r] + 1 ELSE emitted[r]
  BY DEF Emit
<1>7. emitted' \in [Requests -> 0..MaxOutputs]
  BY <1>1, ConstantsAssumption DEF Emit
<1> QED BY <1>5, <1>6, <1>7

\* What the clients send are instructions.
LEMMA InstructionType ==
  /\ \A r \in Requests : /\ [kind |-> "kAddRequest", arg |-> r] \in Instruction
                         /\ [kind |-> "kAbortRequest", arg |-> r] \in Instruction
  /\ \A cfg \in Configs : [kind |-> "kReloadEngine", arg |-> cfg] \in Instruction
  /\ [kind |-> "kUnloadEngine", arg |-> NoArg] \in Instruction
  /\ [kind |-> "kResetEngine", arg |-> NoArg] \in Instruction
  /\ [kind |-> "kDebugCallFunc", arg |-> NoArg] \in Instruction
  BY DEF Instruction

\* The argument of an AddRequest or AbortRequest is a request.
LEMMA RequestArgument ==
  ASSUME NEW ins \in Instruction, ins.kind \in {"kAddRequest", "kAbortRequest"}
  PROVE  ins.arg \in Requests
  BY DEF Instruction

\* The initial state satisfies the inductive invariant.
LEMMA InitIInv == Init => IInv
<1> SUFFICES ASSUME Init PROVE IInv
  OBVIOUS
<1>1. TypeOK
  <2>1. QueueTypeOK /\ StreamTypeOK
    BY DEF Init, QueueTypeOK, StreamTypeOK
  <2>2. EngineTypeOK
    BY ConstantsAssumption DEF Init, EngineTypeOK
  <2>3. BgTypeOK /\ ScTypeOK
    BY DEF Init, BgTypeOK, ScTypeOK
  <2>4. CallTypeOK
    BY ConstantsAssumption, InstructionType DEF Init, CallTypeOK
  <2>5. ExitTypeOK
    BY DEF Init, ExitTypeOK
  <2>6. FlagsOK
    BY DEF Init, FlagsOK
  <2> QED BY <2>1, <2>2, <2>3, <2>4, <2>5, <2>6 DEF TypeOK
<1>2. CountersMatch /\ WaitingAnnounced /\ NothingPushedMeanwhile /\ InsideInstruction
  BY DEF Init, CountersMatch, WaitingAnnounced, NothingPushedMeanwhile, InsideInstruction
<1>3. \A c \in Callers, r \in Requests : ~Sending(c, r)
  BY DEF Init, Sending
<1>4. \A i \in Nat, r \in Requests : ~Queued(i, r) /\ ~Drained(i, r)
  BY DEF Init, Queued, Drained
<1>5. AddedOnce /\ AddsSubmitted /\ AddsUnknown
  BY <1>3, <1>4 DEF Init, AddedOnce, AddsSubmitted, AddsUnknown, Pending
<1>6. LiveMayEmit /\ NoLostInstruction /\ NoLostOutput
  BY DEF Init, LiveMayEmit, NoLostInstruction, NoLostOutput
<1>7. OneBatch /\ DeliveredFirst
  BY DEF Init, OneBatch, DeliveredFirst
<1>8. OutputsInOrder
  <2>1. Len(Path) = 0
    BY DEF Init, Path
  <2>2. \A r \in Requests : PlacesOf(r, Path) = {} /\ emitted[r] = 0
    BY <2>1 DEF Init, PlacesOf
  <2> QED BY <2>2 DEF OutputsInOrder
<1> QED BY <1>1, <1>2, <1>5, <1>6, <1>7, <1>8 DEF IInv, AddInv, SleepInv, PathInv

-----------------------------------------------------------------------------
(* Which actions touch which variables.                                    *)

USE DEF vars, queueVars, streamVars, flagVars, engineVars, bgVars, scVars, callVars, exitVars
USE DEF Next, ClientCall, ClientStep, Background, StreamBack, Terminate, StartReload,
        StartUnload, StartReset, StartAddRequest, StartAbortRequest, StartDebugCall, Start,
        Enqueue, NotifyLoop, AwaitFinished, LoopTest, DrainInstructions, SleepOnInstructions,
        FailNotLoaded, ExecAddRequest, ExecAbortRequest, ExecDebugCall, BeginAbortAll,
        AbortOneOfAll, FinishReset, DestroyEngine, SetUnloadFinished, NotifyUnloaded,
        CreateEngine, SetReloadFinished, NotifyReloaded, StepEngine, StepQuietly, PushOutputs,
        NotifyOutputs,
        StreamLoopTest, DrainOutputs, FindNoOutputs, SleepOnOutputs, DeliverOutputs, SetExitNow,
        ExitNotifyBackground, ExitNotifyStream, JoinBackground, JoinStream, SpuriousWakeup

\* The instruction queue: filled by Enqueue, emptied by DrainInstructions.
LEMMA QueueFrame ==
  ASSUME [Next]_vars,
         \A c \in Callers : ~Enqueue(c), ~DrainInstructions
  PROVE  UNCHANGED <<instruction_queue_, pending_request_operation_cnt_>>
  OBVIOUS

\* The vector of outputs: filled by PushOutputs, emptied by DrainOutputs.
LEMMA StreamFrame ==
  ASSUME [Next]_vars,
         ~PushOutputs, ~DrainOutputs
  PROVE  UNCHANGED <<request_stream_callback_inputs_, pending_request_stream_callback_cnt_>>
  OBVIOUS

\* The engine's requests and outputs: the actions that call into the engine.
LEMMA EngineFrame ==
  ASSUME [Next]_vars,
         ~ExecAddRequest, ~ExecAbortRequest, ~AbortOneOfAll, ~StepEngine
  PROVE  UNCHANGED <<live, emitted>>
  OBVIOUS

\* The outputs on their way through the callback wrapper.
LEMMA OutboxFrame ==
  ASSUME [Next]_vars,
         ~ExecAddRequest, ~ExecAbortRequest, ~AbortOneOfAll, ~StepEngine, ~PushOutputs
  PROVE  UNCHANGED <<outbox>>
  OBVIOUS

\* The drained instructions: the ends of the instructions.
LEMMA LocalFrame ==
  ASSUME [Next]_vars,
         ~DrainInstructions, ~ExecAddRequest, ~ExecAbortRequest, ~ExecDebugCall,
         ~FinishReset, ~NotifyUnloaded, ~NotifyReloaded
  PROVE  UNCHANGED <<local_instruction_queue>>
  OBVIOUS

\* The drained outputs and what the client has received.
LEMMA DeliveryFrame ==
  ASSUME [Next]_vars,
         ~DrainOutputs, ~DeliverOutputs
  PROVE  UNCHANGED <<local_request_stream_callback_inputs, received>>
  OBVIOUS

\* The flags: the actions that announce sleep, completion, notification or exit.
LEMMA FlagsFrame ==
  ASSUME [Next]_vars,
         \A c \in Callers : ~StartReload(c) /\ ~StartUnload(c),
         ~DrainInstructions, ~SleepOnInstructions, ~DestroyEngine, ~CreateEngine,
         ~SetUnloadFinished, ~SetReloadFinished,
         ~PushOutputs, ~NotifyOutputs, ~DrainOutputs, ~FindNoOutputs, ~SetExitNow
  PROVE  UNCHANGED <<engine_waiting_, exit_now_, stream_callback_waiting_, reload_finished_,
                   unload_finished_, loaded, bgNotify>>
  OBVIOUS

\* The notification the callback wrapper owes.
LEMMA NotifyFrame ==
  ASSUME [Next]_vars, ~PushOutputs, ~NotifyOutputs
  PROVE  UNCHANGED bgNotify
  OBVIOUS

\* The thread that terminates.
LEMMA MainFrame ==
  ASSUME [Next]_vars,
         ~SetExitNow, ~ExitNotifyBackground, ~ExitNotifyStream, ~JoinBackground,
         ~JoinStream
  PROVE  UNCHANGED <<mainPc>>
  OBVIOUS

\* What a client's call may change.
LEMMA CallFrame ==
  ASSUME [Next]_vars, \A c \in Callers : ~ClientCall(c)
  PROVE  UNCHANGED <<call, callsLeft, submitted>>
  BY SMTT(90)

\* The client threads: only a call makes a client hold an instruction to send.
LEMMA CallersStep ==
  ASSUME CallTypeOK, [Next]_vars, \A c \in Callers : ~ClientCall(c) /\ ~Enqueue(c)
  PROVE  /\ callPc' \in [Callers -> {"idle", "enqueue", "notify", "wait", "blocked"}]
         /\ \A c \in Callers : callPc'[c] = "enqueue" => callPc[c] = "enqueue"
  BY SMTT(90) DEF CallTypeOK, AfterSend, NotifyReloadUnload

\* Reload, Unload and Reset keep their instruction at the head until they are finished.
LEMMA InsideStep ==
  ASSUME InsideInstruction, [Next]_vars
  PROVE  InsideInstruction'
  BY SMTT(30) DEF InsideInstruction, Executing, BgGoto, NextInstruction, NotifyBackground

\* The background loop falls asleep in one place only.
LEMMA BackgroundFallsAsleep ==
  ASSUME [Next]_vars, bgPc # "blocked", bgPc' = "blocked"
  PROVE  SleepOnInstructions
  BY DEF Executing, BgGoto, NextInstruction, NotifyBackground

\* While the background loop sleeps the engine rests and nobody takes back a notification
\* that is due.
LEMMA BackgroundAsleep ==
  ASSUME CallTypeOK, [Next]_vars, bgPc = "blocked", bgPc' = "blocked"
  PROVE  /\ UNCHANGED <<live, loaded>>
         /\ ~DrainInstructions
         /\ \A c \in Callers : callPc[c] = "notify" => callPc'[c] = "notify"
         /\ mainPc = "notifyBg" => mainPc' = "notifyBg"
         /\ \/ UNCHANGED exit_now_
            \/ mainPc' = "notifyBg"
  BY DEF Executing, BgGoto, NextInstruction, NotifyBackground, NotifyReloadUnload, CallTypeOK

\* The stream-back loop falls asleep in one place only.
LEMMA StreamFallsAsleep ==
  ASSUME [Next]_vars, scPc # "blocked", scPc' = "blocked"
  PROVE  SleepOnOutputs
  BY DEF NotifyStream

\* It begins to fall asleep where it finds its predicate false.
LEMMA StreamBeginsToSleep ==
  ASSUME [Next]_vars, scPc # "block", scPc' = "block"
  PROVE  FindNoOutputs
  BY DEF NotifyStream

\* Every step keeps the waiting flags of the two loops announced.
LEMMA WaitingStep ==
  ASSUME FlagsOK, WaitingAnnounced, [Next]_vars
  PROVE  WaitingAnnounced'
<1>1. (bgPc \in {"blocked", "woken"} => engine_waiting_)'
  BY DEF WaitingAnnounced, Executing, BgGoto, NextInstruction, NotifyBackground, FlagsOK
<1>2. (scPc \in {"block", "blocked", "woken"} => stream_callback_waiting_)'
  BY DEF WaitingAnnounced, NotifyStream, FlagsOK
<1> QED BY <1>1, <1>2 DEF WaitingAnnounced

\* The program counters of the two loops.
LEMMA LoopPcStep ==
  ASSUME TypeOK, [Next]_vars
  PROVE  /\ bgPc' \in {"top", "acquire", "blocked", "woken", "exec", "abortAll", "unloadFlag",
                       "unloadNotify", "create", "reloadFlag", "reloadNotify", "done", "crashed"}
         /\ scPc' \in {"top", "acquire", "block", "blocked", "woken", "deliver", "done"}
<1>1. bgPc' \in {"top", "acquire", "blocked", "woken", "exec", "abortAll", "unloadFlag",
                 "unloadNotify", "create", "reloadFlag", "reloadNotify", "done", "crashed"}
  BY SMTT(30), SMTT(60) DEF TypeOK, BgTypeOK, BgGoto, NextInstruction, NotifyBackground
<1>2. scPc' \in {"top", "acquire", "block", "blocked", "woken", "deliver", "done"}
  BY DEF TypeOK, ScTypeOK, NotifyStream
<1> QED BY <1>1, <1>2

\* The stream-back loop holds drained outputs only while it delivers them.
LEMMA DeliveredFirstStep ==
  ASSUME DeliveredFirst, [Next]_vars
  PROVE  DeliveredFirst'
  BY DEF DeliveredFirst, NotifyStream

HIDE DEF Next, ClientCall, ClientStep, Background, StreamBack, Terminate, StartReload,
         StartUnload, StartReset, StartAddRequest, StartAbortRequest, StartDebugCall, Start,
         Enqueue, NotifyLoop, AwaitFinished, LoopTest, DrainInstructions, SleepOnInstructions,
         FailNotLoaded, ExecAddRequest, ExecAbortRequest, ExecDebugCall, BeginAbortAll,
         AbortOneOfAll, FinishReset, DestroyEngine, SetUnloadFinished, NotifyUnloaded,
         CreateEngine, SetReloadFinished, NotifyReloaded, StepEngine, StepQuietly, PushOutputs,
         NotifyOutputs,
         StreamLoopTest, DrainOutputs, FindNoOutputs, SleepOnOutputs, DeliverOutputs, SetExitNow,
         ExitNotifyBackground, ExitNotifyStream, JoinBackground, JoinStream, SpuriousWakeup

-----------------------------------------------------------------------------
(* Every step preserves the types.                                         *)

\* Every step keeps the flags Boolean.
LEMMA FlagsStep ==
  ASSUME FlagsOK, [Next]_vars
  PROVE  FlagsOK'
<1> USE DEF FlagsOK
<1>1. ASSUME NEW c \in Callers, StartReload(c) \/ StartUnload(c) PROVE FlagsOK'
  BY <1>1, Zenon DEF StartReload, StartUnload, Start
<1>2. CASE DrainInstructions \/ SleepOnInstructions
  BY <1>2, Zenon DEF DrainInstructions, SleepOnInstructions
<1>3. CASE DestroyEngine \/ SetUnloadFinished
  BY <1>3, Zenon DEF DestroyEngine, SetUnloadFinished, BgGoto
<1>4. CASE CreateEngine \/ SetReloadFinished
  BY <1>4, Zenon DEF CreateEngine, SetReloadFinished, BgGoto
<1>5. CASE PushOutputs \/ NotifyOutputs
  BY <1>5, Zenon DEF PushOutputs, NotifyOutputs
<1>6. CASE DrainOutputs \/ FindNoOutputs
  BY <1>6, Zenon DEF DrainOutputs, FindNoOutputs
<1>7. CASE SetExitNow
  BY <1>7, Zenon DEF SetExitNow
<1>8. CASE UNCHANGED <<engine_waiting_, exit_now_, stream_callback_waiting_, reload_finished_,
                       unload_finished_, loaded, bgNotify>>
  BY <1>8, Zenon
<1> QED BY <1>1, <1>2, <1>3, <1>4, <1>5, <1>6, <1>7, <1>8, FlagsFrame, Zenon

\* A call: the client was idle and now holds an instruction to send; only an AddRequest,
\* of a request that was not submitted, counts as a submission.
LEMMA ClientCallStep ==
  ASSUME CallTypeOK, NEW c \in Callers, ClientCall(c)
  PROVE  /\ callPc[c] = "idle" /\ callPc' = [callPc EXCEPT ![c] = "enqueue"]
         /\ callsLeft[c] > 0 /\ callsLeft' = [callsLeft EXCEPT ![c] = @ - 1]
         /\ \E ins \in Instruction :
              /\ call' = [call EXCEPT ![c] = ins]
              /\ \/ ins.kind # "kAddRequest" /\ submitted' = submitted
                 \/ /\ ins.kind = "kAddRequest" /\ ins.arg \in Requests \ submitted
                    /\ submitted' = submitted \cup {ins.arg}
         /\ UNCHANGED <<instruction_queue_, pending_request_operation_cnt_, engine_waiting_,
                        streamVars, engineVars, bgVars, scVars, exitVars>>
<1>1. CASE StartReload(c)
  BY <1>1, InstructionType DEF StartReload, Start
<1>2. CASE StartUnload(c)
  BY <1>2, InstructionType DEF StartUnload, Start
<1>3. CASE StartReset(c)
  BY <1>3, InstructionType DEF StartReset, Start
<1>4. CASE StartAddRequest(c)
  BY <1>4, InstructionType DEF StartAddRequest, Start
<1>5. CASE StartAbortRequest(c)
  <2>1. PICK r \in submitted : Start(c, [kind |-> "kAbortRequest", arg |-> r])
    BY <1>5 DEF StartAbortRequest
  <2>2. r \in Requests /\ [kind |-> "kAbortRequest", arg |-> r] \in Instruction
    BY InstructionType DEF CallTypeOK
  <2> QED BY <1>5, <2>1, <2>2 DEF StartAbortRequest, Start
<1>6. CASE StartDebugCall(c)
  BY <1>6, InstructionType DEF StartDebugCall, Start
<1> QED BY <1>1, <1>2, <1>3, <1>4, <1>5, <1>6 DEF ClientCall

\* What a step does to the drained instructions: nothing, drop the first, or drain the queue.
LEMMA LocalStep ==
  ASSUME [Next]_vars, InsideInstruction
  PROVE  \/ UNCHANGED local_instruction_queue
         \/ /\ local_instruction_queue # <<>>
            /\ local_instruction_queue' = Tail(local_instruction_queue)
         \/ DrainInstructions
<1>1. CASE ExecAddRequest \/ ExecAbortRequest \/ ExecDebugCall
  BY <1>1 DEF ExecAddRequest, ExecAbortRequest, ExecDebugCall, Executing, NextInstruction
<1>2. CASE FinishReset \/ NotifyUnloaded \/ NotifyReloaded
  BY <1>2 DEF FinishReset, NotifyUnloaded, NotifyReloaded, NextInstruction, InsideInstruction
<1> QED BY <1>1, <1>2, LocalFrame

\* Executing an instruction: it is at the head of the drained ones, which lose it.
LEMMA PopType ==
  ASSUME local_instruction_queue \in Seq(Instruction), local_instruction_queue # <<>>,
         local_instruction_queue' = Tail(local_instruction_queue)
  PROVE  /\ Head(local_instruction_queue) \in Instruction
         /\ local_instruction_queue' \in Seq(Instruction)
         /\ Len(local_instruction_queue') = Len(local_instruction_queue) - 1
         /\ \A i \in 1..Len(local_instruction_queue') :
              local_instruction_queue'[i] = local_instruction_queue[i + 1]
  OBVIOUS

\* What a step does to the engine: nothing; or take the request whose AddRequest it
\* executes; or emit outputs of requests that it holds or whose AddRequest it executes.
LEMMA EngineStep ==
  ASSUME TypeOK, AddInv, [Next]_vars
  PROVE  \/ UNCHANGED <<emitted, live>> /\ outbox' \in {outbox, <<>>}
         \/ \E r \in Requests :
              /\ Drained(1, r)
              /\ local_instruction_queue' = Tail(local_instruction_queue)
              /\ UNCHANGED <<emitted, outbox>>
              /\ live' = live \cup {r}
         \/ \E S \in SUBSET Requests : \E F \in SUBSET S :
              /\ outbox = <<>>
              /\ Emit(S, F)
              /\ UNCHANGED <<received, local_request_stream_callback_inputs,
                             request_stream_callback_inputs_>>
              /\ S \ F \subseteq MayContinue
              /\ live' = live \ F
              /\ \A r \in S :
                   /\ emitted[r] < MaxOutputs
                   /\ \/ r \in live
                      \/ /\ Drained(1, r)
                         /\ local_instruction_queue' = Tail(local_instruction_queue)
<1> USE DEF AddInv
<1>0. ASSUME ExecAddRequest \/ ExecAbortRequest \/ AbortOneOfAll \/ StepEngine
      PROVE  /\ outbox = <<>>
             /\ UNCHANGED <<received, local_request_stream_callback_inputs,
                            request_stream_callback_inputs_>>
  BY <1>0 DEF ExecAddRequest, ExecAbortRequest, AbortOneOfAll, StepEngine, Executing, BgGoto,
              OutOfCallback
<1>1. CASE ExecAddRequest
  <2>1. /\ local_instruction_queue \in Seq(Instruction) /\ local_instruction_queue # <<>>
        /\ Head(local_instruction_queue).kind = "kAddRequest"
        /\ local_instruction_queue' = Tail(local_instruction_queue)
    BY <1>1 DEF ExecAddRequest, Executing, NextInstruction, TypeOK, BgTypeOK
  <2>2. Arg \in Requests
    BY <2>1, PopType, RequestArgument DEF Arg
  <2>3. Drained(1, Arg)
    BY <2>1 DEF Drained, IsAdd, Arg
  <2>4. emitted[Arg] = 0 /\ Arg \notin live
    BY <2>2, <2>3 DEF AddsUnknown, Pending
  <2>5. CASE live' = live \cup {Arg} /\ UNCHANGED <<emitted, outbox>>
    BY <2>1, <2>2, <2>3, <2>5
  <2>6. CASE Emit({Arg}, {Arg}) /\ UNCHANGED live
    <3>1. emitted[Arg] < MaxOutputs
      BY <2>4, ConstantsAssumption
    <3>2. {Arg} \in SUBSET Requests /\ live' = live \ {Arg} /\ {Arg} \ {Arg} \subseteq MayContinue
      BY <2>2, <2>4, <2>6
    <3> QED BY <1>0, <1>1, <2>1, <2>3, <2>6, <3>1, <3>2
  <2> QED BY <1>1, <2>5, <2>6 DEF ExecAddRequest
<1>2. CASE ExecAbortRequest
  <2>1. CASE loaded /\ Arg \in live
    <3>1. Emit({Arg}, {Arg}) /\ live' = live \ {Arg}
      BY <1>2, <2>1 DEF ExecAbortRequest
    <3>2. /\ {Arg} \in SUBSET Requests /\ emitted[Arg] < MaxOutputs
          /\ {Arg} \ {Arg} \subseteq MayContinue
      BY <2>1 DEF LiveMayEmit, TypeOK, EngineTypeOK
    <3> QED BY <1>0, <1>2, <2>1, <3>1, <3>2
  <2>2. CASE ~(loaded /\ Arg \in live)
    BY <1>2, <2>2 DEF ExecAbortRequest
  <2> QED BY <2>1, <2>2
<1>3. CASE AbortOneOfAll
  <2>1. PICK r \in live : Emit({r}, {r}) /\ live' = live \ {r}
    BY <1>3 DEF AbortOneOfAll
  <2>2. {r} \in SUBSET Requests /\ emitted[r] < MaxOutputs /\ {r} \ {r} \subseteq MayContinue
    BY DEF LiveMayEmit, TypeOK, EngineTypeOK
  <2> QED BY <1>0, <1>3, <2>1, <2>2
<1>4. CASE StepEngine
  <2>1. PICK S \in (SUBSET live) \ {{}} : \E F \in SUBSET S :
           S \ F \subseteq MayContinue /\ Emit(S, F) /\ live' = live \ F
    BY <1>4 DEF StepEngine
  <2>2. S \in SUBSET Requests /\ \A r \in S : r \in live /\ emitted[r] < MaxOutputs
    BY DEF LiveMayEmit, TypeOK, EngineTypeOK
  <2> QED BY <1>0, <1>4, <2>1, <2>2
<1>5. CASE PushOutputs
  BY <1>5 DEF PushOutputs
<1> QED BY <1>1, <1>2, <1>3, <1>4, <1>5, EngineFrame, OutboxFrame

\* Every step preserves the type invariant.
LEMMA TypeStep ==
  ASSUME IInv, [Next]_vars
  PROVE  TypeOK'
<1> USE DEF IInv, TypeOK
<1>1. FlagsOK'
  BY FlagsStep
<1>2. QueueTypeOK'
  <2>1. ASSUME NEW c \in Callers, Enqueue(c) PROVE QueueTypeOK'
    BY <2>1 DEF Enqueue, QueueTypeOK, CallTypeOK
  <2>2. CASE DrainInstructions
    BY <2>2 DEF DrainInstructions, QueueTypeOK
  <2> QED BY <2>1, <2>2, QueueFrame DEF QueueTypeOK
<1>3. StreamTypeOK'
  <2>1. CASE PushOutputs
    BY <2>1 DEF PushOutputs, StreamTypeOK, BgTypeOK
  <2>2. CASE DrainOutputs
    BY <2>2 DEF DrainOutputs, StreamTypeOK
  <2> QED BY <2>1, <2>2, StreamFrame DEF StreamTypeOK
<1>4. EngineTypeOK' /\ outbox' \in Seq(Batch)
  <2>1. ASSUME NEW S \in SUBSET Requests, NEW F \in SUBSET S, Emit(S, F), live' = live \ F,
               \A r \in S : emitted[r] < MaxOutputs
        PROVE  EngineTypeOK' /\ outbox' \in Seq(Batch)
    BY <2>1, EmitType DEF EngineTypeOK
  <2>2. CASE UNCHANGED <<emitted, live>> /\ outbox' \in {outbox, <<>>}
    <3>1. <<>> \in Seq(Batch) /\ outbox \in Seq(Batch)
      BY DEF BgTypeOK
    <3> QED BY <2>2, <3>1, Zenon DEF EngineTypeOK
  <2>3. CASE UNCHANGED <<emitted, outbox>> /\ \E r \in Requests : live' = live \cup {r}
    BY <2>3 DEF EngineTypeOK, BgTypeOK
  <2> QED BY <2>1, <2>2, <2>3, EngineStep, Zenon
<1>5. local_instruction_queue' \in Seq(Instruction)
  BY LocalStep, PopType DEF BgTypeOK, DrainInstructions, QueueTypeOK
<1>6. /\ bgPc' \in {"top", "acquire", "blocked", "woken", "exec", "abortAll", "unloadFlag",
                    "unloadNotify", "create", "reloadFlag", "reloadNotify", "done", "crashed"}
      /\ scPc' \in {"top", "acquire", "block", "blocked", "woken", "deliver", "done"}
  BY LoopPcStep
<1>7. mainPc' \in {"running", "notifyBg", "notifySc", "joinBg", "joinSc", "terminated"}
  BY MainFrame DEF ExitTypeOK, SetExitNow, ExitNotifyBackground, ExitNotifyStream,
                   JoinBackground, JoinStream
<1>8. /\ local_request_stream_callback_inputs' \in Seq(Batch)
      /\ received' \in Seq(Batch)
  <2>1. CASE DrainOutputs
    BY <2>1 DEF DrainOutputs, ScTypeOK, StreamTypeOK
  <2>2. CASE DeliverOutputs
    BY <2>2 DEF DeliverOutputs, ScTypeOK
  <2> QED BY <2>1, <2>2, DeliveryFrame DEF ScTypeOK
<1>9. CallTypeOK'
  <2>1. ASSUME NEW c \in Callers, ClientCall(c) PROVE CallTypeOK'
    BY <2>1, ClientCallStep, ConstantsAssumption DEF CallTypeOK
  <2>2. ASSUME NEW c \in Callers, Enqueue(c) PROVE CallTypeOK'
    BY <2>2 DEF Enqueue, CallTypeOK, AfterSend
  <2>3. CASE \A c \in Callers : ~ClientCall(c) /\ ~Enqueue(c)
    BY <2>3, CallersStep, CallFrame DEF CallTypeOK
  <2> QED BY <2>1, <2>2, <2>3
<1> QED BY <1>1, <1>2, <1>3, <1>4, <1>5, <1>6, <1>7, <1>8, <1>9
        DEF BgTypeOK, ScTypeOK, ExitTypeOK

-----------------------------------------------------------------------------
(* No step lets a loop sleep through work.                                 *)

\* While the stream-back loop sleeps it drains nothing, and a notification that is due
\* stays due.
LEMMA StreamAsleep ==
  ASSUME FlagsOK, [Next]_vars, scPc = "blocked", scPc' = "blocked"
  PROVE  ~DrainOutputs /\ ~NotifyOutputs
  BY DEF DrainOutputs, NotifyOutputs, NotifyStream

\* Every step keeps the counters equal to the lengths of the queues.
LEMMA CountersStep ==
  ASSUME TypeOK, CountersMatch, [Next]_vars
  PROVE  CountersMatch'
<1> USE DEF TypeOK, QueueTypeOK, StreamTypeOK, CallTypeOK, BgTypeOK, CountersMatch
<1>1. pending_request_operation_cnt_' = Len(instruction_queue_')
  <2>1. ASSUME NEW c \in Callers, Enqueue(c)
        PROVE  pending_request_operation_cnt_' = Len(instruction_queue_')
    BY <2>1 DEF Enqueue
  <2>2. CASE DrainInstructions
    BY <2>2 DEF DrainInstructions
  <2> QED BY <2>1, <2>2, QueueFrame
<1>2. pending_request_stream_callback_cnt_' = Len(request_stream_callback_inputs_')
  <2>1. CASE PushOutputs
    BY <2>1 DEF PushOutputs
  <2>2. CASE DrainOutputs
    BY <2>2 DEF DrainOutputs
  <2> QED BY <2>1, <2>2, StreamFrame
<1> QED BY <1>1, <1>2

\* Every step preserves what the two sleepers need: whoever adds work to a queue also takes
\* on the duty to notify, and gives it up only by waking the sleeper.
LEMMA SleepStep ==
  ASSUME TypeOK, SleepInv, [Next]_vars
  PROVE  SleepInv'
<1> USE DEF SleepInv
<1>1. CountersMatch' /\ WaitingAnnounced'
  BY CountersStep, WaitingStep DEF TypeOK
<1>2. NothingPushedMeanwhile'
  <2>1. CASE FindNoOutputs
    <3>1. ~(pending_request_stream_callback_cnt_ > 0) /\ UNCHANGED request_stream_callback_inputs_
      BY <2>1 DEF FindNoOutputs, OutputsToDeliver
    <3> QED BY <3>1 DEF CountersMatch, TypeOK, StreamTypeOK, NothingPushedMeanwhile
  <2>2. CASE scPc = "block" /\ scPc' = "block"
    BY <2>2, StreamFrame DEF NothingPushedMeanwhile, PushOutputs, DrainOutputs, StreamMutexFree
  <2> QED BY <2>1, <2>2, StreamBeginsToSleep DEF NothingPushedMeanwhile
<1>3. NoLostInstruction'
  <2>1. CASE SleepOnInstructions
    <3>1. ~WorkToDo /\ UNCHANGED <<instruction_queue_, exit_now_, loaded, live>>
      BY <2>1 DEF SleepOnInstructions
    <3>2. instruction_queue_ = <<>>
      BY <3>1 DEF WorkToDo, CountersMatch, TypeOK, QueueTypeOK
    <3>3. ~exit_now_ /\ (loaded => live = {})
      BY <3>1 DEF WorkToDo
    <3> QED BY <3>1, <3>2, <3>3 DEF NoLostInstruction
  <2>2. CASE bgPc = "blocked" /\ bgPc' = "blocked"
    <3>1. /\ UNCHANGED <<live, loaded>>
          /\ ~DrainInstructions
          /\ \A c \in Callers : callPc[c] = "notify" => callPc'[c] = "notify"
          /\ mainPc = "notifyBg" => mainPc' = "notifyBg"
          /\ UNCHANGED exit_now_ \/ mainPc' = "notifyBg"
      BY <2>2, BackgroundAsleep DEF TypeOK
    <3>2. instruction_queue_' # <<>> => \E c \in Callers : callPc'[c] = "notify"
      <4>1. ASSUME NEW c \in Callers, Enqueue(c) PROVE callPc'[c] = "notify"
        BY <2>2, <4>1 DEF Enqueue, WaitingAnnounced, TypeOK, CallTypeOK
      <4>2. CASE UNCHANGED instruction_queue_
        BY <2>2, <3>1, <4>2 DEF NoLostInstruction
      <4> QED BY <3>1, <4>1, <4>2, QueueFrame
    <3>3. exit_now_' => mainPc' = "notifyBg"
      BY <2>2, <3>1 DEF NoLostInstruction
    <3> QED BY <2>2, <3>1, <3>2, <3>3 DEF NoLostInstruction
  <2> QED BY <2>1, <2>2, BackgroundFallsAsleep DEF NoLostInstruction
<1>4. NoLostOutput'
  <2>1. CASE SleepOnOutputs
    BY <2>1 DEF SleepOnOutputs, NothingPushedMeanwhile, NoLostOutput
  <2>2. CASE scPc = "blocked" /\ scPc' = "blocked"
    <3>1. CASE PushOutputs
      BY <2>2, <3>1, Zenon DEF PushOutputs, WaitingAnnounced, NoLostOutput
    <3>2. CASE ~PushOutputs
      <4>1. UNCHANGED <<request_stream_callback_inputs_, bgNotify>>
        BY <2>2, <3>2, StreamAsleep, StreamFrame, NotifyFrame DEF TypeOK
      <4> QED BY <2>2, <4>1 DEF NoLostOutput
    <3> QED BY <3>1, <3>2
  <2> QED BY <2>1, <2>2, StreamFallsAsleep DEF NoLostOutput
<1> QED BY <1>1, <1>2, <1>3, <1>4

-----------------------------------------------------------------------------
(* Every step leaves an AddRequest in one place, before the engine.        *)

\* A call puts an AddRequest into the hands of the caller, of a new request.
LEMMA AddsCalled ==
  ASSUME TypeOK, NEW c \in Callers, ClientCall(c)
  PROVE  \A r \in Requests :
           /\ ~Sending(c, r) /\ (Sending(c, r)' => r \notin submitted /\ r \in submitted')
           /\ \A d \in Callers \ {c} : Sending(d, r)' = Sending(d, r)
           /\ \A i \in Nat : Queued(i, r)' = Queued(i, r) /\ Drained(i, r)' = Drained(i, r)
<1>1. /\ callPc[c] = "idle" /\ callPc' = [callPc EXCEPT ![c] = "enqueue"]
      /\ UNCHANGED <<instruction_queue_, local_instruction_queue>>
  BY ClientCallStep DEF TypeOK
<1>2. PICK ins \in Instruction :
        /\ call' = [call EXCEPT ![c] = ins]
        /\ \/ ins.kind # "kAddRequest" /\ submitted' = submitted
           \/ /\ ins.kind = "kAddRequest" /\ ins.arg \in Requests \ submitted
              /\ submitted' = submitted \cup {ins.arg}
  BY ClientCallStep DEF TypeOK
<1>3. ASSUME NEW r \in Requests
      PROVE  ~Sending(c, r) /\ (Sending(c, r)' => r \notin submitted /\ r \in submitted')
  BY <1>1, <1>2 DEF Sending, IsAdd, TypeOK, CallTypeOK
<1>4. ASSUME NEW r \in Requests, NEW d \in Callers \ {c}
      PROVE  Sending(d, r)' = Sending(d, r)
  BY <1>1, <1>2 DEF Sending, TypeOK, CallTypeOK
<1>5. ASSUME NEW r \in Requests, NEW i \in Nat
      PROVE  Queued(i, r)' = Queued(i, r) /\ Drained(i, r)' = Drained(i, r)
  BY <1>1 DEF Queued, Drained
<1> QED BY <1>3, <1>4, <1>5

\* Enqueue moves it to the end of the queue.
LEMMA AddsEnqueued ==
  ASSUME TypeOK, NEW c \in Callers, Enqueue(c)
  PROVE  \A r \in Requests :
           /\ ~Sending(c, r)'
           /\ \A d \in Callers \ {c} : Sending(d, r)' = Sending(d, r)
           /\ \A i \in Nat : Queued(i, r)' =>
                \/ Queued(i, r)
                \/ i = Len(instruction_queue_) + 1 /\ Sending(c, r)
           /\ \A i \in Nat : Drained(i, r)' = Drained(i, r)
<1> USE DEF TypeOK, CallTypeOK, QueueTypeOK
<1>1. callPc' = [callPc EXCEPT ![c] = IF engine_waiting_ THEN "notify" ELSE AfterSend(c)]
  BY DEF Enqueue
<1>2. callPc'[c] # "enqueue" /\ \A d \in Callers \ {c} : callPc'[d] = callPc[d]
  BY <1>1 DEF AfterSend
<1>3. /\ callPc[c] = "enqueue" /\ instruction_queue_' = Append(instruction_queue_, call[c])
      /\ UNCHANGED <<call, local_instruction_queue>>
  BY DEF Enqueue
<1>4. ASSUME NEW r \in Requests
      PROVE  ~Sending(c, r)' /\ \A d \in Callers \ {c} : Sending(d, r)' = Sending(d, r)
  BY <1>2, <1>3 DEF Sending
<1>5. ASSUME NEW r \in Requests, NEW i \in Nat, Queued(i, r)', ~Queued(i, r)
      PROVE  i = Len(instruction_queue_) + 1 /\ Sending(c, r)
  BY <1>3, <1>5 DEF Queued, Sending
<1>6. ASSUME NEW r \in Requests, NEW i \in Nat
      PROVE  Drained(i, r)' = Drained(i, r)
  BY <1>3 DEF Drained
<1> QED BY <1>4, <1>5, <1>6

\* Without a call or an Enqueue no client comes to hold an AddRequest.
LEMMA AddsNotSent ==
  ASSUME TypeOK, [Next]_vars, \A c \in Callers : ~ClientCall(c) /\ ~Enqueue(c)
  PROVE  \A r \in Requests, c \in Callers : Sending(c, r)' => Sending(c, r)
  BY CallersStep, CallFrame DEF Sending, TypeOK

\* DrainInstructions moves the AddRequests of the queue to the drained ones.
LEMMA AddsDrained ==
  ASSUME DrainInstructions
  PROVE  \A r \in Requests, i \in Nat : ~Queued(i, r)' /\ Drained(i, r)' = Queued(i, r)
  BY DEF DrainInstructions, Queued, Drained

\* The end of an instruction moves the others one place up.
LEMMA AddsPopped ==
  ASSUME TypeOK, local_instruction_queue # <<>>,
         local_instruction_queue' = Tail(local_instruction_queue)
  PROVE  \A r \in Requests, i \in Nat : Drained(i, r)' => i # 0 /\ Drained(i + 1, r)
<1> SUFFICES ASSUME NEW r \in Requests, NEW i \in Nat, Drained(i, r)'
             PROVE  i # 0 /\ Drained(i + 1, r)
  OBVIOUS
<1>1. i \in 1..Len(local_instruction_queue') /\ IsAdd(local_instruction_queue'[i], r)
  BY DEF Drained, IsAdd
<1> QED BY <1>1, PopType DEF Drained, TypeOK, BgTypeOK

\* What a step without a call or an Enqueue does to the AddRequests under way.
LEMMA AddsMove ==
  ASSUME TypeOK, InsideInstruction, [Next]_vars, \A c \in Callers : ~ClientCall(c) /\ ~Enqueue(c)
  PROVE  \/ \A r \in Requests, i \in Nat : ~Queued(i, r)' /\ Drained(i, r)' = Queued(i, r)
         \/ /\ \A r \in Requests, i \in Nat : Queued(i, r)' = Queued(i, r)
            /\ \/ \A r \in Requests, i \in Nat : Drained(i, r)' = Drained(i, r)
               \/ \A r \in Requests, i \in Nat : Drained(i, r)' => i # 0 /\ Drained(i + 1, r)
<1>1. CASE DrainInstructions
  BY <1>1, AddsDrained
<1>2. CASE ~DrainInstructions
  <2>1. \A r \in Requests, i \in Nat : Queued(i, r)' = Queued(i, r)
    BY <1>2, QueueFrame DEF Queued
  <2>2. CASE UNCHANGED local_instruction_queue
    <3>1. \A r \in Requests, i \in Nat : Drained(i, r)' = Drained(i, r)
      BY <2>2 DEF Drained
    <3> QED BY <2>1, <3>1
  <2>3. CASE /\ local_instruction_queue # <<>>
             /\ local_instruction_queue' = Tail(local_instruction_queue)
    BY <2>1, <2>3, AddsPopped
  <2> QED BY <1>2, <2>2, <2>3, LocalStep
<1> QED BY <1>1, <1>2

\* Every step leaves an AddRequest in one place, and only a call starts one.
LEMMA AddedOnceStep ==
  ASSUME TypeOK, InsideInstruction, AddInv, [Next]_vars
  PROVE  AddedOnce' /\ \A r \in Requests :
           Pending(r)' => Pending(r) \/ (r \notin submitted /\ r \in submitted')
<1> USE DEF AddInv
<1>1. ASSUME NEW c \in Callers, ClientCall(c)
      PROVE  AddedOnce' /\ \A r \in Requests :
               Pending(r)' => Pending(r) \/ (r \notin submitted /\ r \in submitted')
  <2>1. ASSUME NEW r \in Requests, r \notin submitted
        PROVE  /\ \A d \in Callers : ~Sending(d, r)
               /\ \A i \in Nat : ~Queued(i, r) /\ ~Drained(i, r)
    BY <2>1 DEF AddsSubmitted, Pending
  <2>2. AddedOnce'
    BY <1>1, <2>1, AddsCalled DEF AddedOnce
  <2>3. \A r \in Requests : Pending(r)' => Pending(r) \/ (r \notin submitted /\ r \in submitted')
    BY <1>1, AddsCalled DEF Pending
  <2> QED BY <2>2, <2>3
<1>2. ASSUME NEW c \in Callers, Enqueue(c)
      PROVE  AddedOnce' /\ \A r \in Requests : Pending(r)' => Pending(r)
  <2>1. AddedOnce'
    BY <1>2, AddsEnqueued DEF AddedOnce
  <2>2. \A r \in Requests : Pending(r)' => Pending(r)
    BY <1>2, AddsEnqueued DEF Pending
  <2> QED BY <2>1, <2>2
<1>3. CASE \A c \in Callers : ~ClientCall(c) /\ ~Enqueue(c)
  <2>1. \A r \in Requests, c \in Callers : Sending(c, r)' => Sending(c, r)
    BY <1>3, AddsNotSent
  <2>2. AddedOnce'
    BY <1>3, <2>1, AddsMove DEF AddedOnce
  <2>3. \A r \in Requests : Pending(r)' => Pending(r)
    BY <1>3, <2>1, AddsMove DEF Pending
  <2> QED BY <2>2, <2>3
<1> QED BY <1>1, <1>2, <1>3

\* The engine has seen nothing of a request before, and is given it once.
LEMMA AddInvStep ==
  ASSUME TypeOK, InsideInstruction, AddInv, [Next]_vars
  PROVE  AddInv'
<1> USE DEF AddInv
<1>1. AddedOnce'
  BY AddedOnceStep
<1>2. submitted \subseteq submitted'
  BY ClientCallStep, CallFrame DEF TypeOK
<1>3. AddsSubmitted'
  BY <1>2, AddedOnceStep DEF AddsSubmitted
<1>4. ASSUME NEW r \in Requests, Drained(1, r),
             local_instruction_queue' = Tail(local_instruction_queue)
      PROVE  ~Pending(r)' /\ r \in submitted'
  <2>1. local_instruction_queue # <<>> /\ local_instruction_queue' # local_instruction_queue
    BY <1>4 DEF Drained, TypeOK, BgTypeOK
  <2>2. \A c \in Callers : ~ClientCall(c) /\ ~Enqueue(c)
    BY <2>1, ClientCallStep DEF Enqueue, TypeOK
  <2>3. /\ \A c \in Callers : ~Sending(c, r)
        /\ \A i \in Nat : ~Queued(i, r)
        /\ \A i \in Nat : Drained(i, r) => i = 1
    BY <1>4 DEF AddedOnce
  <2>4. \A i \in Nat : ~Drained(i, r)'
    BY <1>4, <2>1, <2>3, AddsPopped
  <2>5. \A i \in Nat : ~Queued(i, r)'
    BY <2>2, <2>3, AddsMove
  <2>6. \A c \in Callers : ~Sending(c, r)'
    BY <2>2, <2>3, AddsNotSent
  <2>7. Pending(r) /\ r \in submitted'
    BY <1>2, <1>4 DEF AddsSubmitted, Pending
  <2> QED BY <2>4, <2>5, <2>6, <2>7 DEF Pending
<1>5. ASSUME NEW r \in Requests, r \notin submitted' \/ Pending(r)'
      PROVE  emitted[r] = 0 /\ r \notin live
  BY <1>2, <1>5, AddedOnceStep DEF AddsUnknown
<1>6. AddsUnknown' /\ LiveMayEmit'
  <2>1. CASE UNCHANGED <<emitted, live>>
    BY <1>5, <2>1 DEF AddsUnknown, LiveMayEmit
  <2>2. ASSUME NEW a \in Requests, Drained(1, a), UNCHANGED emitted, live' = live \cup {a},
               local_instruction_queue' = Tail(local_instruction_queue)
        PROVE  AddsUnknown' /\ LiveMayEmit'
    <3>1. ~Pending(a)' /\ a \in submitted'
      BY <1>4, <2>2
    <3>2. emitted[a] = 0
      BY <2>2 DEF AddsUnknown, Pending
    <3>3. AddsUnknown'
      BY <1>5, <2>2, <3>1 DEF AddsUnknown
    <3>4. LiveMayEmit'
      BY <2>2, <3>2, ConstantsAssumption DEF LiveMayEmit
    <3> QED BY <3>3, <3>4
  <2>3. ASSUME NEW S \in SUBSET Requests, NEW F \in SUBSET S, Emit(S, F),
               S \ F \subseteq MayContinue, live' = live \ F,
               \A r \in S :
                 /\ emitted[r] < MaxOutputs
                 /\ \/ r \in live
                    \/ /\ Drained(1, r)
                       /\ local_instruction_queue' = Tail(local_instruction_queue)
        PROVE  AddsUnknown' /\ LiveMayEmit'
    <3>1. \A r \in Requests : emitted'[r] = IF r \in S THEN emitted[r] + 1 ELSE emitted[r]
      BY <2>3, EmitType DEF TypeOK, EngineTypeOK
    <3>2. ASSUME NEW r \in Requests, r \notin submitted' \/ Pending(r)'
          PROVE  emitted'[r] = 0 /\ r \notin live'
      <4>1. r \notin S
        BY <1>4, <1>5, <2>3, <3>2
      <4> QED BY <1>5, <2>3, <3>1, <3>2, <4>1
    <3>3. ASSUME NEW r \in live' PROVE emitted'[r] < MaxOutputs
      <4>1. r \in live /\ r \notin F /\ r \in Requests
        BY <2>3 DEF TypeOK, EngineTypeOK
      <4> QED BY <2>3, <3>1, <4>1 DEF MayContinue, LiveMayEmit, TypeOK, EngineTypeOK
    <3> QED BY <3>2, <3>3 DEF AddsUnknown, LiveMayEmit
  <2> QED BY <2>1, <2>2, <2>3, EngineStep
<1> QED BY <1>1, <1>3, <1>6

-----------------------------------------------------------------------------
(* Every step keeps the outputs in order.                                  *)

\* The path from engine to client is a sequence of batches.
LEMMA PathType ==
  ASSUME TypeOK
  PROVE  Path \in Seq(Batch)
  BY DEF Path, TypeOK, ScTypeOK, StreamTypeOK, BgTypeOK

\* A sequence of one batch is determined by its head.
LEMMA SingleBatch ==
  ASSUME NEW s \in Seq(Batch), Len(s) = 1
  PROVE  s = <<Head(s)>> /\ Head(s) \in Batch
  OBVIOUS

\* The queues between engine and client only hand batches on: a step that emits nothing
\* leaves the path as it is.
LEMMA PathKept ==
  ASSUME TypeOK, OneBatch, DeliveredFirst, [Next]_vars, outbox' \in {outbox, <<>>}
  PROVE  Path' = Path
<1> USE DEF TypeOK, ScTypeOK, StreamTypeOK, BgTypeOK
<1>1. CASE PushOutputs
  <2>1. /\ outbox = <<Head(outbox)>> /\ Head(outbox) \in Batch
        /\ UNCHANGED <<received, local_request_stream_callback_inputs>>
        /\ request_stream_callback_inputs_' = Append(request_stream_callback_inputs_, Head(outbox))
        /\ outbox' = <<>>
    <3>1. outbox # <<>>
      BY <1>1 DEF PushOutputs
    <3>2. outbox = <<Head(outbox)>> /\ Head(outbox) \in Batch
      BY <3>1, SingleBatch DEF OneBatch
    <3> QED BY <1>1, <3>2 DEF PushOutputs
  <2> DEFINE up == received \o local_request_stream_callback_inputs
  <2>2. up \in Seq(Batch) /\ up' = up
    BY <2>1
  <2>3. (up \o Append(request_stream_callback_inputs_, Head(outbox))) \o <<>>
          = (up \o request_stream_callback_inputs_) \o <<Head(outbox)>>
    <3> HIDE DEF up
    <3> QED BY <2>1, <2>2
  <2> QED BY <2>1, <2>2, <2>3 DEF Path
<1>2. CASE DrainOutputs
  <2>1. /\ local_request_stream_callback_inputs = <<>>
        /\ local_request_stream_callback_inputs' = request_stream_callback_inputs_
        /\ request_stream_callback_inputs_' = <<>>
        /\ UNCHANGED <<received, outbox>>
    BY <1>2 DEF DrainOutputs, DeliveredFirst
  <2> QED BY <2>1 DEF Path
<1>3. CASE DeliverOutputs
  <2>1. /\ received' = received \o local_request_stream_callback_inputs
        /\ local_request_stream_callback_inputs' = <<>>
        /\ UNCHANGED <<request_stream_callback_inputs_, outbox>>
    BY <1>3 DEF DeliverOutputs
  <2> QED BY <2>1 DEF Path
<1>4. CASE ExecAddRequest \/ ExecAbortRequest \/ AbortOneOfAll \/ StepEngine
  BY <1>4 DEF ExecAddRequest, ExecAbortRequest, AbortOneOfAll, StepEngine, Executing, BgGoto,
              OutOfCallback, Path
<1>5. CASE ~PushOutputs /\ ~DrainOutputs /\ ~DeliverOutputs
           /\ ~ExecAddRequest /\ ~ExecAbortRequest /\ ~AbortOneOfAll /\ ~StepEngine
  BY <1>5, StreamFrame, DeliveryFrame, OutboxFrame DEF Path
<1> QED BY <1>1, <1>2, <1>3, <1>4, <1>5

\* Every step keeps the shape of the path's two ends.
LEMMA PathShapeStep ==
  ASSUME TypeOK, AddInv, OneBatch, DeliveredFirst, [Next]_vars
  PROVE  OneBatch' /\ DeliveredFirst'
<1>1. OneBatch'
  <2>1. ASSUME NEW S \in SUBSET Requests, NEW F \in SUBSET S, Emit(S, F)
        PROVE  Len(outbox') = 1
    BY <2>1 DEF Emit
  <2>2. CASE outbox' = outbox \/ outbox' = <<>>
    BY <2>2 DEF OneBatch
  <2> QED BY <2>1, <2>2, EngineStep DEF OneBatch
<1>2. DeliveredFirst'
  BY DeliveredFirstStep
<1> QED BY <1>1, <1>2

\* A request the engine has answered nothing of has no output on the path.
LEMMA NoPlaces ==
  ASSUME TypeOK, OutputsInOrder, NEW r \in Requests, emitted[r] = 0
  PROVE  PlacesOf(r, Path) = {}
<1>1. ASSUME NEW i \in PlacesOf(r, Path) PROVE FALSE
  <2>1. Path[i][r].n <= 0
    BY <1>1 DEF OutputsInOrder
  <2>2. Path[i] \in Batch /\ r \in DOMAIN Path[i]
    BY <1>1, PathType DEF PlacesOf
  <2>3. Path[i][r] \in Output
    BY <2>2 DEF Batch
  <2> QED BY <2>1, <2>3, ConstantsAssumption DEF Output
<1> QED BY <1>1

\* Every step keeps the outputs of each request in order: what the engine emits is the
\* next output of a request that has had no final one.
LEMMA OrderStep ==
  ASSUME TypeOK, AddInv, OneBatch, DeliveredFirst, OutputsInOrder, [Next]_vars
  PROVE  OutputsInOrder'
<1> USE DEF AddInv
<1>1. CASE UNCHANGED <<emitted, live>> /\ outbox' \in {outbox, <<>>}
  BY <1>1, PathKept DEF OutputsInOrder, PlacesOf
<1>2. ASSUME NEW a \in Requests, Drained(1, a), UNCHANGED <<emitted, outbox>>,
             live' = live \cup {a}
      PROVE  OutputsInOrder'
  <2>1. Path' = Path
    BY <1>2, PathKept
  <2>2. PlacesOf(a, Path) = {}
    BY <1>2, NoPlaces DEF AddsUnknown, Pending
  <2> QED BY <1>2, <2>1, <2>2 DEF OutputsInOrder, PlacesOf
<1>3. ASSUME NEW S \in SUBSET Requests, NEW F \in SUBSET S, outbox = <<>>, Emit(S, F),
             UNCHANGED <<received, local_request_stream_callback_inputs,
                         request_stream_callback_inputs_>>,
             live' = live \ F,
             \A r \in S : emitted[r] < MaxOutputs /\ (r \in live \/ Drained(1, r))
      PROVE  OutputsInOrder'
  <2> DEFINE b == [r \in S |-> [n |-> emitted[r] + 1, final |-> r \in F]]
  <2>1. Path' = Append(Path, b)
    <3>1. outbox' = <<b>>
      BY <1>3 DEF Emit
    <3> HIDE DEF b
    <3> QED BY <1>3, <3>1 DEF Path, TypeOK, ScTypeOK, StreamTypeOK
  <2>2. \A r \in Requests : emitted'[r] = IF r \in S THEN emitted[r] + 1 ELSE emitted[r]
    BY <1>3, EmitType DEF TypeOK, EngineTypeOK
  <2>3. \A r \in Requests : emitted[r] \in Nat
    BY ConstantsAssumption DEF TypeOK, EngineTypeOK
  <2>4. /\ Len(Path) \in Nat /\ Len(Path') = Len(Path) + 1
        /\ \A i \in 1..Len(Path) : Path'[i] = Path[i]
        /\ Path'[Len(Path) + 1] = b
    <3> HIDE DEF b
    <3> QED BY <2>1, PathType
  <2>5. \A r \in Requests : PlacesOf(r, Path)' =
           IF r \in S THEN PlacesOf(r, Path) \cup {Len(Path) + 1} ELSE PlacesOf(r, Path)
    BY <2>4 DEF PlacesOf
  <2>6. ASSUME NEW r \in S, NEW i \in PlacesOf(r, Path)
        PROVE  Path[i][r].n <= emitted[r] /\ ~Path[i][r].final
    BY <1>3, <2>6, NoPlaces DEF OutputsInOrder, AddsUnknown, Pending
  <2>7. ASSUME NEW r \in Requests, r \notin S
        PROVE  /\ PlacesOf(r, Path)' = PlacesOf(r, Path) /\ emitted'[r] = emitted[r]
               /\ \A i \in PlacesOf(r, Path) : Path'[i] = Path[i]
               /\ r \in live' => r \in live
    BY <1>3, <2>2, <2>4, <2>5, <2>7 DEF PlacesOf
  <2>8. ASSUME NEW r \in S
        PROVE  /\ PlacesOf(r, Path)' = PlacesOf(r, Path) \cup {Len(Path) + 1}
               /\ emitted'[r] = emitted[r] + 1 /\ emitted[r] \in Nat
               /\ \A i \in PlacesOf(r, Path) : i \in 1..Len(Path) /\ Path'[i] = Path[i]
               /\ Path'[Len(Path) + 1][r].n = emitted[r] + 1
               /\ Path'[Len(Path) + 1][r].final => r \notin live'
    <3>1. r \in Requests /\ Path'[Len(Path) + 1] = b /\ b[r].n = emitted[r] + 1
          /\ b[r].final = (r \in F)
      BY <2>4
    <3>2. b[r].final => r \notin live'
      BY <1>3, <3>1
    <3>3. \A i \in PlacesOf(r, Path) : i \in 1..Len(Path) /\ Path'[i] = Path[i]
      BY <2>4 DEF PlacesOf
    <3> QED BY <2>2, <2>3, <2>5, <3>1, <3>2, <3>3
  <2>9. \A r \in Requests : \A i \in PlacesOf(r, Path) : Path[i][r].n \in Nat
    <3>1. ASSUME NEW r \in Requests, NEW i \in PlacesOf(r, Path) PROVE Path[i][r] \in Output
      BY PathType DEF PlacesOf, Batch
    <3> QED BY <3>1, ConstantsAssumption DEF Output
  <2>10. ASSUME NEW r \in Requests, r \notin S
        PROVE  /\ \A i, j \in PlacesOf(r, Path)' : i < j => Path'[i][r].n < Path'[j][r].n
               /\ \A n \in 1..emitted'[r] : \E i \in PlacesOf(r, Path)' : Path'[i][r].n = n
               /\ \A i \in PlacesOf(r, Path)' :
                    /\ Path'[i][r].n <= emitted'[r]
                    /\ Path'[i][r].final => Path'[i][r].n = emitted'[r] /\ r \notin live'
    BY <2>7, <2>10 DEF OutputsInOrder
  <2>11. ASSUME NEW r \in S
        PROVE  /\ \A i, j \in PlacesOf(r, Path)' : i < j => Path'[i][r].n < Path'[j][r].n
               /\ \A n \in 1..emitted'[r] : \E i \in PlacesOf(r, Path)' : Path'[i][r].n = n
               /\ \A i \in PlacesOf(r, Path)' :
                    /\ Path'[i][r].n <= emitted'[r]
                    /\ Path'[i][r].final => Path'[i][r].n = emitted'[r] /\ r \notin live'
    <3>1. \A i, j \in PlacesOf(r, Path)' : i < j => Path'[i][r].n < Path'[j][r].n
      BY <2>4, <2>6, <2>8, <2>11, <2>9 DEF OutputsInOrder
    <3>2. \A n \in 1..emitted'[r] : \E i \in PlacesOf(r, Path)' : Path'[i][r].n = n
      BY SMTT(30), <2>8, <2>11 DEF OutputsInOrder
    <3>3. \A i \in PlacesOf(r, Path)' :
            /\ Path'[i][r].n <= emitted'[r]
            /\ Path'[i][r].final => Path'[i][r].n = emitted'[r] /\ r \notin live'
      BY <2>6, <2>8, <2>11, <2>9 DEF OutputsInOrder
    <3> QED BY <3>1, <3>2, <3>3
  <2> QED BY <2>10, <2>11 DEF OutputsInOrder
<1> QED BY <1>1, <1>2, <1>3, EngineStep

-----------------------------------------------------------------------------
(* The theorems.                                                           *)

\* Every step preserves the inductive invariant.
LEMMA NextIInv == IInv /\ [Next]_vars => IInv'
<1> SUFFICES ASSUME IInv, [Next]_vars PROVE IInv'
  OBVIOUS
<1>1. TypeOK /\ InsideInstruction /\ AddInv /\ SleepInv /\ PathInv
  BY DEF IInv
<1>2. TypeOK'
  BY TypeStep
<1>3. InsideInstruction'
  BY <1>1, InsideStep
<1>4. AddInv'
  BY <1>1, AddInvStep
<1>5. SleepInv'
  BY <1>1, SleepStep
<1>6. PathInv'
  BY <1>1, PathShapeStep, OrderStep DEF PathInv
<1> QED BY <1>2, <1>3, <1>4, <1>5, <1>6 DEF IInv

\* The inductive invariant holds in every reachable state.
LEMMA Invariance == Spec => []IInv
  BY InitIInv, NextIInv, PTL DEF Spec

\* The threaded engine keeps its types, the number of outputs of a request included:
\* a request is handed to the engine once and leaves it with its final output.
THEOREM TypeCorrect == Spec => []TypeOK
<1>1. IInv => TypeOK
  BY DEF IInv
<1> QED BY <1>1, Invariance, PTL

\* The background loop never sleeps through an instruction, an exit or a busy engine.
THEOREM BackgroundNeverOversleeps == Spec => []NoLostInstruction
<1>1. IInv => NoLostInstruction
  BY DEF IInv, SleepInv
<1> QED BY <1>1, Invariance, PTL

\* The stream-back loop never sleeps through outputs.
THEOREM StreamNeverOversleeps == Spec => []NoLostOutput
<1>1. IInv => NoLostOutput
  BY DEF IInv, SleepInv
<1> QED BY <1>1, Invariance, PTL

\* Every request's outputs reach the client in order, once, the final one last.
THEOREM OutputsStayInOrder == Spec => []OutputsInOrder
<1>1. IInv => OutputsInOrder
  BY DEF IInv, PathInv
<1> QED BY <1>1, Invariance, PTL

-----------------------------------------------------------------------------
(* The refinement of StreamService.                                        *)

\* What the client has been handed of each request are its outputs, numbered without a gap, and
\* each was in a batch.
StreamsDelivered ==
  \A r \in Requests :
    /\ StreamOf(r) \in Seq(Service!OutputOf(r))
    /\ \A i \in 1..Len(StreamOf(r)) :
         /\ StreamOf(r)[i].n = i
         /\ StreamOf(r)[i].final => i = Len(StreamOf(r))
         /\ \E p \in PlacesOf(r, received) :
              /\ received[p][r].n = i
              /\ StreamOf(r)[i] = [source |-> r, n |-> i, final |-> received[p][r].final]
    /\ \A p \in PlacesOf(r, received) : received[p][r].n \in 1..Len(StreamOf(r))

\* Numbers that increase, from 1 and without a gap, are their own positions.
LEMMA NumberedFromOne ==
  ASSUME NEW K \in Nat, NEW f \in [1..K -> Nat \ {0}],
         \A i, j \in 1..K : i < j => f[i] < f[j],
         \A i \in 1..K : \A n \in 1..f[i] : \E j \in 1..K : f[j] = n
  PROVE  \A i \in 1..K : f[i] = i
<1> DEFINE Bad == {i \in 1..K : f[i] # i}
<1> SUFFICES ASSUME Bad # {} PROVE FALSE
  OBVIOUS
<1>1. PICK i \in Bad : \A j \in Bad : i <= j
  <2>1. Bad \in SUBSET Nat
    OBVIOUS
  <2> HIDE DEF Bad
  <2> QED BY <2>1, LeastNumber
<1>2. i \in 1..K /\ f[i] # i /\ f[i] \in Nat \ {0}
  OBVIOUS
<1>3. \A j \in 1..K : j < i => f[j] = j
  BY <1>1
<1>4. f[i] > i
  <2>1. CASE i = 1
    BY <1>2, <2>1
  <2>2. CASE i # 1
    <3>1. i - 1 \in 1..K /\ f[i - 1] = i - 1 /\ f[i - 1] < f[i]
      BY <1>2, <1>3, <2>2
    <3> QED BY <1>2, <3>1
  <2> QED BY <2>1, <2>2
<1>5. PICK j \in 1..K : f[j] = i
  BY <1>2, <1>4
<1>6. ~(j < i) /\ j # i /\ ~(i < j)
  BY <1>2, <1>3, <1>4, <1>5
<1> QED BY <1>2, <1>6

\* What has been received is the front of the path.
LEMMA ReceivedFirst ==
  ASSUME TypeOK
  PROVE  /\ received \in Seq(Batch)
         /\ \A p \in 1..Len(received) : p \in 1..Len(Path) /\ Path[p] = received[p]
<1>1. /\ received \in Seq(Batch) /\ local_request_stream_callback_inputs \in Seq(Batch)
      /\ request_stream_callback_inputs_ \in Seq(Batch) /\ outbox \in Seq(Batch)
  BY DEF TypeOK, ScTypeOK, StreamTypeOK, BgTypeOK
<1> QED BY <1>1 DEF Path

\* The batches the client has been handed hold the outputs of a request one after the other.
LEMMA Delivered == TypeOK /\ OutputsInOrder => StreamsDelivered
<1> SUFFICES ASSUME TypeOK, OutputsInOrder, NEW r \in Requests
             PROVE  /\ StreamOf(r) \in Seq(Service!OutputOf(r))
                    /\ \A i \in 1..Len(StreamOf(r)) :
                         /\ StreamOf(r)[i].n = i
                         /\ StreamOf(r)[i].final => i = Len(StreamOf(r))
                         /\ \E p \in PlacesOf(r, received) :
                              /\ received[p][r].n = i
                              /\ StreamOf(r)[i] = [source |-> r, n |-> i, final |-> received[p][r].final]
                    /\ \A p \in PlacesOf(r, received) : received[p][r].n \in 1..Len(StreamOf(r))
  BY DEF StreamsDelivered
<1> DEFINE mine == {b \in ToSet(received) : r \in DOMAIN b}
           batches == InOrder(received, mine)
<1>1. /\ received \in Seq(Batch) /\ Path \in Seq(Batch)
      /\ \A p \in 1..Len(received) : p \in 1..Len(Path) /\ Path[p] = received[p]
  BY ReceivedFirst, PathType
<1>2. /\ batches \in Seq(Batch)
      /\ \A b : b \in ToSet(batches) <=> b \in ToSet(received) /\ b \in mine
      /\ \A i, j \in 1..Len(batches) : i < j =>
           \E p, q \in 1..Len(received) : p < q /\ batches[i] = received[p] /\ batches[j] = received[q]
  <2>1. \A S :
          /\ InOrder(received, S) \in Seq(Batch)
          /\ \A b : b \in ToSet(InOrder(received, S)) <=> b \in ToSet(received) /\ b \in S
          /\ \A i, j \in 1..Len(InOrder(received, S)) : i < j =>
               \E p, q \in 1..Len(received) :
                 p < q /\ InOrder(received, S)[i] = received[p] /\ InOrder(received, S)[j] = received[q]
    BY <1>1, InOrderFacts
  <2> HIDE DEF mine
  <2> QED BY <2>1
<1> DEFINE out(b) == [source |-> r, n |-> b[r].n, final |-> b[r].final]
<1>3. StreamOf(r) = [i \in 1..Len(batches) |-> out(batches[i])]
  BY DEF StreamOf
<1>4. /\ ToSet(received) = {received[p] : p \in 1..Len(received)}
      /\ ToSet(batches) = {batches[i] : i \in 1..Len(batches)}
  <2>1. DOMAIN received = 1..Len(received) /\ DOMAIN batches = 1..Len(batches)
    <3> HIDE DEF batches
    <3> QED BY <1>1, <1>2
  <2> HIDE DEF batches
  <2> QED BY <2>1 DEF ToSet
<1>5. \A b \in mine : b[r] \in Output /\ b \in ToSet(received)
  <2>1. \A b \in ToSet(received) : b \in Batch
    BY <1>1, <1>4
  <2> QED BY <2>1 DEF Batch
<1>6. \A i \in 1..Len(batches) : batches[i] \in mine
  BY <1>2, <1>4
<1>7. ASSUME NEW p \in PlacesOf(r, received) PROVE \E i \in 1..Len(batches) : batches[i] = received[p]
  <2>1. received[p] \in ToSet(received) /\ r \in DOMAIN received[p]
    BY <1>4 DEF PlacesOf
  <2>2. received[p] \in mine
    BY <2>1
  <2> HIDE DEF batches, mine
  <2>3. received[p] \in ToSet(batches)
    BY <1>2, <2>1, <2>2
  <2> QED BY <1>4, <2>3
<1>8. \A i \in 1..Len(batches) : \E p \in PlacesOf(r, received) : batches[i] = received[p]
  BY <1>4, <1>5, <1>6 DEF PlacesOf
<1>9. \A p \in PlacesOf(r, received) : p \in PlacesOf(r, Path) /\ Path[p] = received[p]
  BY <1>1 DEF PlacesOf
<1> HIDE DEF mine, batches
<1>10. \A p, q \in PlacesOf(r, Path) : p < q => Path[p][r].n < Path[q][r].n
  BY DEF OutputsInOrder
<1>11. \A p \in PlacesOf(r, Path) :
         /\ Path[p][r].n <= emitted[r] /\ (Path[p][r].final => Path[p][r].n = emitted[r])
         /\ Path[p][r] \in Output
  <2>1. \A p \in PlacesOf(r, Path) : Path[p] \in Batch /\ r \in DOMAIN Path[p]
    BY <1>1 DEF PlacesOf
  <2>2. \A p \in PlacesOf(r, Path) : Path[p][r] \in Output
    BY <2>1 DEF Batch
  <2> QED BY <2>2 DEF OutputsInOrder
<1>12. \A n \in 1..emitted[r] : \E p \in PlacesOf(r, Path) : Path[p][r].n = n
  BY DEF OutputsInOrder
<1>13. emitted[r] \in Nat /\ \A o \in Output : o.n \in Nat \ {0} /\ o.final \in BOOLEAN
  BY ConstantsAssumption DEF TypeOK, EngineTypeOK, Output
<1> DEFINE K == Len(batches)
           f == [i \in 1..K |-> batches[i][r].n]
<1>14. K \in Nat /\ f \in [1..K -> Nat \ {0}]
  BY <1>2, <1>5, <1>6, <1>13
<1>15. \A i, j \in 1..K : i < j => f[i] < f[j]
  <2> SUFFICES ASSUME NEW i \in 1..K, NEW j \in 1..K, i < j PROVE batches[i][r].n < batches[j][r].n
    OBVIOUS
  <2>1. PICK p, q \in 1..Len(received) : p < q /\ batches[i] = received[p] /\ batches[j] = received[q]
    BY <1>2
  <2>2. r \in DOMAIN received[p] /\ r \in DOMAIN received[q]
    BY <1>6, <2>1 DEF mine
  <2>3. p \in PlacesOf(r, received) /\ q \in PlacesOf(r, received)
    BY <2>2 DEF PlacesOf
  <2> QED BY <1>9, <1>10, <2>1, <2>3
<1>16. \A i \in 1..K : \A n \in 1..f[i] : \E j \in 1..K : f[j] = n
  <2> SUFFICES ASSUME NEW i \in 1..K, NEW n \in 1..batches[i][r].n
               PROVE  \E j \in 1..K : batches[j][r].n = n
    OBVIOUS
  <2>1. PICK p \in PlacesOf(r, received) : batches[i] = received[p]
    BY <1>8
  <2>2. p \in PlacesOf(r, Path) /\ Path[p] = received[p] /\ p \in 1..Len(received)
    BY <1>9 DEF PlacesOf
  <2>3. Path[p][r].n <= emitted[r] /\ Path[p][r].n \in Nat /\ n <= Path[p][r].n /\ n \in Nat \ {0}
    BY <1>11, <1>13, <2>1, <2>2
  <2>4. n \in 1..emitted[r]
    BY <1>13, <2>3
  <2>5. PICK q \in PlacesOf(r, Path) : Path[q][r].n = n
    BY <1>12, <2>4
  <2>6. ~(p < q)
    BY <1>10, <2>2, <2>3, <2>5
  <2>7. q \in 1..Len(received) /\ q \in 1..Len(Path) /\ r \in DOMAIN Path[q]
    <3>1. q \in 1..Len(Path) /\ r \in DOMAIN Path[q]
      BY DEF PlacesOf
    <3> QED BY <1>1, <2>2, <2>6, <3>1
  <2>8. q \in PlacesOf(r, received) /\ received[q] = Path[q]
    BY <1>1, <2>7 DEF PlacesOf
  <2>9. PICK j \in 1..Len(batches) : batches[j] = received[q]
    BY <1>7, <2>8
  <2> QED BY <2>5, <2>8, <2>9
<1>17. \A i \in 1..K : batches[i][r].n = i
  <2>1. \A i \in 1..K : f[i] = i
    <3> HIDE DEF K, f
    <3> QED BY <1>14, <1>15, <1>16, NumberedFromOne
  <2> QED BY <2>1
<1>18. Len(StreamOf(r)) = K /\ \A i \in 1..K : StreamOf(r)[i] = out(batches[i])
  BY <1>3, <1>14
<1>19. StreamOf(r) \in Seq(Service!OutputOf(r))
  <2>1. \A i \in 1..K : out(batches[i]) \in Service!OutputOf(r)
    BY <1>5, <1>6, <1>13 DEF Service!OutputOf
  <2> QED BY <1>3, <1>14, <2>1
<1>20. ASSUME NEW i \in 1..K
       PROVE  /\ StreamOf(r)[i].n = i
              /\ StreamOf(r)[i].final => i = K
              /\ \E p \in PlacesOf(r, received) :
                   /\ received[p][r].n = i
                   /\ StreamOf(r)[i] = [source |-> r, n |-> i, final |-> received[p][r].final]
  <2>1. PICK p \in PlacesOf(r, received) : batches[i] = received[p]
    BY <1>8
  <2>2. batches[i][r].n = i
    BY <1>17
  <2>3. StreamOf(r)[i] = [source |-> r, n |-> i, final |-> received[p][r].final]
    BY <1>18, <2>1, <2>2
  <2>4. ASSUME received[p][r].final PROVE i = K
    <3>1. K \in 1..K /\ batches[K][r].n = K
      BY <1>14, <1>17
    <3>2. PICK q \in PlacesOf(r, received) : batches[K] = received[q]
      BY <1>8, <3>1
    <3>3. K <= emitted[r] /\ i = emitted[r]
      BY <1>9, <1>11, <2>1, <2>2, <2>4, <3>1, <3>2
    <3> QED BY <1>14, <3>3
  <2> QED BY <2>1, <2>2, <2>3, <2>4
<1>21. \A p \in PlacesOf(r, received) : received[p][r].n \in 1..K
  BY <1>7, <1>17
<1> HIDE DEF K
<1> QED BY <1>18, <1>19, <1>20, <1>21

\* Batches are only added to those the client has been handed.
LEMMA ReceivedGrows ==
  ASSUME TypeOK, [Next]_vars
  PROVE  \A p \in 1..Len(received) : p \in 1..Len(received') /\ received'[p] = received[p]
<1>1. /\ received \in Seq(Batch) /\ local_request_stream_callback_inputs \in Seq(Batch)
  BY DEF TypeOK, ScTypeOK
<1>2. CASE DeliverOutputs
  BY <1>1, <1>2 DEF DeliverOutputs
<1>3. CASE DrainOutputs
  BY <1>1, <1>3 DEF DrainOutputs
<1>4. CASE ~DrainOutputs /\ ~DeliverOutputs
  BY <1>1, <1>4, DeliveryFrame
<1> QED BY <1>2, <1>3, <1>4

\* The threaded engine implements StreamService: what its stream callback is handed of a request
\* only grows, by the request's own next outputs, up to the final one.
THEOREM ImplementsStreamService == Spec => StreamsBack
<1>1. Init => Service!Init
  <2> SUFFICES ASSUME Init, NEW r \in Requests PROVE StreamOf(r) = <<>>
    BY DEF Service!Init
  <2>1. received = <<>> /\ received \in Seq({})
    BY DEF Init
  <2>2. \A S : InOrder(received, S) = <<>>
    <3>1. ASSUME NEW S PROVE InOrder(received, S) = <<>>
      <4>1. /\ InOrder(received, S) \in Seq({})
        BY <2>1, InOrderFacts
      <4> QED BY <4>1
    <3> QED BY <3>1
  <2> QED BY <2>2 DEF StreamOf
<1>2. IInv => StreamsDelivered
  BY Delivered DEF IInv, PathInv
<1>3. IInv /\ IInv' /\ StreamsDelivered /\ StreamsDelivered' /\ [Next]_vars
        => [Service!Deliver]_([r \in Requests |-> StreamOf(r)])
  <2> SUFFICES ASSUME IInv, IInv', StreamsDelivered, StreamsDelivered', [Next]_vars,
                      NEW r \in Requests
               PROVE  Service!WellFormed(r, StreamOf(r)') /\ Service!Grows(StreamOf(r), StreamOf(r)')
    BY DEF Service!Deliver
  <2> DEFINE before == StreamOf(r)
             after == StreamOf(r)'
  <2>1. /\ before \in Seq(Service!OutputOf(r)) /\ after \in Seq(Service!OutputOf(r))
        /\ \A i \in 1..Len(after) : after[i].n = i /\ (after[i].final => i = Len(after))
    BY DEF StreamsDelivered
  <2>2. \A i \in 1..Len(before) : \E p \in PlacesOf(r, received) :
          /\ received[p][r].n = i
          /\ before[i] = [source |-> r, n |-> i, final |-> received[p][r].final]
    BY DEF StreamsDelivered
  <2>3. \A i \in 1..Len(after) : \E p \in PlacesOf(r, received)' :
          /\ received'[p][r].n = i
          /\ after[i] = [source |-> r, n |-> i, final |-> received'[p][r].final]
    BY DEF StreamsDelivered
  <2>4. \A p \in PlacesOf(r, received)' : received'[p][r].n \in 1..Len(after)
    BY DEF StreamsDelivered
  <2>5. \A p \in PlacesOf(r, received) : p \in PlacesOf(r, received)' /\ received'[p] = received[p]
    BY ReceivedGrows DEF PlacesOf, IInv
  <2>6. \A p, q \in PlacesOf(r, received)' : received'[p][r].n = received'[q][r].n => p = q
    <3>1. \A p, q \in PlacesOf(r, Path)' : p < q => Path'[p][r].n < Path'[q][r].n
      BY DEF IInv, PathInv, OutputsInOrder
    <3>2. TypeOK' /\ received' \in Seq(Batch)
      BY DEF IInv, TypeOK, ScTypeOK
    <3>3. \A p \in 1..Len(received') : p \in 1..Len(Path') /\ Path'[p] = received'[p]
      <4>1. /\ received' \in Seq(Batch) /\ local_request_stream_callback_inputs' \in Seq(Batch)
            /\ request_stream_callback_inputs_' \in Seq(Batch) /\ outbox' \in Seq(Batch)
        BY <3>2 DEF TypeOK, ScTypeOK, StreamTypeOK, BgTypeOK
      <4> QED BY <4>1 DEF Path
    <3>4. \A p \in PlacesOf(r, received)' :
            p \in Nat /\ p \in PlacesOf(r, Path)' /\ Path'[p] = received'[p]
      BY <3>3 DEF PlacesOf
    <3>5. \A p \in PlacesOf(r, received)' : received'[p][r].n \in Nat
      BY <2>4
    <3> QED BY <3>1, <3>4, <3>5
  <2> HIDE DEF before, after
  <2>7. ASSUME NEW i \in 1..Len(before) PROVE i \in 1..Len(after) /\ after[i] = before[i]
    <3>1. PICK p \in PlacesOf(r, received) :
            received[p][r].n = i /\ before[i] = [source |-> r, n |-> i, final |-> received[p][r].final]
      BY <2>2
    <3>2. p \in PlacesOf(r, received)' /\ received'[p] = received[p]
      BY <2>5
    <3>3. i \in 1..Len(after)
      BY <2>4, <3>1, <3>2
    <3>4. PICK q \in PlacesOf(r, received)' :
            received'[q][r].n = i /\ after[i] = [source |-> r, n |-> i, final |-> received'[q][r].final]
      BY <2>3, <3>3
    <3>5. p = q
      BY <2>6, <3>1, <3>2, <3>4
    <3> QED BY <3>1, <3>2, <3>3, <3>4, <3>5
  <2>8. Len(before) <= Len(after) /\ SubSeq(after, 1, Len(before)) = before
    <3>1. Len(before) \in Nat /\ Len(after) \in Nat
      BY <2>1
    <3>2. Len(before) <= Len(after)
      <4>1. CASE Len(before) = 0
        BY <3>1, <4>1
      <4>2. CASE Len(before) # 0
        <5>1. Len(before) \in 1..Len(before)
          BY <3>1, <4>2
        <5> QED BY <2>7, <3>1, <5>1
      <4> QED BY <4>1, <4>2
    <3> QED BY <2>1, <2>7, <3>1, <3>2
  <2>9. Service!WellFormed(r, after)
    BY <2>1 DEF Service!WellFormed
  <2>10. Service!Grows(before, after)
    BY <2>8 DEF Service!Grows
  <2> QED BY <2>9, <2>10 DEF before, after
<1> QED BY <1>1, <1>2, <1>3, Invariance, PTL DEF Spec, StreamsBack, Service!Spec
=============================================================================
