-------------------------- MODULE AsyncEngineProofs --------------------------
(***************************************************************************)
(* What TLAPS proves about AsyncEngine, for any number of tasks, ids and   *)
(* outputs: the type invariant, that no stream stays registered, that the  *)
(* request of a cancelled task is aborted, and that AsyncEngine implements *)
(* StreamService.                                                          *)
(***************************************************************************)
EXTENDS AsyncEngine, TLAPS

-----------------------------------------------------------------------------
(* Types.                                                                  *)

Output == [source : Tasks, n : Nat, final : BOOLEAN]

Item == {Stop, AlreadyExists} \cup [kind : {"output"}, output : Output]

Delta == [id : Ids, output : Output]

Instruction == [op : {"add"}, id : Ids, task : Tasks] \cup [op : {"abort"}, id : Ids, task : {NoTask}]

TypeOK ==
  /\ async_streamers \in [Ids -> Tasks \cup {NoTask}]
  /\ queue \in [Tasks -> Seq(Item)]
  /\ finished \in [Tasks -> BOOLEAN]
  /\ pc \in [Tasks -> {"new", "streaming", "abandoned", "done", "failed", "cancelled"}]
  /\ recv \in [Tasks -> Seq(Output)]
  /\ loopQueue \in Seq(Delta)
  /\ instructions \in Seq(Instruction)
  /\ live \in SUBSET Tasks
  /\ emitted \in [Tasks -> Nat]
  /\ terminated \in BOOLEAN
  /\ faults \in 0..MaxFaults

-----------------------------------------------------------------------------
(* The inductive invariant.                                                *)

\* A registered stream is open, belongs to the id, and somebody will still read or
\* close it.
RegisteredOpen ==
  \A id \in Ids : \A t \in Tasks : async_streamers[id] = t =>
    /\ IdOf[t] = id
    /\ pc[t] \in {"streaming", "abandoned"}
    /\ ~finished[t]

\* Only a finished stream has met its end.
StopFinished == \A t \in Tasks : \A i \in 1..Len(queue[t]) : queue[t][i] = Stop => finished[t]

StreamInv == RegisteredOpen /\ StopFinished

IsAdd(i, t) ==
  i \in 1..Len(instructions) /\ instructions[i].op = "add" /\ instructions[i].task = t

IsAbort(i, id) ==
  i \in 1..Len(instructions) /\ instructions[i].op = "abort" /\ instructions[i].id = id

\* The engine holds the request of the task, or will.
Outstanding(t) == t \in live \/ \E i \in Nat : IsAdd(i, t)

\* A task that has not begun has left no trace.
NewUntouched ==
  \A t \in Tasks : pc[t] = "new" =>
    /\ ~Outstanding(t)
    /\ emitted[t] = 0
    /\ queue[t] = <<>>
    /\ recv[t] = <<>>
    /\ ~finished[t]

\* A request is added once, under the id of its task, and before its first output.
AddedOnce ==
  \A t \in Tasks : \A i \in Nat : IsAdd(i, t) =>
    /\ instructions[i].id = IdOf[t]
    /\ \A j \in Nat : IsAdd(j, t) => i = j
    /\ t \notin live
    /\ emitted[t] = 0

\* An output under way has been produced for the id of its source; behind the final one the
\* engine has nothing more to do for it.
OutputsOnTheWay ==
  \A i \in 1..Len(loopQueue) : \A t \in Tasks : loopQueue[i].output.source = t =>
    /\ loopQueue[i].id = IdOf[t]
    /\ loopQueue[i].output.n \in 1..emitted[t]
    /\ loopQueue[i].output.final => ~Outstanding(t) /\ loopQueue[i].output.n = emitted[t]

AddInv == NewUntouched /\ AddedOnce /\ OutputsOnTheWay

\* The outputs of an undisturbed task, read or in its queue, are its own, in order from the
\* first on; nothing but the end follows the final one.
Queued(t, i) == i \in 1..Len(queue[t]) /\ queue[t][i].kind = "output"

OwnInOrder(t) ==
  /\ \A i \in 1..Len(recv[t]) :
       /\ recv[t][i].source = t
       /\ recv[t][i].n = i
       /\ recv[t][i].final => i = Len(recv[t]) /\ finished[t] /\ \A j \in Nat : ~Queued(t, j)
  /\ \A i \in 1..Len(queue[t]) :
       \/ queue[t][i] = Stop /\ i = Len(queue[t])
       \/ /\ queue[t][i].kind = "output"
          /\ queue[t][i].output.source = t
          /\ queue[t][i].output.n = Len(recv[t]) + i
          /\ queue[t][i].output.final => finished[t] /\ \A j \in Nat : Queued(t, j) => j <= i

\* While its stream is registered, the outputs under way are those that come next.
Arriving(t, i) == i \in 1..Len(loopQueue) /\ loopQueue[i].id = IdOf[t]

NextArrive(t) ==
  async_streamers[IdOf[t]] = t =>
    /\ Len(recv[t]) + Len(queue[t]) <= emitted[t]
    /\ \A i \in Nat : Arriving(t, i) => loopQueue[i].output.n > Len(recv[t]) + Len(queue[t])
    /\ \A i, j \in Nat : Arriving(t, i) /\ Arriving(t, j) /\ i < j =>
                         loopQueue[i].output.n < loopQueue[j].output.n
    /\ \A n \in Nat : n > Len(recv[t]) + Len(queue[t]) /\ n <= emitted[t] =>
                       \E i \in Nat : Arriving(t, i) /\ loopQueue[i].output.n = n

PathInv == \A t \in Undisturbed : OwnInOrder(t) /\ NextArrive(t)

\* An abort of the id is behind the request of the task.
Covered(t) ==
  \E j \in Nat : /\ IsAbort(j, IdOf[t])
                 /\ t \in live \/ \E i \in Nat : IsAdd(i, t) /\ i < j

\* No other task with the id has, or will have, a request in the engine.
Sole(t) ==
  \A u \in Tasks \ {t} : IdOf[u] = IdOf[t] => pc[u] # "new" /\ ~Outstanding(u)

\* A request that has lost its registration is aborted, or alone: it has lost it to the
\* final output of another.
UnregisteredCovered ==
  \A t \in Tasks : Outstanding(t) =>
    async_streamers[IdOf[t]] = t \/ Covered(t) \/ Sole(t)

\* Between two requests with the same id there is an abort.
Separated ==
  \A t, u \in Tasks : t # u /\ IdOf[t] = IdOf[u] =>
    /\ ~(t \in live /\ u \in live)
    /\ \A k \in Nat : IsAdd(k, u) /\ t \in live =>
                       \E j \in Nat : j < k /\ IsAbort(j, IdOf[t])
    /\ \A i, k \in Nat : IsAdd(i, t) /\ IsAdd(k, u) /\ i < k =>
                          \E j \in Nat : i < j /\ j < k /\ IsAbort(j, IdOf[t])

\* The request of a cancelled task is aborted.
CancelledCovered == \A t \in Tasks : pc[t] = "cancelled" /\ Outstanding(t) => Covered(t)

AbortInv == UnregisteredCovered /\ Separated /\ CancelledCovered

\* At most two tasks have the same id.
AtMostTwoShare ==
  \A t, u, v \in Tasks : IdOf[t] = IdOf[u] /\ IdOf[u] = IdOf[v] => t = u \/ u = v \/ t = v

-----------------------------------------------------------------------------
(* Lemmas on the instructions.                                             *)

\* What a new instruction changes.
LEMMA InstructionAppended ==
  ASSUME TypeOK, NEW x \in Instruction, instructions' = Append(instructions, x)
  PROVE  /\ \A i \in Nat, t \in Tasks :
              IsAdd(i, t)' <=> IsAdd(i, t) \/ (i = Len(instructions) + 1 /\ x.op = "add" /\ x.task = t)
         /\ \A i \in Nat, id \in Ids :
              IsAbort(i, id)' <=> IsAbort(i, id) \/ (i = Len(instructions) + 1 /\ x.op = "abort" /\ x.id = id)
         /\ \A i \in 1..Len(instructions) : instructions'[i] = instructions[i]
         /\ instructions'[Len(instructions) + 1] = x
         /\ instructions' \in Seq(Instruction)
         /\ Len(instructions) \in Nat
         /\ Len(instructions') = Len(instructions) + 1
  BY DEF TypeOK, IsAdd, IsAbort

\* What the execution of an instruction changes.
LEMMA InstructionPopped ==
  ASSUME TypeOK, instructions # <<>>, instructions' = Tail(instructions)
  PROVE  /\ \A i \in Nat, t \in Tasks : IsAdd(i, t)' <=> i > 0 /\ IsAdd(i + 1, t)
         /\ \A i \in Nat, id \in Ids : IsAbort(i, id)' <=> i > 0 /\ IsAbort(i + 1, id)
         /\ \A i \in 1..Len(instructions') : instructions'[i] = instructions[i + 1]
         /\ instructions' \in Seq(Instruction)
         /\ Head(instructions) \in Instruction
         /\ Head(instructions) = instructions[1]
         /\ Len(instructions) \in Nat \ {0}
  BY DEF TypeOK, IsAdd, IsAbort

-----------------------------------------------------------------------------
(* Types.                                                                  *)

\* What the code puts into the queues has the right type.
LEMMA MessageTypes ==
  /\ Stop \in Item
  /\ AlreadyExists \in Item
  /\ \A o \in Output : [kind |-> "output", output |-> o] \in Item
  /\ \A t \in Tasks : [op |-> "add", id |-> IdOf[t], task |-> t] \in Instruction
  /\ \A id \in Ids : [op |-> "abort", id |-> id, task |-> NoTask] \in Instruction
  /\ \A x \in Instruction : x.op = "add" => x.task \in Tasks
  /\ \A x \in Item : x.kind = "output" => x.output \in Output
  BY ConstantsAssumption DEF Item, Instruction, Stop, AlreadyExists

\* The next output of a request, on its way to the event loop.
LEMMA SentType ==
  ASSUME TypeOK, NEW t \in Tasks, NEW last \in BOOLEAN, Send(t, last)
  PROVE  /\ loopQueue' \in Seq(Delta)
         /\ Len(loopQueue) \in Nat
         /\ Len(loopQueue') = Len(loopQueue) + 1
         /\ \A i \in 1..Len(loopQueue) : loopQueue'[i] = loopQueue[i]
         /\ loopQueue'[Len(loopQueue) + 1] =
              [id |-> IdOf[t], output |-> [source |-> t, n |-> emitted[t] + 1, final |-> last]]
<1> DEFINE o == [source |-> t, n |-> emitted[t] + 1, final |-> last]
           d == [id |-> IdOf[t], output |-> o]
<1>1. o \in Output
  BY DEF TypeOK, Output
<1>2. d \in Delta
  BY <1>1, ConstantsAssumption DEF Delta
<1>3. loopQueue' = Append(loopQueue, d) /\ loopQueue \in Seq(Delta)
  BY DEF Send, TypeOK
<1> HIDE DEF d
<1>4. /\ loopQueue' \in Seq(Delta)
      /\ Len(loopQueue) \in Nat
      /\ Len(loopQueue') = Len(loopQueue) + 1
      /\ \A i \in 1..Len(loopQueue) : loopQueue'[i] = loopQueue[i]
      /\ loopQueue'[Len(loopQueue) + 1] = d
  BY <1>2, <1>3
<1> QED BY <1>4 DEF d

\* What a callback appends to the queue of the registered stream.
LEMMA CallbackType ==
  ASSUME TypeOK, loopQueue # <<>>
  PROVE  /\ Head(loopQueue) \in Delta
         /\ Head(loopQueue) = loopQueue[1]
         /\ Head(loopQueue).id \in Ids
         /\ Head(loopQueue).output \in Output
         /\ Tail(loopQueue) \in Seq(Delta)
         /\ Len(loopQueue) \in Nat \ {0}
         /\ Len(Tail(loopQueue)) = Len(loopQueue) - 1
         /\ \A i \in 1..Len(Tail(loopQueue)) : Tail(loopQueue)[i] = loopQueue[i + 1]
         /\ \A t \in Tasks : Push(t, Head(loopQueue).output) \in Seq(Item)
<1>1. /\ Head(loopQueue) \in Delta
      /\ Head(loopQueue) = loopQueue[1]
      /\ Tail(loopQueue) \in Seq(Delta)
      /\ Len(loopQueue) \in Nat \ {0}
      /\ Len(Tail(loopQueue)) = Len(loopQueue) - 1
      /\ \A i \in 1..Len(Tail(loopQueue)) : Tail(loopQueue)[i] = loopQueue[i + 1]
  BY DEF TypeOK
<1>2. Head(loopQueue).id \in Ids /\ Head(loopQueue).output \in Output
  BY <1>1 DEF Delta
<1>3. ASSUME NEW t \in Tasks PROVE Push(t, Head(loopQueue).output) \in Seq(Item)
  <2>1. [kind |-> "output", output |-> Head(loopQueue).output] \in Item /\ AlreadyExists \in Item
    BY <1>2, MessageTypes
  <2> QED BY <2>1 DEF Push, TypeOK
<1> QED BY <1>1, <1>2, <1>3

\* Every step keeps the types.
LEMMA TypeStep == TypeOK /\ [Next]_vars => TypeOK'
<1> SUFFICES ASSUME TypeOK, [Next]_vars PROVE TypeOK'
  OBVIOUS
<1> USE ConstantsAssumption
<1>1. CASE UNCHANGED vars
  BY <1>1 DEF TypeOK, vars, taskVars, streamVars, engineVars
<1>2. ASSUME NEW t \in Tasks, Refuse(t) PROVE TypeOK'
  BY <1>2 DEF TypeOK, Refuse, Fault, streamVars, engineVars
<1>3. ASSUME NEW t \in Tasks, Generate(t) PROVE TypeOK'
  <2>1. [op |-> "add", id |-> IdOf[t], task |-> t] \in Instruction /\ AlreadyExists \in Item
    BY MessageTypes
  <2>2. queue' \in [Tasks -> Seq(Item)] /\ instructions' \in Seq(Instruction)
    <3>1. CASE async_streamers[IdOf[t]] # NoTask
      <4>1. queue' = [queue EXCEPT ![t] = Append(@, AlreadyExists)] /\ instructions' = instructions
        BY <1>3, <3>1 DEF Generate
      <4> QED BY <2>1, <4>1 DEF TypeOK
    <3>2. CASE async_streamers[IdOf[t]] = NoTask
      <4>1. instructions' = Append(instructions, [op |-> "add", id |-> IdOf[t], task |-> t])
        BY <1>3, <3>2 DEF Generate
      <4>2. queue' = queue
        BY <1>3, <3>2 DEF Generate
      <4> QED BY <2>1, <4>1, <4>2 DEF TypeOK
    <3> QED BY <3>1, <3>2
  <2>3. async_streamers' \in [Ids -> Tasks \cup {NoTask}]
    BY <1>3 DEF TypeOK, Generate
  <2> QED BY <1>3, <2>2, <2>3 DEF TypeOK, Generate
<1>4. ASSUME NEW t \in Tasks, Yield(t) PROVE TypeOK'
  <2>1. Head(queue[t]) \in Item /\ Tail(queue[t]) \in Seq(Item)
    BY <1>4 DEF TypeOK, Yield
  <2>2. Head(queue[t]).output \in Output
    BY <1>4, <2>1, MessageTypes DEF Yield
  <2> QED BY <1>4, <2>1, <2>2 DEF TypeOK, Yield, engineVars
<1>5. ASSUME NEW t \in Tasks, Finish(t) PROVE TypeOK'
  BY <1>5 DEF TypeOK, Finish, engineVars
<1>6. ASSUME NEW t \in Tasks, Raise(t) PROVE TypeOK'
  <2>1. instructions' \in Seq(Instruction)
    BY <1>6, MessageTypes DEF TypeOK, Raise, Abort
  <2> QED BY <1>6, <2>1 DEF TypeOK, Raise, Abort
<1>7. ASSUME NEW t \in Tasks, Cancel(t) PROVE TypeOK'
  <2>1. instructions' \in Seq(Instruction)
    BY <1>7, MessageTypes DEF TypeOK, Cancel, Abort
  <2> QED BY <1>7, <2>1 DEF TypeOK, Cancel, Abort, Fault
<1>8. ASSUME NEW t \in Tasks, Disconnect(t) PROVE TypeOK'
  BY <1>8 DEF TypeOK, Disconnect, Fault, streamVars, engineVars
<1>9. ASSUME NEW t \in Tasks, CloseAbandoned(t) PROVE TypeOK'
  <2>1. instructions' \in Seq(Instruction)
    BY <1>9, MessageTypes DEF TypeOK, CloseAbandoned, Abort
  <2> QED BY <1>9, <2>1 DEF TypeOK, CloseAbandoned, Abort
<1>10. ASSUME NEW t \in Tasks, Step(t) PROVE TypeOK'
  <2>1. PICK last \in {emitted[t] + 1 = MaxOutputs, TRUE} :
          Send(t, last) /\ live' = IF last THEN live \ {t} ELSE live
    BY <1>10 DEF Step
  <2>2. last \in BOOLEAN
    OBVIOUS
  <2>3. loopQueue' \in Seq(Delta)
    BY <2>1, <2>2, SentType
  <2> QED BY <1>10, <2>1, <2>3 DEF TypeOK, Step, taskVars, streamVars
<1>11. ASSUME NEW id \in Ids, AbortCall(id) PROVE TypeOK'
  <2>1. instructions' \in Seq(Instruction)
    BY <1>11, MessageTypes DEF TypeOK, AbortCall, Abort
  <2> QED BY <1>11, <2>1 DEF TypeOK, AbortCall, Abort, Fault, taskVars
<1>12. CASE RunCallback
  <2> DEFINE delta == Head(loopQueue)
             t == async_streamers[delta.id]
  <2>1. /\ loopQueue # <<>>
        /\ Tail(loopQueue) \in Seq(Delta)
        /\ delta.id \in Ids
        /\ delta.output \in Output
        /\ \A u \in Tasks : Push(u, delta.output) \in Seq(Item)
    BY <1>12, CallbackType DEF RunCallback
  <2>2. t \in Tasks \cup {NoTask} /\ delta.output.final \in BOOLEAN
    BY <2>1 DEF TypeOK, Output
  <2>3. CASE t = NoTask
    BY <1>12, <2>1, <2>3 DEF TypeOK, RunCallback, taskVars, streamVars, engineVars
  <2>4. CASE t # NoTask
    <3>1. Append(Push(t, delta.output), Stop) \in Seq(Item) /\ Push(t, delta.output) \in Seq(Item)
      BY <2>1, <2>2, <2>4, MessageTypes
    <3>2. queue' \in [Tasks -> Seq(Item)]
      BY <1>12, <2>2, <2>4, <3>1 DEF TypeOK, RunCallback
    <3>3. finished' \in [Tasks -> BOOLEAN] /\ async_streamers' \in [Ids -> Tasks \cup {NoTask}]
      BY <1>12, <2>2, <2>4 DEF TypeOK, RunCallback
    <3> QED BY <1>12, <2>1, <3>2, <3>3 DEF TypeOK, RunCallback, taskVars, engineVars
  <2> QED BY <2>3, <2>4
<1>13. CASE Terminate
  BY <1>13 DEF TypeOK, Terminate, Fault, taskVars, streamVars, engineVars
<1>14. CASE ExecAdd
  <2>1. Head(instructions).task \in Tasks /\ instructions' \in Seq(Instruction)
    BY <1>14, InstructionPopped, MessageTypes DEF ExecAdd
  <2> QED BY <1>14, <2>1 DEF TypeOK, ExecAdd, taskVars, streamVars
<1>15. CASE ExecAbort
  <2> DEFINE held == {t \in live : IdOf[t] = Head(instructions).id}
  <2>1. instructions' \in Seq(Instruction)
    BY <1>15, InstructionPopped DEF ExecAbort
  <2>2. CASE held = {}
    BY <1>15, <2>1, <2>2 DEF TypeOK, ExecAbort, taskVars, streamVars
  <2>3. CASE held # {}
    <3>1. PICK t \in held : /\ live' = live \ {t}
                            /\ emitted' = [emitted EXCEPT ![t] = @ + 1]
                            /\ Send(t, TRUE)
      BY <1>15, <2>3 DEF ExecAbort
    <3>2. t \in Tasks
      BY DEF TypeOK
    <3>3. loopQueue' \in Seq(Delta)
      BY <3>1, <3>2, SentType
    <3> QED BY <1>15, <2>1, <3>1, <3>2, <3>3 DEF TypeOK, ExecAbort, taskVars, streamVars
  <2> QED BY <2>2, <2>3
<1> QED
  BY <1>1, <1>2, <1>3, <1>4, <1>5, <1>6, <1>7, <1>8, <1>9, <1>10, <1>11, <1>12, <1>13, <1>14,
     <1>15 DEF Next

-----------------------------------------------------------------------------
(* Streams.                                                                *)

\* A step that registers no stream, finishes none and ends none that stays registered.
LEMMA StreamInvStep == TypeOK /\ StreamInv /\ AddInv /\ [Next]_vars => StreamInv'
<1> SUFFICES ASSUME TypeOK, StreamInv, AddInv, [Next]_vars PROVE StreamInv'
  OBVIOUS
<1> USE ConstantsAssumption DEF StreamInv, RegisteredOpen
<1>1. CASE UNCHANGED vars
  BY <1>1 DEF StopFinished, vars, taskVars, streamVars, engineVars
<1>2. ASSUME NEW t \in Tasks, Refuse(t) PROVE StreamInv'
  BY <1>2 DEF TypeOK, StopFinished, Refuse, streamVars
<1>3. ASSUME NEW t \in Tasks, Generate(t) PROVE StreamInv'
  <2>1. ~finished[t] /\ queue[t] = <<>> /\ \A id \in Ids : async_streamers[id] # t
    BY <1>3 DEF AddInv, NewUntouched, Generate
  <2>2. StopFinished'
    <3>1. CASE async_streamers[IdOf[t]] # NoTask
      <4>1. queue'[t] = <<AlreadyExists>> /\ \A u \in Tasks \ {t} : queue'[u] = queue[u]
        BY <1>3, <2>1, <3>1 DEF Generate, TypeOK
      <4> QED BY <1>3, <4>1 DEF StopFinished, Generate, Stop, AlreadyExists
    <3>2. CASE async_streamers[IdOf[t]] = NoTask
      BY <1>3, <3>2 DEF StopFinished, Generate
    <3> QED BY <3>1, <3>2
  <2>3. RegisteredOpen'
    <3>1. pc'[t] = "streaming" /\ finished' = finished /\ \A u \in Tasks \ {t} : pc'[u] = pc[u]
      BY <1>3 DEF TypeOK, Generate
    <3>2. CASE async_streamers[IdOf[t]] # NoTask
      <4>1. async_streamers' = async_streamers
        BY <1>3, <3>2 DEF Generate
      <4> QED BY <2>1, <3>1, <4>1
    <3>3. CASE async_streamers[IdOf[t]] = NoTask
      <4>1. async_streamers' = [async_streamers EXCEPT ![IdOf[t]] = t]
        BY <1>3, <3>3 DEF Generate
      <4> QED BY <2>1, <3>1, <4>1 DEF TypeOK
    <3> QED BY <3>2, <3>3
  <2> QED BY <2>2, <2>3
<1>4. ASSUME NEW t \in Tasks, Yield(t) PROVE StreamInv'
  BY <1>4 DEF TypeOK, StopFinished, Yield
<1>5. ASSUME NEW t \in Tasks, Finish(t) PROVE StreamInv'
  <2>1. finished[t]
    BY <1>5 DEF StopFinished, Finish, TypeOK
  <2> QED BY <1>5, <2>1 DEF TypeOK, StopFinished, Finish
<1>6. ASSUME NEW t \in Tasks, Raise(t) PROVE StreamInv'
  BY <1>6 DEF TypeOK, StopFinished, Raise, Abort
<1>7. ASSUME NEW t \in Tasks, Cancel(t) PROVE StreamInv'
  BY <1>7 DEF TypeOK, StopFinished, Cancel, Abort
<1>8. ASSUME NEW t \in Tasks, Disconnect(t) PROVE StreamInv'
  BY <1>8 DEF TypeOK, StopFinished, Disconnect, streamVars
<1>9. ASSUME NEW t \in Tasks, CloseAbandoned(t) PROVE StreamInv'
  BY <1>9 DEF TypeOK, StopFinished, CloseAbandoned, Abort
<1>10. ASSUME NEW t \in Tasks, Step(t) PROVE StreamInv'
  BY <1>10 DEF StopFinished, Step, taskVars, streamVars
<1>11. ASSUME NEW id \in Ids, AbortCall(id) PROVE StreamInv'
  BY <1>11 DEF TypeOK, StopFinished, AbortCall, Abort, taskVars
<1>12. CASE RunCallback
  <2> DEFINE delta == Head(loopQueue)
             t == async_streamers[delta.id]
             item == IF finished[t] THEN AlreadyExists ELSE [kind |-> "output", output |-> delta.output]
  <2>1. delta.id \in Ids /\ t \in Tasks \cup {NoTask}
    BY <1>12, CallbackType DEF RunCallback, TypeOK
  <2>2. CASE t = NoTask
    BY <1>12, <2>2 DEF RunCallback, StopFinished, taskVars, streamVars
  <2>3. CASE t # NoTask
    <3>1. t \in Tasks /\ queue[t] \in Seq(Item)
      BY <2>1, <2>3 DEF TypeOK
    <3>2. /\ queue' = [queue EXCEPT ![t] = IF delta.output.final
                                         THEN Append(Append(queue[t], item), Stop)
                                         ELSE Append(queue[t], item)]
          /\ finished' = [finished EXCEPT ![t] = @ \/ delta.output.final]
          /\ async_streamers' = [async_streamers EXCEPT ![delta.id] =
                                   IF delta.output.final THEN NoTask ELSE @]
          /\ pc' = pc
      BY <1>12, <2>3 DEF RunCallback, Push, taskVars
    <3>3. RegisteredOpen'
      BY <2>1, <3>1, <3>2 DEF TypeOK
    <3>4. item # Stop /\ item \in Item
      BY <1>12, CallbackType, MessageTypes DEF Stop, AlreadyExists, RunCallback
    <3> HIDE DEF item, t
    <3>5. ASSUME NEW u \in Tasks, NEW i \in 1..Len(queue'[u]), queue'[u][i] = Stop
          PROVE  finished'[u]
      <4>1. CASE u # t
        BY <3>1, <3>2, <3>5, <4>1 DEF StopFinished, TypeOK
      <4>2. CASE u = t /\ delta.output.final
        BY <3>1, <3>2, <4>2 DEF TypeOK
      <4>3. CASE u = t /\ ~delta.output.final
        <5>1. queue'[u] = Append(queue[t], item)
          BY <3>1, <3>2, <4>3 DEF TypeOK
        <5>2. i \in 1..Len(queue[t]) /\ queue[t][i] = Stop
          BY <3>1, <3>4, <3>5, <5>1 DEF TypeOK
        <5> QED BY <3>1, <3>2, <4>3, <5>2 DEF StopFinished, TypeOK
      <4> QED BY <4>1, <4>2, <4>3
    <3>6. StopFinished'
      BY <3>5 DEF StopFinished
    <3> QED BY <3>3, <3>6
  <2> QED BY <2>2, <2>3
<1>13. CASE Terminate
  BY <1>13 DEF StopFinished, Terminate, taskVars, streamVars
<1>14. CASE ExecAdd
  BY <1>14 DEF StopFinished, ExecAdd, taskVars, streamVars
<1>15. CASE ExecAbort
  BY <1>15 DEF StopFinished, ExecAbort, taskVars, streamVars
<1> QED
  BY <1>1, <1>2, <1>3, <1>4, <1>5, <1>6, <1>7, <1>8, <1>9, <1>10, <1>11, <1>12, <1>13, <1>14,
     <1>15 DEF Next

-----------------------------------------------------------------------------
(* Requests in the engine.                                                 *)

\* A step that leaves the instructions and the engine alone and gives no trace to a new task.
LEMMA AddInvFrame ==
  ASSUME TypeOK, AddInv, UNCHANGED <<instructions, live, emitted, loopQueue>>,
         \A t \in Tasks : pc'[t] = "new" =>
           pc[t] = "new" /\ queue'[t] = queue[t] /\ recv'[t] = recv[t] /\ finished'[t] = finished[t]
  PROVE  AddInv'
  BY DEF AddInv, NewUntouched, AddedOnce, OutputsOnTheWay, Outstanding, IsAdd

\* So does a step that only aborts.
LEMMA AddInvAbort ==
  ASSUME TypeOK, AddInv, NEW id \in Ids, Abort(id), UNCHANGED <<live, emitted, loopQueue>>,
         \A t \in Tasks : pc'[t] = "new" =>
           pc[t] = "new" /\ queue'[t] = queue[t] /\ recv'[t] = recv[t] /\ finished'[t] = finished[t]
  PROVE  AddInv'
<1> DEFINE x == [op |-> "abort", id |-> id, task |-> NoTask]
<1>1. x \in Instruction /\ instructions' = Append(instructions, x) /\ x.op # "add"
  BY MessageTypes DEF Abort
<1> HIDE DEF x
<1>2. /\ \A i \in Nat, t \in Tasks : IsAdd(i, t)' <=> IsAdd(i, t)
      /\ \A i \in 1..Len(instructions) : instructions'[i] = instructions[i]
  BY <1>1, InstructionAppended
<1>3. \A t \in Tasks : Outstanding(t)' <=> Outstanding(t)
  BY <1>2 DEF Outstanding
<1>5. NewUntouched'
  BY <1>3 DEF AddInv, NewUntouched
<1>6. AddedOnce'
  BY <1>2 DEF AddInv, AddedOnce, IsAdd
<1>7. OutputsOnTheWay'
  BY <1>3 DEF AddInv, OutputsOnTheWay
<1> QED BY <1>5, <1>6, <1>7 DEF AddInv

\* A request that the engine holds gets its next output, and leaves with its final one.
LEMMA AddInvSend ==
  ASSUME TypeOK, AddInv, NEW t \in live, NEW last \in BOOLEAN, Send(t, last),
         live' = IF last THEN live \ {t} ELSE live,
         emitted' = [emitted EXCEPT ![t] = @ + 1],
         \A i \in Nat, u \in Tasks : IsAdd(i, u)' => \E j \in Nat : IsAdd(j, u) /\ instructions'[i] = instructions[j],
         \A i, j \in Nat, u \in Tasks : IsAdd(i, u)' /\ IsAdd(j, u)' => i = j,
         UNCHANGED <<taskVars, streamVars>>
  PROVE  AddInv'
<1>1. t \in Tasks /\ ~(\E i \in Nat : IsAdd(i, t)) /\ pc[t] # "new"
  BY DEF TypeOK, AddInv, AddedOnce, NewUntouched, Outstanding
<1>2. \A u \in Tasks : emitted'[u] = IF u = t THEN emitted[u] + 1 ELSE emitted[u]
  BY <1>1 DEF TypeOK
<1>3. \A u \in Tasks : Outstanding(u)' => Outstanding(u)
  BY DEF Outstanding
<1>4. last => ~Outstanding(t)'
  BY <1>1 DEF Outstanding
<1>5. NewUntouched'
  BY <1>1, <1>2, <1>3 DEF AddInv, NewUntouched, taskVars, streamVars
<1>6. AddedOnce'
  <2> SUFFICES ASSUME NEW u \in Tasks, NEW i \in Nat, IsAdd(i, u)'
               PROVE  /\ instructions'[i].id = IdOf[u]
                      /\ u \notin live'
                      /\ emitted'[u] = 0
    BY DEF AddedOnce
  <2>1. PICK j \in Nat : IsAdd(j, u) /\ instructions'[i] = instructions[j]
    OBVIOUS
  <2>2. u # t /\ instructions[j].id = IdOf[u] /\ u \notin live /\ emitted[u] = 0
    BY <1>1, <2>1 DEF AddInv, AddedOnce
  <2> QED BY <1>2, <2>1, <2>2
<1>7. OutputsOnTheWay'
  <2> SUFFICES ASSUME NEW i \in 1..Len(loopQueue'), NEW u \in Tasks, loopQueue'[i].output.source = u
               PROVE  /\ loopQueue'[i].id = IdOf[u]
                      /\ loopQueue'[i].output.n \in 1..emitted'[u]
                      /\ loopQueue'[i].output.final =>
                           ~Outstanding(u)' /\ loopQueue'[i].output.n = emitted'[u]
    BY DEF OutputsOnTheWay
  <2>1. /\ Len(loopQueue) \in Nat
        /\ Len(loopQueue') = Len(loopQueue) + 1
        /\ \A k \in 1..Len(loopQueue) : loopQueue'[k] = loopQueue[k]
        /\ loopQueue'[Len(loopQueue) + 1] =
             [id |-> IdOf[t], output |-> [source |-> t, n |-> emitted[t] + 1, final |-> last]]
    BY <1>1, SentType
  <2>2. emitted[u] \in Nat
    BY DEF TypeOK
  <2>3. CASE i = Len(loopQueue) + 1
    <3>1. /\ loopQueue'[i].id = IdOf[t]
          /\ loopQueue'[i].output.source = t
          /\ loopQueue'[i].output.n = emitted[t] + 1
          /\ loopQueue'[i].output.final = last
      BY <2>1, <2>3
    <3> QED BY <1>2, <1>4, <2>2, <3>1
  <2>4. CASE i \in 1..Len(loopQueue)
    <3>1. loopQueue'[i] = loopQueue[i]
      BY <2>1, <2>4
    <3>2. /\ loopQueue[i].id = IdOf[u]
          /\ loopQueue[i].output.n \in 1..emitted[u]
          /\ loopQueue[i].output.final => ~Outstanding(u) /\ loopQueue[i].output.n = emitted[u]
      BY <2>4, <3>1 DEF AddInv, OutputsOnTheWay
    <3>3. loopQueue[i].output.final => u # t
      BY <3>2 DEF Outstanding
    <3> QED BY <1>2, <1>3, <2>2, <3>1, <3>2, <3>3
  <2> QED BY <2>1, <2>3, <2>4
<1> QED BY <1>5, <1>6, <1>7 DEF AddInv

\* Every step keeps the facts about added requests.
LEMMA AddInvStep == TypeOK /\ StreamInv /\ AddInv /\ [Next]_vars => AddInv'
<1> SUFFICES ASSUME TypeOK, StreamInv, AddInv, [Next]_vars PROVE AddInv'
  OBVIOUS
<1> USE ConstantsAssumption
<1>1. CASE UNCHANGED vars
  BY <1>1, AddInvFrame DEF vars, taskVars, streamVars, engineVars
<1>2. ASSUME NEW t \in Tasks, Refuse(t) PROVE AddInv'
  <2>1. \A u \in Tasks : pc'[u] = "new" => pc[u] = "new"
    BY <1>2 DEF TypeOK, Refuse
  <2> QED BY <1>2, <2>1, AddInvFrame DEF Refuse, streamVars, engineVars
<1>3. ASSUME NEW t \in Tasks, Generate(t) PROVE AddInv'
  <2>1. /\ pc[t] = "new" /\ pc'[t] = "streaming"
        /\ \A u \in Tasks \ {t} : pc'[u] = pc[u]
        /\ UNCHANGED <<recv, finished, live, emitted, loopQueue>>
    BY <1>3 DEF TypeOK, Generate
  <2>2. CASE async_streamers[IdOf[t]] # NoTask
    <3>1. queue' = [queue EXCEPT ![t] = Append(@, AlreadyExists)] /\ instructions' = instructions
      BY <1>3, <2>2 DEF Generate
    <3>2. \A u \in Tasks \ {t} : queue'[u] = queue[u]
      BY <3>1 DEF TypeOK
    <3> QED BY <2>1, <3>1, <3>2, AddInvFrame
  <2>3. CASE async_streamers[IdOf[t]] = NoTask
    <3> DEFINE x == [op |-> "add", id |-> IdOf[t], task |-> t]
    <3>1. /\ x \in Instruction /\ instructions' = Append(instructions, x) /\ queue' = queue
          /\ x.op = "add" /\ x.task = t /\ x.id = IdOf[t]
      BY <1>3, <2>3, MessageTypes DEF Generate
    <3> HIDE DEF x
    <3>2. /\ \A i \in Nat, u \in Tasks :
                IsAdd(i, u)' <=> IsAdd(i, u) \/ (i = Len(instructions) + 1 /\ u = t)
          /\ \A i \in 1..Len(instructions) : instructions'[i] = instructions[i]
          /\ instructions'[Len(instructions) + 1] = x
          /\ Len(instructions) \in Nat
      BY <3>1, InstructionAppended
    <3>3. ~Outstanding(t) /\ emitted[t] = 0
      BY <2>1 DEF AddInv, NewUntouched
    <3>4. \A u \in Tasks \ {t} : Outstanding(u)' <=> Outstanding(u)
      BY <2>1, <3>2 DEF Outstanding
    <3>5. NewUntouched'
      BY <2>1, <3>1, <3>4 DEF AddInv, NewUntouched
    <3>6. AddedOnce'
      <4> SUFFICES ASSUME NEW u \in Tasks, NEW i \in Nat, IsAdd(i, u)'
                   PROVE  /\ instructions'[i].id = IdOf[u]
                          /\ \A j \in Nat : IsAdd(j, u)' => i = j
                          /\ u \notin live'
                          /\ emitted'[u] = 0
        BY DEF AddedOnce
      <4>1. CASE u = t
        <5>1. ~IsAdd(i, u) /\ \A j \in Nat : ~IsAdd(j, u)
          BY <3>3, <4>1 DEF Outstanding
        <5> QED BY <2>1, <3>1, <3>2, <3>3, <4>1, <5>1 DEF Outstanding
      <4>2. CASE u # t
        BY <2>1, <3>2, <4>2 DEF AddInv, AddedOnce, IsAdd
      <4> QED BY <4>1, <4>2
    <3>7. OutputsOnTheWay'
      <4> SUFFICES ASSUME NEW i \in 1..Len(loopQueue), NEW u \in Tasks, loopQueue[i].output.source = u
                   PROVE  /\ loopQueue[i].id = IdOf[u]
                          /\ loopQueue[i].output.n \in 1..emitted[u]
                          /\ loopQueue[i].output.final =>
                               ~Outstanding(u)' /\ loopQueue[i].output.n = emitted[u]
        BY <2>1 DEF OutputsOnTheWay
      <4>1. /\ loopQueue[i].id = IdOf[u]
            /\ loopQueue[i].output.n \in 1..emitted[u]
            /\ loopQueue[i].output.final => ~Outstanding(u) /\ loopQueue[i].output.n = emitted[u]
        BY DEF AddInv, OutputsOnTheWay
      <4>2. u # t
        BY <3>3, <4>1
      <4> QED BY <3>4, <4>1, <4>2
    <3> QED BY <3>5, <3>6, <3>7 DEF AddInv
  <2> QED BY <2>2, <2>3
<1>4. ASSUME NEW t \in Tasks, Yield(t) PROVE AddInv'
  <2>1. \A u \in Tasks \ {t} : queue'[u] = queue[u] /\ recv'[u] = recv[u]
    BY <1>4 DEF TypeOK, Yield
  <2> QED BY <1>4, <2>1, AddInvFrame DEF Yield, engineVars
<1>5. ASSUME NEW t \in Tasks, Finish(t) PROVE AddInv'
  <2>1. pc'[t] = "done" /\ \A u \in Tasks \ {t} : queue'[u] = queue[u] /\ pc'[u] = pc[u]
    BY <1>5 DEF TypeOK, Finish
  <2> QED BY <1>5, <2>1, AddInvFrame DEF Finish, engineVars
<1>6. ASSUME NEW t \in Tasks, Raise(t) PROVE AddInv'
  <2>1. pc'[t] = "failed" /\ \A u \in Tasks \ {t} : queue'[u] = queue[u] /\ pc'[u] = pc[u]
    BY <1>6 DEF TypeOK, Raise
  <2>2. IdOf[t] \in Ids
    OBVIOUS
  <2> QED BY <1>6, <2>1, <2>2, AddInvAbort DEF Raise
<1>7. ASSUME NEW t \in Tasks, Cancel(t) PROVE AddInv'
  <2>1. IdOf[t] \in Ids /\ \A u \in Tasks : pc'[u] = "new" => pc[u] = "new"
    BY <1>7 DEF TypeOK, Cancel
  <2> QED BY <1>7, <2>1, AddInvAbort DEF Cancel
<1>8. ASSUME NEW t \in Tasks, Disconnect(t) PROVE AddInv'
  <2>1. \A u \in Tasks : pc'[u] = "new" => pc[u] = "new"
    BY <1>8 DEF TypeOK, Disconnect
  <2> QED BY <1>8, <2>1, AddInvFrame DEF Disconnect, streamVars, engineVars
<1>9. ASSUME NEW t \in Tasks, CloseAbandoned(t) PROVE AddInv'
  <2>1. IdOf[t] \in Ids /\ \A u \in Tasks : pc'[u] = "new" => pc[u] = "new"
    BY <1>9 DEF TypeOK, CloseAbandoned
  <2> QED BY <1>9, <2>1, AddInvAbort DEF CloseAbandoned
<1>10. ASSUME NEW t \in Tasks, Step(t) PROVE AddInv'
  <2>1. PICK last \in {emitted[t] + 1 = MaxOutputs, TRUE} :
          Send(t, last) /\ live' = IF last THEN live \ {t} ELSE live
    BY <1>10 DEF Step
  <2>2. last \in BOOLEAN
    OBVIOUS
  <2>3. /\ t \in live
        /\ emitted' = [emitted EXCEPT ![t] = @ + 1]
        /\ instructions' = instructions
        /\ UNCHANGED <<taskVars, streamVars>>
    BY <1>10 DEF Step
  <2>4. \A i \in Nat, u \in Tasks : IsAdd(i, u)' <=> IsAdd(i, u)
    BY <2>3 DEF IsAdd
  <2>5. \A i, j \in Nat, u \in Tasks : IsAdd(i, u)' /\ IsAdd(j, u)' => i = j
    BY <2>4 DEF AddInv, AddedOnce
  <2>6. \A i \in Nat, u \in Tasks : IsAdd(i, u)' => \E j \in Nat : IsAdd(j, u) /\ instructions'[i] = instructions[j]
    BY <2>3, <2>4
  <2> QED BY <2>1, <2>2, <2>3, <2>5, <2>6, AddInvSend
<1>11. ASSUME NEW id \in Ids, AbortCall(id) PROVE AddInv'
  BY <1>11, AddInvAbort DEF AbortCall, taskVars
<1>12. CASE RunCallback
  <2> DEFINE delta == Head(loopQueue)
             t == async_streamers[delta.id]
  <2>1. /\ delta.id \in Ids
        /\ t \in Tasks \cup {NoTask}
        /\ loopQueue' = Tail(loopQueue)
        /\ Len(loopQueue) \in Nat \ {0}
        /\ Len(loopQueue') = Len(loopQueue) - 1
        /\ \A i \in 1..Len(loopQueue') : loopQueue'[i] = loopQueue[i + 1]
    BY <1>12, CallbackType DEF RunCallback, TypeOK
  <2>2. UNCHANGED <<instructions, live, emitted, pc, recv>>
    BY <1>12 DEF RunCallback, taskVars, engineVars
  <2>3. \A u \in Tasks : pc[u] = "new" => queue'[u] = queue[u] /\ finished'[u] = finished[u]
    <3>1. CASE t = NoTask
      BY <1>12, <3>1 DEF RunCallback, streamVars
    <3>2. CASE t # NoTask
      <4>1. t \in Tasks /\ pc[t] # "new"
        BY <2>1, <3>2 DEF StreamInv, RegisteredOpen
      <4>2. \A u \in Tasks \ {t} : queue'[u] = queue[u] /\ finished'[u] = finished[u]
        BY <1>12, <3>2, <4>1 DEF RunCallback, TypeOK
      <4> QED BY <4>1, <4>2
    <3> QED BY <3>1, <3>2
  <2>4. \A u \in Tasks : Outstanding(u)' <=> Outstanding(u)
    BY <2>2 DEF Outstanding, IsAdd
  <2>5. NewUntouched'
    BY <2>2, <2>3, <2>4 DEF AddInv, NewUntouched
  <2>6. AddedOnce'
    BY <2>2 DEF AddInv, AddedOnce, IsAdd
  <2>8. OutputsOnTheWay'
    BY <2>1, <2>2, <2>4 DEF AddInv, OutputsOnTheWay
  <2> QED BY <2>5, <2>6, <2>8 DEF AddInv
<1>13. CASE Terminate
  BY <1>13, AddInvFrame DEF Terminate, taskVars, streamVars, engineVars
<1>14. CASE ExecAdd
  <2> DEFINE t == Head(instructions).task
  <2>1. /\ t \in Tasks
        /\ \A i \in Nat, u \in Tasks : IsAdd(i, u)' <=> i > 0 /\ IsAdd(i + 1, u)
        /\ \A i \in 1..Len(instructions') : instructions'[i] = instructions[i + 1]
        /\ instructions # <<>>
        /\ live' = live \cup {t}
        /\ UNCHANGED <<pc, recv, queue, finished, emitted, loopQueue>>
    BY <1>14, InstructionPopped, MessageTypes DEF ExecAdd, taskVars, streamVars
  <2>2. IsAdd(1, t)
    BY <1>14, InstructionPopped DEF ExecAdd, IsAdd
  <2>3. \A u \in Tasks : Outstanding(u)' => Outstanding(u)
    BY <2>1, <2>2 DEF Outstanding
  <2>4. NewUntouched'
    BY <2>1, <2>3 DEF AddInv, NewUntouched
  <2>5. AddedOnce'
    <3> SUFFICES ASSUME NEW u \in Tasks, NEW i \in Nat, IsAdd(i, u)'
                 PROVE  /\ instructions'[i].id = IdOf[u]
                        /\ \A j \in Nat : IsAdd(j, u)' => i = j
                        /\ u \notin live'
                        /\ emitted'[u] = 0
      BY DEF AddedOnce
    <3>1. i > 0 /\ IsAdd(i + 1, u) /\ instructions'[i] = instructions[i + 1]
      BY <2>1 DEF IsAdd
    <3>2. u # t
      BY <2>2, <3>1 DEF AddInv, AddedOnce
    <3> QED BY <2>1, <3>1, <3>2 DEF AddInv, AddedOnce
  <2>7. OutputsOnTheWay'
    BY <2>1, <2>3 DEF AddInv, OutputsOnTheWay
  <2> QED BY <2>4, <2>5, <2>7 DEF AddInv
<1>15. CASE ExecAbort
  <2> DEFINE held == {t \in live : IdOf[t] = Head(instructions).id}
  <2>1. /\ \A i \in Nat, u \in Tasks : IsAdd(i, u)' <=> i > 0 /\ IsAdd(i + 1, u)
        /\ \A i \in 1..Len(instructions') : instructions'[i] = instructions[i + 1]
        /\ UNCHANGED <<taskVars, streamVars>>
    BY <1>15, InstructionPopped DEF ExecAbort
  <2>2. \A i \in Nat, u \in Tasks : IsAdd(i, u)' => \E j \in Nat : IsAdd(j, u) /\ instructions'[i] = instructions[j]
    BY <2>1 DEF IsAdd
  <2>3. \A i, j \in Nat, u \in Tasks : IsAdd(i, u)' /\ IsAdd(j, u)' => i = j
    BY <2>1 DEF AddInv, AddedOnce
  <2>4. CASE held = {}
    <3>1. UNCHANGED <<live, emitted, loopQueue, pc, recv, queue, finished>>
      BY <1>15, <2>1, <2>4 DEF ExecAbort, taskVars, streamVars
    <3>2. \A u \in Tasks : Outstanding(u)' => Outstanding(u)
      BY <2>2, <3>1 DEF Outstanding
    <3>3. NewUntouched'
      BY <3>1, <3>2 DEF AddInv, NewUntouched
    <3>4. AddedOnce'
      BY <2>2, <2>3, <3>1 DEF AddInv, AddedOnce
    <3>6. OutputsOnTheWay'
      BY <3>1, <3>2 DEF AddInv, OutputsOnTheWay
    <3> QED BY <3>3, <3>4, <3>6 DEF AddInv
  <2>5. CASE held # {}
    <3>1. PICK t \in held : /\ live' = live \ {t}
                            /\ emitted' = [emitted EXCEPT ![t] = @ + 1]
                            /\ Send(t, TRUE)
      BY <1>15, <2>5 DEF ExecAbort
    <3> QED BY <2>1, <2>2, <2>3, <3>1, AddInvSend
  <2> QED BY <2>4, <2>5
<1> QED
  BY <1>1, <1>2, <1>3, <1>4, <1>5, <1>6, <1>7, <1>8, <1>9, <1>10, <1>11, <1>12, <1>13, <1>14,
     <1>15 DEF Next

-----------------------------------------------------------------------------
(* Aborts.                                                                 *)

\* A step that leaves the instructions, the engine and the registrations alone, and cancels
\* no task.
LEMMA AbortInvFrame ==
  ASSUME AbortInv, UNCHANGED <<instructions, live, async_streamers>>,
         \A t \in Tasks : /\ pc'[t] = "new" => pc[t] = "new"
                          /\ pc'[t] = "cancelled" => pc[t] = "cancelled"
  PROVE  AbortInv'
<1>1. /\ \A i \in Nat, t \in Tasks : IsAdd(i, t)' <=> IsAdd(i, t)
      /\ \A i \in Nat, id \in Ids : IsAbort(i, id)' <=> IsAbort(i, id)
  BY DEF IsAdd, IsAbort
<1>2. \A t \in Tasks : IdOf[t] \in Ids
  BY ConstantsAssumption
<1>3. \A t \in Tasks : (Outstanding(t)' <=> Outstanding(t)) /\ (Covered(t)' <=> Covered(t))
  BY <1>1, <1>2 DEF Outstanding, Covered
<1>4. \A t \in Tasks : Sole(t) => Sole(t)'
  BY <1>3 DEF Sole
<1>5. UnregisteredCovered'
  BY <1>3, <1>4 DEF AbortInv, UnregisteredCovered
<1>6. Separated'
  BY <1>1, <1>2 DEF AbortInv, Separated
<1>7. CancelledCovered'
  BY <1>3 DEF AbortInv, CancelledCovered
<1> QED BY <1>5, <1>6, <1>7 DEF AbortInv

\* _abort covers every request of the id.
LEMMA AbortCovers ==
  ASSUME TypeOK, AbortInv, NEW id \in Ids, Abort(id), live' = live,
         \A t \in Tasks : /\ pc'[t] = "new" => pc[t] = "new"
                          /\ pc'[t] = "cancelled" => pc[t] = "cancelled" \/ IdOf[t] = id
  PROVE  AbortInv'
<1> DEFINE x == [op |-> "abort", id |-> id, task |-> NoTask]
<1>0. PICK last \in Nat : last = Len(instructions) + 1
  BY DEF TypeOK
<1>1. /\ x \in Instruction
      /\ instructions' = Append(instructions, x)
      /\ x.op = "abort" /\ x.op # "add" /\ x.id = id
  BY MessageTypes DEF Abort
<1> HIDE DEF x
<1>2. /\ \A i \in Nat, t \in Tasks : IsAdd(i, t)' <=> IsAdd(i, t)
      /\ \A i \in Nat, d \in Ids : IsAbort(i, d)' <=> IsAbort(i, d) \/ (i = last /\ d = id)
  BY <1>0, <1>1, InstructionAppended
<1>3. \A t \in Tasks : IdOf[t] \in Ids
  BY ConstantsAssumption
<1>4. \A t \in Tasks : (Outstanding(t)' <=> Outstanding(t)) /\ (Covered(t) => Covered(t)')
  BY <1>2, <1>3 DEF Outstanding, Covered
<1>5. ASSUME NEW t \in Tasks, IdOf[t] = id, Outstanding(t) PROVE Covered(t)'
  <2>1. IsAbort(last, IdOf[t])'
    BY <1>2, <1>3, <1>5
  <2>2. ASSUME NEW i \in Nat, IsAdd(i, t) PROVE i < last /\ IsAdd(i, t)'
    <3>1. i < last
      BY <1>0, <2>2 DEF IsAdd, TypeOK
    <3> QED BY <1>2, <2>2, <3>1
  <2> QED BY <1>2, <1>5, <2>1, <2>2 DEF Outstanding, Covered
<1>6. \A t \in Tasks : Sole(t) => Sole(t)'
  BY <1>4 DEF Sole
<1>7. \A d \in Ids : d # id => async_streamers'[d] = async_streamers[d]
  BY DEF Abort, TypeOK
<1>8. UnregisteredCovered'
  BY <1>3, <1>4, <1>5, <1>6, <1>7 DEF AbortInv, UnregisteredCovered
<1>9. Separated'
  BY <1>2, <1>3 DEF AbortInv, Separated
<1>10. CancelledCovered'
  BY <1>4, <1>5 DEF AbortInv, CancelledCovered
<1> QED BY <1>8, <1>9, <1>10 DEF AbortInv

\* A request is added behind an abort of every earlier one with its id.
LEMMA AbortInvAdd ==
  ASSUME TypeOK, AddInv, AbortInv, NEW t \in Tasks, Generate(t), async_streamers[IdOf[t]] = NoTask
  PROVE  AbortInv'
<1> DEFINE x == [op |-> "add", id |-> IdOf[t], task |-> t]
           last == Len(instructions) + 1
<1>1. /\ x \in Instruction /\ instructions' = Append(instructions, x)
      /\ x.op = "add" /\ x.op # "abort" /\ x.task = t
  BY MessageTypes DEF Generate
<1> HIDE DEF x
<1>2. /\ \A i \in Nat, u \in Tasks : IsAdd(i, u)' <=> IsAdd(i, u) \/ (i = last /\ u = t)
      /\ \A i \in Nat, d \in Ids : IsAbort(i, d)' <=> IsAbort(i, d)
      /\ last \in Nat
  BY <1>1, InstructionAppended
<1>3. /\ pc[t] = "new" /\ pc'[t] = "streaming"
      /\ \A u \in Tasks \ {t} : pc'[u] = pc[u]
      /\ live' = live
      /\ async_streamers' = [async_streamers EXCEPT ![IdOf[t]] = t]
  BY DEF Generate, TypeOK
<1>4. \A u \in Tasks : IdOf[u] \in Ids
  BY ConstantsAssumption
<1>5. ~Outstanding(t)
  BY <1>3 DEF AddInv, NewUntouched
<1>6. \A i \in Nat, u \in Tasks : IsAdd(i, u) => i < last
  BY DEF IsAdd, TypeOK
<1>7. \A j \in Nat, d \in Ids : IsAbort(j, d) => j < last
  BY DEF IsAbort, TypeOK
<1>8. \A u \in Tasks \ {t} : (Outstanding(u)' <=> Outstanding(u)) /\ (Covered(u) => Covered(u)')
  BY <1>2, <1>3, <1>4 DEF Outstanding, Covered
<1>9. \A d \in Ids : async_streamers'[d] = IF d = IdOf[t] THEN t ELSE async_streamers[d]
  BY <1>3, <1>4 DEF TypeOK
<1>10. ASSUME NEW u \in Tasks \ {t}, IdOf[u] = IdOf[t], Outstanding(u) PROVE Covered(u)
  <2>1. ~Sole(u)
    BY <1>3, <1>10 DEF Sole
  <2>2. async_streamers[IdOf[u]] # u
    BY <1>10, ConstantsAssumption
  <2> QED BY <1>10, <2>1, <2>2 DEF AbortInv, UnregisteredCovered
<1>11. UnregisteredCovered'
  <2> SUFFICES ASSUME NEW u \in Tasks, Outstanding(u)'
               PROVE  async_streamers'[IdOf[u]] = u \/ Covered(u)' \/ Sole(u)'
    BY DEF UnregisteredCovered
  <2>1. CASE u = t
    BY <1>4, <1>9, <2>1
  <2>2. CASE u # t /\ IdOf[u] = IdOf[t]
    BY <1>8, <1>10, <2>2
  <2>3. CASE IdOf[u] # IdOf[t]
    <3>1. async_streamers[IdOf[u]] = u \/ Covered(u) \/ Sole(u)
      BY <1>8, <2>3 DEF AbortInv, UnregisteredCovered
    <3>2. Sole(u) => Sole(u)'
      BY <1>3, <1>8, <2>3 DEF Sole
    <3> QED BY <1>4, <1>8, <1>9, <2>3, <3>1, <3>2
  <2> QED BY <2>1, <2>2, <2>3
<1>12. Separated'
  <2> SUFFICES ASSUME NEW u \in Tasks, NEW v \in Tasks, u # v, IdOf[u] = IdOf[v]
               PROVE  /\ ~(u \in live /\ v \in live)
                      /\ \A k \in Nat : IsAdd(k, v)' /\ u \in live =>
                                         \E j \in Nat : j < k /\ IsAbort(j, IdOf[u])'
                      /\ \A i, k \in Nat : IsAdd(i, u)' /\ IsAdd(k, v)' /\ i < k =>
                                            \E j \in Nat : i < j /\ j < k /\ IsAbort(j, IdOf[u])'
    BY <1>3 DEF Separated
  <2>1. CASE v # t
    <3>1. \A k \in Nat : IsAdd(k, v)' => IsAdd(k, v)
      BY <1>2, <2>1
    <3>2. \A i, k \in Nat : IsAdd(i, u)' /\ IsAdd(k, v) /\ i < k => IsAdd(i, u)
      BY <1>2, <1>6
    <3> QED BY <1>2, <1>4, <3>1, <3>2 DEF AbortInv, Separated
  <2>2. CASE v = t
    <3>1. \A k \in Nat : IsAdd(k, v)' => k = last
      BY <1>2, <1>5, <2>2 DEF Outstanding
    <3>2. \A i \in Nat : IsAdd(i, u)' => IsAdd(i, u)
      BY <1>2, <2>2
    <3>3. Outstanding(u) => Covered(u)
      BY <1>10, <2>2
    <3>4. Outstanding(u) =>
            \E j \in Nat : /\ IsAbort(j, IdOf[u])
                           /\ j < last
                           /\ u \in live \/ \E i \in Nat : IsAdd(i, u) /\ i < j
      BY <1>4, <1>7, <3>3 DEF Covered
    <3>5. \A i, k \in Nat : IsAdd(i, u) /\ IsAdd(k, u) => i = k /\ u \notin live
      BY DEF AddInv, AddedOnce
    <3>6. v \notin live
      BY <1>5, <2>2 DEF Outstanding
    <3>7. u \in live => \E j \in Nat : j < last /\ IsAbort(j, IdOf[u])'
      BY <1>2, <1>4, <3>4 DEF Outstanding
    <3>8. \A i \in Nat : IsAdd(i, u) => \E j \in Nat : i < j /\ j < last /\ IsAbort(j, IdOf[u])'
      BY <1>2, <1>4, <3>4, <3>5 DEF Outstanding
    <3> QED BY <3>1, <3>2, <3>6, <3>7, <3>8
  <2> QED BY <2>1, <2>2
<1>13. CancelledCovered'
  BY <1>3, <1>8 DEF AbortInv, CancelledCovered
<1> QED BY <1>11, <1>12, <1>13 DEF AbortInv

\* The engine takes a request: no other with its id is in it, and what covers it is behind.
LEMMA AbortInvExecAdd ==
  ASSUME TypeOK, AddInv, AbortInv, ExecAdd
  PROVE  AbortInv'
<1> DEFINE t == Head(instructions).task
<1>1. /\ t \in Tasks
      /\ \A i \in Nat, u \in Tasks : IsAdd(i, u)' <=> i > 0 /\ IsAdd(i + 1, u)
      /\ \A i \in Nat, d \in Ids : IsAbort(i, d)' <=> i > 0 /\ IsAbort(i + 1, d)
      /\ live' = live \cup {t}
      /\ UNCHANGED <<pc, async_streamers>>
  BY InstructionPopped, MessageTypes DEF ExecAdd, taskVars, streamVars
<1>2. IsAdd(1, t) /\ \A d \in Ids : ~IsAbort(1, d)
  BY InstructionPopped DEF ExecAdd, IsAdd, IsAbort
<1>3. \A u \in Tasks : IdOf[u] \in Ids
  BY ConstantsAssumption
<1>4. /\ \A i \in Nat, u \in Tasks : IsAdd(i, u) => i > 0
      /\ \A i \in Nat, d \in Ids : IsAbort(i, d) => i > 1
  BY <1>2 DEF IsAdd, IsAbort
<1>5. \A i \in Nat : IsAdd(i, t) => i = 1
  BY <1>1, <1>2 DEF AddInv, AddedOnce
<1>6. \A u \in Tasks : Outstanding(u)' <=> Outstanding(u)
  <2> SUFFICES ASSUME NEW u \in Tasks PROVE Outstanding(u)' <=> Outstanding(u)
    OBVIOUS
  <2>1. CASE u = t
    BY <1>1, <1>2, <2>1 DEF Outstanding
  <2>2. CASE u # t
    <3>1. \A i \in Nat : IsAdd(i, u) => i - 1 \in Nat /\ IsAdd(i - 1, u)'
      <4> SUFFICES ASSUME NEW i \in Nat, IsAdd(i, u) PROVE i - 1 \in Nat /\ IsAdd(i - 1, u)'
        OBVIOUS
      <4>1. i # 1 /\ i > 0
        BY <1>2, <1>4, <2>2 DEF IsAdd
      <4>2. i - 1 \in Nat /\ i - 1 > 0 /\ (i - 1) + 1 = i
        BY <4>1
      <4> QED BY <1>1, <4>2
    <3> QED BY <1>1, <2>2, <3>1 DEF Outstanding
  <2> QED BY <2>1, <2>2
<1>7. \A j \in Nat, d \in Ids : IsAbort(j, d) => j - 1 \in Nat /\ IsAbort(j - 1, d)'
  <2> SUFFICES ASSUME NEW j \in Nat, NEW d \in Ids, IsAbort(j, d)
               PROVE  j - 1 \in Nat /\ IsAbort(j - 1, d)'
    OBVIOUS
  <2>1. j - 1 \in Nat /\ j - 1 > 0 /\ (j - 1) + 1 = j
    BY <1>4
  <2> QED BY <1>1, <2>1
<1>8. \A u \in Tasks : Covered(u) => Covered(u)'
  <2> SUFFICES ASSUME NEW u \in Tasks, NEW j \in Nat, IsAbort(j, IdOf[u]),
                      u \in live \/ \E i \in Nat : IsAdd(i, u) /\ i < j
               PROVE  Covered(u)'
    BY DEF Covered
  <2>1. j - 1 \in Nat /\ IsAbort(j - 1, IdOf[u])'
    BY <1>3, <1>7
  <2>2. CASE u \in live \/ u = t
    BY <1>1, <2>1, <2>2 DEF Covered
  <2>3. CASE ~(u \in live \/ u = t)
    <3>1. PICK i \in Nat : IsAdd(i, u) /\ i < j
      BY <2>3
    <3>2. i # 1 /\ i > 0
      BY <1>2, <1>4, <2>3, <3>1 DEF IsAdd
    <3>3. i - 1 \in Nat /\ i - 1 > 0 /\ (i - 1) + 1 = i /\ i - 1 < j - 1
      BY <3>1, <3>2
    <3>4. IsAdd(i - 1, u)'
      BY <1>1, <3>1, <3>3
    <3> QED BY <2>1, <3>3, <3>4 DEF Covered
  <2> QED BY <2>2, <2>3
<1>9. \A u \in Tasks : Sole(u) => Sole(u)'
  BY <1>1, <1>6 DEF Sole
<1>10. UnregisteredCovered'
  BY <1>1, <1>6, <1>8, <1>9 DEF AbortInv, UnregisteredCovered
<1>11. Separated'
  <2> SUFFICES ASSUME NEW u \in Tasks, NEW v \in Tasks, u # v, IdOf[u] = IdOf[v]
               PROVE  /\ ~(u \in live' /\ v \in live')
                      /\ \A k \in Nat : IsAdd(k, v)' /\ u \in live' =>
                                         \E j \in Nat : j < k /\ IsAbort(j, IdOf[u])'
                      /\ \A i, k \in Nat : IsAdd(i, u)' /\ IsAdd(k, v)' /\ i < k =>
                                            \E j \in Nat : i < j /\ j < k /\ IsAbort(j, IdOf[u])'
    BY DEF Separated
  <2>1. ASSUME NEW w \in Tasks, w # t, IdOf[w] = IdOf[t] PROVE w \notin live
    <3>1. w \in live => \E j \in Nat : j < 1 /\ IsAbort(j, IdOf[w])
      BY <1>1, <1>2, <2>1 DEF AbortInv, Separated
    <3> QED BY <1>3, <1>4, <2>1, <3>1
  <2>2. ~(u \in live' /\ v \in live')
    BY <1>1, <2>1 DEF AbortInv, Separated
  <2>3. ASSUME NEW k \in Nat, IsAdd(k, v)', u \in live'
        PROVE  \E j \in Nat : j < k /\ IsAbort(j, IdOf[u])'
    <3>1. k > 0 /\ IsAdd(k + 1, v) /\ k + 1 \in Nat
      BY <1>1, <2>3
    <3>2. PICK j \in Nat : j < k + 1 /\ IsAbort(j, IdOf[u])
      <4>1. CASE u \in live
        BY <3>1, <4>1 DEF AbortInv, Separated
      <4>2. CASE u = t
        <5>1. \E j \in Nat : 1 < j /\ j < k + 1 /\ IsAbort(j, IdOf[u])
          BY <1>2, <3>1, <4>2 DEF AbortInv, Separated
        <5> QED BY <5>1
      <4> QED BY <1>1, <2>3, <4>1, <4>2
    <3>3. j - 1 \in Nat /\ IsAbort(j - 1, IdOf[u])' /\ j - 1 < k
      BY <1>3, <1>7, <3>2
    <3> QED BY <3>3
  <2>4. ASSUME NEW i \in Nat, NEW k \in Nat, IsAdd(i, u)', IsAdd(k, v)', i < k
        PROVE  \E j \in Nat : i < j /\ j < k /\ IsAbort(j, IdOf[u])'
    <3>1. IsAdd(i + 1, u) /\ IsAdd(k + 1, v) /\ i + 1 < k + 1 /\ i + 1 \in Nat /\ k + 1 \in Nat
      BY <1>1, <2>4
    <3>2. PICK j \in Nat : i + 1 < j /\ j < k + 1 /\ IsAbort(j, IdOf[u])
      BY <3>1 DEF AbortInv, Separated
    <3>3. j - 1 \in Nat /\ IsAbort(j - 1, IdOf[u])' /\ j - 1 < k /\ i < j - 1
      BY <1>3, <1>7, <3>2
    <3> QED BY <3>3
  <2> QED BY <2>2, <2>3, <2>4
<1>12. CancelledCovered'
  BY <1>1, <1>6, <1>8 DEF AbortInv, CancelledCovered
<1> QED BY <1>10, <1>11, <1>12 DEF AbortInv

\* A request gets an output and may leave the engine.
LEMMA AbortInvStepped ==
  ASSUME AddInv, AbortInv, UNCHANGED <<instructions, async_streamers, pc>>, live' \subseteq live
  PROVE  AbortInv'
<1>1. /\ \A i \in Nat, t \in Tasks : IsAdd(i, t)' <=> IsAdd(i, t)
      /\ \A i \in Nat, id \in Ids : IsAbort(i, id)' <=> IsAbort(i, id)
  BY DEF IsAdd, IsAbort
<1>2. \A t \in Tasks : IdOf[t] \in Ids
  BY ConstantsAssumption
<1>3. \A t \in Tasks : Outstanding(t)' => Outstanding(t)
  BY <1>1 DEF Outstanding
<1>4. \A t \in Tasks : Outstanding(t)' /\ Covered(t) => Covered(t)'
  <2> SUFFICES ASSUME NEW t \in Tasks, Outstanding(t)', NEW j \in Nat, IsAbort(j, IdOf[t]),
                      t \in live \/ \E i \in Nat : IsAdd(i, t) /\ i < j
               PROVE  Covered(t)'
    BY DEF Covered
  <2>1. IsAbort(j, IdOf[t])'
    BY <1>1, <1>2
  <2>2. t \in live' \/ \E i \in Nat : IsAdd(i, t) /\ i < j
    BY <1>1 DEF Outstanding, AddInv, AddedOnce
  <2> QED BY <1>1, <2>1, <2>2 DEF Covered
<1>5. \A t \in Tasks : Sole(t) => Sole(t)'
  BY <1>3 DEF Sole
<1>6. UnregisteredCovered'
  BY <1>3, <1>4, <1>5 DEF AbortInv, UnregisteredCovered
<1>7. Separated'
  BY <1>1, <1>2 DEF AbortInv, Separated
<1>8. CancelledCovered'
  BY <1>3, <1>4 DEF AbortInv, CancelledCovered
<1> QED BY <1>6, <1>7, <1>8 DEF AbortInv

\* An abort takes the one request with its id out of the engine; those behind it have aborts
\* of their own.
LEMMA AbortInvExecAbort ==
  ASSUME TypeOK, AddInv, AbortInv, ExecAbort
  PROVE  AbortInv'
<1> DEFINE id == Head(instructions).id
           held == {t \in live : IdOf[t] = id}
<1>1. /\ \A i \in Nat, u \in Tasks : IsAdd(i, u)' <=> i > 0 /\ IsAdd(i + 1, u)
      /\ \A i \in Nat, d \in Ids : IsAbort(i, d)' <=> i > 0 /\ IsAbort(i + 1, d)
      /\ UNCHANGED <<pc, async_streamers>>
  BY InstructionPopped DEF ExecAbort, taskVars, streamVars
<1>2. /\ \A u \in Tasks : ~IsAdd(1, u)
      /\ \A d \in Ids : IsAbort(1, d) => d = id
  BY InstructionPopped DEF ExecAbort, IsAdd, IsAbort
<1>3. \A u \in Tasks : IdOf[u] \in Ids
  BY ConstantsAssumption
<1>4. /\ live' \subseteq live
      /\ \A u \in Tasks : IdOf[u] = id => u \notin live'
  <2>1. CASE held = {}
    BY <2>1 DEF ExecAbort
  <2>2. CASE held # {}
    <3>1. PICK t \in held : live' = live \ {t}
      BY <2>2 DEF ExecAbort
    <3>2. t \in Tasks
      BY DEF TypeOK
    <3>3. \A u \in Tasks : IdOf[u] = id /\ u \in live => u = t
      BY <3>2 DEF AbortInv, Separated
    <3> QED BY <3>1, <3>3
  <2> QED BY <2>1, <2>2
<1>5. \A i \in Nat, u \in Tasks : IsAdd(i, u) => i - 1 \in Nat /\ IsAdd(i - 1, u)'
  <2> SUFFICES ASSUME NEW i \in Nat, NEW u \in Tasks, IsAdd(i, u)
               PROVE  i - 1 \in Nat /\ IsAdd(i - 1, u)'
    OBVIOUS
  <2>1. i > 1
    BY <1>2 DEF IsAdd
  <2>2. i - 1 \in Nat /\ i - 1 > 0 /\ (i - 1) + 1 = i
    BY <2>1
  <2> QED BY <1>1, <2>2
<1>6. \A j \in Nat, d \in Ids : IsAbort(j, d) /\ j > 1 => j - 1 \in Nat /\ IsAbort(j - 1, d)'
  <2> SUFFICES ASSUME NEW j \in Nat, NEW d \in Ids, IsAbort(j, d), j > 1
               PROVE  j - 1 \in Nat /\ IsAbort(j - 1, d)'
    OBVIOUS
  <2>1. j - 1 \in Nat /\ j - 1 > 0 /\ (j - 1) + 1 = j
    OBVIOUS
  <2> QED BY <1>1, <2>1
<1>7. \A i \in Nat, u \in Tasks : IsAdd(i, u) => i > 1
  BY <1>2 DEF IsAdd
<1>8. \A u \in Tasks : Outstanding(u)' => Outstanding(u)
  BY <1>1, <1>4 DEF Outstanding
<1>9. \A u \in Tasks : Outstanding(u)' /\ Covered(u) => Covered(u)'
  <2> SUFFICES ASSUME NEW u \in Tasks, Outstanding(u)', NEW j \in Nat, IsAbort(j, IdOf[u]),
                      u \in live \/ \E i \in Nat : IsAdd(i, u) /\ i < j
               PROVE  Covered(u)'
    BY DEF Covered
  <2>1. CASE u \in live'
    <3>1. j > 1
      BY <1>2, <1>3, <1>4, <2>1 DEF IsAbort
    <3>2. j - 1 \in Nat /\ IsAbort(j - 1, IdOf[u])'
      BY <1>3, <1>6, <3>1
    <3> QED BY <2>1, <3>2 DEF Covered
  <2>2. CASE u \notin live'
    <3>1. u \notin live
      <4>1. PICK i \in Nat : IsAdd(i, u)'
        BY <2>2 DEF Outstanding
      <4>2. IsAdd(i + 1, u) /\ i + 1 \in Nat
        BY <1>1, <4>1
      <4> QED BY <4>2 DEF AddInv, AddedOnce
    <3>2. PICK i \in Nat : IsAdd(i, u) /\ i < j
      BY <3>1
    <3>3. j > 1 /\ i > 1
      BY <1>7, <3>2
    <3>4. /\ j - 1 \in Nat /\ IsAbort(j - 1, IdOf[u])'
          /\ i - 1 \in Nat /\ IsAdd(i - 1, u)'
          /\ i - 1 < j - 1
      BY <1>3, <1>5, <1>6, <3>2, <3>3
    <3> QED BY <3>4 DEF Covered
  <2> QED BY <2>1, <2>2
<1>10. \A u \in Tasks : Sole(u) => Sole(u)'
  BY <1>1, <1>8 DEF Sole
<1>11. UnregisteredCovered'
  BY <1>1, <1>8, <1>9, <1>10 DEF AbortInv, UnregisteredCovered
<1>12. Separated'
  <2> SUFFICES ASSUME NEW u \in Tasks, NEW v \in Tasks, u # v, IdOf[u] = IdOf[v]
               PROVE  /\ ~(u \in live' /\ v \in live')
                      /\ \A k \in Nat : IsAdd(k, v)' /\ u \in live' =>
                                         \E j \in Nat : j < k /\ IsAbort(j, IdOf[u])'
                      /\ \A i, k \in Nat : IsAdd(i, u)' /\ IsAdd(k, v)' /\ i < k =>
                                            \E j \in Nat : i < j /\ j < k /\ IsAbort(j, IdOf[u])'
    BY DEF Separated
  <2>1. ~(u \in live' /\ v \in live')
    BY <1>4 DEF AbortInv, Separated
  <2>2. ASSUME NEW k \in Nat, IsAdd(k, v)', u \in live'
        PROVE  \E j \in Nat : j < k /\ IsAbort(j, IdOf[u])'
    <3>1. IsAdd(k + 1, v) /\ k + 1 \in Nat /\ u \in live
      BY <1>1, <1>4, <2>2
    <3>2. PICK j \in Nat : j < k + 1 /\ IsAbort(j, IdOf[u])
      BY <3>1 DEF AbortInv, Separated
    <3>3. j > 1
      BY <1>2, <1>3, <1>4, <2>2, <3>2 DEF IsAbort
    <3>4. j - 1 \in Nat /\ IsAbort(j - 1, IdOf[u])' /\ j - 1 < k
      BY <1>3, <1>6, <3>2, <3>3
    <3> QED BY <3>4
  <2>3. ASSUME NEW i \in Nat, NEW k \in Nat, IsAdd(i, u)', IsAdd(k, v)', i < k
        PROVE  \E j \in Nat : i < j /\ j < k /\ IsAbort(j, IdOf[u])'
    <3>1. IsAdd(i + 1, u) /\ IsAdd(k + 1, v) /\ i + 1 < k + 1 /\ i + 1 \in Nat /\ k + 1 \in Nat
      BY <1>1, <2>3
    <3>2. PICK j \in Nat : i + 1 < j /\ j < k + 1 /\ IsAbort(j, IdOf[u])
      BY <3>1 DEF AbortInv, Separated
    <3>3. j - 1 \in Nat /\ IsAbort(j - 1, IdOf[u])' /\ j - 1 < k /\ i < j - 1
      BY <1>3, <1>6, <3>2
    <3> QED BY <3>3
  <2> QED BY <2>1, <2>2, <2>3
<1>13. CancelledCovered'
  BY <1>1, <1>8, <1>9 DEF AbortInv, CancelledCovered
<1> QED BY <1>11, <1>12, <1>13 DEF AbortInv

\* A final output that unregisters the stream of another task than its own leaves that task's
\* request alone with the id, as long as no third task shares it.
LEMMA AbortInvCallback ==
  ASSUME AtMostTwoShare, TypeOK, StreamInv, AddInv, AbortInv, RunCallback
  PROVE  AbortInv'
<1> DEFINE delta == Head(loopQueue)
           t == async_streamers[delta.id]
<1>1. /\ delta \in Delta /\ delta = loopQueue[1] /\ 1 \in 1..Len(loopQueue)
      /\ delta.id \in Ids
      /\ delta.output.source \in Tasks
      /\ t \in Tasks \cup {NoTask}
  <2>1. delta \in Delta /\ delta = loopQueue[1] /\ delta.id \in Ids /\ delta.output \in Output
        /\ Len(loopQueue) \in Nat \ {0}
    BY CallbackType DEF RunCallback
  <2>2. t \in Tasks \cup {NoTask}
    BY <2>1 DEF TypeOK
  <2>3. delta.output.source \in Tasks
    BY <2>1 DEF Output
  <2> QED BY <2>1, <2>2, <2>3
<1>2. UNCHANGED <<instructions, live, pc>>
  BY DEF RunCallback, taskVars, engineVars
<1>3. CASE t = NoTask
  <2>1. async_streamers' = async_streamers
    BY <1>3 DEF RunCallback, streamVars
  <2> QED BY <1>2, <2>1, AbortInvFrame
<1>4. CASE t # NoTask /\ ~delta.output.final
  <2>1. async_streamers' = [async_streamers EXCEPT ![delta.id] = @]
    BY <1>4 DEF RunCallback
  <2>2. async_streamers' = async_streamers
    BY <2>1, <1>1 DEF TypeOK
  <2> QED BY <1>2, <2>2, AbortInvFrame
<1>5. CASE t # NoTask /\ delta.output.final
  <2> DEFINE s == delta.output.source
  <2>1. IdOf[s] = delta.id /\ ~Outstanding(s)
    BY <1>1, <1>5 DEF AddInv, OutputsOnTheWay
  <2>2. t \in Tasks /\ IdOf[t] = delta.id
    BY <1>1, <1>5 DEF StreamInv, RegisteredOpen
  <2>3. pc[s] # "new"
    <3>1. loopQueue[1].output.n \in 1..emitted[s] /\ emitted[s] \in Nat
      BY <1>1 DEF AddInv, OutputsOnTheWay, TypeOK
    <3>2. emitted[s] # 0
      BY <3>1
    <3> QED BY <1>1, <3>2 DEF AddInv, NewUntouched
  <2>4. Outstanding(t) => Sole(t)
    BY <1>1, <2>1, <2>2, <2>3 DEF Sole, AtMostTwoShare
  <2>5. \A d \in Ids : d # delta.id => async_streamers'[d] = async_streamers[d]
    BY <1>5, <1>1 DEF RunCallback, TypeOK
  <2>6. /\ \A i \in Nat, u \in Tasks : IsAdd(i, u)' <=> IsAdd(i, u)
        /\ \A i \in Nat, d \in Ids : IsAbort(i, d)' <=> IsAbort(i, d)
    BY <1>2 DEF IsAdd, IsAbort
  <2>7. \A u \in Tasks : IdOf[u] \in Ids
    BY ConstantsAssumption
  <2>8. \A u \in Tasks : (Outstanding(u)' <=> Outstanding(u)) /\ (Covered(u)' <=> Covered(u))
    BY <1>2, <2>6, <2>7 DEF Outstanding, Covered
  <2>9. \A u \in Tasks : Sole(u) => Sole(u)'
    BY <1>2, <2>8 DEF Sole
  <2>10. UnregisteredCovered'
    <3> SUFFICES ASSUME NEW u \in Tasks, Outstanding(u)
                 PROVE  async_streamers'[IdOf[u]] = u \/ Covered(u) \/ Sole(u)
      BY <2>8, <2>9 DEF UnregisteredCovered
    <3>1. async_streamers[IdOf[u]] = u \/ Covered(u) \/ Sole(u)
      BY DEF AbortInv, UnregisteredCovered
    <3> QED BY <2>2, <2>4, <2>5, <2>7, <3>1
  <2>11. Separated'
    BY <1>2, <2>6, <2>7 DEF AbortInv, Separated
  <2>12. CancelledCovered'
    BY <1>2, <2>8 DEF AbortInv, CancelledCovered
  <2> QED BY <2>10, <2>11, <2>12 DEF AbortInv
<1> QED BY <1>3, <1>4, <1>5

\* Every step keeps the facts about aborts on the way, when at most two tasks share an id.
LEMMA AbortInvStep ==
  AtMostTwoShare /\ TypeOK /\ StreamInv /\ AddInv /\ AbortInv /\ [Next]_vars => AbortInv'
<1> SUFFICES ASSUME AtMostTwoShare, TypeOK, StreamInv, AddInv, AbortInv, [Next]_vars PROVE AbortInv'
  OBVIOUS
<1> USE ConstantsAssumption
<1>1. CASE UNCHANGED vars
  BY <1>1, AbortInvFrame DEF vars, taskVars, streamVars, engineVars
<1>2. ASSUME NEW t \in Tasks, Refuse(t) PROVE AbortInv'
  <2>1. \A u \in Tasks : u # t => pc'[u] = pc[u]
    BY <1>2 DEF Refuse, TypeOK
  <2>2. pc'[t] = "failed"
    BY <1>2 DEF Refuse, TypeOK
  <2> QED BY <1>2, <2>1, <2>2, AbortInvFrame DEF Refuse, streamVars, engineVars
<1>3. ASSUME NEW t \in Tasks, Generate(t) PROVE AbortInv'
  <2>1. pc'[t] = "streaming" /\ \A u \in Tasks : u # t => pc'[u] = pc[u]
    BY <1>3 DEF Generate, TypeOK
  <2>2. CASE async_streamers[IdOf[t]] # NoTask
    BY <1>3, <2>1, <2>2, AbortInvFrame DEF Generate
  <2>3. CASE async_streamers[IdOf[t]] = NoTask
    BY <1>3, <2>3, AbortInvAdd
  <2> QED BY <2>2, <2>3
<1>4. ASSUME NEW t \in Tasks, Yield(t) PROVE AbortInv'
  BY <1>4, AbortInvFrame DEF Yield, engineVars
<1>5. ASSUME NEW t \in Tasks, Finish(t) PROVE AbortInv'
  <2>1. pc'[t] = "done" /\ \A u \in Tasks : u # t => pc'[u] = pc[u]
    BY <1>5 DEF Finish, TypeOK
  <2> QED BY <1>5, <2>1, AbortInvFrame DEF Finish, engineVars
<1>6. ASSUME NEW t \in Tasks, Raise(t) PROVE AbortInv'
  <2>1. IdOf[t] \in Ids /\ pc'[t] = "failed" /\ \A u \in Tasks : u # t => pc'[u] = pc[u]
    BY <1>6 DEF Raise, TypeOK
  <2> QED BY <1>6, <2>1, AbortCovers DEF Raise
<1>7. ASSUME NEW t \in Tasks, Cancel(t) PROVE AbortInv'
  <2>1. IdOf[t] \in Ids /\ pc'[t] = "cancelled" /\ \A u \in Tasks : u # t => pc'[u] = pc[u]
    BY <1>7 DEF Cancel, TypeOK
  <2> QED BY <1>7, <2>1, AbortCovers DEF Cancel
<1>8. ASSUME NEW t \in Tasks, Disconnect(t) PROVE AbortInv'
  <2>1. pc'[t] = "abandoned" /\ \A u \in Tasks : u # t => pc'[u] = pc[u]
    BY <1>8 DEF Disconnect, TypeOK
  <2> QED BY <1>8, <2>1, AbortInvFrame DEF Disconnect, streamVars, engineVars
<1>9. ASSUME NEW t \in Tasks, CloseAbandoned(t) PROVE AbortInv'
  <2>1. IdOf[t] \in Ids /\ pc'[t] = "cancelled" /\ \A u \in Tasks : u # t => pc'[u] = pc[u]
    BY <1>9 DEF CloseAbandoned, TypeOK
  <2> QED BY <1>9, <2>1, AbortCovers DEF CloseAbandoned
<1>10. ASSUME NEW t \in Tasks, Step(t) PROVE AbortInv'
  <2>1. live' \subseteq live
    BY <1>10 DEF Step
  <2> QED BY <1>10, <2>1, AbortInvStepped DEF Step, taskVars, streamVars
<1>11. ASSUME NEW id \in Ids, AbortCall(id) PROVE AbortInv'
  BY <1>11, AbortCovers DEF AbortCall, taskVars
<1>12. CASE RunCallback
  BY <1>12, AbortInvCallback
<1>13. CASE Terminate
  BY <1>13, AbortInvFrame DEF Terminate, taskVars, streamVars, engineVars
<1>14. CASE ExecAdd
  BY <1>14, AbortInvExecAdd
<1>15. CASE ExecAbort
  BY <1>15, AbortInvExecAbort
<1> QED
  BY <1>1, <1>2, <1>3, <1>4, <1>5, <1>6, <1>7, <1>8, <1>9, <1>10, <1>11, <1>12, <1>13, <1>14,
     <1>15 DEF Next

-----------------------------------------------------------------------------
(* The way of the outputs of an undisturbed task.                          *)

\* A step that does not touch what belongs to the task.
LEMMA PathFrame ==
  ASSUME NEW t \in Tasks, OwnInOrder(t), NextArrive(t),
         recv'[t] = recv[t], queue'[t] = queue[t], finished'[t] = finished[t],
         emitted'[t] = emitted[t], loopQueue' = loopQueue,
         async_streamers'[IdOf[t]] = t => async_streamers[IdOf[t]] = t
  PROVE  OwnInOrder(t)' /\ NextArrive(t)'
<1>1. OwnInOrder(t)'
  BY DEF OwnInOrder, Queued
<1>2. NextArrive(t)'
  <2>1. \A i \in Nat : Arriving(t, i)' <=> Arriving(t, i)
    BY DEF Arriving
  <2> QED BY <2>1 DEF NextArrive
<1> QED BY <1>1, <1>2

\* Aborting an id registers nothing.
LEMMA AbortUnregisters ==
  ASSUME TypeOK, NEW id \in Ids, Abort(id), NEW t \in Tasks, async_streamers'[IdOf[t]] = t
  PROVE  async_streamers[IdOf[t]] = t
  BY ConstantsAssumption DEF TypeOK, Abort

\* Nobody else has the id of an undisturbed task.
LEMMA UndisturbedAlone ==
  ASSUME NEW t \in Undisturbed
  PROVE  t \in Tasks /\ IdOf[t] \in Ids /\ \A u \in Tasks : IdOf[u] = IdOf[t] => u = t
  BY ConstantsAssumption DEF Undisturbed

\* The way of an undisturbed task begins empty.
LEMMA PathGenerate ==
  ASSUME TypeOK, StreamInv, AddInv, NEW t \in Undisturbed, Generate(t)
  PROVE  OwnInOrder(t)' /\ NextArrive(t)'
<1>1. t \in Tasks /\ IdOf[t] \in Ids /\ \A u \in Tasks : IdOf[u] = IdOf[t] => u = t
  BY UndisturbedAlone
<1>2. pc[t] = "new"
  BY DEF Generate
<1>3. async_streamers[IdOf[t]] = NoTask
  <2>1. async_streamers[IdOf[t]] \in Tasks \cup {NoTask}
    BY <1>1 DEF TypeOK
  <2>2. \A u \in Tasks : async_streamers[IdOf[t]] = u => IdOf[u] = IdOf[t] /\ pc[u] # "new"
    BY <1>1 DEF StreamInv, RegisteredOpen
  <2> QED BY <1>1, <1>2, <2>1, <2>2
<1>4. /\ queue[t] = <<>> /\ recv[t] = <<>> /\ emitted[t] = 0
  BY <1>1, <1>2 DEF AddInv, NewUntouched
<1>5. UNCHANGED <<queue, recv, emitted, loopQueue>>
  BY <1>3 DEF Generate
<1>6. ASSUME NEW i \in Nat, Arriving(t, i) PROVE FALSE
  <2>1. i \in 1..Len(loopQueue) /\ loopQueue[i].id = IdOf[t] /\ loopQueue[i] \in Delta
    BY <1>6 DEF Arriving, TypeOK
  <2>2. loopQueue[i].output.source \in Tasks
    BY <2>1 DEF Delta, Output
  <2>3. loopQueue[i].output.source = t
    BY <1>1, <2>1, <2>2 DEF AddInv, OutputsOnTheWay
  <2>4. loopQueue[i].output.n \in 1..0
    BY <1>1, <1>4, <2>1, <2>3 DEF AddInv, OutputsOnTheWay
  <2> QED BY <2>4
<1>7. OwnInOrder(t)'
  BY <1>4, <1>5 DEF OwnInOrder
<1>8. NextArrive(t)'
  <2>1. \A i \in Nat : ~Arriving(t, i)'
    BY <1>5, <1>6 DEF Arriving
  <2>2. Len(recv'[t]) = 0 /\ Len(queue'[t]) = 0 /\ emitted'[t] = 0
    <3>1. recv'[t] = <<>> /\ queue'[t] = <<>> /\ emitted'[t] = 0
      BY <1>4, <1>5
    <3> QED BY <3>1
  <2> QED BY <2>1, <2>2 DEF NextArrive
<1> QED BY <1>7, <1>8

\* The task reads the head of its queue.
LEMMA PathYield ==
  ASSUME TypeOK, NEW t \in Tasks, OwnInOrder(t), NextArrive(t), Yield(t)
  PROVE  OwnInOrder(t)' /\ NextArrive(t)'
<1> DEFINE q == queue[t]
           o == Head(q).output
<1>1. /\ q \in Seq(Item) /\ q # <<>> /\ Head(q) = q[1] /\ Len(q) \in Nat \ {0}
      /\ Len(Tail(q)) = Len(q) - 1
      /\ \A i \in 1..Len(Tail(q)) : Tail(q)[i] = q[i + 1]
  BY DEF TypeOK, Yield
<1>2. recv[t] \in Seq(Output) /\ Len(recv[t]) \in Nat
  BY DEF TypeOK
<1>3. /\ queue'[t] = Tail(q)
      /\ recv'[t] = Append(recv[t], o)
      /\ q[1].kind = "output"
      /\ UNCHANGED <<finished, emitted, loopQueue, async_streamers>>
  BY <1>1 DEF Yield, TypeOK, engineVars
<1>4. o.source = t /\ o.n = Len(recv[t]) + 1 /\ (o.final => finished[t] /\ \A j \in Nat : Queued(t, j) => j <= 1)
  <2>1. q[1] # Stop
    BY <1>3 DEF Stop
  <2> QED BY <1>1, <2>1 DEF OwnInOrder
<1>5. \A i \in 1..Len(recv[t]) : ~recv[t][i].final
  <2>1. Queued(t, 1)
    BY <1>1, <1>3 DEF Queued
  <2> QED BY <2>1 DEF OwnInOrder
<1>6. \A j \in Nat : Queued(t, j)' => Queued(t, j + 1)
  BY <1>1, <1>3 DEF Queued
<1>7. /\ Len(recv'[t]) = Len(recv[t]) + 1
      /\ \A i \in 1..Len(recv[t]) : recv'[t][i] = recv[t][i]
      /\ recv'[t][Len(recv[t]) + 1] = o
  <2> HIDE DEF o, q
  <2>1. o \in Output
    <3>1. Head(q) \in Item /\ Head(q).kind = "output"
      BY <1>1, <1>3
    <3> QED BY <3>1, MessageTypes DEF o
  <2> QED BY <1>2, <1>3, <2>1
<1> HIDE DEF o, q
<1>8. ASSUME NEW i \in 1..Len(recv'[t])
      PROVE  /\ recv'[t][i].source = t
             /\ recv'[t][i].n = i
             /\ recv'[t][i].final =>
                  i = Len(recv'[t]) /\ finished'[t] /\ \A j \in Nat : ~Queued(t, j)'
  <2>1. CASE i \in 1..Len(recv[t])
    <3>1. recv[t][i].source = t /\ recv[t][i].n = i
      BY <2>1 DEF OwnInOrder
    <3> QED BY <1>5, <1>7, <2>1, <3>1
  <2>2. CASE i = Len(recv[t]) + 1
    <3>1. o.final => \A j \in Nat : ~Queued(t, j)'
      <4> SUFFICES ASSUME o.final, NEW j \in Nat, Queued(t, j)' PROVE FALSE
        OBVIOUS
      <4>1. Queued(t, j + 1) /\ j + 1 \in Nat
        BY <1>6
      <4>2. j + 1 <= 1
        BY <1>4, <4>1
      <4>3. j > 0
        BY DEF Queued
      <4> QED BY <4>2, <4>3
    <3> QED BY <1>3, <1>4, <1>7, <2>2, <3>1
  <2> QED BY <1>2, <1>7, <2>1, <2>2
<1>9. ASSUME NEW i \in 1..Len(queue'[t])
      PROVE  \/ queue'[t][i] = Stop /\ i = Len(queue'[t])
             \/ /\ queue'[t][i].kind = "output"
                /\ queue'[t][i].output.source = t
                /\ queue'[t][i].output.n = Len(recv'[t]) + i
                /\ queue'[t][i].output.final =>
                     finished'[t] /\ \A j \in Nat : Queued(t, j)' => j <= i
  <2>1. i + 1 \in 1..Len(q) /\ queue'[t][i] = q[i + 1] /\ i \in Nat
    BY <1>1, <1>3
  <2>2. \/ q[i + 1] = Stop /\ i + 1 = Len(q)
        \/ /\ q[i + 1].kind = "output"
           /\ q[i + 1].output.source = t
           /\ q[i + 1].output.n = Len(recv[t]) + (i + 1)
           /\ q[i + 1].output.final => finished[t] /\ \A j \in Nat : Queued(t, j) => j <= i + 1
    BY <2>1 DEF OwnInOrder, q
  <2>3. (\A j \in Nat : Queued(t, j) => j <= i + 1) => \A j \in Nat : Queued(t, j)' => j <= i
    <3> SUFFICES ASSUME \A j \in Nat : Queued(t, j) => j <= i + 1, NEW j \in Nat, Queued(t, j)'
                 PROVE  j <= i
      OBVIOUS
    <3>1. Queued(t, j + 1) /\ j + 1 \in Nat
      BY <1>6
    <3>2. j + 1 <= i + 1
      BY <3>1
    <3> QED BY <2>1, <3>2
  <2>4. Len(queue'[t]) = Len(q) - 1 /\ Len(q) \in Nat
    BY <1>1, <1>3
  <2>5. Len(recv'[t]) + i = Len(recv[t]) + (i + 1)
    <3>1. Len(recv'[t]) = Len(recv[t]) + 1
      BY <1>7, Zenon
    <3>2. Len(recv[t]) \in Nat /\ i \in Nat
      BY <1>2, <2>1, Zenon
    <3>3. \A m, n \in Nat : (m + 1) + n = m + (n + 1)
      OBVIOUS
    <3> QED BY <3>1, <3>2, <3>3, Zenon
  <2>6. CASE q[i + 1] = Stop /\ i + 1 = Len(q)
    BY <2>1, <2>4, <2>6
  <2>7. CASE /\ q[i + 1].kind = "output"
             /\ q[i + 1].output.source = t
             /\ q[i + 1].output.n = Len(recv[t]) + (i + 1)
             /\ q[i + 1].output.final => finished[t] /\ \A j \in Nat : Queued(t, j) => j <= i + 1
    <3>1. finished'[t] = finished[t]
      BY <1>3
    <3>2. q[i + 1].output.final => finished'[t] /\ \A j \in Nat : Queued(t, j)' => j <= i
      BY <2>3, <2>7, <3>1
    <3> QED BY <2>1, <2>5, <2>7, <3>2
  <2> QED BY <2>2, <2>6, <2>7
<1>10. OwnInOrder(t)'
  BY <1>8, <1>9 DEF OwnInOrder
<1>11. Len(recv'[t]) + Len(queue'[t]) = Len(recv[t]) + Len(queue[t])
  <2>1. Len(queue'[t]) = Len(q) - 1
    BY <1>1, <1>3
  <2>2. Len(recv'[t]) + Len(queue'[t]) = Len(recv[t]) + Len(q)
    <3>1. Len(q) \in Nat /\ Len(recv[t]) \in Nat /\ Len(recv'[t]) = Len(recv[t]) + 1
      BY <1>1, <1>2, <1>7
    <3> QED BY <2>1, <3>1
  <2> QED BY <2>2 DEF q
<1>12. NextArrive(t)'
  BY <1>3, <1>11 DEF NextArrive, Arriving
<1> QED BY <1>10, <1>12

\* A callback for the task brings its next output.
LEMMA PathCallback ==
  ASSUME TypeOK, StreamInv, AddInv, NEW t \in Undisturbed, OwnInOrder(t), NextArrive(t), RunCallback
  PROVE  OwnInOrder(t)' /\ NextArrive(t)'
<1> DEFINE delta == Head(loopQueue)
           o == delta.output
           seen == Len(recv[t]) + Len(queue[t])
<1>1. t \in Tasks /\ IdOf[t] \in Ids /\ \A u \in Tasks : IdOf[u] = IdOf[t] => u = t
  BY UndisturbedAlone
<1>2. /\ delta = loopQueue[1]
      /\ 1 \in 1..Len(loopQueue)
      /\ delta.id \in Ids
      /\ o \in Output
      /\ loopQueue' = Tail(loopQueue)
      /\ Len(loopQueue) \in Nat \ {0}
      /\ Len(loopQueue') = Len(loopQueue) - 1
      /\ \A i \in 1..Len(loopQueue') : loopQueue'[i] = loopQueue[i + 1]
  BY CallbackType DEF RunCallback
<1>3. UNCHANGED <<pc, recv, emitted>>
  BY DEF RunCallback, taskVars, engineVars
<1>4. \A i \in Nat : Arriving(t, i)' => Arriving(t, i + 1) /\ loopQueue'[i] = loopQueue[i + 1]
  BY <1>2 DEF Arriving
<1>5. \A i \in Nat : Arriving(t, i) /\ i # 1 => i - 1 \in Nat /\ Arriving(t, i - 1)' /\ loopQueue'[i - 1] = loopQueue[i]
  <2> SUFFICES ASSUME NEW i \in Nat, Arriving(t, i), i # 1
               PROVE  i - 1 \in Nat /\ i - 1 \in 1..Len(loopQueue') /\ loopQueue'[i - 1] = loopQueue[i]
    BY DEF Arriving
  <2>1. i - 1 \in Nat /\ i - 1 \in 1..Len(loopQueue') /\ (i - 1) + 1 = i
    BY <1>2 DEF Arriving
  <2> QED BY <1>2, <2>1
<1>6. CASE async_streamers[delta.id] # t
  <2>1. recv'[t] = recv[t] /\ queue'[t] = queue[t] /\ finished'[t] = finished[t] /\ emitted'[t] = emitted[t]
    <3>1. CASE async_streamers[delta.id] = NoTask
      BY <1>3, <3>1 DEF RunCallback, streamVars
    <3>2. CASE async_streamers[delta.id] # NoTask
      BY <1>1, <1>2, <1>3, <1>6, <3>2 DEF RunCallback, TypeOK
    <3> QED BY <3>1, <3>2
  <2>2. async_streamers'[IdOf[t]] = t => async_streamers[IdOf[t]] = t
    <3>1. CASE async_streamers[delta.id] = NoTask
      BY <3>1 DEF RunCallback, streamVars
    <3>2. CASE async_streamers[delta.id] # NoTask
      BY <1>1, <1>2, <3>2, ConstantsAssumption DEF RunCallback, TypeOK
    <3> QED BY <3>1, <3>2
  <2>3. OwnInOrder(t)'
    BY <2>1 DEF OwnInOrder, Queued
  <2>4. ASSUME async_streamers[IdOf[t]] = t PROVE ~Arriving(t, 1)
    BY <1>2, <1>6, <2>4 DEF Arriving
  <2>5. NextArrive(t)'
    <3> SUFFICES ASSUME async_streamers'[IdOf[t]] = t
                 PROVE  /\ seen <= emitted[t]
                        /\ \A i \in Nat : Arriving(t, i)' => loopQueue'[i].output.n > seen
                        /\ \A i, j \in Nat : Arriving(t, i)' /\ Arriving(t, j)' /\ i < j =>
                                             loopQueue'[i].output.n < loopQueue'[j].output.n
                        /\ \A n \in Nat : n > seen /\ n <= emitted[t] =>
                                           \E i \in Nat : Arriving(t, i)' /\ loopQueue'[i].output.n = n
      BY <2>1 DEF NextArrive
    <3>1. async_streamers[IdOf[t]] = t /\ ~Arriving(t, 1)
      BY <2>2, <2>4
    <3>2. /\ seen <= emitted[t]
          /\ \A i \in Nat : Arriving(t, i) => loopQueue[i].output.n > seen
          /\ \A i, j \in Nat : Arriving(t, i) /\ Arriving(t, j) /\ i < j =>
                               loopQueue[i].output.n < loopQueue[j].output.n
          /\ \A n \in Nat : n > seen /\ n <= emitted[t] =>
                             \E i \in Nat : Arriving(t, i) /\ loopQueue[i].output.n = n
      BY <3>1 DEF NextArrive
    <3>3. \A i \in Nat : i + 1 \in Nat
      OBVIOUS
    <3>4. \A i \in Nat : Arriving(t, i)' => loopQueue'[i].output.n > seen
      BY <1>4, <3>2, <3>3
    <3>5. ASSUME NEW i \in Nat, NEW j \in Nat, Arriving(t, i)', Arriving(t, j)', i < j
          PROVE  loopQueue'[i].output.n < loopQueue'[j].output.n
      <4>1. i + 1 < j + 1 /\ i + 1 \in Nat /\ j + 1 \in Nat
        BY <3>5
      <4> QED BY <1>4, <3>2, <3>5, <4>1
    <3>6. ASSUME NEW n \in Nat, n > seen, n <= emitted[t]
          PROVE  \E i \in Nat : Arriving(t, i)' /\ loopQueue'[i].output.n = n
      <4>1. PICK i \in Nat : Arriving(t, i) /\ loopQueue[i].output.n = n
        BY <3>2, <3>6
      <4>2. i # 1
        BY <3>1, <4>1
      <4> QED BY <1>5, <4>1, <4>2
    <3> QED BY <3>2, <3>4, <3>5, <3>6
  <2> QED BY <2>3, <2>5
<1>7. CASE async_streamers[delta.id] = t
  <2>1. IdOf[t] = delta.id /\ ~finished[t]
    BY <1>1, <1>2, <1>7 DEF StreamInv, RegisteredOpen
  <2>2. Arriving(t, 1)
    BY <1>2, <2>1 DEF Arriving
  <2>3. o.source = t /\ o.n \in 1..emitted[t] /\ emitted[t] \in Nat
    <3>1. o.source \in Tasks
      BY <1>2 DEF Output
    <3>2. IdOf[o.source] = delta.id
      BY <1>2, <3>1 DEF AddInv, OutputsOnTheWay
    <3>3. o.source = t
      BY <1>1, <2>1, <3>1, <3>2
    <3> QED BY <1>1, <1>2, <3>3 DEF AddInv, OutputsOnTheWay, TypeOK
  <2>4. /\ seen \in Nat /\ Len(queue[t]) \in Nat /\ Len(recv[t]) \in Nat
        /\ queue[t] \in Seq(Item)
    BY <1>1 DEF TypeOK
  <2>5. /\ \A i \in Nat : Arriving(t, i) => loopQueue[i].output.n > seen
        /\ \A i, j \in Nat : Arriving(t, i) /\ Arriving(t, j) /\ i < j =>
                             loopQueue[i].output.n < loopQueue[j].output.n
        /\ \A n \in Nat : n > seen /\ n <= emitted[t] =>
                           \E i \in Nat : Arriving(t, i) /\ loopQueue[i].output.n = n
    BY <1>7, <2>1 DEF NextArrive
  <2>6. o = loopQueue[1].output
    BY <1>2
  <2>13. o.n = seen + 1
    <3> HIDE DEF seen, o
    <3>1. o.n > seen
      BY <2>2, <2>5, <2>6
    <3>2. PICK i \in Nat : Arriving(t, i) /\ loopQueue[i].output.n = seen + 1
      <4>1. seen + 1 \in Nat /\ seen + 1 > seen /\ seen + 1 <= emitted[t]
        BY <2>3, <2>4, <3>1
      <4> QED BY <2>5, <4>1
    <3>3. i > 0
      BY <3>2 DEF Arriving
    <3>4. i > 1 => o.n < seen + 1
      BY <2>2, <2>5, <2>6, <3>2
    <3>5. i = 1
      <4>1. o.n \in Nat
        BY <2>3
      <4> QED BY <2>4, <3>1, <3>3, <3>4, <4>1
    <3> QED BY <2>6, <3>2, <3>5
  <2> DEFINE item == [kind |-> "output", output |-> o]
             q == queue[t]
  <2>7. item \in Item /\ item.kind = "output" /\ item.output = o
    BY <1>2, MessageTypes
  <2>8. \A i \in 1..Len(q) : q[i] # Stop /\ q[i].kind = "output" /\ q[i].output.source = t
                             /\ q[i].output.n = Len(recv[t]) + i /\ ~q[i].output.final
    BY <1>1, <2>1 DEF OwnInOrder, StreamInv, StopFinished
  <2>9. \A i \in 1..Len(recv[t]) : recv[t][i].source = t /\ recv[t][i].n = i /\ ~recv[t][i].final
    BY <2>1 DEF OwnInOrder
  <2>10. /\ queue'[t] = IF o.final THEN Append(Append(q, item), Stop) ELSE Append(q, item)
         /\ finished'[t] = (finished[t] \/ o.final)
         /\ async_streamers'[IdOf[t]] = IF o.final THEN NoTask ELSE t
    <3>1. t # NoTask
      BY <1>1, ConstantsAssumption
    <3> QED BY <1>1, <1>2, <1>7, <2>1, <3>1 DEF RunCallback, Push, TypeOK
  <2> HIDE DEF item, q, o, seen
  <2>11. CASE o.final
    <3>1. /\ Len(queue'[t]) = Len(q) + 2
          /\ \A i \in 1..Len(q) : queue'[t][i] = q[i]
          /\ queue'[t][Len(q) + 1] = item
          /\ queue'[t][Len(q) + 2] = Stop
      <4> DEFINE p == Append(q, item)
      <4>1. /\ p \in Seq(Item) /\ Len(p) = Len(q) + 1
            /\ \A i \in 1..Len(q) : p[i] = q[i]
            /\ p[Len(q) + 1] = item
        BY <2>4, <2>7 DEF q
      <4>2. queue'[t] = Append(p, Stop) /\ Stop \in Item
        BY <2>10, <2>11, MessageTypes
      <4> HIDE DEF p
      <4>3. Len(q) \in Nat
        BY <2>4 DEF q
      <4> QED BY <4>1, <4>2, <4>3
    <3>2. \A j \in Nat : Queued(t, j)' => j <= Len(q) + 1
      BY <2>4, <3>1 DEF Queued, Stop, q
    <3>3. finished'[t]
      BY <2>10, <2>11
    <3>4. ASSUME NEW i \in 1..Len(queue'[t])
          PROVE  \/ queue'[t][i] = Stop /\ i = Len(queue'[t])
                 \/ /\ queue'[t][i].kind = "output"
                    /\ queue'[t][i].output.source = t
                    /\ queue'[t][i].output.n = Len(recv'[t]) + i
                    /\ queue'[t][i].output.final =>
                         finished'[t] /\ \A j \in Nat : Queued(t, j)' => j <= i
      <4>1. CASE i \in 1..Len(q)
        BY <1>3, <2>8, <3>1, <4>1
      <4>2. CASE i = Len(q) + 1
        <5>1. queue'[t][i] = item /\ o.n = Len(recv'[t]) + i
          <6>1. PICK a \in Nat, b \in Nat : a = Len(recv[t]) /\ b = Len(q)
            BY <2>4 DEF q
          <6>2. seen = a + b
            BY <6>1 DEF q, seen
          <6>3. o.n = a + b + 1 /\ i = b + 1
            BY <2>13, <4>2, <6>1, <6>2
          <6>4. Len(recv'[t]) = a
            BY <1>3, <6>1
          <6> QED BY <3>1, <4>2, <6>3, <6>4
        <5> QED BY <2>3, <2>7, <3>2, <3>3, <4>2, <5>1
      <4>3. CASE i = Len(q) + 2
        BY <3>1, <4>3
      <4> QED BY <2>4, <3>1, <4>1, <4>2, <4>3 DEF q
    <3>5. OwnInOrder(t)'
      BY <1>3, <2>9, <3>4 DEF OwnInOrder
    <3>6. NextArrive(t)'
      BY <1>1, <2>10, <2>11, ConstantsAssumption DEF NextArrive
    <3> QED BY <3>5, <3>6
  <2>12. CASE ~o.final
    <3>1. /\ Len(queue'[t]) = Len(q) + 1
          /\ \A i \in 1..Len(q) : queue'[t][i] = q[i]
          /\ queue'[t][Len(q) + 1] = item
          /\ Len(q) \in Nat
      BY <2>4, <2>7, <2>10, <2>12 DEF q
    <3>2. ASSUME NEW i \in 1..Len(queue'[t])
          PROVE  /\ queue'[t][i].kind = "output"
                 /\ queue'[t][i].output.source = t
                 /\ queue'[t][i].output.n = Len(recv'[t]) + i
                 /\ ~queue'[t][i].output.final
      <4>1. CASE i \in 1..Len(q)
        BY <1>3, <2>8, <3>1, <4>1
      <4>2. CASE i = Len(q) + 1
        <5>1. queue'[t][i] = item /\ o.n = Len(recv'[t]) + i
          <6>1. PICK a \in Nat, b \in Nat : a = Len(recv[t]) /\ b = Len(q)
            BY <2>4 DEF q
          <6>2. seen = a + b
            BY <6>1 DEF q, seen
          <6>3. o.n = a + b + 1 /\ i = b + 1
            BY <2>13, <4>2, <6>1, <6>2
          <6>4. Len(recv'[t]) = a
            BY <1>3, <6>1
          <6> QED BY <3>1, <4>2, <6>3, <6>4
        <5> QED BY <2>3, <2>7, <2>12, <5>1
      <4> QED BY <3>1, <4>1, <4>2
    <3>3. OwnInOrder(t)'
      BY <1>3, <2>9, <3>2 DEF OwnInOrder
    <3>4. Len(recv'[t]) + Len(queue'[t]) = seen + 1
      <4>1. PICK a \in Nat, b \in Nat : a = Len(recv[t]) /\ b = Len(q)
        BY <2>4 DEF q
      <4>2. seen = a + b
        BY <4>1 DEF q, seen
      <4>3. Len(recv'[t]) = a /\ Len(queue'[t]) = b + 1
        BY <1>3, <3>1, <4>1
      <4> QED BY <4>2, <4>3
    <3>5. seen + 1 <= emitted[t]
      BY <2>3, <2>4, <2>13
    <3>6. ASSUME NEW i \in Nat, Arriving(t, i)' PROVE loopQueue'[i].output.n > seen + 1
      <4>1. Arriving(t, i + 1) /\ loopQueue'[i] = loopQueue[i + 1] /\ i + 1 \in Nat
        BY <1>4, <3>6
      <4>2. i > 0
        BY <3>6 DEF Arriving
      <4>3. 1 < i + 1 /\ 1 \in Nat
        BY <4>2
      <4>4. loopQueue[1].output.n < loopQueue[i + 1].output.n
        BY <2>2, <2>5, <4>1, <4>3
      <4> QED BY <2>6, <2>13, <4>1, <4>4
    <3>7. ASSUME NEW i \in Nat, NEW j \in Nat, Arriving(t, i)', Arriving(t, j)', i < j
          PROVE  loopQueue'[i].output.n < loopQueue'[j].output.n
      <4>1. i + 1 < j + 1 /\ i + 1 \in Nat /\ j + 1 \in Nat
        BY <3>7
      <4> QED BY <1>4, <2>5, <3>7, <4>1
    <3>8. ASSUME NEW n \in Nat, n > seen + 1, n <= emitted[t]
          PROVE  \E i \in Nat : Arriving(t, i)' /\ loopQueue'[i].output.n = n
      <4>1. PICK i \in Nat : Arriving(t, i) /\ loopQueue[i].output.n = n
        BY <2>4, <2>5, <3>8
      <4>2. i # 1
        BY <2>4, <2>6, <2>13, <3>8, <4>1
      <4> QED BY <1>5, <4>1, <4>2
    <3>9. NextArrive(t)'
      BY <1>3, <3>4, <3>5, <3>6, <3>7, <3>8 DEF NextArrive
    <3> QED BY <3>3, <3>9
  <2> QED BY <2>11, <2>12
<1> QED BY <1>6, <1>7

\* The engine sends an output of some request.
LEMMA PathSend ==
  ASSUME TypeOK, StreamInv, AddInv, NEW t \in Undisturbed, OwnInOrder(t), NextArrive(t),
         NEW u \in live, NEW last \in BOOLEAN, Send(u, last),
         emitted' = [emitted EXCEPT ![u] = @ + 1],
         UNCHANGED <<taskVars, streamVars>>
  PROVE  OwnInOrder(t)' /\ NextArrive(t)'
<1> DEFINE seen == Len(recv[t]) + Len(queue[t])
<1>1. t \in Tasks /\ IdOf[t] \in Ids /\ \A v \in Tasks : IdOf[v] = IdOf[t] => v = t
  BY UndisturbedAlone
<1>2. u \in Tasks
  BY DEF TypeOK
<1>3. UNCHANGED <<recv, queue, finished, async_streamers>>
  BY DEF taskVars, streamVars
<1>4. OwnInOrder(t)'
  BY <1>3 DEF OwnInOrder, Queued
<1>5. PICK len \in Nat :
        /\ len = Len(loopQueue)
        /\ Len(loopQueue') = len + 1
        /\ \A i \in 1..len : loopQueue'[i] = loopQueue[i]
        /\ loopQueue'[len + 1].id = IdOf[u]
        /\ loopQueue'[len + 1].output.n = emitted[u] + 1
  <2>1. /\ Len(loopQueue) \in Nat
        /\ Len(loopQueue') = Len(loopQueue) + 1
        /\ \A i \in 1..Len(loopQueue) : loopQueue'[i] = loopQueue[i]
        /\ loopQueue'[Len(loopQueue) + 1] =
             [id |-> IdOf[u], output |-> [source |-> u, n |-> emitted[u] + 1, final |-> last]]
    BY <1>2, SentType
  <2> QED BY <2>1
<1>6. \A i \in Nat : Arriving(t, i)' <=> Arriving(t, i) \/ (i = len + 1 /\ u = t)
  BY <1>1, <1>2, <1>5 DEF Arriving
<1>7. \A i \in Nat : Arriving(t, i) => i <= len /\ loopQueue'[i] = loopQueue[i]
  BY <1>5 DEF Arriving
<1>8. seen \in Nat /\ emitted[t] \in Nat /\ emitted'[t] = IF u = t THEN emitted[t] + 1 ELSE emitted[t]
  BY <1>1, <1>2 DEF TypeOK
<1>9. \A i \in Nat : Arriving(t, i) => loopQueue[i].output.n \in Nat /\ loopQueue[i].output.n <= emitted[t]
  <2> SUFFICES ASSUME NEW i \in Nat, Arriving(t, i)
               PROVE  loopQueue[i].output.n \in Nat /\ loopQueue[i].output.n <= emitted[t]
    OBVIOUS
  <2>1. i \in 1..Len(loopQueue) /\ loopQueue[i] \in Delta /\ loopQueue[i].id = IdOf[t]
    BY DEF Arriving, TypeOK
  <2>2. loopQueue[i].output.source \in Tasks
    BY <2>1 DEF Delta, Output
  <2>3. loopQueue[i].output.source = t
    BY <1>1, <2>1, <2>2 DEF AddInv, OutputsOnTheWay
  <2>4. loopQueue[i].output.n \in 1..emitted[t]
    BY <1>1, <2>1, <2>3 DEF AddInv, OutputsOnTheWay
  <2> QED BY <1>8, <2>4
<1>10. NextArrive(t)'
  <2> SUFFICES ASSUME async_streamers[IdOf[t]] = t
               PROVE  /\ seen <= emitted'[t]
                      /\ \A i \in Nat : Arriving(t, i)' => loopQueue'[i].output.n > seen
                      /\ \A i, j \in Nat : Arriving(t, i)' /\ Arriving(t, j)' /\ i < j =>
                                           loopQueue'[i].output.n < loopQueue'[j].output.n
                      /\ \A n \in Nat : n > seen /\ n <= emitted'[t] =>
                                         \E i \in Nat : Arriving(t, i)' /\ loopQueue'[i].output.n = n
    BY <1>3 DEF NextArrive
  <2>1. /\ seen <= emitted[t]
        /\ \A i \in Nat : Arriving(t, i) => loopQueue[i].output.n > seen
        /\ \A i, j \in Nat : Arriving(t, i) /\ Arriving(t, j) /\ i < j =>
                             loopQueue[i].output.n < loopQueue[j].output.n
        /\ \A n \in Nat : n > seen /\ n <= emitted[t] =>
                           \E i \in Nat : Arriving(t, i) /\ loopQueue[i].output.n = n
    BY DEF NextArrive
  <2> HIDE DEF seen
  <2>2. \A i \in Nat : Arriving(t, i)' => loopQueue'[i].output.n > seen
    BY <1>5, <1>6, <1>7, <1>8, <2>1
  <2>3. ASSUME NEW i \in Nat, NEW j \in Nat, Arriving(t, i)', Arriving(t, j)', i < j
        PROVE  loopQueue'[i].output.n < loopQueue'[j].output.n
    <3>1. CASE Arriving(t, j)
      <4>1. Arriving(t, i)
        BY <1>6, <1>7, <2>3, <3>1
      <4> QED BY <1>7, <2>1, <2>3, <3>1, <4>1
    <3>2. CASE j = len + 1 /\ u = t
      <4>1. Arriving(t, i)
        BY <1>6, <2>3, <3>2
      <4> QED BY <1>5, <1>7, <1>8, <1>9, <3>2, <4>1
    <3> QED BY <1>6, <2>3, <3>1, <3>2
  <2>4. ASSUME NEW n \in Nat, n > seen, n <= emitted'[t]
        PROVE  \E i \in Nat : Arriving(t, i)' /\ loopQueue'[i].output.n = n
    <3>1. CASE n <= emitted[t]
      BY <1>6, <1>7, <2>1, <2>4, <3>1
    <3>2. CASE n > emitted[t]
      <4>1. u = t /\ n = emitted[t] + 1
        BY <1>8, <2>4, <3>2
      <4> QED BY <1>5, <1>6, <4>1
    <3> QED BY <1>8, <3>1, <3>2
  <2> QED BY <1>8, <2>1, <2>2, <2>3, <2>4
<1> QED BY <1>4, <1>10

\* Every step keeps the outputs of an undisturbed task in order on their way to its reader.
LEMMA PathInvStep == TypeOK /\ StreamInv /\ AddInv /\ PathInv /\ [Next]_vars => PathInv'
<1> SUFFICES ASSUME TypeOK, StreamInv, AddInv, PathInv, [Next]_vars, NEW t \in Undisturbed
             PROVE  OwnInOrder(t)' /\ NextArrive(t)'
  BY DEF PathInv
<1>0. /\ OwnInOrder(t) /\ NextArrive(t)
      /\ t \in Tasks /\ IdOf[t] \in Ids /\ \A u \in Tasks : IdOf[u] = IdOf[t] => u = t
  BY UndisturbedAlone DEF PathInv
<1> USE ConstantsAssumption
<1>1. CASE UNCHANGED vars
  BY <1>0, <1>1, PathFrame DEF vars, taskVars, streamVars, engineVars
<1>2. ASSUME NEW u \in Tasks, Refuse(u) PROVE OwnInOrder(t)' /\ NextArrive(t)'
  BY <1>0, <1>2, PathFrame DEF Refuse, streamVars, engineVars
<1>3. ASSUME NEW u \in Tasks, Generate(u) PROVE OwnInOrder(t)' /\ NextArrive(t)'
  <2>1. CASE u = t
    BY <1>3, <2>1, PathGenerate
  <2>2. CASE u # t
    <3>1. UNCHANGED <<recv, finished, emitted, loopQueue>>
      BY <1>3 DEF Generate
    <3>2. queue'[t] = queue[t]
      BY <1>0, <1>3, <2>2 DEF Generate, TypeOK
    <3>3. IdOf[u] # IdOf[t] /\ IdOf[u] \in Ids
      BY <1>0, <2>2
    <3>4. async_streamers'[IdOf[t]] = async_streamers[IdOf[t]]
      BY <1>0, <1>3, <3>3 DEF Generate, TypeOK
    <3> QED BY <1>0, <3>1, <3>2, <3>4, PathFrame
  <2> QED BY <2>1, <2>2
<1>4. ASSUME NEW u \in Tasks, Yield(u) PROVE OwnInOrder(t)' /\ NextArrive(t)'
  <2>1. CASE u = t
    BY <1>0, <1>4, <2>1, PathYield
  <2>2. CASE u # t
    <3>1. recv'[t] = recv[t] /\ queue'[t] = queue[t]
      BY <1>0, <1>4, <2>2 DEF Yield, TypeOK
    <3>2. UNCHANGED <<finished, emitted, loopQueue, async_streamers>>
      BY <1>4 DEF Yield, engineVars
    <3> QED BY <1>0, <3>1, <3>2, PathFrame
  <2> QED BY <2>1, <2>2
<1>5. ASSUME NEW u \in Tasks, Finish(u) PROVE OwnInOrder(t)' /\ NextArrive(t)'
  <2>1. UNCHANGED <<recv, finished, emitted, loopQueue, async_streamers>>
    BY <1>5 DEF Finish, engineVars
  <2>2. CASE u = t
    <3> DEFINE q == queue[t]
    <3>1. q \in Seq(Item) /\ q # <<>> /\ q[1] = Stop /\ queue'[t] = Tail(q) /\ 1 \in 1..Len(q)
      BY <1>0, <1>5, <2>2 DEF Finish, TypeOK
    <3>2. Len(q) = 1
      <4>1. Stop.kind # "output"
        BY DEF Stop
      <4> QED BY <1>0, <3>1, <4>1 DEF OwnInOrder
    <3>3. Len(queue'[t]) = 0
      BY <3>1, <3>2
    <3>4. finished[t]
      BY <1>0, <3>1 DEF StreamInv, StopFinished
    <3>5. async_streamers[IdOf[t]] # t
      BY <1>0, <3>4 DEF StreamInv, RegisteredOpen
    <3>6. \A j \in Nat : ~Queued(t, j)'
      BY <3>3 DEF Queued
    <3>7. OwnInOrder(t)'
      BY <1>0, <2>1, <3>3, <3>6 DEF OwnInOrder
    <3>8. NextArrive(t)'
      BY <2>1, <3>5 DEF NextArrive
    <3> QED BY <3>7, <3>8
  <2>3. CASE u # t
    <3>1. queue'[t] = queue[t]
      BY <1>0, <1>5, <2>3 DEF Finish, TypeOK
    <3> QED BY <1>0, <2>1, <3>1, PathFrame
  <2> QED BY <2>2, <2>3
<1>6. ASSUME NEW u \in Tasks, Raise(u) PROVE OwnInOrder(t)' /\ NextArrive(t)'
  <2>1. u # t
    <3>1. queue[u] \in Seq(Item) /\ queue[u] # <<>> /\ queue[u][1] = AlreadyExists /\ 1 \in 1..Len(queue[u])
      BY <1>6 DEF Raise, TypeOK
    <3> QED BY <1>0, <3>1 DEF OwnInOrder, Stop, AlreadyExists
  <2>2. UNCHANGED <<recv, finished, emitted, loopQueue>> /\ queue'[t] = queue[t]
    BY <1>0, <1>6, <2>1 DEF Raise, TypeOK
  <2>3. async_streamers'[IdOf[t]] = t => async_streamers[IdOf[t]] = t
    BY <1>0, <1>6, AbortUnregisters DEF Raise
  <2> QED BY <1>0, <2>2, <2>3, PathFrame
<1>7. ASSUME NEW u \in Tasks, Cancel(u) PROVE OwnInOrder(t)' /\ NextArrive(t)'
  <2>1. async_streamers'[IdOf[t]] = t => async_streamers[IdOf[t]] = t
    BY <1>0, <1>7, AbortUnregisters DEF Cancel
  <2> QED BY <1>0, <1>7, <2>1, PathFrame DEF Cancel
<1>8. ASSUME NEW u \in Tasks, Disconnect(u) PROVE OwnInOrder(t)' /\ NextArrive(t)'
  BY <1>0, <1>8, PathFrame DEF Disconnect, streamVars, engineVars
<1>9. ASSUME NEW u \in Tasks, CloseAbandoned(u) PROVE OwnInOrder(t)' /\ NextArrive(t)'
  <2>1. async_streamers'[IdOf[t]] = t => async_streamers[IdOf[t]] = t
    BY <1>0, <1>9, AbortUnregisters DEF CloseAbandoned
  <2> QED BY <1>0, <1>9, <2>1, PathFrame DEF CloseAbandoned
<1>10. ASSUME NEW u \in Tasks, Step(u) PROVE OwnInOrder(t)' /\ NextArrive(t)'
  <2>1. PICK last \in {emitted[u] + 1 = MaxOutputs, TRUE} : Send(u, last)
    BY <1>10 DEF Step
  <2>2. last \in BOOLEAN
    OBVIOUS
  <2>3. u \in live /\ emitted' = [emitted EXCEPT ![u] = @ + 1] /\ UNCHANGED <<taskVars, streamVars>>
    BY <1>10 DEF Step
  <2> QED BY <1>0, <2>1, <2>2, <2>3, PathSend
<1>11. ASSUME NEW id \in Ids, AbortCall(id) PROVE OwnInOrder(t)' /\ NextArrive(t)'
  <2>1. async_streamers'[IdOf[t]] = t => async_streamers[IdOf[t]] = t
    BY <1>0, <1>11, AbortUnregisters DEF AbortCall
  <2> QED BY <1>0, <1>11, <2>1, PathFrame DEF AbortCall, taskVars
<1>12. CASE RunCallback
  BY <1>0, <1>12, PathCallback
<1>13. CASE Terminate
  BY <1>0, <1>13, PathFrame DEF Terminate, taskVars, streamVars, engineVars
<1>14. CASE ExecAdd
  BY <1>0, <1>14, PathFrame DEF ExecAdd, taskVars, streamVars
<1>15. CASE ExecAbort
  <2> DEFINE held == {u \in live : IdOf[u] = Head(instructions).id}
  <2>1. UNCHANGED <<taskVars, streamVars>>
    BY <1>15 DEF ExecAbort
  <2>2. CASE held = {}
    <3>1. UNCHANGED <<emitted, loopQueue>>
      BY <1>15, <2>2 DEF ExecAbort
    <3> QED BY <1>0, <2>1, <3>1, PathFrame DEF taskVars, streamVars
  <2>3. CASE held # {}
    <3>1. PICK u \in held : emitted' = [emitted EXCEPT ![u] = @ + 1] /\ Send(u, TRUE)
      BY <1>15, <2>3 DEF ExecAbort
    <3> QED BY <1>0, <2>1, <3>1, PathSend
  <2> QED BY <2>2, <2>3
<1> QED
  BY <1>1, <1>2, <1>3, <1>4, <1>5, <1>6, <1>7, <1>8, <1>9, <1>10, <1>11, <1>12, <1>13, <1>14,
     <1>15 DEF Next

-----------------------------------------------------------------------------
(* The theorems.                                                           *)

IInv == TypeOK /\ StreamInv /\ AddInv /\ PathInv

\* Nothing has happened at the start.
LEMMA InitIInv == Init => IInv /\ AbortInv
<1> SUFFICES ASSUME Init PROVE IInv /\ AbortInv
  OBVIOUS
<1> USE ConstantsAssumption
<1>1. TypeOK
  <2>1. queue \in [Tasks -> Seq(Item)] /\ recv \in [Tasks -> Seq(Output)]
    BY DEF Init
  <2>2. loopQueue \in Seq(Delta) /\ instructions \in Seq(Instruction)
    BY DEF Init
  <2>3. emitted \in [Tasks -> Nat] /\ faults \in 0..MaxFaults
    BY DEF Init
  <2> QED BY <2>1, <2>2, <2>3 DEF Init, TypeOK
<1>2. StreamInv
  BY DEF Init, StreamInv, RegisteredOpen, StopFinished
<1>3. \A i \in Nat, t \in Tasks : ~IsAdd(i, t)
  BY DEF Init, IsAdd
<1>4. AddInv
  BY <1>3 DEF Init, AddInv, NewUntouched, AddedOnce, OutputsOnTheWay, Outstanding
<1>5. PathInv
  <2> SUFFICES ASSUME NEW t \in Undisturbed PROVE OwnInOrder(t) /\ NextArrive(t)
    BY DEF PathInv
  <2>1. t \in Tasks /\ IdOf[t] \in Ids
    BY UndisturbedAlone
  <2>2. OwnInOrder(t)
    BY <2>1 DEF Init, OwnInOrder
  <2>3. NextArrive(t)
    BY <2>1 DEF Init, NextArrive
  <2> QED BY <2>2, <2>3
<1>6. AbortInv
  BY <1>3 DEF Init, AbortInv, UnregisteredCovered, Separated, CancelledCovered, Outstanding
<1> QED BY <1>1, <1>2, <1>4, <1>5, <1>6 DEF IInv

\* The inductive invariant holds in every reachable state.
LEMMA IInvariant == Spec => []IInv
<1>1. Init => IInv
  BY InitIInv
<1>2. IInv /\ [Next]_vars => IInv'
  BY TypeStep, StreamInvStep, AddInvStep, PathInvStep DEF IInv
<1> QED BY <1>1, <1>2, PTL DEF Spec

\* Every variable of AsyncEngine keeps its type.
THEOREM TypeCorrect == Spec => []TypeOK
<1>1. IInv => TypeOK
  BY DEF IInv
<1> QED BY <1>1, IInvariant, PTL

\* async_streamers holds no stream whose task has ended: every way out of _generate
\* unregisters the stream of its id.
THEOREM NoStreamStaysRegistered == Spec => []NoStreamLeaks
<1>1. IInv => NoStreamLeaks
  <2> SUFFICES ASSUME IInv, NEW id \in Ids, async_streamers[id] # NoTask
               PROVE  pc[async_streamers[id]] \in {"streaming", "abandoned"}
    BY DEF NoStreamLeaks
  <2>1. async_streamers[id] \in Tasks
    BY DEF IInv, TypeOK
  <2> QED BY <2>1 DEF IInv, StreamInv, RegisteredOpen
<1> QED BY <1>1, IInvariant, PTL

\* The engine never keeps the request of a cancelled task without an abort on the way, when
\* at most two tasks have the same id.  With three it may: the final output of the first
\* unregisters the second, the third is added beside it, and one abort is left for two.
THEOREM CancelledRequestsAborted ==
  ASSUME AtMostTwoShare
  PROVE  Spec => []CancelledIsAborted
<1>1. Init => AbortInv
  BY InitIInv
<1>2. IInv /\ AbortInv /\ [Next]_vars => AbortInv'
  BY AbortInvStep DEF IInv
<1>3. IInv /\ AbortInv => CancelledIsAborted
  <2> SUFFICES ASSUME IInv, AbortInv, NEW t \in Tasks, pc[t] = "cancelled"
               PROVE  LET aborts == {i \in 1..Len(instructions) :
                                       instructions[i].op = "abort" /\ instructions[i].id = IdOf[t]}
                      IN  /\ t \in live => aborts # {}
                          /\ \A i \in 1..Len(instructions) :
                               instructions[i].op = "add" /\ instructions[i].task = t =>
                                 \E j \in aborts : j > i
    BY DEF CancelledIsAborted
  <2> DEFINE aborts == {i \in 1..Len(instructions) :
                          instructions[i].op = "abort" /\ instructions[i].id = IdOf[t]}
  <2>1. \A j \in Nat : IsAbort(j, IdOf[t]) => j \in aborts
    BY DEF IsAbort
  <2>2. Outstanding(t) => Covered(t)
    BY DEF AbortInv, CancelledCovered
  <2>3. t \in live => aborts # {}
    BY <2>1, <2>2 DEF Outstanding, Covered
  <2>4. ASSUME NEW i \in 1..Len(instructions), instructions[i].op = "add", instructions[i].task = t
        PROVE  \E j \in aborts : j > i
    <3>1. IsAdd(i, t) /\ i \in Nat
      BY <2>4 DEF IsAdd
    <3>2. t \notin live /\ \A k \in Nat : IsAdd(k, t) => i = k
      BY <3>1 DEF IInv, AddInv, AddedOnce
    <3>3. PICK j \in Nat : IsAbort(j, IdOf[t]) /\ \E k \in Nat : IsAdd(k, t) /\ k < j
      BY <2>2, <3>1, <3>2 DEF Outstanding, Covered
    <3> QED BY <2>1, <3>2, <3>3
  <2> QED BY <2>3, <2>4
<1> QED BY <1>1, <1>2, <1>3, IInvariant, PTL DEF Spec

\* AsyncEngine implements StreamService for every undisturbed task: what it reads are its own
\* outputs, none missing, in order and the final one last, whatever the other tasks do.
THEOREM ImplementsStreamService == Spec => OwnAnswerInOrder
<1>1. Init => Service!Init
  BY DEF Init, Service!Init, Undisturbed
<1>2. IInv /\ IInv' /\ [Next]_vars => [Service!Deliver]_([t \in Undisturbed |-> recv[t]])
  <2> SUFFICES ASSUME IInv, IInv', [Next]_vars PROVE Service!Deliver
    OBVIOUS
  <2> SUFFICES ASSUME NEW t \in Undisturbed
               PROVE  Service!WellFormed(t, recv'[t]) /\ Service!Grows(recv[t], recv'[t])
    BY DEF Service!Deliver
  <2>1. t \in Tasks /\ recv[t] \in Seq(Output) /\ recv'[t] \in Seq(Output)
    BY UndisturbedAlone DEF IInv, TypeOK
  <2>2. Service!WellFormed(t, recv'[t])
    <3> SUFFICES ASSUME NEW i \in 1..Len(recv'[t])
                 PROVE  /\ recv'[t][i] \in Service!OutputOf(t)
                        /\ recv'[t][i].n = i
                        /\ recv'[t][i].final => i = Len(recv'[t])
      BY DEF Service!WellFormed
    <3>1. recv'[t][i] \in Output
      BY <2>1
    <3>2. recv'[t][i].source = t /\ recv'[t][i].n = i /\ (recv'[t][i].final => i = Len(recv'[t]))
      BY DEF IInv, PathInv, OwnInOrder
    <3>3. recv'[t][i] \in Service!OutputOf(t)
      BY <3>1, <3>2 DEF Output, Service!OutputOf
    <3> QED BY <3>2, <3>3
  <2>3. recv'[t] = recv[t] \/ \E o \in Output : recv'[t] = Append(recv[t], o)
    <3>1. CASE \E u \in Tasks : Yield(u)
      <4>1. PICK u \in Tasks : Yield(u)
        BY <3>1
      <4>2. CASE u = t
        <5>1. Head(queue[t]) \in Item /\ Head(queue[t]).kind = "output"
          BY <2>1, <4>1, <4>2 DEF Yield, IInv, TypeOK
        <5>2. Head(queue[t]).output \in Output
          BY <5>1, MessageTypes
        <5> QED BY <2>1, <4>1, <4>2, <5>2 DEF Yield, IInv, TypeOK
      <4>3. CASE u # t
        BY <2>1, <4>1, <4>3 DEF Yield, IInv, TypeOK
      <4> QED BY <4>2, <4>3
    <3>2. CASE recv' = recv
      BY <3>2
    <3> QED
      BY <3>1, <3>2 DEF Next, Refuse, Generate, Finish, Raise, Cancel, Disconnect, CloseAbandoned,
         Step, AbortCall, RunCallback, Terminate, ExecAdd, ExecAbort, vars, taskVars
  <2>4. Service!Grows(recv[t], recv'[t])
    BY <2>1, <2>3 DEF Service!Grows
  <2> QED BY <2>2, <2>4
<1> QED BY <1>1, <1>2, IInvariant, PTL DEF Spec, OwnAnswerInOrder, Service!Spec
=============================================================================
