--------------------------- MODULE StreamService ----------------------------
(***************************************************************************)
(* What a serving engine promises to the one who reads the answer of a     *)
(* request: a stream that only grows, that holds the request's own outputs,*)
(* all of them from the first on and in order, and that ends with its      *)
(* final output (CallbackStreamOutput with request_final_usage_json_str,   *)
(* serve/engine_base.py).  ThreadedEngine implements it towards its stream *)
(* callback, AsyncEngine towards every reader of AsyncMLCEngine.           *)
(***************************************************************************)
EXTENDS Naturals, Sequences

CONSTANT Readers      \* those who read an answer

VARIABLE streams      \* what each of them has read

\* The n-th output of source; the final one carries the usage.
OutputOf(source) == [source : {source}, n : Nat, final : BOOLEAN]

\* The outputs of source from the first on, none missing, and the final one last.
WellFormed(source, stream) ==
  \A i \in 1..Len(stream) :
    /\ stream[i] \in OutputOf(source)
    /\ stream[i].n = i
    /\ stream[i].final => i = Len(stream)

\* The answer has ended.
Ended(stream) == Len(stream) > 0 /\ stream[Len(stream)].final

Grows(before, after) ==
  /\ Len(before) <= Len(after)
  /\ SubSeq(after, 1, Len(before)) = before

Init == streams = [r \in Readers |-> <<>>]

\* One delivery: some streams grow, those that have ended do not.
Deliver ==
  \A r \in Readers :
    /\ WellFormed(r, streams'[r])
    /\ Grows(streams[r], streams'[r])

Spec == Init /\ [][Deliver]_streams
=============================================================================
