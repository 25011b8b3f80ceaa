------------------------------- MODULE Queues -------------------------------
(* What the loops over the engine's vectors select, as sequences. *)
EXTENDS Integers, SequencesExt

\* The elements of s that are in S, in the order of s.
InOrder(s, S) ==
  LET kept[n \in 0..Len(s)] ==
        IF n = 0 THEN <<>>
        ELSE IF s[n] \in S THEN Append(kept[n - 1], s[n]) ELSE kept[n - 1]
  IN  kept[Len(s)]
=============================================================================
