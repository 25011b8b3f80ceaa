------------------------------ MODULE MCRouter ------------------------------
(* Model values for Router: prompts of different lengths. *)
EXTENDS Router, TLC

CONSTANTS r1, r2

MCLengths == (r1 :> 1) @@ (r2 :> 4)
=============================================================================
