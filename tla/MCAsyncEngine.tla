---------------------------- MODULE MCAsyncEngine ----------------------------
(* Instances of AsyncEngine for TLC.                                       *)
EXTENDS AsyncEngine, TLC

CONSTANTS t1, t2, t3, a, b

\* Two tasks share an id, the third has one of its own.
TwoShare == t1 :> a @@ t2 :> a @@ t3 :> b
=============================================================================
