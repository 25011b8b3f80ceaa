-------------------------- MODULE MCThreadedEngine --------------------------
(* Instances of ThreadedEngine for TLC.                                    *)
EXTENDS ThreadedEngine, TLC

\* Requests are interchangeable, and so are client threads.
ClientSymmetry == Permutations(Requests) \cup Permutations(Callers)
=============================================================================
