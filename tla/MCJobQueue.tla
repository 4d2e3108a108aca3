----------------------------- MODULE MCJobQueue -----------------------------
(* Instances of JobQueue for TLC. *)
EXTENDS JobQueue, TLC

CONSTANTS j1, j2, k1

\* A POST and its repetition.
BothShareAKey == j1 :> k1 @@ j2 :> k1
=============================================================================
