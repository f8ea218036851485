----------------------------- MODULE MCJobQueue -----------------------------
(* Instances of JobQueue for TLC. *)
EXTENDS JobQueue, TLC

CONSTANTS j1, j2, k1

SharedKey == j1 :> k1 @@ j2 :> k1
=============================================================================
