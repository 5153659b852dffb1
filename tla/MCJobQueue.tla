----------------------------- MODULE MCJobQueue -----------------------------
(* Small instances of JobQueue for TLC. *)
EXTENDS JobQueue, TLC

CONSTANTS j1, j2, j3, k1

\* The first two jobs carry the same idempotency key.
SameKey == j1 :> k1 @@ j2 :> k1 @@ j3 :> None

NoKeys == [j \in Jobs |-> None]
=============================================================================
