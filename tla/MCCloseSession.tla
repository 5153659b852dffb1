--------------------------- MODULE MCCloseSession ---------------------------
(* Small instances of CloseSession for TLC. *)
EXTENDS CloseSession, TLC

\* Request slots are interchangeable.
RequestSymmetry == Permutations(Requests)
=============================================================================
