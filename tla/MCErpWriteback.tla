--------------------------- MODULE MCErpWriteback ---------------------------
(* Small instances of ErpWriteback for TLC. *)
EXTENDS ErpWriteback, TLC

WorkerSymmetry == Permutations(Workers)
=============================================================================
