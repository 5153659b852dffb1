---------------------------- MODULE MCAuditLedger ----------------------------
(* The instances of AuditLedger that TLC checks. *)
EXTENDS AuditLedger, TLC

\* Entries, transactions and verifications are told apart by nothing.
Symmetry == Permutations(Entries) \cup Permutations(Writers) \cup Permutations(Verifiers)

=============================================================================
