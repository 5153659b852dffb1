--------------------------- MODULE MCJournalEntry ---------------------------
(* The instances of JournalEntry that TLC checks. *)
EXTENDS JournalEntry, TLC

\* A debit, then a credit.
OneDebitOneCredit == {0, 2}

\* Requests and users are told apart by nothing; the properties are all safety.
Symmetry == Permutations(Requests) \cup Permutations(Users)

=============================================================================
