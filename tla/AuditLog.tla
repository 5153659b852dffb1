------------------------------ MODULE AuditLog ------------------------------
(***************************************************************************)
(* What the audit ledger promises its readers: the entries of a tenant, in *)
(* the order they are read, are a log that only grows at its end, as long  *)
(* as the clocks that order them agree.                                    *)
(***************************************************************************)
EXTENDS Naturals, Sequences

VARIABLES log, ordered

Init == log = << >> /\ ordered = TRUE

\* A transaction commits the entries it appended.
Extend ==
    /\ ordered = TRUE /\ UNCHANGED ordered
    /\ Len(log) < Len(log')
    /\ SubSeq(log', 1, Len(log)) = log

\* A clock that was not past the last entry has ordered a commit: nothing is promised
\* any more, and the order is not regained.
Disorder == ordered' = FALSE

Spec == Init /\ [][Extend \/ Disorder]_<<log, ordered>>

=============================================================================
