------------------------- MODULE MCRunbookExecution -------------------------
(* The instances of RunbookExecution that TLC checks. *)
EXTENDS RunbookExecution, TLC

CONSTANTS t1, t2, t3

\* The third task waits for the other two.
MCDeps == (t1 :> {}) @@ (t2 :> {}) @@ (t3 :> {t1, t2})

Symmetry == Permutations(Actors)

=============================================================================
