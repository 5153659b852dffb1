------------------------ MODULE MCStatementPackages ------------------------
(* The instances of StatementPackages that TLC checks. *)
EXTENDS StatementPackages, TLC

\* Changes, and generations, are told apart by nothing.
Symmetry == Permutations(Changes) \cup Permutations(Packages)

=============================================================================
