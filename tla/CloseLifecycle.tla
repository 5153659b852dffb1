--------------------------- MODULE CloseLifecycle ---------------------------
(***************************************************************************)
(* The life of a close session as the header of close_session_service.ts   *)
(* promises it: the six states, the transitions between them, and the      *)
(* certifications behind the later ones.  CloseSession implements it when  *)
(* its requests come one at a time.                                        *)
(***************************************************************************)
EXTENDS Naturals

VARIABLES
    phase,      \* where the close is
    certs       \* how many times it has been certified

lifeVars == <<phase, certs>>

LifeInit == phase = "open" /\ certs = 0

Move(from, to) == phase = from /\ phase' = to /\ certs' = certs

\* Work starts; the package is submitted; the reviewer sends it back.
BeginWork == Move("open", "in_progress")
Submit    == Move("in_progress", "under_review")
SendBack  == Move("under_review", "in_progress")

\* The only way to certified; every certification takes its own snapshot.
Attest == phase = "under_review" /\ phase' = "certified" /\ certs' = certs + 1

\* Reopening, from either state between certification and lock.
Reopen == phase \in {"certified", "subsequent_events_review"}
          /\ phase' = "in_progress" /\ certs' = certs

ReviewSubsequentEvents == Move("certified", "subsequent_events_review")

\* Terminal: no action leaves locked.
LockForGood == Move("subsequent_events_review", "locked")

LifeNext == \/ BeginWork \/ Submit \/ SendBack \/ Attest \/ Reopen
            \/ ReviewSubsequentEvents \/ LockForGood

LifeSpec == LifeInit /\ [][LifeNext]_lifeVars
=============================================================================
