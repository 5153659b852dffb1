-------------------------- MODULE StatementPackages --------------------------
(***************************************************************************)
(* The statement packages of one close session and the flag that says they *)
(* are out of date (close_sessions.statements_stale_since).  A change of   *)
(* the trial balance raises the flag after it has committed (executeCascade*)
(* and the ledger replacement); a generation reads the trial balance,      *)
(* stores a package and lowers the flag in one transaction, unless the     *)
(* flag was raised after the generation began.  Certification is refused   *)
(* while the flag is up.                                                   *)
(*                                                                         *)
(* The adjusted trial balance is the set of changes applied to it; a       *)
(* generation is known by the id of the package it would store.            *)
(***************************************************************************)
EXTENDS Naturals

CONSTANTS
    Changes,    \* postings, mappings and uploads that change the trial balance
    Packages,   \* generations
    MaxTime,    \* bound: readings of the clock
    Tick,       \* milliseconds from a change to its flag's clock, at least
    None        \* SQL NULL

ASSUME StatementPackagesAssumption ==
    /\ MaxTime \in Nat /\ Tick \in Nat
    /\ None \notin Nat /\ None \notin Changes

VARIABLES
    time,               \* the clock
    tb,                 \* changes in the adjusted trial balance
    stale,              \* statements_stale_since
    cpc, changedAt, stamp,  \* a change's next step, when it committed, its flag's clock
    gpc,                \* a generation's next step
    startedAt, source, version, \* generationStartedAt, entries, nextVersion
    marked, lastMark    \* history: changes that raised the flag, the last to do so

changeVars == <<tb, cpc, changedAt, stamp>>
generationVars == <<gpc, startedAt, source, version>>
flagVars == <<stale, marked, lastMark>>
vars == <<time, changeVars, generationVars, flagVars>>

Stored == {g \in Packages : gpc[g] = "stored"}

\* Nobody has an uncommitted update of the session's row.
RowFree == \A g \in Packages : gpc[g] # "cleared"

-----------------------------------------------------------------------------
(* A change of the trial balance *)

\* Mutant: the cascade runs although the change was rolled back.
ChangeRolledBack(c) ==
    /\ cpc[c] = "idle"
    /\ changedAt' = [changedAt EXCEPT ![c] = time]
    /\ cpc' = [cpc EXCEPT ![c] = "cascade"]
    /\ UNCHANGED <<time, tb, stamp, generationVars, flagVars>>

\* A replaced ledger raises the flag first and cascades then; the others only cascade.
Change(c) ==
    /\ cpc[c] = "idle"
    /\ tb' = tb \cup {c}
    /\ changedAt' = [changedAt EXCEPT ![c] = time]
    /\ \E next \in {"cascade", "clockFirst"} : cpc' = [cpc EXCEPT ![c] = next]
    /\ UNCHANGED <<time, stamp, generationVars, flagVars>>

\* Step 3 of executeCascade: only where a package is stored.
InvalidateStatements(c) ==
    /\ cpc[c] = "cascade"
    /\ cpc' = [cpc EXCEPT ![c] = IF Stored # {} THEN "clock" ELSE "done"]
    /\ UNCHANGED <<time, tb, changedAt, stamp, generationVars, flagVars>>

\* now = new Date() of setStatementsStaleSince.
ReadClock(c) ==
    /\ cpc[c] \in {"clockFirst", "clock"}
    /\ changedAt[c] + Tick <= time
    /\ stamp' = [stamp EXCEPT ![c] = time]
    /\ cpc' = [cpc EXCEPT ![c] = IF @ = "clockFirst" THEN "markFirst" ELSE "mark"]
    /\ UNCHANGED <<time, tb, changedAt, generationVars, flagVars>>

\* The update, once the row is free.
SetStatementsStaleSince(c) ==
    /\ cpc[c] \in {"markFirst", "mark"} /\ RowFree
    /\ stale' = stamp[c]
    /\ marked' = marked \cup {c} /\ lastMark' = c
    /\ cpc' = [cpc EXCEPT ![c] = IF @ = "markFirst" THEN "cascade" ELSE "done"]
    /\ UNCHANGED <<time, tb, changedAt, stamp, generationVars>>

\* An error or a crash after the change has committed; the ledger replacement
\* catches the error of its own update and still cascades.
LeaveUnmarked(c) ==
    /\ cpc[c] \notin {"idle", "done"}
    /\ \/ cpc' = [cpc EXCEPT ![c] = "done"]
       \/ cpc[c] \in {"clockFirst", "markFirst"} /\ cpc' = [cpc EXCEPT ![c] = "cascade"]
    /\ UNCHANGED <<time, tb, changedAt, stamp, generationVars, flagVars>>

-----------------------------------------------------------------------------
(* generateStatements *)

Start(g) ==
    /\ gpc[g] = "idle"
    /\ startedAt' = [startedAt EXCEPT ![g] = time]
    /\ gpc' = [gpc EXCEPT ![g] = "read"]
    /\ UNCHANGED <<time, changeVars, source, version, flagVars>>

\* getAdjustedTrialBalance, and everything that is computed from it.
ReadTrialBalance(g) ==
    /\ gpc[g] = "read"
    /\ source' = [source EXCEPT ![g] = tb]
    /\ gpc' = [gpc EXCEPT ![g] = "max"]
    /\ UNCHANGED <<time, changeVars, startedAt, version, flagVars>>

\* getMaxVersionByCloseSessionId + 1, in the transaction.
NextVersion(g) ==
    /\ gpc[g] = "max"
    /\ \E n \in {0} \cup {version[h] : h \in Stored} :
        /\ \A h \in Stored : version[h] <= n
        /\ version' = [version EXCEPT ![g] = n + 1]
    /\ gpc' = [gpc EXCEPT ![g] = "insert"]
    /\ UNCHANGED <<time, changeVars, startedAt, source, flagVars>>

\* Mutant: without the unique index.
InsertAny(g) ==
    /\ gpc[g] = "insert"
    /\ gpc' = [gpc EXCEPT ![g] = "inserted"]
    /\ UNCHANGED <<time, changeVars, startedAt, source, version, flagVars>>

\* idx_statement_packages_session_version: the insert waits for an uncommitted row of
\* the same version and fails where there is a committed one.
InsertStatementPackage(g) ==
    /\ gpc[g] = "insert"
    /\ \A h \in Packages : gpc[h] \in {"inserted", "kept", "cleared"} => version[h] # version[g]
    /\ gpc' = [gpc EXCEPT ![g] =
                IF \E h \in Stored : version[h] = version[g] THEN "failed" ELSE "inserted"]
    /\ UNCHANGED <<time, changeVars, startedAt, source, version, flagVars>>

\* Mutant: generationStartedAt is not passed on.
ClearAnyway(g) ==
    /\ gpc[g] = "inserted" /\ RowFree
    /\ gpc' = [gpc EXCEPT ![g] = "cleared"]
    /\ UNCHANGED <<time, changeVars, startedAt, source, version, flagVars>>

\* clearStatementsStaleSince: the row's lock is kept to the end of the transaction where
\* the row matched, and the flag is left alone where it did not.
ClearStatementsStaleSince(g) ==
    /\ gpc[g] = "inserted" /\ RowFree
    /\ gpc' = [gpc EXCEPT ![g] =
                IF stale = None \/ stale <= startedAt[g] THEN "cleared" ELSE "kept"]
    /\ UNCHANGED <<time, changeVars, startedAt, source, version, flagVars>>

Commit(g) ==
    /\ gpc[g] \in {"cleared", "kept"}
    /\ stale' = IF gpc[g] = "cleared" THEN None ELSE stale
    /\ gpc' = [gpc EXCEPT ![g] = "stored"]
    /\ UNCHANGED <<time, changeVars, startedAt, source, version, marked, lastMark>>

\* An error of any statement, variances and the audit entry included, or a crash.
Rollback(g) ==
    /\ gpc[g] \notin {"idle", "stored", "failed"}
    /\ gpc' = [gpc EXCEPT ![g] = "failed"]
    /\ UNCHANGED <<time, changeVars, startedAt, source, version, flagVars>>

-----------------------------------------------------------------------------

ClockTicks ==
    /\ time < MaxTime
    /\ time' = time + 1
    /\ UNCHANGED <<changeVars, generationVars, flagVars>>

Init ==
    /\ time = 0
    /\ tb = {}
    /\ stale = None
    /\ cpc = [c \in Changes |-> "idle"]
    /\ changedAt = [c \in Changes |-> 0]
    /\ stamp = [c \in Changes |-> 0]
    /\ gpc = [g \in Packages |-> "idle"]
    /\ startedAt = [g \in Packages |-> 0]
    /\ source = [g \in Packages |-> {}]
    /\ version = [g \in Packages |-> 0]
    /\ marked = {} /\ lastMark = None

ChangeStep(c) ==
    \/ Change(c) \/ InvalidateStatements(c) \/ ReadClock(c)
    \/ SetStatementsStaleSince(c) \/ LeaveUnmarked(c)

GenerationStep(g) ==
    \/ Start(g) \/ ReadTrialBalance(g) \/ NextVersion(g) \/ InsertStatementPackage(g)
    \/ ClearStatementsStaleSince(g) \/ Commit(g) \/ Rollback(g)

Next ==
    \/ ClockTicks
    \/ \E c \in Changes : ChangeStep(c)
    \/ \E g \in Packages : GenerationStep(g)

Spec == Init /\ [][Next]_vars

-----------------------------------------------------------------------------
(* Properties *)

\* Types; only changes that were applied come to raise the flag.
TypeOK ==
    /\ time \in Nat
    /\ tb \subseteq Changes
    /\ stale \in Nat \cup {None}
    /\ cpc \in [Changes ->
        {"idle", "cascade", "clockFirst", "markFirst", "clock", "mark", "done"}]
    /\ changedAt \in [Changes -> Nat]
    /\ stamp \in [Changes -> Nat]
    /\ gpc \in [Packages ->
        {"idle", "read", "max", "insert", "inserted", "kept", "cleared", "stored", "failed"}]
    /\ startedAt \in [Packages -> Nat]
    /\ source \in [Packages -> SUBSET Changes]
    /\ version \in [Packages -> Nat]
    /\ \A c \in Changes : cpc[c] # "idle" <=> c \in tb
    /\ marked \subseteq tb
    /\ lastMark \in marked \cup {None}

\* Racing generations never share a version and leave no gap below one: the latest
\* package is a definite one, and every version has its predecessor to be compared with.
VersionsAreDense ==
    \A g \in Stored :
        /\ \A h \in Stored : version[g] = version[h] => g = h
        /\ \A n \in 1 .. version[g] - 1 : \E h \in Stored : version[h] = n

\* Where the flag is down, some package was computed from a trial balance with the
\* change that raised it last: a generation that read too early cannot lower it,
\* neither by a commit that crosses the raise nor by a rollback.
LastMarkIsAnswered ==
    stale = None => \/ lastMark = None
                    \/ \E g \in Stored : lastMark \in source[g]

\* The flag is lowered only together with a package of a generation that began no
\* earlier than the flag says.
LoweredByPackage ==
    [][stale # None /\ stale' = None =>
         \E g \in Packages :
            /\ gpc[g] # "stored" /\ gpc'[g] = "stored"
            /\ stale <= startedAt[g]]_vars

\* Where the flag is down, the latest package has every change that ever raised it:
\* nothing certification would let pass is out of date.
UnflaggedIsCurrent ==
    stale = None =>
        \A g \in Stored :
            (\A h \in Stored : version[h] <= version[g]) => marked \subseteq source[g]

-----------------------------------------------------------------------------
(* The inductive invariant where Tick > 0 (proved in StatementPackagesProofs) *)

\* A change precedes the clock of its flag.
FlagsAreLater ==
    /\ \A c \in Changes :
        /\ changedAt[c] <= time
        /\ cpc[c] \in {"markFirst", "mark"} => changedAt[c] < stamp[c]
    /\ lastMark # None /\ stale # None => changedAt[lastMark] < stale

\* A generation has read every change from before it began.
SourceIsComplete ==
    \A g \in Packages :
        /\ startedAt[g] <= time
        /\ gpc[g] \notin {"idle", "read"} =>
            gpc[g] = "failed" \/ \A c \in tb : changedAt[c] < startedAt[g] => c \in source[g]

\* A decision to lower the flag holds until the transaction ends.
ClearIsCurrent ==
    \A g \in Packages : gpc[g] = "cleared" => stale = None \/ stale <= startedAt[g]

\* The version a transaction has computed: all below it are stored, and nobody else's
\* row, stored or not, has it.
VersionIsFree ==
    \A g \in Packages :
        /\ gpc[g] \in {"insert", "inserted", "kept", "cleared", "stored"} =>
            \A n \in 1 .. version[g] - 1 : \E h \in Stored : version[h] = n
        /\ gpc[g] \in {"inserted", "kept", "cleared", "stored"} =>
            \A h \in Packages :
                gpc[h] \in {"inserted", "kept", "cleared", "stored"} /\ version[g] = version[h]
                    => g = h

PackagesInv ==
    /\ TypeOK
    /\ FlagsAreLater
    /\ SourceIsComplete
    /\ ClearIsCurrent
    /\ LastMarkIsAnswered

-----------------------------------------------------------------------------
(* What keeps certification from passing an outdated package.  UnflaggedIsCurrent  *)
(* fails in two ways, and in no other: the flag's clock is set back by a slower    *)
(* process, or a generation overtakes one that read the trial balance before it.   *)

\* A raise never sets the flag's clock back.
FlagKeepsItsClock == stale # None /\ stale' # None => stale <= stale'

\* A generation is under way, with the trial balance it read.
UnderWay(g) == gpc[g] \in {"max", "insert", "inserted", "kept", "cleared"}

\* Generations do not overlap from the reading of the trial balance on.
GenerationsAreSerial == \A g, h \in Packages : UnderWay(g) /\ UnderWay(h) => g = h

\* Where the flag is down, every change that ever raised it is in some package.
MarksAreAnswered ==
    stale = None => \A c \in marked : \E g \in Stored : c \in source[g]

\* Why: a change that raised the flag precedes it as long as it is not answered.
MarkedIsFlagged ==
    \A c \in marked :
        \/ stale # None /\ changedAt[c] < stale
        \/ \E g \in Stored : c \in source[g]

\* ... and packages that do not overlap grow with their versions.
SourcesGrow ==
    /\ \A g \in Packages : source[g] \subseteq tb
    /\ \A g, h \in Stored : version[g] <= version[h] => source[g] \subseteq source[h]
    /\ \A g \in Packages, h \in Stored :
         /\ UnderWay(g) => source[h] \subseteq source[g]
         /\ UnderWay(g) /\ gpc[g] # "max" => version[h] < version[g]

=============================================================================
