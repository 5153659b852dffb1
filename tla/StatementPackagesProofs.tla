----------------------- MODULE StatementPackagesProofs -----------------------
(***************************************************************************)
(* For any number of changes and generations: types, the versions, and,    *)
(* where the clock moves between a change and the clock of its flag, that  *)
(* the last change to raise the flag is answered before it is lowered.     *)
(* Then, under hypotheses on the behaviour, that every change is, and that *)
(* the latest package has it.                                              *)
(***************************************************************************)
EXTENDS StatementPackages, TLAPS

\* The types hold initially and are kept by every step.
THEOREM TypeCorrect == Spec => []TypeOK
<1>1. Init => TypeOK
  BY StatementPackagesAssumption DEF Init, TypeOK
<1>2. TypeOK /\ [Next]_vars => TypeOK'
  <2> SUFFICES ASSUME TypeOK, [Next]_vars PROVE TypeOK'
    OBVIOUS
  <2> USE StatementPackagesAssumption DEF TypeOK
  <2>1. CASE ClockTicks
    BY <2>1 DEF ClockTicks, changeVars, generationVars, flagVars
  <2>2. ASSUME NEW c \in Changes, ChangeStep(c) PROVE TypeOK'
    <3>1. CASE Change(c)
      BY <3>1 DEF Change, generationVars, flagVars
    <3>2. CASE InvalidateStatements(c)
      BY <3>2 DEF InvalidateStatements, generationVars, flagVars
    <3>3. CASE ReadClock(c)
      BY <3>3 DEF ReadClock, generationVars, flagVars
    <3>4. CASE SetStatementsStaleSince(c)
      BY <3>4 DEF SetStatementsStaleSince, generationVars
    <3>5. CASE LeaveUnmarked(c)
      BY <3>5 DEF LeaveUnmarked, generationVars, flagVars
    <3> QED BY <2>2, <3>1, <3>2, <3>3, <3>4, <3>5 DEF ChangeStep
  <2>3. ASSUME NEW g \in Packages, GenerationStep(g) PROVE TypeOK'
    <3>1. CASE Start(g)
      BY <3>1 DEF Start, changeVars, flagVars
    <3>2. CASE ReadTrialBalance(g)
      BY <3>2 DEF ReadTrialBalance, changeVars, flagVars
    <3>3. CASE NextVersion(g)
      BY <3>3 DEF NextVersion, Stored, changeVars, flagVars
    <3>4. CASE InsertStatementPackage(g)
      BY <3>4 DEF InsertStatementPackage, changeVars, flagVars
    <3>5. CASE ClearStatementsStaleSince(g)
      BY <3>5 DEF ClearStatementsStaleSince, changeVars, flagVars
    <3>6. CASE Commit(g)
      BY <3>6 DEF Commit, changeVars
    <3>7. CASE Rollback(g)
      BY <3>7 DEF Rollback, changeVars, flagVars
    <3> QED BY <2>3, <3>1, <3>2, <3>3, <3>4, <3>5, <3>6, <3>7 DEF GenerationStep
  <2>4. CASE UNCHANGED vars
    BY <2>4 DEF vars, changeVars, generationVars, flagVars
  <2> QED BY <2>1, <2>2, <2>3, <2>4 DEF Next
<1> QED BY <1>1, <1>2, PTL DEF Spec

-----------------------------------------------------------------------------
(* Versions *)

\* A transaction's version is free from the moment it is computed: the unique index
\* keeps every other row away from it, and packages are never deleted.
LEMMA VersionInductive == TypeOK /\ VersionIsFree /\ [Next]_vars => VersionIsFree'
<1> SUFFICES ASSUME TypeOK, VersionIsFree, [Next]_vars PROVE VersionIsFree'
  OBVIOUS
<1> USE StatementPackagesAssumption DEF TypeOK, VersionIsFree, Stored
<1>1. CASE ClockTicks
  BY <1>1 DEF ClockTicks, changeVars, generationVars, flagVars
<1>2. ASSUME NEW c \in Changes, ChangeStep(c) PROVE VersionIsFree'
  <2>1. CASE Change(c)
    BY <2>1 DEF Change, generationVars, flagVars
  <2>2. CASE InvalidateStatements(c)
    BY <2>2 DEF InvalidateStatements, generationVars, flagVars
  <2>3. CASE ReadClock(c)
    BY <2>3 DEF ReadClock, generationVars, flagVars
  <2>4. CASE SetStatementsStaleSince(c)
    BY <2>4 DEF SetStatementsStaleSince, generationVars
  <2>5. CASE LeaveUnmarked(c)
    BY <2>5 DEF LeaveUnmarked, generationVars, flagVars
  <2> QED BY <1>2, <2>1, <2>2, <2>3, <2>4, <2>5 DEF ChangeStep
<1>3. ASSUME NEW g \in Packages, GenerationStep(g) PROVE VersionIsFree'
  <2>1. CASE Start(g)
    BY <2>1 DEF Start, changeVars, flagVars
  <2>2. CASE ReadTrialBalance(g)
    BY <2>2 DEF ReadTrialBalance, changeVars, flagVars
  <2>3. CASE NextVersion(g)
    <3>1. PICK n \in {0} \cup {version[h] : h \in Stored} :
            version' = [version EXCEPT ![g] = n + 1]
      BY <2>3 DEF NextVersion
    <3>2. gpc[g] = "max" /\ gpc' = [gpc EXCEPT ![g] = "insert"]
      BY <2>3 DEF NextVersion
    <3>3. n \in Nat
      BY <3>1
    <3>4. \A k \in 1 .. n : \E h \in Stored : version[h] = k
      BY <3>1, <3>3
    <3>5. \A h \in Stored : h # g /\ h \in Stored' /\ version'[h] = version[h]
      BY <3>1, <3>2
    <3>6. \A k \in 1 .. n : \E h \in Stored' : version'[h] = k
      BY <3>4, <3>5
    <3>7. version'[g] = n + 1
      BY <3>1
    <3>8. \A x \in Packages \ {g} : gpc'[x] = gpc[x] /\ version'[x] = version[x]
      BY <3>1, <3>2
    <3>9. ASSUME NEW x \in Packages, gpc'[x] \in {"insert", "inserted", "kept", "cleared", "stored"},
                  NEW k \in 1 .. version'[x] - 1
           PROVE  \E h \in Stored' : version'[h] = k
      <4>1. CASE x = g
        <5>1. k \in 1 .. n
          BY <4>1, <3>3, <3>7, <3>9
        <5> QED BY <5>1, <3>6
      <4>2. CASE x # g
        <5>1. k \in 1 .. version[x] - 1
          BY <4>2, <3>8
        <5>2. gpc[x] \in {"insert", "inserted", "kept", "cleared", "stored"}
          BY <4>2, <3>8, <3>9
        <5>3. \E h \in Stored : version[h] = k
          BY <5>1, <5>2
        <5> QED BY <5>3, <3>5
      <4> QED BY <4>1, <4>2
    <3>10. ASSUME NEW x \in Packages, gpc'[x] \in {"inserted", "kept", "cleared", "stored"},
                  NEW h \in Packages, gpc'[h] \in {"inserted", "kept", "cleared", "stored"},
                  version'[x] = version'[h]
           PROVE  x = h
      BY <3>2, <3>8, <3>10
    <3> QED BY <3>9, <3>10
  <2>4. CASE InsertStatementPackage(g)
    BY <2>4 DEF InsertStatementPackage, changeVars, flagVars
  <2>5. CASE ClearStatementsStaleSince(g)
    BY <2>5 DEF ClearStatementsStaleSince, changeVars, flagVars
  <2>6. CASE Commit(g)
    BY <2>6 DEF Commit, changeVars
  <2>7. CASE Rollback(g)
    BY <2>7 DEF Rollback, changeVars, flagVars
  <2> QED BY <1>3, <2>1, <2>2, <2>3, <2>4, <2>5, <2>6, <2>7 DEF GenerationStep
<1>4. CASE UNCHANGED vars
  BY <1>4 DEF vars, changeVars, generationVars, flagVars
<1> QED BY <1>1, <1>2, <1>3, <1>4 DEF Next

\* Versions are unique and without gaps, whatever generations race.
THEOREM VersionTheorem == Spec => []VersionsAreDense
<1>1. Init => VersionIsFree
  BY DEF Init, VersionIsFree
<1>2. TypeOK /\ VersionIsFree /\ [Next]_vars => VersionIsFree'
  BY VersionInductive
<1>3. VersionIsFree => VersionsAreDense
  BY DEF VersionIsFree, VersionsAreDense, Stored
<1> QED BY TypeCorrect, <1>1, <1>2, <1>3, PTL DEF Spec

-----------------------------------------------------------------------------
(* The flag *)

\* The invariant of the flag is inductive where a change precedes its flag's clock.
LEMMA PackagesInductive ==
    ASSUME Tick > 0, PackagesInv, TypeOK', [Next]_vars
    PROVE  PackagesInv'
<1> SUFFICES (FlagsAreLater /\ SourceIsComplete /\ ClearIsCurrent /\ LastMarkIsAnswered)'
  BY DEF PackagesInv
<1> USE StatementPackagesAssumption DEF PackagesInv, TypeOK, FlagsAreLater, SourceIsComplete,
    ClearIsCurrent, LastMarkIsAnswered, Stored, RowFree
<1>1. CASE ClockTicks
  BY <1>1 DEF ClockTicks, changeVars, generationVars, flagVars
<1>2. ASSUME NEW c \in Changes, ChangeStep(c) PROVE (FlagsAreLater /\ SourceIsComplete /\ ClearIsCurrent /\ LastMarkIsAnswered)'
  <2>1. CASE Change(c)
    BY <2>1 DEF Change, generationVars, flagVars
  <2>2. CASE InvalidateStatements(c)
    BY <2>2 DEF InvalidateStatements, generationVars, flagVars
  <2>3. CASE ReadClock(c)
    BY <2>3 DEF ReadClock, generationVars, flagVars
  <2>4. CASE SetStatementsStaleSince(c)
    BY <2>4 DEF SetStatementsStaleSince, generationVars
  <2>5. CASE LeaveUnmarked(c)
    BY <2>5 DEF LeaveUnmarked, generationVars, flagVars
  <2> QED BY <1>2, <2>1, <2>2, <2>3, <2>4, <2>5 DEF ChangeStep
<1>3. ASSUME NEW g \in Packages, GenerationStep(g) PROVE (FlagsAreLater /\ SourceIsComplete /\ ClearIsCurrent /\ LastMarkIsAnswered)'
  <2>1. CASE Start(g)
    BY <2>1 DEF Start, changeVars, flagVars
  <2>2. CASE ReadTrialBalance(g)
    BY <2>2 DEF ReadTrialBalance, changeVars, flagVars
  <2>3. CASE NextVersion(g)
    BY <2>3 DEF NextVersion, changeVars, flagVars
  <2>4. CASE InsertStatementPackage(g)
    BY <2>4 DEF InsertStatementPackage, changeVars, flagVars
  <2>5. CASE ClearStatementsStaleSince(g)
    BY <2>5 DEF ClearStatementsStaleSince, changeVars, flagVars
  <2>6. CASE Commit(g)
    BY <2>6 DEF Commit, changeVars
  <2>7. CASE Rollback(g)
    BY <2>7 DEF Rollback, changeVars, flagVars
  <2> QED BY <1>3, <2>1, <2>2, <2>3, <2>4, <2>5, <2>6, <2>7 DEF GenerationStep
<1>4. CASE UNCHANGED vars
  BY <1>4 DEF vars, changeVars, generationVars, flagVars
<1> QED BY <1>1, <1>2, <1>3, <1>4 DEF Next

\* The invariant holds in every reachable state.
THEOREM PackagesInvariant == ASSUME Tick > 0 PROVE Spec => []PackagesInv
<1>1. Init => PackagesInv
  BY StatementPackagesAssumption DEF Init, PackagesInv, TypeOK, FlagsAreLater, SourceIsComplete,
     ClearIsCurrent, LastMarkIsAnswered, Stored
<1>2. PackagesInv /\ TypeOK' /\ [Next]_vars => PackagesInv'
  BY PackagesInductive
<1> QED BY TypeCorrect, <1>1, <1>2, PTL DEF Spec

\* The last change to raise the flag is in some package before the flag is lowered.
THEOREM FlagTheorem == ASSUME Tick > 0 PROVE Spec => []LastMarkIsAnswered
<1>1. PackagesInv => LastMarkIsAnswered
  BY DEF PackagesInv
<1> QED BY PackagesInvariant, <1>1, PTL

\* Only the commit of a generation that began no earlier than the flag lowers it.
THEOREM LoweredTheorem == ASSUME Tick > 0 PROVE Spec => LoweredByPackage
<1> DEFINE Lowered ==
      stale # None /\ stale' = None =>
         \E g \in Packages :
            /\ gpc[g] # "stored" /\ gpc'[g] = "stored"
            /\ stale <= startedAt[g]
<1>1. PackagesInv /\ [Next]_vars => [Lowered]_vars
  <2> SUFFICES ASSUME PackagesInv, [Next]_vars PROVE Lowered
    OBVIOUS
  <2> USE StatementPackagesAssumption DEF PackagesInv, TypeOK
  <2>1. CASE ClockTicks
    BY <2>1 DEF ClockTicks, changeVars, generationVars, flagVars
  <2>2. ASSUME NEW c \in Changes, ChangeStep(c) PROVE Lowered
    <3>1. CASE Change(c)
      BY <3>1 DEF Change, generationVars, flagVars
    <3>2. CASE InvalidateStatements(c)
      BY <3>2 DEF InvalidateStatements, generationVars, flagVars
    <3>3. CASE ReadClock(c)
      BY <3>3 DEF ReadClock, generationVars, flagVars
    <3>4. CASE SetStatementsStaleSince(c)
      <4>1. stale' = stamp[c] /\ stamp[c] \in Nat
        BY <3>4 DEF SetStatementsStaleSince
      <4> QED BY <4>1
    <3>5. CASE LeaveUnmarked(c)
      BY <3>5 DEF LeaveUnmarked, generationVars, flagVars
    <3> QED BY <2>2, <3>1, <3>2, <3>3, <3>4, <3>5 DEF ChangeStep
  <2>3. ASSUME NEW g \in Packages, GenerationStep(g) PROVE Lowered
    <3>1. CASE Start(g)
      BY <3>1 DEF Start, changeVars, flagVars
    <3>2. CASE ReadTrialBalance(g)
      BY <3>2 DEF ReadTrialBalance, changeVars, flagVars
    <3>3. CASE NextVersion(g)
      BY <3>3 DEF NextVersion, changeVars, flagVars
    <3>4. CASE InsertStatementPackage(g)
      BY <3>4 DEF InsertStatementPackage, changeVars, flagVars
    <3>5. CASE ClearStatementsStaleSince(g)
      BY <3>5 DEF ClearStatementsStaleSince, changeVars, flagVars
    <3>6. CASE Commit(g)
      BY <3>6 DEF Commit, changeVars, ClearIsCurrent
    <3>7. CASE Rollback(g)
      BY <3>7 DEF Rollback, changeVars, flagVars
    <3> QED BY <2>3, <3>1, <3>2, <3>3, <3>4, <3>5, <3>6, <3>7 DEF GenerationStep
  <2>4. CASE UNCHANGED vars
    BY <2>4 DEF vars, changeVars, generationVars, flagVars
  <2> QED BY <2>1, <2>2, <2>3, <2>4 DEF Next
<1> QED BY PackagesInvariant, <1>1, PTL DEF Spec, LoweredByPackage

-----------------------------------------------------------------------------
(* Every mark, not only the last one *)

\* Where no raise sets the flag's clock back, a change that raised it stays below the
\* flag until a package has it.
LEMMA MarkedInductive ==
    ASSUME Tick > 0, PackagesInv, MarkedIsFlagged, TypeOK', [Next]_vars, [FlagKeepsItsClock]_vars
    PROVE  MarkedIsFlagged'
<1> USE StatementPackagesAssumption DEF PackagesInv, TypeOK, FlagsAreLater, SourceIsComplete,
    ClearIsCurrent, MarkedIsFlagged, Stored, RowFree
<1>1. CASE ClockTicks
  BY <1>1 DEF ClockTicks, changeVars, generationVars, flagVars
<1>2. ASSUME NEW c \in Changes, ChangeStep(c) PROVE MarkedIsFlagged'
  <2>1. CASE Change(c)
    BY <2>1 DEF Change, generationVars, flagVars
  <2>2. CASE InvalidateStatements(c)
    BY <2>2 DEF InvalidateStatements, generationVars, flagVars
  <2>3. CASE ReadClock(c)
    BY <2>3 DEF ReadClock, generationVars, flagVars
  <2>4. CASE SetStatementsStaleSince(c)
    <3>1. /\ stale' = stamp[c] /\ stamp[c] \in Nat
          /\ marked' = marked \cup {c} /\ changedAt[c] < stamp[c]
          /\ UNCHANGED <<changedAt, gpc, source>>
      BY <2>4 DEF SetStatementsStaleSince, generationVars
    <3>2. stale # None => stale <= stale'
      BY <3>1 DEF FlagKeepsItsClock, vars, flagVars
    <3>3. ASSUME NEW d \in marked'
          PROVE  \/ stale' # None /\ changedAt'[d] < stale'
                 \/ \E g \in Stored' : d \in source'[g]
      <4>1. CASE d = c
        BY <3>1, <4>1
      <4>2. CASE d \in marked
        BY <3>1, <3>2, <4>2
      <4> QED BY <3>1, <3>3, <4>1, <4>2
    <3> QED BY <3>3
  <2>5. CASE LeaveUnmarked(c)
    BY <2>5 DEF LeaveUnmarked, generationVars, flagVars
  <2> QED BY <1>2, <2>1, <2>2, <2>3, <2>4, <2>5 DEF ChangeStep
<1>3. ASSUME NEW g \in Packages, GenerationStep(g) PROVE MarkedIsFlagged'
  <2>1. CASE Start(g)
    BY <2>1 DEF Start, changeVars, flagVars
  <2>2. CASE ReadTrialBalance(g)
    BY <2>2 DEF ReadTrialBalance, changeVars, flagVars
  <2>3. CASE NextVersion(g)
    BY <2>3 DEF NextVersion, changeVars, flagVars
  <2>4. CASE InsertStatementPackage(g)
    BY <2>4 DEF InsertStatementPackage, changeVars, flagVars
  <2>5. CASE ClearStatementsStaleSince(g)
    BY <2>5 DEF ClearStatementsStaleSince, changeVars, flagVars
  <2>6. CASE Commit(g)
    BY <2>6 DEF Commit, changeVars
  <2>7. CASE Rollback(g)
    BY <2>7 DEF Rollback, changeVars, flagVars
  <2> QED BY <1>3, <2>1, <2>2, <2>3, <2>4, <2>5, <2>6, <2>7 DEF GenerationStep
<1>4. CASE UNCHANGED vars
  BY <1>4 DEF vars, changeVars, generationVars, flagVars
<1> QED BY <1>1, <1>2, <1>3, <1>4 DEF Next

\* Where no raise sets the flag's clock back, every change that ever raised the flag is
\* in some package when it is down, whatever generations race.
THEOREM MarksTheorem ==
    ASSUME Tick > 0
    PROVE  Spec /\ [][FlagKeepsItsClock]_vars => []MarksAreAnswered
<1>1. Init => MarkedIsFlagged
  BY DEF Init, MarkedIsFlagged
<1>2. PackagesInv /\ MarkedIsFlagged /\ TypeOK' /\ [Next]_vars /\ [FlagKeepsItsClock]_vars
        => MarkedIsFlagged'
  BY MarkedInductive
<1>3. MarkedIsFlagged => MarksAreAnswered
  BY DEF MarkedIsFlagged, MarksAreAnswered
<1> QED BY TypeCorrect, PackagesInvariant, <1>1, <1>2, <1>3, PTL DEF Spec

-----------------------------------------------------------------------------
(* The latest package *)

\* Where generations do not overlap, each one reads what the earlier ones have read and
\* takes a later version.
LEMMA SourcesInductive ==
    ASSUME TypeOK, SourcesGrow, GenerationsAreSerial, TypeOK', [Next]_vars
    PROVE  SourcesGrow'
<1> USE StatementPackagesAssumption DEF TypeOK, SourcesGrow, GenerationsAreSerial, UnderWay, Stored
<1>1. CASE ClockTicks
  BY <1>1 DEF ClockTicks, changeVars, generationVars, flagVars
<1>2. ASSUME NEW c \in Changes, ChangeStep(c) PROVE SourcesGrow'
  <2>1. CASE Change(c)
    BY <2>1 DEF Change, generationVars, flagVars
  <2>2. CASE InvalidateStatements(c)
    BY <2>2 DEF InvalidateStatements, generationVars, flagVars
  <2>3. CASE ReadClock(c)
    BY <2>3 DEF ReadClock, generationVars, flagVars
  <2>4. CASE SetStatementsStaleSince(c)
    BY <2>4 DEF SetStatementsStaleSince, generationVars
  <2>5. CASE LeaveUnmarked(c)
    BY <2>5 DEF LeaveUnmarked, generationVars, flagVars
  <2> QED BY <1>2, <2>1, <2>2, <2>3, <2>4, <2>5 DEF ChangeStep
<1>3. ASSUME NEW g \in Packages, GenerationStep(g) PROVE SourcesGrow'
  <2>1. CASE Start(g)
    BY <2>1 DEF Start, changeVars, flagVars
  <2>2. CASE ReadTrialBalance(g)
    BY <2>2 DEF ReadTrialBalance, changeVars, flagVars
  <2>3. CASE NextVersion(g)
    BY <2>3 DEF NextVersion, changeVars, flagVars
  <2>4. CASE InsertStatementPackage(g)
    BY <2>4 DEF InsertStatementPackage, changeVars, flagVars
  <2>5. CASE ClearStatementsStaleSince(g)
    BY <2>5 DEF ClearStatementsStaleSince, changeVars, flagVars
  <2>6. CASE Commit(g)
    BY <2>6 DEF Commit, changeVars
  <2>7. CASE Rollback(g)
    BY <2>7 DEF Rollback, changeVars, flagVars
  <2> QED BY <1>3, <2>1, <2>2, <2>3, <2>4, <2>5, <2>6, <2>7 DEF GenerationStep
<1>4. CASE UNCHANGED vars
  BY <1>4 DEF vars, changeVars, generationVars, flagVars
<1> QED BY <1>1, <1>2, <1>3, <1>4 DEF Next

\* What certification relies on: with the flag down, the latest package has every change
\* that ever raised it, wherever the flag's clock is never set back and generations do
\* not overlap.  Without the first, statements_current finds a behaviour that breaks it.
THEOREM CurrentTheorem ==
    ASSUME Tick > 0
    PROVE  Spec /\ [][FlagKeepsItsClock]_vars /\ []GenerationsAreSerial => []UnflaggedIsCurrent
<1>1. Init => MarkedIsFlagged /\ SourcesGrow
  BY DEF Init, MarkedIsFlagged, SourcesGrow, Stored, UnderWay
<1>2. PackagesInv /\ MarkedIsFlagged /\ TypeOK' /\ [Next]_vars /\ [FlagKeepsItsClock]_vars
        => MarkedIsFlagged'
  BY MarkedInductive
<1>3. TypeOK /\ SourcesGrow /\ GenerationsAreSerial /\ TypeOK' /\ [Next]_vars => SourcesGrow'
  BY SourcesInductive
<1>4. MarkedIsFlagged /\ SourcesGrow => UnflaggedIsCurrent
  <2> SUFFICES ASSUME MarkedIsFlagged, SourcesGrow, stale = None,
                      NEW g \in Stored, \A h \in Stored : version[h] <= version[g],
                      NEW c \in marked
               PROVE  c \in source[g]
    BY DEF UnflaggedIsCurrent
  <2>1. PICK h \in Stored : c \in source[h]
    BY DEF MarkedIsFlagged
  <2>2. source[h] \subseteq source[g]
    BY DEF SourcesGrow
  <2> QED BY <2>1, <2>2
<1> QED BY TypeCorrect, PackagesInvariant, <1>1, <1>2, <1>3, <1>4, PTL DEF Spec

=============================================================================
