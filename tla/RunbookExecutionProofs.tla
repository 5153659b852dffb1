------------------------ MODULE RunbookExecutionProofs ------------------------
(***************************************************************************)
(* For any runbook, any number of actors and any bounds: one runner per    *)
(* task until a late catch fails it, dependencies first, outcomes that are *)
(* final, no wake-up and no completion lost, and at most one task stranded *)
(* by a fault.                                                             *)
(***************************************************************************)
EXTENDS RunbookExecution, FiniteSetTheorems, TLAPS

\* The status derived from the tasks is one of four.
LEMMA ExecutionStatusType == ExecutionStatus \in {"running", "blocked", "failed", "completed"}
<1> DEFINE active == \E t \in Tasks : status[t] \in {"queued", "running"}
<1> DEFINE failed == \E t \in Tasks : status[t] = "failed"
<1> DEFINE blocked == \E t \in Tasks : status[t] = "blocked"
<1>1. CASE \A t \in Tasks : status[t] \in Done
  BY <1>1 DEF ExecutionStatus, Done
<1>2. CASE ~(\A t \in Tasks : status[t] \in Done)
  BY <1>2 DEF ExecutionStatus
<1> QED BY <1>1, <1>2

\* It is completed exactly when they all are done.
LEMMA ExecutionStatusCompleted ==
    ExecutionStatus = "completed" <=> \A t \in Tasks : status[t] \in Done
<1>1. CASE \A t \in Tasks : status[t] \in Done
  BY <1>1 DEF ExecutionStatus, Done
<1>2. CASE ~(\A t \in Tasks : status[t] \in Done)
  BY <1>2 DEF ExecutionStatus
<1> QED BY <1>1, <1>2

\* An actor that returns is in order.
LEMMA EndActors == ASSUME ActorsOK, NEW a \in Actors, End(a) PROVE ActorsOK'
  BY RunbookAssumption DEF ActorsOK, End, Go

\* So is one that throws; it may leave a report.
LEMMA ThrowTypes ==
    ASSUME TypeOK, NEW a \in Actors, Throw(a)
    PROVE  ActorsOK' /\ notices' \in [Tasks -> Nat]
<1>1. ActorsOK'
  BY EndActors DEF Throw, TypeOK
<1>2. kind[a] # "none" => on[a] \in Tasks
  BY DEF TypeOK, ActorsOK, ActorsOK
<1>3. notices' \in [Tasks -> Nat]
  BY <1>2 DEF Throw, TypeOK
<1> QED BY <1>1, <1>3

\* And one whose error executeRunbookTask catches first.
LEMMA RaiseTypes ==
    ASSUME TypeOK, NEW a \in Actors, Raise(a)
    PROVE  ActorsOK' /\ notices' \in [Tasks -> Nat]
<1>1. CASE kind[a] = "execute" /\ apc[a] \notin {"claimed", "caught"}
  BY <1>1, RunbookAssumption DEF Raise, Go, TypeOK, ActorsOK
<1>2. CASE ~(kind[a] = "execute" /\ apc[a] \notin {"claimed", "caught"})
  BY <1>2, ThrowTypes DEF Raise
<1> QED BY <1>1, <1>2

\* Types are kept by every step.
LEMMA TypeInductive == TypeOK /\ [Next]_vars => TypeOK'
<1> SUFFICES ASSUME TypeOK, [Next]_vars PROVE TypeOK'
  OBVIOUS
<1> USE RunbookAssumption DEF TypeOK, Done, Stopped
<1>1. ASSUME NEW a \in Actors, ListTasks(a) PROVE TypeOK'
  BY <1>1 DEF ListTasks, Go, taskVars, jobVars, orchestratorVars, historyVars, ActorsOK
<1>2. ASSUME NEW a \in Actors, NEW t \in Tasks, DispatchTask(a, t) PROVE TypeOK'
  <2>1. ActorsOK'
    BY <1>2 DEF DispatchTask, Go, ActorsOK
  <2>2. status' \in [Tasks -> {"pending", "queued", "running"} \cup Stopped \cup Done]
    BY <1>2 DEF DispatchTask, Update
  <2> QED BY <1>2, <2>1, <2>2 DEF DispatchTask, jobVars, orchestratorVars, historyVars
<1>3. ASSUME NEW a \in Actors, EnqueueJob(a) PROVE TypeOK'
  BY <1>3 DEF EnqueueJob, Go, taskVars, orchestratorVars, historyVars, ActorsOK
<1>4. ASSUME NEW a \in Actors, EnqueueFails(a) PROVE TypeOK'
  <2>1. current[a] \in Tasks
    BY <1>4 DEF EnqueueFails, ActorsOK
  <2>2. status' \in [Tasks -> {"pending", "queued", "running"} \cup Stopped \cup Done]
    BY <1>4, <2>1 DEF EnqueueFails, Update
  <2>3. jobs' \in [Tasks -> Nat]
    BY <1>4, <2>1 DEF EnqueueFails
  <2> QED BY <1>4, <2>2, <2>3, RaiseTypes DEF EnqueueFails, orchestratorVars
<1>5. ASSUME NEW a \in Actors, RefreshRead(a) PROVE TypeOK'
  BY <1>5, ExecutionStatusType DEF RefreshRead, Go, taskVars, jobVars, orchestratorVars, historyVars, ActorsOK
<1>6. ASSUME NEW a \in Actors, RefreshWrite(a) PROVE TypeOK'
  <2>1. CASE execution = "completed" /\ verdict[a] # "completed"
    BY <1>6, <2>1, RaiseTypes DEF RefreshWrite, orchestratorVars, historyVars
  <2>2. CASE ~(execution = "completed" /\ verdict[a] # "completed")
    <3>1. verdict[a] \in {"running", "blocked", "failed", "completed"}
      BY <1>6 DEF RefreshWrite, ActorsOK
    <3> QED BY <1>6, <2>2, <3>1, EndActors DEF RefreshWrite, jobVars, orchestratorVars, historyVars
  <2> QED BY <2>1, <2>2
<1>7. ASSUME NEW a \in Actors, Instantiate(a) PROVE TypeOK'
  BY <1>7 DEF Instantiate, Go, jobVars, orchestratorVars, historyVars, ActorsOK
<1>8. ASSUME NEW a \in Actors, NEW t \in Tasks, ClaimJob(a, t) PROVE TypeOK'
  BY <1>8 DEF ClaimJob, Go, taskVars, orchestratorVars, historyVars, ActorsOK
<1>9. ASSUME NEW a \in Actors, Begin(a) PROVE TypeOK'
  <2>0. on[a] \in Tasks
    BY <1>9 DEF Begin, ActorsOK
  <2>1. CASE Update(on[a], {"queued", "failed"}, "running") /\ Go(a, "running")
             /\ UNCHANGED <<jobVars, kind, on, todo, current, verdict>>
    BY <1>9, <2>0, <2>1 DEF Begin, Update, Go, jobVars, orchestratorVars, historyVars, ActorsOK
  <2>2. CASE End(a) /\ UNCHANGED <<status, jobVars>>
    BY <1>9, <2>2, EndActors DEF Begin, jobVars, orchestratorVars, historyVars
  <2>3. CASE Throw(a) /\ UNCHANGED <<status, jobs>>
    BY <1>9, <2>3, ThrowTypes DEF Begin, orchestratorVars, historyVars
  <2> QED BY <1>9, <2>1, <2>2, <2>3 DEF Begin
<1>10. ASSUME NEW a \in Actors, Finish(a) PROVE TypeOK'
  BY <1>10 DEF Finish, Go, jobVars, orchestratorVars, historyVars, ActorsOK
<1>11. ASSUME NEW a \in Actors, Fail(a) PROVE TypeOK'
  BY <1>11 DEF Fail, Go, taskVars, jobVars, orchestratorVars, historyVars, ActorsOK
<1>12. ASSUME NEW a \in Actors, DeadLetter(a) PROVE TypeOK'
  BY <1>12, ThrowTypes DEF DeadLetter, taskVars, orchestratorVars, historyVars
<1>13. ASSUME NEW a \in Actors, GoOnToDispatch(a) PROVE TypeOK'
  BY <1>13 DEF GoOnToDispatch, Go, taskVars, jobVars, orchestratorVars, historyVars, ActorsOK
<1>14. ASSUME NEW a \in Actors, NEW t \in Tasks, Retry(a, t) PROVE TypeOK'
  BY <1>14 DEF Retry, Reset, Update, Go, jobVars, orchestratorVars, ActorsOK
<1>15. ASSUME NEW a \in Actors, NEW t \in Tasks, Skip(a, t) PROVE TypeOK'
  BY <1>15 DEF Skip, Update, Go, jobVars, orchestratorVars, historyVars, ActorsOK
<1>16. ASSUME NEW a \in Actors, NEW t \in Tasks, Complete(a, t) PROVE TypeOK'
  BY <1>16 DEF Complete, Update, Go, jobVars, orchestratorVars, historyVars, ActorsOK
<1>17. ASSUME NEW a \in Actors, NEW t \in Tasks, Reconcile(a, t) PROVE TypeOK'
  BY <1>17 DEF Reconcile, Go, taskVars, historyVars, ActorsOK
<1>18. ASSUME NEW a \in Actors, ReadFailed(a) PROVE TypeOK'
  <2>1. CASE status[on[a]] = "failed"
    BY <1>18, <2>1 DEF ReadFailed, Go, taskVars, jobVars, orchestratorVars, historyVars, ActorsOK
  <2>2. CASE status[on[a]] # "failed"
    BY <1>18, <2>2, EndActors DEF ReadFailed, taskVars, jobVars, orchestratorVars, historyVars
  <2> QED BY <2>1, <2>2
<1>19. ASSUME NEW a \in Actors, RetryFailed(a) PROVE TypeOK'
  <2>0. on[a] \in Tasks
    BY <1>19 DEF RetryFailed, ActorsOK
  <2>1. CASE Reset(on[a], {"failed"}) /\ Go(a, "count")
    BY <1>19, <2>0, <2>1 DEF RetryFailed, Reset, Update, Go, jobVars, orchestratorVars, ActorsOK
  <2>2. CASE Go(a, "lost") /\ UNCHANGED <<status, resets>>
    BY <1>19, <2>2 DEF RetryFailed, Go, jobVars, orchestratorVars, ActorsOK
  <2> QED BY <1>19, <2>1, <2>2 DEF RetryFailed
<1>20. ASSUME NEW a \in Actors, CountAttempt(a) PROVE TypeOK'
  <2>0. on[a] \in Tasks
    BY <1>20 DEF CountAttempt, ActorsOK
  <2>1. attempts' \in [Tasks -> 0 .. MaxAttempts]
    BY <1>20, <2>0 DEF CountAttempt
  <2>2. ActorsOK'
    <3>1. CASE apc[a] = "count" /\ attempts[on[a]] < MaxAttempts
      BY <1>20, <3>1 DEF CountAttempt, Go, ActorsOK
    <3>2. CASE ~(apc[a] = "count" /\ attempts[on[a]] < MaxAttempts)
      BY <1>20, <3>2, EndActors DEF CountAttempt
    <3> QED BY <3>1, <3>2
  <2> QED BY <1>20, <2>1, <2>2 DEF CountAttempt, taskVars, jobVars, historyVars
<1>21. ASSUME NEW a \in Actors, Correction(a) PROVE TypeOK'
  BY <1>21 DEF Correction, Recoverable, Go, taskVars, jobVars, historyVars, ActorsOK
<1>22. ASSUME NEW a \in Actors, NEW t \in Tasks, ResetCorrected(a, t) PROVE TypeOK'
  BY <1>22 DEF ResetCorrected, Reset, Update, Go, jobVars, orchestratorVars, ActorsOK
<1>23. ASSUME NEW a \in Actors, EndCorrection(a) PROVE TypeOK'
  BY <1>23 DEF EndCorrection, Go, taskVars, jobVars, orchestratorVars, historyVars, ActorsOK
<1>24. ASSUME NEW a \in Actors, StepFails(a) PROVE TypeOK'
  <2>1. status' \in [Tasks -> {"pending", "queued", "running"} \cup Stopped \cup Done]
    BY <1>24 DEF StepFails, Update, taskVars, ActorsOK
  <2>2. execution' \in {None, "running", "blocked", "failed", "completed"}
    BY <1>24 DEF StepFails, taskVars, ActorsOK
  <2>3. ActorsOK' /\ notices' \in [Tasks -> Nat]
    BY <1>24, RaiseTypes, ThrowTypes DEF StepFails
  <2> QED BY <1>24, <2>1, <2>2, <2>3 DEF StepFails, orchestratorVars
<1>25. ASSUME NEW a \in Actors, Crash(a) PROVE TypeOK'
  <2>1. kind[a] # "none" => on[a] \in Tasks
    BY DEF ActorsOK
  <2>2. jobs' \in [Tasks -> Nat] /\ notices' \in [Tasks -> Nat]
    BY <1>25, <2>1 DEF Crash, jobVars
  <2> QED BY <1>25, <2>2, EndActors DEF Crash, taskVars, orchestratorVars
<1>26. CASE Supervise
  BY <1>26 DEF Supervise, taskVars, jobVars, actorVars, historyVars, ActorsOK
<1>27. CASE UNCHANGED vars
  BY <1>27 DEF vars, taskVars, jobVars, orchestratorVars, actorVars, historyVars, ActorsOK
<1>28. ASSUME NEW a \in Actors, Catch(a) PROVE TypeOK'
  BY <1>28 DEF Catch, Update, Go, jobVars, orchestratorVars, ActorsOK
<1> QED
  BY <1>1, <1>2, <1>3, <1>4, <1>5, <1>6, <1>7, <1>8, <1>9, <1>10, <1>11, <1>12, <1>13, <1>14, <1>15, <1>16, <1>17, <1>18, <1>19, <1>20, <1>21, <1>22, <1>23, <1>24, <1>25, <1>26, <1>27, <1>28
  DEF Next, Step, Request, Fault

\* The orchestrator's bounds and the types hold in every reachable state.
THEOREM TypeCorrect == Spec => []TypeOK
<1>1. Init => TypeOK
  BY RunbookAssumption DEF Init, TypeOK, ActorsOK, Done, Stopped
<1> QED BY <1>1, TypeInductive, PTL DEF Spec

-----------------------------------------------------------------------------

\* What is done stays as it is.
LEMMA DoneStays ==
    ASSUME TypeOK, [Next]_vars
    PROVE  \A x \in Tasks : status[x] \in Done => status'[x] = status[x]
<1> USE RunbookAssumption DEF TypeOK, ActorsOK, Done, Stopped
<1>1. ASSUME NEW a \in Actors, ListTasks(a) PROVE \A x \in Tasks : status[x] \in Done => status'[x] = status[x]
  BY <1>1 DEF ListTasks, Go, taskVars, jobVars, orchestratorVars, historyVars
<1>2. ASSUME NEW a \in Actors, NEW t \in Tasks, DispatchTask(a, t) PROVE \A x \in Tasks : status[x] \in Done => status'[x] = status[x]
  BY <1>2 DEF DispatchTask, Go, Update, jobVars, orchestratorVars, historyVars
<1>3. ASSUME NEW a \in Actors, EnqueueJob(a) PROVE \A x \in Tasks : status[x] \in Done => status'[x] = status[x]
  BY <1>3 DEF EnqueueJob, Go, taskVars, orchestratorVars, historyVars
<1>4. ASSUME NEW a \in Actors, EnqueueFails(a) PROVE \A x \in Tasks : status[x] \in Done => status'[x] = status[x]
  BY <1>4 DEF EnqueueFails, Raise, Update, Throw, End, Go, orchestratorVars
<1>5. ASSUME NEW a \in Actors, RefreshRead(a) PROVE \A x \in Tasks : status[x] \in Done => status'[x] = status[x]
  BY <1>5 DEF RefreshRead, Go, taskVars, jobVars, orchestratorVars, historyVars
<1>6. ASSUME NEW a \in Actors, RefreshWrite(a) PROVE \A x \in Tasks : status[x] \in Done => status'[x] = status[x]
  BY <1>6 DEF RefreshWrite, Raise, Throw, End, Go, jobVars, orchestratorVars, historyVars
<1>7. ASSUME NEW a \in Actors, Instantiate(a) PROVE \A x \in Tasks : status[x] \in Done => status'[x] = status[x]
  BY <1>7 DEF Instantiate, Go, jobVars, orchestratorVars, historyVars
<1>8. ASSUME NEW a \in Actors, NEW t \in Tasks, ClaimJob(a, t) PROVE \A x \in Tasks : status[x] \in Done => status'[x] = status[x]
  BY <1>8 DEF ClaimJob, Go, taskVars, orchestratorVars, historyVars
<1>9. ASSUME NEW a \in Actors, Begin(a) PROVE \A x \in Tasks : status[x] \in Done => status'[x] = status[x]
  BY <1>9 DEF Begin, Update, Throw, End, Go, jobVars, orchestratorVars, historyVars
<1>10. ASSUME NEW a \in Actors, Finish(a) PROVE \A x \in Tasks : status[x] \in Done => status'[x] = status[x]
  BY <1>10 DEF Finish, Go, jobVars, orchestratorVars, historyVars
<1>11. ASSUME NEW a \in Actors, Fail(a) PROVE \A x \in Tasks : status[x] \in Done => status'[x] = status[x]
  BY <1>11 DEF Fail, Go, taskVars, jobVars, orchestratorVars, historyVars
<1>12. ASSUME NEW a \in Actors, DeadLetter(a) PROVE \A x \in Tasks : status[x] \in Done => status'[x] = status[x]
  BY <1>12 DEF DeadLetter, Throw, End, Go, taskVars, orchestratorVars, historyVars
<1>13. ASSUME NEW a \in Actors, GoOnToDispatch(a) PROVE \A x \in Tasks : status[x] \in Done => status'[x] = status[x]
  BY <1>13 DEF GoOnToDispatch, Go, taskVars, jobVars, orchestratorVars, historyVars
<1>14. ASSUME NEW a \in Actors, NEW t \in Tasks, Retry(a, t) PROVE \A x \in Tasks : status[x] \in Done => status'[x] = status[x]
  BY <1>14 DEF Retry, Reset, Update, Go, jobVars, orchestratorVars
<1>15. ASSUME NEW a \in Actors, NEW t \in Tasks, Skip(a, t) PROVE \A x \in Tasks : status[x] \in Done => status'[x] = status[x]
  BY <1>15 DEF Skip, Update, Go, jobVars, orchestratorVars, historyVars
<1>16. ASSUME NEW a \in Actors, NEW t \in Tasks, Complete(a, t) PROVE \A x \in Tasks : status[x] \in Done => status'[x] = status[x]
  BY <1>16 DEF Complete, Update, Go, jobVars, orchestratorVars, historyVars
<1>17. ASSUME NEW a \in Actors, NEW t \in Tasks, Reconcile(a, t) PROVE \A x \in Tasks : status[x] \in Done => status'[x] = status[x]
  BY <1>17 DEF Reconcile, Go, taskVars, historyVars
<1>18. ASSUME NEW a \in Actors, ReadFailed(a) PROVE \A x \in Tasks : status[x] \in Done => status'[x] = status[x]
  BY <1>18 DEF ReadFailed, End, Go, taskVars, jobVars, orchestratorVars, historyVars
<1>19. ASSUME NEW a \in Actors, RetryFailed(a) PROVE \A x \in Tasks : status[x] \in Done => status'[x] = status[x]
  BY <1>19 DEF RetryFailed, Reset, Update, Go, jobVars, orchestratorVars
<1>20. ASSUME NEW a \in Actors, CountAttempt(a) PROVE \A x \in Tasks : status[x] \in Done => status'[x] = status[x]
  BY <1>20 DEF CountAttempt, End, Go, taskVars, jobVars, historyVars
<1>21. ASSUME NEW a \in Actors, Correction(a) PROVE \A x \in Tasks : status[x] \in Done => status'[x] = status[x]
  BY <1>21 DEF Correction, Recoverable, Go, taskVars, jobVars, historyVars
<1>22. ASSUME NEW a \in Actors, NEW t \in Tasks, ResetCorrected(a, t) PROVE \A x \in Tasks : status[x] \in Done => status'[x] = status[x]
  BY <1>22 DEF ResetCorrected, Reset, Update, Go, jobVars, orchestratorVars
<1>23. ASSUME NEW a \in Actors, EndCorrection(a) PROVE \A x \in Tasks : status[x] \in Done => status'[x] = status[x]
  BY <1>23 DEF EndCorrection, Go, taskVars, jobVars, orchestratorVars, historyVars
<1>24. ASSUME NEW a \in Actors, StepFails(a) PROVE \A x \in Tasks : status[x] \in Done => status'[x] = status[x]
  BY <1>24 DEF StepFails, Raise, Update, Throw, End, Go, taskVars, orchestratorVars
<1>25. ASSUME NEW a \in Actors, Crash(a) PROVE \A x \in Tasks : status[x] \in Done => status'[x] = status[x]
  BY <1>25 DEF Crash, End, Go, taskVars, jobVars, orchestratorVars
<1>26. CASE Supervise
  BY <1>26 DEF Supervise, taskVars, jobVars, actorVars, historyVars
<1>27. CASE UNCHANGED vars
  BY <1>27 DEF vars, taskVars, jobVars, orchestratorVars, actorVars, historyVars
<1>28. ASSUME NEW a \in Actors, Catch(a) PROVE \A x \in Tasks : status[x] \in Done => status'[x] = status[x]
  BY <1>28 DEF Catch, Update, Go, jobVars, orchestratorVars
<1> QED
  BY <1>1, <1>2, <1>3, <1>4, <1>5, <1>6, <1>7, <1>8, <1>9, <1>10, <1>11, <1>12, <1>13, <1>14, <1>15, <1>16, <1>17, <1>18, <1>19, <1>20, <1>21, <1>22, <1>23, <1>24, <1>25, <1>26, <1>27, <1>28
  DEF Next, Step, Request, Fault

\* A completed or skipped task is never changed again.
THEOREM DoneTheorem == Spec => DoneIsFinal
<1> DEFINE Final == \A t \in Tasks : status[t] \in Done => status'[t] = status[t]
<1>1. TypeOK /\ [Next]_vars => [Final]_vars
  BY DoneStays
<1> QED BY TypeCorrect, <1>1, PTL DEF Spec, DoneIsFinal

\* Only the runner of a task, or a late catch, takes it out of running, and none begins
\* while it is.
LEMMA RunnerInductive == TypeOK /\ OneRunner /\ [Next]_vars => OneRunner'
<1> SUFFICES ASSUME TypeOK, OneRunner, [Next]_vars PROVE OneRunner'
  OBVIOUS
<1> USE RunbookAssumption DEF TypeOK, ActorsOK, Done, Stopped, OneRunner
<1>1. ASSUME NEW a \in Actors, ListTasks(a) PROVE OneRunner'
  BY <1>1 DEF ListTasks, Go, taskVars, jobVars, orchestratorVars, historyVars
<1>2. ASSUME NEW a \in Actors, NEW t \in Tasks, DispatchTask(a, t) PROVE OneRunner'
  BY <1>2 DEF DispatchTask, Go, Update, jobVars, orchestratorVars, historyVars
<1>3. ASSUME NEW a \in Actors, EnqueueJob(a) PROVE OneRunner'
  BY <1>3 DEF EnqueueJob, Go, taskVars, orchestratorVars, historyVars
<1>4. ASSUME NEW a \in Actors, EnqueueFails(a) PROVE OneRunner'
  BY <1>4 DEF EnqueueFails, Raise, Update, Throw, End, Go, orchestratorVars
<1>5. ASSUME NEW a \in Actors, RefreshRead(a) PROVE OneRunner'
  BY <1>5 DEF RefreshRead, Go, taskVars, jobVars, orchestratorVars, historyVars
<1>6. ASSUME NEW a \in Actors, RefreshWrite(a) PROVE OneRunner'
  BY <1>6 DEF RefreshWrite, Raise, Throw, End, Go, jobVars, orchestratorVars, historyVars
<1>7. ASSUME NEW a \in Actors, Instantiate(a) PROVE OneRunner'
  BY <1>7 DEF Instantiate, Go, jobVars, orchestratorVars, historyVars
<1>8. ASSUME NEW a \in Actors, NEW t \in Tasks, ClaimJob(a, t) PROVE OneRunner'
  BY <1>8 DEF ClaimJob, Go, taskVars, orchestratorVars, historyVars
<1>9. ASSUME NEW a \in Actors, Begin(a) PROVE OneRunner'
  <2>1. CASE Update(on[a], {"queued", "failed"}, "running") /\ Go(a, "running") /\ UNCHANGED on
    BY <1>9, <2>1 DEF Begin, Update, Go, historyVars
  <2>2. CASE End(a) /\ UNCHANGED status
    BY <1>9, <2>2 DEF Begin, End, Go, historyVars
  <2> QED BY <1>9, <2>1, <2>2 DEF Begin, Throw
<1>10. ASSUME NEW a \in Actors, Finish(a) PROVE OneRunner'
  BY <1>10 DEF Finish, Go, jobVars, orchestratorVars, historyVars
<1>11. ASSUME NEW a \in Actors, Fail(a) PROVE OneRunner'
  BY <1>11 DEF Fail, Go, taskVars, jobVars, orchestratorVars, historyVars
<1>12. ASSUME NEW a \in Actors, DeadLetter(a) PROVE OneRunner'
  BY <1>12 DEF DeadLetter, Throw, End, Go, taskVars, orchestratorVars, historyVars
<1>13. ASSUME NEW a \in Actors, GoOnToDispatch(a) PROVE OneRunner'
  BY <1>13 DEF GoOnToDispatch, Go, taskVars, jobVars, orchestratorVars, historyVars
<1>14. ASSUME NEW a \in Actors, NEW t \in Tasks, Retry(a, t) PROVE OneRunner'
  BY <1>14 DEF Retry, Reset, Update, Go, jobVars, orchestratorVars
<1>15. ASSUME NEW a \in Actors, NEW t \in Tasks, Skip(a, t) PROVE OneRunner'
  BY <1>15 DEF Skip, Update, Go, jobVars, orchestratorVars, historyVars
<1>16. ASSUME NEW a \in Actors, NEW t \in Tasks, Complete(a, t) PROVE OneRunner'
  BY <1>16 DEF Complete, Update, Go, jobVars, orchestratorVars, historyVars
<1>17. ASSUME NEW a \in Actors, NEW t \in Tasks, Reconcile(a, t) PROVE OneRunner'
  BY <1>17 DEF Reconcile, Go, taskVars, historyVars
<1>18. ASSUME NEW a \in Actors, ReadFailed(a) PROVE OneRunner'
  BY <1>18 DEF ReadFailed, End, Go, taskVars, jobVars, orchestratorVars, historyVars
<1>19. ASSUME NEW a \in Actors, RetryFailed(a) PROVE OneRunner'
  BY <1>19 DEF RetryFailed, Reset, Update, Go, jobVars, orchestratorVars
<1>20. ASSUME NEW a \in Actors, CountAttempt(a) PROVE OneRunner'
  BY <1>20 DEF CountAttempt, End, Go, taskVars, jobVars, historyVars
<1>21. ASSUME NEW a \in Actors, Correction(a) PROVE OneRunner'
  BY <1>21 DEF Correction, Recoverable, Go, taskVars, jobVars, historyVars
<1>22. ASSUME NEW a \in Actors, NEW t \in Tasks, ResetCorrected(a, t) PROVE OneRunner'
  BY <1>22 DEF ResetCorrected, Reset, Update, Go, jobVars, orchestratorVars
<1>23. ASSUME NEW a \in Actors, EndCorrection(a) PROVE OneRunner'
  BY <1>23 DEF EndCorrection, Go, taskVars, jobVars, orchestratorVars, historyVars
<1>24. ASSUME NEW a \in Actors, StepFails(a) PROVE OneRunner'
  <2>1. /\ apc[a] # "running" /\ apc'[a] # "running" /\ usurped' = usurped
        /\ \A b \in Actors \ {a} : apc'[b] = apc[b] /\ on'[b] = on[b]
    BY <1>24 DEF StepFails, Raise, Throw, End, Go
  <2>2. \A t \in Tasks : status[t] = "running" => status'[t] = "running"
    BY <1>24 DEF StepFails, Update, taskVars
  <2>3. \A b \in Actors : apc[b] = "running" => on[b] \in Tasks
    OBVIOUS
  <2> QED BY <2>1, <2>2, <2>3
<1>25. ASSUME NEW a \in Actors, Crash(a) PROVE OneRunner'
  BY <1>25 DEF Crash, End, Go, taskVars, jobVars, orchestratorVars
<1>26. CASE Supervise
  BY <1>26 DEF Supervise, taskVars, jobVars, actorVars, historyVars
<1>27. CASE UNCHANGED vars
  BY <1>27 DEF vars, taskVars, jobVars, orchestratorVars, actorVars, historyVars
<1>28. ASSUME NEW a \in Actors, Catch(a) PROVE OneRunner'
  BY <1>28 DEF Catch, Update, Go, jobVars, orchestratorVars
<1> QED
  BY <1>1, <1>2, <1>3, <1>4, <1>5, <1>6, <1>7, <1>8, <1>9, <1>10, <1>11, <1>12, <1>13, <1>14, <1>15, <1>16, <1>17, <1>18, <1>19, <1>20, <1>21, <1>22, <1>23, <1>24, <1>25, <1>26, <1>27, <1>28
  DEF Next, Step, Request, Fault

\* Two workers never run one task, whatever jobs are handed out again, until the catch of
\* a worker that had left it fails the row of the one that runs it now.
THEOREM RunnerTheorem == Spec => []OneRunner
<1>1. Init => OneRunner
  BY DEF Init, OneRunner
<1> QED BY <1>1, RunnerInductive, TypeCorrect, PTL DEF Spec

-----------------------------------------------------------------------------
(* Dependencies *)

\* A list of ready tasks does not go stale, because what is done stays done.
LEMMA ListInductive == TypeOK /\ ListIsReady /\ [Next]_vars => ListIsReady'
<1> SUFFICES ASSUME TypeOK, ListIsReady, [Next]_vars PROVE ListIsReady'
  OBVIOUS
<1>0. \A x \in Tasks : status[x] \in Done => status'[x] \in Done
  BY DoneStays
<1> USE RunbookAssumption DEF TypeOK, ActorsOK, ListIsReady
<1>1. ASSUME NEW a \in Actors, ListTasks(a) PROVE ListIsReady'
  BY <1>1, <1>0 DEF ListTasks, Go, Ready, taskVars, jobVars, orchestratorVars, historyVars
<1>2. ASSUME NEW a \in Actors, NEW t \in Tasks, DispatchTask(a, t) PROVE ListIsReady'
  BY <1>2, <1>0 DEF DispatchTask, Go, Update, jobVars, orchestratorVars, historyVars
<1>3. ASSUME NEW a \in Actors, EnqueueJob(a) PROVE ListIsReady'
  BY <1>3, <1>0 DEF EnqueueJob, Go, taskVars, orchestratorVars, historyVars
<1>4. ASSUME NEW a \in Actors, EnqueueFails(a) PROVE ListIsReady'
  BY <1>4, <1>0 DEF EnqueueFails, Raise, Update, Throw, End, Go, orchestratorVars
<1>5. ASSUME NEW a \in Actors, RefreshRead(a) PROVE ListIsReady'
  BY <1>5, <1>0 DEF RefreshRead, Go, taskVars, jobVars, orchestratorVars, historyVars
<1>6. ASSUME NEW a \in Actors, RefreshWrite(a) PROVE ListIsReady'
  BY <1>6, <1>0 DEF RefreshWrite, Raise, Throw, End, Go, jobVars, orchestratorVars, historyVars
<1>7. ASSUME NEW a \in Actors, Instantiate(a) PROVE ListIsReady'
  BY <1>7, <1>0 DEF Instantiate, Go, jobVars, orchestratorVars, historyVars
<1>8. ASSUME NEW a \in Actors, NEW t \in Tasks, ClaimJob(a, t) PROVE ListIsReady'
  BY <1>8, <1>0 DEF ClaimJob, Go, taskVars, orchestratorVars, historyVars
<1>9. ASSUME NEW a \in Actors, Begin(a) PROVE ListIsReady'
  BY <1>9, <1>0 DEF Begin, Update, Throw, End, Go, jobVars, orchestratorVars, historyVars
<1>10. ASSUME NEW a \in Actors, Finish(a) PROVE ListIsReady'
  BY <1>10, <1>0 DEF Finish, Go, jobVars, orchestratorVars, historyVars
<1>11. ASSUME NEW a \in Actors, Fail(a) PROVE ListIsReady'
  BY <1>11, <1>0 DEF Fail, Go, taskVars, jobVars, orchestratorVars, historyVars
<1>12. ASSUME NEW a \in Actors, DeadLetter(a) PROVE ListIsReady'
  BY <1>12, <1>0 DEF DeadLetter, Throw, End, Go, taskVars, orchestratorVars, historyVars
<1>13. ASSUME NEW a \in Actors, GoOnToDispatch(a) PROVE ListIsReady'
  BY <1>13, <1>0 DEF GoOnToDispatch, Go, taskVars, jobVars, orchestratorVars, historyVars
<1>14. ASSUME NEW a \in Actors, NEW t \in Tasks, Retry(a, t) PROVE ListIsReady'
  BY <1>14, <1>0 DEF Retry, Reset, Update, Go, jobVars, orchestratorVars
<1>15. ASSUME NEW a \in Actors, NEW t \in Tasks, Skip(a, t) PROVE ListIsReady'
  BY <1>15, <1>0 DEF Skip, Update, Go, jobVars, orchestratorVars, historyVars
<1>16. ASSUME NEW a \in Actors, NEW t \in Tasks, Complete(a, t) PROVE ListIsReady'
  BY <1>16, <1>0 DEF Complete, Update, Go, jobVars, orchestratorVars, historyVars
<1>17. ASSUME NEW a \in Actors, NEW t \in Tasks, Reconcile(a, t) PROVE ListIsReady'
  BY <1>17, <1>0 DEF Reconcile, Go, taskVars, historyVars
<1>18. ASSUME NEW a \in Actors, ReadFailed(a) PROVE ListIsReady'
  BY <1>18, <1>0 DEF ReadFailed, End, Go, taskVars, jobVars, orchestratorVars, historyVars
<1>19. ASSUME NEW a \in Actors, RetryFailed(a) PROVE ListIsReady'
  BY <1>19, <1>0 DEF RetryFailed, Reset, Update, Go, jobVars, orchestratorVars
<1>20. ASSUME NEW a \in Actors, CountAttempt(a) PROVE ListIsReady'
  BY <1>20, <1>0 DEF CountAttempt, End, Go, taskVars, jobVars, historyVars
<1>21. ASSUME NEW a \in Actors, Correction(a) PROVE ListIsReady'
  BY <1>21, <1>0 DEF Correction, Recoverable, Go, taskVars, jobVars, historyVars
<1>22. ASSUME NEW a \in Actors, NEW t \in Tasks, ResetCorrected(a, t) PROVE ListIsReady'
  BY <1>22, <1>0 DEF ResetCorrected, Reset, Update, Go, jobVars, orchestratorVars
<1>23. ASSUME NEW a \in Actors, EndCorrection(a) PROVE ListIsReady'
  BY <1>23, <1>0 DEF EndCorrection, Go, taskVars, jobVars, orchestratorVars, historyVars
<1>24. ASSUME NEW a \in Actors, StepFails(a) PROVE ListIsReady'
  BY <1>24, <1>0 DEF StepFails, Raise, Update, Throw, End, Go, taskVars, orchestratorVars
<1>25. ASSUME NEW a \in Actors, Crash(a) PROVE ListIsReady'
  BY <1>25, <1>0 DEF Crash, End, Go, taskVars, jobVars, orchestratorVars
<1>26. CASE Supervise
  BY <1>26, <1>0 DEF Supervise, taskVars, jobVars, actorVars, historyVars
<1>27. CASE UNCHANGED vars
  BY <1>27, <1>0 DEF vars, taskVars, jobVars, orchestratorVars, actorVars, historyVars
<1>28. ASSUME NEW a \in Actors, Catch(a) PROVE ListIsReady'
  BY <1>28, <1>0 DEF Catch, Update, Go, jobVars, orchestratorVars
<1> QED
  BY <1>1, <1>2, <1>3, <1>4, <1>5, <1>6, <1>7, <1>8, <1>9, <1>10, <1>11, <1>12, <1>13, <1>14, <1>15, <1>16, <1>17, <1>18, <1>19, <1>20, <1>21, <1>22, <1>23, <1>24, <1>25, <1>26, <1>27, <1>28
  DEF Next, Step, Request, Fault

\* What is run was not pending, so that all it depends on is done and stays so.
LEMMA RunsInductive == TypeOK /\ DependenciesFirst /\ RunsReady /\ [Next]_vars => RunsReady'
<1> SUFFICES ASSUME TypeOK, DependenciesFirst, RunsReady, [Next]_vars PROVE RunsReady'
  OBVIOUS
<1>0. \A x \in Tasks : status[x] \in Done => status'[x] \in Done
  BY DoneStays
<1> USE RunbookAssumption DEF TypeOK, ActorsOK, RunsReady
<1>1. ASSUME NEW a \in Actors, ListTasks(a) PROVE RunsReady'
  BY <1>1, <1>0 DEF ListTasks, Go, taskVars, jobVars, orchestratorVars, historyVars
<1>2. ASSUME NEW a \in Actors, NEW t \in Tasks, DispatchTask(a, t) PROVE RunsReady'
  BY <1>2, <1>0 DEF DispatchTask, Go, Update, jobVars, orchestratorVars, historyVars
<1>3. ASSUME NEW a \in Actors, EnqueueJob(a) PROVE RunsReady'
  BY <1>3, <1>0 DEF EnqueueJob, Go, taskVars, orchestratorVars, historyVars
<1>4. ASSUME NEW a \in Actors, EnqueueFails(a) PROVE RunsReady'
  BY <1>4, <1>0 DEF EnqueueFails, Raise, Update, Throw, End, Go, orchestratorVars
<1>5. ASSUME NEW a \in Actors, RefreshRead(a) PROVE RunsReady'
  BY <1>5, <1>0 DEF RefreshRead, Go, taskVars, jobVars, orchestratorVars, historyVars
<1>6. ASSUME NEW a \in Actors, RefreshWrite(a) PROVE RunsReady'
  BY <1>6, <1>0 DEF RefreshWrite, Raise, Throw, End, Go, jobVars, orchestratorVars, historyVars
<1>7. ASSUME NEW a \in Actors, Instantiate(a) PROVE RunsReady'
  BY <1>7, <1>0 DEF Instantiate, Go, jobVars, orchestratorVars, historyVars
<1>8. ASSUME NEW a \in Actors, NEW t \in Tasks, ClaimJob(a, t) PROVE RunsReady'
  BY <1>8, <1>0 DEF ClaimJob, Go, taskVars, orchestratorVars, historyVars
<1>9. ASSUME NEW a \in Actors, Begin(a) PROVE RunsReady'
  BY <1>9, <1>0 DEF Begin, DependenciesFirst, Update, Throw, End, Go, jobVars, orchestratorVars, historyVars
<1>10. ASSUME NEW a \in Actors, Finish(a) PROVE RunsReady'
  BY <1>10, <1>0 DEF Finish, Go, jobVars, orchestratorVars, historyVars
<1>11. ASSUME NEW a \in Actors, Fail(a) PROVE RunsReady'
  BY <1>11, <1>0 DEF Fail, Go, taskVars, jobVars, orchestratorVars, historyVars
<1>12. ASSUME NEW a \in Actors, DeadLetter(a) PROVE RunsReady'
  BY <1>12, <1>0 DEF DeadLetter, Throw, End, Go, taskVars, orchestratorVars, historyVars
<1>13. ASSUME NEW a \in Actors, GoOnToDispatch(a) PROVE RunsReady'
  BY <1>13, <1>0 DEF GoOnToDispatch, Go, taskVars, jobVars, orchestratorVars, historyVars
<1>14. ASSUME NEW a \in Actors, NEW t \in Tasks, Retry(a, t) PROVE RunsReady'
  BY <1>14, <1>0 DEF Retry, Reset, Update, Go, jobVars, orchestratorVars
<1>15. ASSUME NEW a \in Actors, NEW t \in Tasks, Skip(a, t) PROVE RunsReady'
  BY <1>15, <1>0 DEF Skip, Update, Go, jobVars, orchestratorVars, historyVars
<1>16. ASSUME NEW a \in Actors, NEW t \in Tasks, Complete(a, t) PROVE RunsReady'
  BY <1>16, <1>0 DEF Complete, Update, Go, jobVars, orchestratorVars, historyVars
<1>17. ASSUME NEW a \in Actors, NEW t \in Tasks, Reconcile(a, t) PROVE RunsReady'
  BY <1>17, <1>0 DEF Reconcile, Go, taskVars, historyVars
<1>18. ASSUME NEW a \in Actors, ReadFailed(a) PROVE RunsReady'
  BY <1>18, <1>0 DEF ReadFailed, End, Go, taskVars, jobVars, orchestratorVars, historyVars
<1>19. ASSUME NEW a \in Actors, RetryFailed(a) PROVE RunsReady'
  BY <1>19, <1>0 DEF RetryFailed, Reset, Update, Go, jobVars, orchestratorVars
<1>20. ASSUME NEW a \in Actors, CountAttempt(a) PROVE RunsReady'
  BY <1>20, <1>0 DEF CountAttempt, End, Go, taskVars, jobVars, historyVars
<1>21. ASSUME NEW a \in Actors, Correction(a) PROVE RunsReady'
  BY <1>21, <1>0 DEF Correction, Recoverable, Go, taskVars, jobVars, historyVars
<1>22. ASSUME NEW a \in Actors, NEW t \in Tasks, ResetCorrected(a, t) PROVE RunsReady'
  BY <1>22, <1>0 DEF ResetCorrected, Reset, Update, Go, jobVars, orchestratorVars
<1>23. ASSUME NEW a \in Actors, EndCorrection(a) PROVE RunsReady'
  BY <1>23, <1>0 DEF EndCorrection, Go, taskVars, jobVars, orchestratorVars, historyVars
<1>24. ASSUME NEW a \in Actors, StepFails(a) PROVE RunsReady'
  BY <1>24, <1>0 DEF StepFails, Raise, Update, Throw, End, Go, taskVars, orchestratorVars
<1>25. ASSUME NEW a \in Actors, Crash(a) PROVE RunsReady'
  BY <1>25, <1>0 DEF Crash, End, Go, taskVars, jobVars, orchestratorVars
<1>26. CASE Supervise
  BY <1>26, <1>0 DEF Supervise, taskVars, jobVars, actorVars, historyVars
<1>27. CASE UNCHANGED vars
  BY <1>27, <1>0 DEF vars, taskVars, jobVars, orchestratorVars, actorVars, historyVars
<1>28. ASSUME NEW a \in Actors, Catch(a) PROVE RunsReady'
  BY <1>28, <1>0 DEF Catch, Update, Go, jobVars, orchestratorVars
<1> QED
  BY <1>1, <1>2, <1>3, <1>4, <1>5, <1>6, <1>7, <1>8, <1>9, <1>10, <1>11, <1>12, <1>13, <1>14, <1>15, <1>16, <1>17, <1>18, <1>19, <1>20, <1>21, <1>22, <1>23, <1>24, <1>25, <1>26, <1>27, <1>28
  DEF Next, Step, Request, Fault

\* A task leaves pending only by a dispatch from such a list.
LEMMA DependenciesInductive ==
    TypeOK /\ ListIsReady /\ RunsReady /\ DependenciesFirst /\ [Next]_vars => DependenciesFirst'
<1> SUFFICES ASSUME TypeOK, ListIsReady, RunsReady, DependenciesFirst, [Next]_vars
             PROVE  DependenciesFirst'
  OBVIOUS
<1>0. \A x \in Tasks : status[x] \in Done => status'[x] \in Done
  BY DoneStays
<1>a. SUFFICES \A x \in Tasks : status'[x] # "pending" =>
                    status[x] # "pending" \/ \A d \in Deps[x] : status[d] \in Done
  BY <1>0, RunbookAssumption DEF DependenciesFirst
<1> USE RunbookAssumption DEF TypeOK, ActorsOK, Stopped
<1>1. ASSUME NEW a \in Actors, ListTasks(a) PROVE \A x \in Tasks : status'[x] # "pending" =>
                    status[x] # "pending" \/ \A d \in Deps[x] : status[d] \in Done
  BY <1>1 DEF ListTasks, Go, taskVars, jobVars, orchestratorVars, historyVars
<1>2. ASSUME NEW a \in Actors, NEW t \in Tasks, DispatchTask(a, t) PROVE \A x \in Tasks : status'[x] # "pending" =>
                    status[x] # "pending" \/ \A d \in Deps[x] : status[d] \in Done
  BY <1>2 DEF DispatchTask, Go, Update, ListIsReady
<1>3. ASSUME NEW a \in Actors, EnqueueJob(a) PROVE \A x \in Tasks : status'[x] # "pending" =>
                    status[x] # "pending" \/ \A d \in Deps[x] : status[d] \in Done
  BY <1>3 DEF EnqueueJob, Go, taskVars, orchestratorVars, historyVars
<1>4. ASSUME NEW a \in Actors, EnqueueFails(a) PROVE \A x \in Tasks : status'[x] # "pending" =>
                    status[x] # "pending" \/ \A d \in Deps[x] : status[d] \in Done
  BY <1>4 DEF EnqueueFails, Raise, Update, Throw, End, Go, orchestratorVars
<1>5. ASSUME NEW a \in Actors, RefreshRead(a) PROVE \A x \in Tasks : status'[x] # "pending" =>
                    status[x] # "pending" \/ \A d \in Deps[x] : status[d] \in Done
  BY <1>5 DEF RefreshRead, Go, taskVars, jobVars, orchestratorVars, historyVars
<1>6. ASSUME NEW a \in Actors, RefreshWrite(a) PROVE \A x \in Tasks : status'[x] # "pending" =>
                    status[x] # "pending" \/ \A d \in Deps[x] : status[d] \in Done
  BY <1>6 DEF RefreshWrite, Raise, Throw, End, Go, jobVars, orchestratorVars, historyVars
<1>7. ASSUME NEW a \in Actors, Instantiate(a) PROVE \A x \in Tasks : status'[x] # "pending" =>
                    status[x] # "pending" \/ \A d \in Deps[x] : status[d] \in Done
  BY <1>7 DEF Instantiate, Go, jobVars, orchestratorVars, historyVars
<1>8. ASSUME NEW a \in Actors, NEW t \in Tasks, ClaimJob(a, t) PROVE \A x \in Tasks : status'[x] # "pending" =>
                    status[x] # "pending" \/ \A d \in Deps[x] : status[d] \in Done
  BY <1>8 DEF ClaimJob, Go, taskVars, orchestratorVars, historyVars
<1>9. ASSUME NEW a \in Actors, Begin(a) PROVE \A x \in Tasks : status'[x] # "pending" =>
                    status[x] # "pending" \/ \A d \in Deps[x] : status[d] \in Done
  BY <1>9 DEF Begin, Update, Throw, End, Go, jobVars, orchestratorVars, historyVars
<1>10. ASSUME NEW a \in Actors, Finish(a) PROVE \A x \in Tasks : status'[x] # "pending" =>
                    status[x] # "pending" \/ \A d \in Deps[x] : status[d] \in Done
  BY <1>10 DEF Finish, Go, RunsReady
<1>11. ASSUME NEW a \in Actors, Fail(a) PROVE \A x \in Tasks : status'[x] # "pending" =>
                    status[x] # "pending" \/ \A d \in Deps[x] : status[d] \in Done
  BY <1>11 DEF Fail, Go, taskVars, jobVars, orchestratorVars, historyVars
<1>12. ASSUME NEW a \in Actors, DeadLetter(a) PROVE \A x \in Tasks : status'[x] # "pending" =>
                    status[x] # "pending" \/ \A d \in Deps[x] : status[d] \in Done
  BY <1>12 DEF DeadLetter, Throw, End, Go, taskVars, orchestratorVars, historyVars
<1>13. ASSUME NEW a \in Actors, GoOnToDispatch(a) PROVE \A x \in Tasks : status'[x] # "pending" =>
                    status[x] # "pending" \/ \A d \in Deps[x] : status[d] \in Done
  BY <1>13 DEF GoOnToDispatch, Go, taskVars, jobVars, orchestratorVars, historyVars
<1>14. ASSUME NEW a \in Actors, NEW t \in Tasks, Retry(a, t) PROVE \A x \in Tasks : status'[x] # "pending" =>
                    status[x] # "pending" \/ \A d \in Deps[x] : status[d] \in Done
  BY <1>14 DEF Retry, Reset, Update, Go, jobVars, orchestratorVars
<1>15. ASSUME NEW a \in Actors, NEW t \in Tasks, Skip(a, t) PROVE \A x \in Tasks : status'[x] # "pending" =>
                    status[x] # "pending" \/ \A d \in Deps[x] : status[d] \in Done
  BY <1>15 DEF Skip, Update, Go, jobVars, orchestratorVars, historyVars
<1>16. ASSUME NEW a \in Actors, NEW t \in Tasks, Complete(a, t) PROVE \A x \in Tasks : status'[x] # "pending" =>
                    status[x] # "pending" \/ \A d \in Deps[x] : status[d] \in Done
  BY <1>16 DEF Complete, Update, Go, jobVars, orchestratorVars, historyVars
<1>17. ASSUME NEW a \in Actors, NEW t \in Tasks, Reconcile(a, t) PROVE \A x \in Tasks : status'[x] # "pending" =>
                    status[x] # "pending" \/ \A d \in Deps[x] : status[d] \in Done
  BY <1>17 DEF Reconcile, Go, taskVars, historyVars
<1>18. ASSUME NEW a \in Actors, ReadFailed(a) PROVE \A x \in Tasks : status'[x] # "pending" =>
                    status[x] # "pending" \/ \A d \in Deps[x] : status[d] \in Done
  BY <1>18 DEF ReadFailed, End, Go, taskVars, jobVars, orchestratorVars, historyVars
<1>19. ASSUME NEW a \in Actors, RetryFailed(a) PROVE \A x \in Tasks : status'[x] # "pending" =>
                    status[x] # "pending" \/ \A d \in Deps[x] : status[d] \in Done
  BY <1>19 DEF RetryFailed, Reset, Update, Go, jobVars, orchestratorVars
<1>20. ASSUME NEW a \in Actors, CountAttempt(a) PROVE \A x \in Tasks : status'[x] # "pending" =>
                    status[x] # "pending" \/ \A d \in Deps[x] : status[d] \in Done
  BY <1>20 DEF CountAttempt, End, Go, taskVars, jobVars, historyVars
<1>21. ASSUME NEW a \in Actors, Correction(a) PROVE \A x \in Tasks : status'[x] # "pending" =>
                    status[x] # "pending" \/ \A d \in Deps[x] : status[d] \in Done
  BY <1>21 DEF Correction, Recoverable, Go, taskVars, jobVars, historyVars
<1>22. ASSUME NEW a \in Actors, NEW t \in Tasks, ResetCorrected(a, t) PROVE \A x \in Tasks : status'[x] # "pending" =>
                    status[x] # "pending" \/ \A d \in Deps[x] : status[d] \in Done
  BY <1>22 DEF ResetCorrected, Reset, Update, Go, jobVars, orchestratorVars
<1>23. ASSUME NEW a \in Actors, EndCorrection(a) PROVE \A x \in Tasks : status'[x] # "pending" =>
                    status[x] # "pending" \/ \A d \in Deps[x] : status[d] \in Done
  BY <1>23 DEF EndCorrection, Go, taskVars, jobVars, orchestratorVars, historyVars
<1>24. ASSUME NEW a \in Actors, StepFails(a) PROVE \A x \in Tasks : status'[x] # "pending" =>
                    status[x] # "pending" \/ \A d \in Deps[x] : status[d] \in Done
  BY <1>24 DEF StepFails, Raise, Update, Throw, End, Go, taskVars, orchestratorVars
<1>25. ASSUME NEW a \in Actors, Crash(a) PROVE \A x \in Tasks : status'[x] # "pending" =>
                    status[x] # "pending" \/ \A d \in Deps[x] : status[d] \in Done
  BY <1>25 DEF Crash, End, Go, taskVars, jobVars, orchestratorVars
<1>26. CASE Supervise
  BY <1>26 DEF Supervise, taskVars, jobVars, actorVars, historyVars
<1>27. CASE UNCHANGED vars
  BY <1>27 DEF vars, taskVars, jobVars, orchestratorVars, actorVars, historyVars
<1>28. ASSUME NEW a \in Actors, Catch(a) PROVE \A x \in Tasks : status'[x] # "pending" =>
                    status[x] # "pending" \/ \A d \in Deps[x] : status[d] \in Done
  BY <1>28 DEF Catch, Update, Go, jobVars, orchestratorVars
<1> QED
  BY <1>1, <1>2, <1>3, <1>4, <1>5, <1>6, <1>7, <1>8, <1>9, <1>10, <1>11, <1>12, <1>13, <1>14, <1>15, <1>16, <1>17, <1>18, <1>19, <1>20, <1>21, <1>22, <1>23, <1>24, <1>25, <1>26, <1>27, <1>28
  DEF Next, Step, Request, Fault

\* Lists, runs and statuses are ready together, in every reachable state.
LEMMA ReadyHolds == Spec => [](ListIsReady /\ RunsReady /\ DependenciesFirst)
<1>1. Init => ListIsReady /\ RunsReady /\ DependenciesFirst
  BY DEF Init, ListIsReady, RunsReady, DependenciesFirst
<1> QED BY <1>1, ListInductive, RunsInductive, DependenciesInductive, TypeCorrect, PTL DEF Spec

\* No task is queued, run, reviewed or closed before all it depends on is done.
THEOREM DependenciesTheorem == Spec => []DependenciesFirst
<1> QED BY ReadyHolds, PTL

-----------------------------------------------------------------------------
(* Completion *)

\* Without an execution there is no task to run, to review or to report.
LEMMA NothingInductive == TypeOK /\ NothingBefore /\ [Next]_vars => NothingBefore'
<1> SUFFICES ASSUME TypeOK, NothingBefore, [Next]_vars PROVE NothingBefore'
  OBVIOUS
<1> USE RunbookAssumption DEF TypeOK, ActorsOK, Done, Stopped, NothingBefore
<1>1. ASSUME NEW a \in Actors, ListTasks(a) PROVE NothingBefore'
  BY <1>1 DEF ListTasks, Go, taskVars, jobVars, orchestratorVars, historyVars
<1>2. ASSUME NEW a \in Actors, NEW t \in Tasks, DispatchTask(a, t) PROVE NothingBefore'
  BY <1>2 DEF DispatchTask, Go, Update, jobVars, orchestratorVars, historyVars
<1>3. ASSUME NEW a \in Actors, EnqueueJob(a) PROVE NothingBefore'
  BY <1>3 DEF EnqueueJob, Go, taskVars, orchestratorVars, historyVars
<1>4. ASSUME NEW a \in Actors, EnqueueFails(a) PROVE NothingBefore'
  BY <1>4 DEF EnqueueFails, Raise, Update, Throw, End, Go, orchestratorVars
<1>5. ASSUME NEW a \in Actors, RefreshRead(a) PROVE NothingBefore'
  BY <1>5 DEF RefreshRead, Go, taskVars, jobVars, orchestratorVars, historyVars
<1>6. ASSUME NEW a \in Actors, RefreshWrite(a) PROVE NothingBefore'
  BY <1>6 DEF RefreshWrite, Raise, Throw, End, Go, jobVars, orchestratorVars, historyVars
<1>7. ASSUME NEW a \in Actors, Instantiate(a) PROVE NothingBefore'
  BY <1>7 DEF Instantiate, Go, jobVars, orchestratorVars, historyVars
<1>8. ASSUME NEW a \in Actors, NEW t \in Tasks, ClaimJob(a, t) PROVE NothingBefore'
  BY <1>8 DEF ClaimJob, Go, taskVars, orchestratorVars, historyVars
<1>9. ASSUME NEW a \in Actors, Begin(a) PROVE NothingBefore'
  BY <1>9 DEF Begin, Update, Throw, End, Go, jobVars, orchestratorVars, historyVars
<1>10. ASSUME NEW a \in Actors, Finish(a) PROVE NothingBefore'
  BY <1>10 DEF Finish, Go, jobVars, orchestratorVars, historyVars
<1>11. ASSUME NEW a \in Actors, Fail(a) PROVE NothingBefore'
  BY <1>11 DEF Fail, Go, taskVars, jobVars, orchestratorVars, historyVars
<1>12. ASSUME NEW a \in Actors, DeadLetter(a) PROVE NothingBefore'
  BY <1>12 DEF DeadLetter, Throw, End, Go, taskVars, orchestratorVars, historyVars
<1>13. ASSUME NEW a \in Actors, GoOnToDispatch(a) PROVE NothingBefore'
  BY <1>13 DEF GoOnToDispatch, Go, taskVars, jobVars, orchestratorVars, historyVars
<1>14. ASSUME NEW a \in Actors, NEW t \in Tasks, Retry(a, t) PROVE NothingBefore'
  BY <1>14 DEF Retry, Reset, Update, Go, jobVars, orchestratorVars
<1>15. ASSUME NEW a \in Actors, NEW t \in Tasks, Skip(a, t) PROVE NothingBefore'
  BY <1>15 DEF Skip, Update, Go, jobVars, orchestratorVars, historyVars
<1>16. ASSUME NEW a \in Actors, NEW t \in Tasks, Complete(a, t) PROVE NothingBefore'
  BY <1>16 DEF Complete, Update, Go, jobVars, orchestratorVars, historyVars
<1>17. ASSUME NEW a \in Actors, NEW t \in Tasks, Reconcile(a, t) PROVE NothingBefore'
  BY <1>17 DEF Reconcile, Go, taskVars, historyVars
<1>18. ASSUME NEW a \in Actors, ReadFailed(a) PROVE NothingBefore'
  BY <1>18 DEF ReadFailed, End, Go, taskVars, jobVars, orchestratorVars, historyVars
<1>19. ASSUME NEW a \in Actors, RetryFailed(a) PROVE NothingBefore'
  BY <1>19 DEF RetryFailed, Reset, Update, Go, jobVars, orchestratorVars
<1>20. ASSUME NEW a \in Actors, CountAttempt(a) PROVE NothingBefore'
  BY <1>20 DEF CountAttempt, End, Go, taskVars, jobVars, historyVars
<1>21. ASSUME NEW a \in Actors, Correction(a) PROVE NothingBefore'
  BY <1>21 DEF Correction, Recoverable, Go, taskVars, jobVars, historyVars
<1>22. ASSUME NEW a \in Actors, NEW t \in Tasks, ResetCorrected(a, t) PROVE NothingBefore'
  BY <1>22 DEF ResetCorrected, Reset, Update, Go, jobVars, orchestratorVars
<1>23. ASSUME NEW a \in Actors, EndCorrection(a) PROVE NothingBefore'
  BY <1>23 DEF EndCorrection, Go, taskVars, jobVars, orchestratorVars, historyVars
<1>24. ASSUME NEW a \in Actors, StepFails(a) PROVE NothingBefore'
  BY <1>24 DEF StepFails, Raise, Update, Throw, End, Go, taskVars, orchestratorVars
<1>25. ASSUME NEW a \in Actors, Crash(a) PROVE NothingBefore'
  BY <1>25 DEF Crash, End, Go, taskVars, jobVars, orchestratorVars
<1>26. CASE Supervise
  BY <1>26 DEF Supervise, taskVars, jobVars, actorVars, historyVars
<1>27. CASE UNCHANGED vars
  BY <1>27 DEF vars, taskVars, jobVars, orchestratorVars, actorVars, historyVars
<1>28. ASSUME NEW a \in Actors, Catch(a) PROVE NothingBefore'
  BY <1>28 DEF Catch, Update, Go, jobVars, orchestratorVars
<1> QED
  BY <1>1, <1>2, <1>3, <1>4, <1>5, <1>6, <1>7, <1>8, <1>9, <1>10, <1>11, <1>12, <1>13, <1>14, <1>15, <1>16, <1>17, <1>18, <1>19, <1>20, <1>21, <1>22, <1>23, <1>24, <1>25, <1>26, <1>27, <1>28
  DEF Next, Step, Request, Fault

\* So it is in every reachable state.
LEMMA NothingHolds == Spec => []NothingBefore
<1>1. Init => NothingBefore
  BY DEF Init, NothingBefore
<1> QED BY <1>1, NothingInductive, TypeCorrect, PTL DEF Spec

\* A verdict of completion stays right, because what is done stays done.
LEMMA VerdictInductive == TypeOK /\ VerdictIsCurrent /\ [Next]_vars => VerdictIsCurrent'
<1> SUFFICES ASSUME TypeOK, VerdictIsCurrent, [Next]_vars PROVE VerdictIsCurrent'
  OBVIOUS
<1>0. \A x \in Tasks : status[x] \in Done => status'[x] \in Done
  BY DoneStays
<1> USE RunbookAssumption DEF TypeOK, ActorsOK, VerdictIsCurrent
<1>1. ASSUME NEW a \in Actors, ListTasks(a) PROVE VerdictIsCurrent'
  BY <1>1, <1>0 DEF ListTasks, Go, taskVars, jobVars, orchestratorVars, historyVars
<1>2. ASSUME NEW a \in Actors, NEW t \in Tasks, DispatchTask(a, t) PROVE VerdictIsCurrent'
  BY <1>2, <1>0 DEF DispatchTask, Go, Update, jobVars, orchestratorVars, historyVars
<1>3. ASSUME NEW a \in Actors, EnqueueJob(a) PROVE VerdictIsCurrent'
  BY <1>3, <1>0 DEF EnqueueJob, Go, taskVars, orchestratorVars, historyVars
<1>4. ASSUME NEW a \in Actors, EnqueueFails(a) PROVE VerdictIsCurrent'
  BY <1>4, <1>0 DEF EnqueueFails, Raise, Update, Throw, End, Go, orchestratorVars
<1>5. ASSUME NEW a \in Actors, RefreshRead(a) PROVE VerdictIsCurrent'
  BY <1>5, <1>0, ExecutionStatusCompleted DEF RefreshRead, Go, taskVars
<1>6. ASSUME NEW a \in Actors, RefreshWrite(a) PROVE VerdictIsCurrent'
  BY <1>6, <1>0 DEF RefreshWrite, Raise, Throw, End, Go, jobVars, orchestratorVars, historyVars
<1>7. ASSUME NEW a \in Actors, Instantiate(a) PROVE VerdictIsCurrent'
  BY <1>7, <1>0 DEF Instantiate, Go, jobVars, orchestratorVars, historyVars
<1>8. ASSUME NEW a \in Actors, NEW t \in Tasks, ClaimJob(a, t) PROVE VerdictIsCurrent'
  BY <1>8, <1>0 DEF ClaimJob, Go, taskVars, orchestratorVars, historyVars
<1>9. ASSUME NEW a \in Actors, Begin(a) PROVE VerdictIsCurrent'
  BY <1>9, <1>0 DEF Begin, Update, Throw, End, Go, jobVars, orchestratorVars, historyVars
<1>10. ASSUME NEW a \in Actors, Finish(a) PROVE VerdictIsCurrent'
  BY <1>10, <1>0 DEF Finish, Go, jobVars, orchestratorVars, historyVars
<1>11. ASSUME NEW a \in Actors, Fail(a) PROVE VerdictIsCurrent'
  BY <1>11, <1>0 DEF Fail, Go, taskVars, jobVars, orchestratorVars, historyVars
<1>12. ASSUME NEW a \in Actors, DeadLetter(a) PROVE VerdictIsCurrent'
  BY <1>12, <1>0 DEF DeadLetter, Throw, End, Go, taskVars, orchestratorVars, historyVars
<1>13. ASSUME NEW a \in Actors, GoOnToDispatch(a) PROVE VerdictIsCurrent'
  BY <1>13, <1>0 DEF GoOnToDispatch, Go, taskVars, jobVars, orchestratorVars, historyVars
<1>14. ASSUME NEW a \in Actors, NEW t \in Tasks, Retry(a, t) PROVE VerdictIsCurrent'
  BY <1>14, <1>0 DEF Retry, Reset, Update, Go, jobVars, orchestratorVars
<1>15. ASSUME NEW a \in Actors, NEW t \in Tasks, Skip(a, t) PROVE VerdictIsCurrent'
  BY <1>15, <1>0 DEF Skip, Update, Go, jobVars, orchestratorVars, historyVars
<1>16. ASSUME NEW a \in Actors, NEW t \in Tasks, Complete(a, t) PROVE VerdictIsCurrent'
  BY <1>16, <1>0 DEF Complete, Update, Go, jobVars, orchestratorVars, historyVars
<1>17. ASSUME NEW a \in Actors, NEW t \in Tasks, Reconcile(a, t) PROVE VerdictIsCurrent'
  BY <1>17, <1>0 DEF Reconcile, Go, taskVars, historyVars
<1>18. ASSUME NEW a \in Actors, ReadFailed(a) PROVE VerdictIsCurrent'
  BY <1>18, <1>0 DEF ReadFailed, End, Go, taskVars, jobVars, orchestratorVars, historyVars
<1>19. ASSUME NEW a \in Actors, RetryFailed(a) PROVE VerdictIsCurrent'
  BY <1>19, <1>0 DEF RetryFailed, Reset, Update, Go, jobVars, orchestratorVars
<1>20. ASSUME NEW a \in Actors, CountAttempt(a) PROVE VerdictIsCurrent'
  BY <1>20, <1>0 DEF CountAttempt, End, Go, taskVars, jobVars, historyVars
<1>21. ASSUME NEW a \in Actors, Correction(a) PROVE VerdictIsCurrent'
  BY <1>21, <1>0 DEF Correction, Recoverable, Go, taskVars, jobVars, historyVars
<1>22. ASSUME NEW a \in Actors, NEW t \in Tasks, ResetCorrected(a, t) PROVE VerdictIsCurrent'
  BY <1>22, <1>0 DEF ResetCorrected, Reset, Update, Go, jobVars, orchestratorVars
<1>23. ASSUME NEW a \in Actors, EndCorrection(a) PROVE VerdictIsCurrent'
  BY <1>23, <1>0 DEF EndCorrection, Go, taskVars, jobVars, orchestratorVars, historyVars
<1>24. ASSUME NEW a \in Actors, StepFails(a) PROVE VerdictIsCurrent'
  BY <1>24, <1>0 DEF StepFails, Raise, Update, Throw, End, Go, taskVars, orchestratorVars
<1>25. ASSUME NEW a \in Actors, Crash(a) PROVE VerdictIsCurrent'
  BY <1>25, <1>0 DEF Crash, End, Go, taskVars, jobVars, orchestratorVars
<1>26. CASE Supervise
  BY <1>26, <1>0 DEF Supervise, taskVars, jobVars, actorVars, historyVars
<1>27. CASE UNCHANGED vars
  BY <1>27, <1>0 DEF vars, taskVars, jobVars, orchestratorVars, actorVars, historyVars
<1>28. ASSUME NEW a \in Actors, Catch(a) PROVE VerdictIsCurrent'
  BY <1>28, <1>0 DEF Catch, Update, Go, jobVars, orchestratorVars
<1> QED
  BY <1>1, <1>2, <1>3, <1>4, <1>5, <1>6, <1>7, <1>8, <1>9, <1>10, <1>11, <1>12, <1>13, <1>14, <1>15, <1>16, <1>17, <1>18, <1>19, <1>20, <1>21, <1>22, <1>23, <1>24, <1>25, <1>26, <1>27, <1>28
  DEF Next, Step, Request, Fault

\* The last task to be done is followed by a refresh that sees them all, and the trigger
\* keeps what that refresh writes.
LEMMA CompletionInductive ==
    TypeOK /\ NothingBefore /\ VerdictIsCurrent /\ CompletionIsRecorded /\ [Next]_vars
        => CompletionIsRecorded'
<1> SUFFICES ASSUME TypeOK, NothingBefore, VerdictIsCurrent, CompletionIsRecorded, [Next]_vars
             PROVE  CompletionIsRecorded'
  OBVIOUS
<1>0. \A x \in Tasks : status[x] \in Done => status'[x] \in Done
  BY DoneStays
<1> USE RunbookAssumption DEF TypeOK, ActorsOK, Done, Stopped, CompletionIsRecorded
<1>1. ASSUME NEW a \in Actors, ListTasks(a) PROVE CompletionIsRecorded'
  BY <1>1, <1>0 DEF ListTasks, Go, taskVars, jobVars, orchestratorVars, historyVars
<1>2. ASSUME NEW a \in Actors, NEW t \in Tasks, DispatchTask(a, t) PROVE CompletionIsRecorded'
  BY <1>2, <1>0 DEF DispatchTask, Go, Update, jobVars, orchestratorVars, historyVars
<1>3. ASSUME NEW a \in Actors, EnqueueJob(a) PROVE CompletionIsRecorded'
  BY <1>3, <1>0 DEF EnqueueJob, Go, taskVars, orchestratorVars, historyVars
<1>4. ASSUME NEW a \in Actors, EnqueueFails(a) PROVE CompletionIsRecorded'
  BY <1>4, <1>0 DEF EnqueueFails, Raise, Update, Throw, End, Go, orchestratorVars
<1>5. ASSUME NEW a \in Actors, RefreshRead(a) PROVE CompletionIsRecorded'
  BY <1>5, <1>0, ExecutionStatusCompleted DEF RefreshRead, Go, taskVars, jobVars, orchestratorVars, historyVars
<1>6. ASSUME NEW a \in Actors, RefreshWrite(a) PROVE CompletionIsRecorded'
  <2>1. CASE execution = "completed" /\ verdict[a] # "completed"
    BY <1>6, <1>0, <2>1 DEF RefreshWrite, Raise, Throw, End, Go, historyVars
  <2>2. CASE ~(execution = "completed" /\ verdict[a] # "completed")
    <3>1. execution' = verdict[a] /\ status' = status /\ faults' = faults
          /\ \A b \in Actors \ {a} : apc'[b] = apc[b] /\ verdict'[b] = verdict[b]
      BY <1>6, <2>2 DEF RefreshWrite, End, Go, historyVars
    <3>2. verdict[a] = "completed" => CompletionIsRecorded'
      BY <1>6, <3>1 DEF RefreshWrite, VerdictIsCurrent
    <3>3. verdict[a] # "completed" => CompletionIsRecorded'
      BY <1>6, <2>2, <3>1 DEF RefreshWrite, NothingBefore
    <3> QED BY <3>2, <3>3
  <2> QED BY <2>1, <2>2
<1>7. ASSUME NEW a \in Actors, Instantiate(a) PROVE CompletionIsRecorded'
  BY <1>7, <1>0 DEF Instantiate, Go, jobVars, orchestratorVars, historyVars
<1>8. ASSUME NEW a \in Actors, NEW t \in Tasks, ClaimJob(a, t) PROVE CompletionIsRecorded'
  BY <1>8, <1>0 DEF ClaimJob, Go, taskVars, orchestratorVars, historyVars
<1>9. ASSUME NEW a \in Actors, Begin(a) PROVE CompletionIsRecorded'
  BY <1>9, <1>0 DEF Begin, Update, Throw, End, Go, jobVars, orchestratorVars, historyVars
<1>10. ASSUME NEW a \in Actors, Finish(a) PROVE CompletionIsRecorded'
  BY <1>10, <1>0 DEF Finish, Go, jobVars, orchestratorVars, historyVars
<1>11. ASSUME NEW a \in Actors, Fail(a) PROVE CompletionIsRecorded'
  BY <1>11, <1>0 DEF Fail, Go, taskVars, jobVars, orchestratorVars, historyVars
<1>12. ASSUME NEW a \in Actors, DeadLetter(a) PROVE CompletionIsRecorded'
  BY <1>12, <1>0 DEF DeadLetter, Throw, End, Go, taskVars, orchestratorVars, historyVars
<1>13. ASSUME NEW a \in Actors, GoOnToDispatch(a) PROVE CompletionIsRecorded'
  BY <1>13, <1>0 DEF GoOnToDispatch, Go, taskVars, jobVars, orchestratorVars, historyVars
<1>14. ASSUME NEW a \in Actors, NEW t \in Tasks, Retry(a, t) PROVE CompletionIsRecorded'
  BY <1>14, <1>0 DEF Retry, Reset, Update, Go, jobVars, orchestratorVars
<1>15. ASSUME NEW a \in Actors, NEW t \in Tasks, Skip(a, t) PROVE CompletionIsRecorded'
  BY <1>15, <1>0 DEF Skip, Update, Go, jobVars, orchestratorVars, historyVars
<1>16. ASSUME NEW a \in Actors, NEW t \in Tasks, Complete(a, t) PROVE CompletionIsRecorded'
  BY <1>16, <1>0 DEF Complete, Update, Go, jobVars, orchestratorVars, historyVars
<1>17. ASSUME NEW a \in Actors, NEW t \in Tasks, Reconcile(a, t) PROVE CompletionIsRecorded'
  BY <1>17, <1>0 DEF Reconcile, Go, taskVars, historyVars
<1>18. ASSUME NEW a \in Actors, ReadFailed(a) PROVE CompletionIsRecorded'
  BY <1>18, <1>0 DEF ReadFailed, End, Go, taskVars, jobVars, orchestratorVars, historyVars
<1>19. ASSUME NEW a \in Actors, RetryFailed(a) PROVE CompletionIsRecorded'
  BY <1>19, <1>0 DEF RetryFailed, Reset, Update, Go, jobVars, orchestratorVars
<1>20. ASSUME NEW a \in Actors, CountAttempt(a) PROVE CompletionIsRecorded'
  BY <1>20, <1>0 DEF CountAttempt, End, Go, taskVars, jobVars, historyVars
<1>21. ASSUME NEW a \in Actors, Correction(a) PROVE CompletionIsRecorded'
  BY <1>21, <1>0 DEF Correction, Recoverable, Go, taskVars, jobVars, historyVars
<1>22. ASSUME NEW a \in Actors, NEW t \in Tasks, ResetCorrected(a, t) PROVE CompletionIsRecorded'
  BY <1>22, <1>0 DEF ResetCorrected, Reset, Update, Go, jobVars, orchestratorVars
<1>23. ASSUME NEW a \in Actors, EndCorrection(a) PROVE CompletionIsRecorded'
  BY <1>23, <1>0 DEF EndCorrection, Go, taskVars, jobVars, orchestratorVars, historyVars
<1>24. ASSUME NEW a \in Actors, StepFails(a) PROVE CompletionIsRecorded'
  <2>1. faults' # 0
    BY <1>24 DEF StepFails
  <2>2. execution' = "completed" => \/ execution = "completed"
                                    \/ apc[a] = "refresh" /\ verdict[a] = "completed"
    BY <1>24 DEF StepFails, taskVars
  <2> QED BY <1>0, <2>1, <2>2 DEF VerdictIsCurrent
<1>25. ASSUME NEW a \in Actors, Crash(a) PROVE CompletionIsRecorded'
  BY <1>25, <1>0 DEF Crash, End, Go, taskVars, jobVars, orchestratorVars
<1>26. CASE Supervise
  BY <1>26, <1>0 DEF Supervise, taskVars, jobVars, actorVars, historyVars
<1>27. CASE UNCHANGED vars
  BY <1>27, <1>0 DEF vars, taskVars, jobVars, orchestratorVars, actorVars, historyVars
<1>28. ASSUME NEW a \in Actors, Catch(a) PROVE CompletionIsRecorded'
  BY <1>28, <1>0 DEF Catch, Update, Go, jobVars, orchestratorVars
<1> QED
  BY <1>1, <1>2, <1>3, <1>4, <1>5, <1>6, <1>7, <1>8, <1>9, <1>10, <1>11, <1>12, <1>13, <1>14, <1>15, <1>16, <1>17, <1>18, <1>19, <1>20, <1>21, <1>22, <1>23, <1>24, <1>25, <1>26, <1>27, <1>28
  DEF Next, Step, Request, Fault

\* The execution is completed only with its tasks, and their completion is not lost.
THEOREM CompletionTheorem == Spec => []CompletionIsRecorded
<1>1. Init => VerdictIsCurrent /\ CompletionIsRecorded
  BY RunbookAssumption DEF Init, VerdictIsCurrent, CompletionIsRecorded
<1> QED BY <1>1, VerdictInductive, CompletionInductive, NothingHolds, TypeCorrect, PTL DEF Spec

-----------------------------------------------------------------------------
(* Wake-ups *)

\* Whoever makes a task ready lists the tasks afterwards.
LEMMA AttendedInductive ==
    TypeOK /\ NothingBefore /\ ReadyIsAttended /\ [Next]_vars => ReadyIsAttended'
<1> SUFFICES ASSUME TypeOK, NothingBefore, ReadyIsAttended, [Next]_vars PROVE ReadyIsAttended'
  OBVIOUS
<1> USE RunbookAssumption DEF TypeOK, ActorsOK, Done, Stopped, ReadyIsAttended, Ready
<1>1. ASSUME NEW a \in Actors, ListTasks(a) PROVE ReadyIsAttended'
  BY <1>1 DEF ListTasks, Go, taskVars, jobVars, orchestratorVars, historyVars
<1>2. ASSUME NEW a \in Actors, NEW t \in Tasks, DispatchTask(a, t) PROVE ReadyIsAttended'
  BY <1>2 DEF DispatchTask, Go, Update, jobVars, orchestratorVars, historyVars
<1>3. ASSUME NEW a \in Actors, EnqueueJob(a) PROVE ReadyIsAttended'
  BY <1>3 DEF EnqueueJob, Go, taskVars, orchestratorVars, historyVars
<1>4. ASSUME NEW a \in Actors, EnqueueFails(a) PROVE ReadyIsAttended'
  BY <1>4 DEF EnqueueFails, Raise, Update, Throw, End, Go, orchestratorVars
<1>5. ASSUME NEW a \in Actors, RefreshRead(a) PROVE ReadyIsAttended'
  BY <1>5 DEF RefreshRead, Go, taskVars, jobVars, orchestratorVars, historyVars
<1>6. ASSUME NEW a \in Actors, RefreshWrite(a) PROVE ReadyIsAttended'
  <2>1. execution # None /\ UNCHANGED <<status, attempts, faults>>
        /\ \A b \in Actors \ {a} : apc'[b] = apc[b] /\ todo'[b] = todo[b] /\ on'[b] = on[b]
    BY <1>6 DEF RefreshWrite, Raise, Throw, End, Go, orchestratorVars, historyVars, NothingBefore
  <2> QED BY <1>6, <2>1 DEF RefreshWrite
<1>7. ASSUME NEW a \in Actors, Instantiate(a) PROVE ReadyIsAttended'
  BY <1>7 DEF Instantiate, Go, jobVars, orchestratorVars, historyVars
<1>8. ASSUME NEW a \in Actors, NEW t \in Tasks, ClaimJob(a, t) PROVE ReadyIsAttended'
  BY <1>8 DEF ClaimJob, Go, taskVars, orchestratorVars, historyVars
<1>9. ASSUME NEW a \in Actors, Begin(a) PROVE ReadyIsAttended'
  <2>1. apc[a] = "claimed" /\ UNCHANGED <<execution, attempts, faults>>
        /\ \A b \in Actors \ {a} : apc'[b] = apc[b] /\ todo'[b] = todo[b] /\ on'[b] = on[b]
    BY <1>9 DEF Begin, Throw, End, Go, orchestratorVars, historyVars
  <2>2. \A x \in Tasks : /\ status'[x] = "pending" <=> status[x] = "pending"
                         /\ status'[x] \in Done <=> status[x] \in Done
    BY <1>9 DEF Begin, Update
  <2>3. \A x \in Tasks : Ready(x)' => Ready(x)
    BY <2>2
  <2> QED BY <2>1, <2>3
<1>10. ASSUME NEW a \in Actors, Finish(a) PROVE ReadyIsAttended'
  BY <1>10 DEF Finish, Go, jobVars, orchestratorVars, historyVars
<1>11. ASSUME NEW a \in Actors, Fail(a) PROVE ReadyIsAttended'
  BY <1>11 DEF Fail, Go, taskVars, jobVars, orchestratorVars, historyVars
<1>12. ASSUME NEW a \in Actors, DeadLetter(a) PROVE ReadyIsAttended'
  BY <1>12 DEF DeadLetter, Throw, End, Go, taskVars, orchestratorVars, historyVars
<1>13. ASSUME NEW a \in Actors, GoOnToDispatch(a) PROVE ReadyIsAttended'
  BY <1>13 DEF GoOnToDispatch, Go, taskVars, jobVars, orchestratorVars, historyVars
<1>14. ASSUME NEW a \in Actors, NEW t \in Tasks, Retry(a, t) PROVE ReadyIsAttended'
  BY <1>14 DEF Retry, Reset, Update, Go, jobVars, orchestratorVars
<1>15. ASSUME NEW a \in Actors, NEW t \in Tasks, Skip(a, t) PROVE ReadyIsAttended'
  BY <1>15 DEF Skip, Update, Go, jobVars, orchestratorVars, historyVars
<1>16. ASSUME NEW a \in Actors, NEW t \in Tasks, Complete(a, t) PROVE ReadyIsAttended'
  BY <1>16 DEF Complete, Update, Go, jobVars, orchestratorVars, historyVars
<1>17. ASSUME NEW a \in Actors, NEW t \in Tasks, Reconcile(a, t) PROVE ReadyIsAttended'
  BY <1>17 DEF Reconcile, Go, taskVars, historyVars
<1>18. ASSUME NEW a \in Actors, ReadFailed(a) PROVE ReadyIsAttended'
  BY <1>18 DEF ReadFailed, End, Go, taskVars, jobVars, orchestratorVars, historyVars
<1>19. ASSUME NEW a \in Actors, RetryFailed(a) PROVE ReadyIsAttended'
  BY <1>19 DEF RetryFailed, Reset, Update, Go, jobVars, orchestratorVars
<1>20. ASSUME NEW a \in Actors, CountAttempt(a) PROVE ReadyIsAttended'
  <2>0. on[a] \in Tasks
    BY <1>20 DEF CountAttempt
  <2>1. CASE apc[a] = "count" /\ attempts[on[a]] < MaxAttempts
    BY <1>20, <2>0, <2>1 DEF CountAttempt, Go, taskVars, jobVars, historyVars
  <2>2. CASE ~(apc[a] = "count" /\ attempts[on[a]] < MaxAttempts)
    <3>1. UNCHANGED <<execution, status, faults>> /\ apc' = [apc EXCEPT ![a] = "idle"]
          /\ \A b \in Actors \ {a} : todo'[b] = todo[b] /\ on'[b] = on[b]
      BY <1>20, <2>2 DEF CountAttempt, End, Go, taskVars, historyVars
    <3>2. \A x \in Tasks : attempts[x] = MaxAttempts => attempts'[x] = MaxAttempts
      BY <1>20, <2>0 DEF CountAttempt
    <3>3. apc[a] = "count" => attempts'[on[a]] = MaxAttempts
      BY <1>20, <2>0, <2>2 DEF CountAttempt
    <3> QED BY <1>20, <3>1, <3>2, <3>3 DEF CountAttempt
  <2> QED BY <2>1, <2>2
<1>21. ASSUME NEW a \in Actors, Correction(a) PROVE ReadyIsAttended'
  BY <1>21 DEF Correction, Recoverable, Go, taskVars, jobVars, historyVars
<1>22. ASSUME NEW a \in Actors, NEW t \in Tasks, ResetCorrected(a, t) PROVE ReadyIsAttended'
  BY <1>22 DEF ResetCorrected, Reset, Update, Go, jobVars, orchestratorVars
<1>23. ASSUME NEW a \in Actors, EndCorrection(a) PROVE ReadyIsAttended'
  BY <1>23 DEF EndCorrection, Go, taskVars, jobVars, orchestratorVars, historyVars
<1>24. ASSUME NEW a \in Actors, StepFails(a) PROVE ReadyIsAttended'
  BY <1>24 DEF StepFails, Raise, Update, Throw, End, Go, taskVars, orchestratorVars
<1>25. ASSUME NEW a \in Actors, Crash(a) PROVE ReadyIsAttended'
  BY <1>25 DEF Crash, End, Go, taskVars, jobVars, orchestratorVars
<1>26. CASE Supervise
  BY <1>26 DEF Supervise, taskVars, jobVars, actorVars, historyVars
<1>27. CASE UNCHANGED vars
  BY <1>27 DEF vars, taskVars, jobVars, orchestratorVars, actorVars, historyVars
<1>28. ASSUME NEW a \in Actors, Catch(a) PROVE ReadyIsAttended'
  BY <1>28 DEF Catch, Update, Go, jobVars, orchestratorVars
<1> QED
  BY <1>1, <1>2, <1>3, <1>4, <1>5, <1>6, <1>7, <1>8, <1>9, <1>10, <1>11, <1>12, <1>13, <1>14, <1>15, <1>16, <1>17, <1>18, <1>19, <1>20, <1>21, <1>22, <1>23, <1>24, <1>25, <1>26, <1>27, <1>28
  DEF Next, Step, Request, Fault

\* No ready task is forgotten, unless a step failed or its incident was spent.
THEOREM AttendedTheorem == Spec => []ReadyIsAttended
<1>1. Init => ReadyIsAttended
  BY DEF Init, ReadyIsAttended
<1> QED BY <1>1, AttendedInductive, NothingHolds, TypeCorrect, PTL DEF Spec

-----------------------------------------------------------------------------
(* What a fault leaves behind *)

\* Without a fault nobody lets go of a task before it is stopped, done, back to pending
\* or in somebody else's hands.
LEMMA NoneStranded ==
    TypeOK /\ [Next]_vars /\ faults' = faults => Stranded' \subseteq Stranded
<1> SUFFICES ASSUME TypeOK, [Next]_vars, faults' = faults PROVE Stranded' \subseteq Stranded
  OBVIOUS
<1> USE RunbookAssumption DEF TypeOK, ActorsOK, Done, Stopped, Stranded, Carried
<1>1. ASSUME NEW a \in Actors, ListTasks(a) PROVE Stranded' \subseteq Stranded
  BY <1>1 DEF ListTasks, Go, taskVars, jobVars, orchestratorVars, historyVars
<1>2. ASSUME NEW a \in Actors, NEW t \in Tasks, DispatchTask(a, t) PROVE Stranded' \subseteq Stranded
  BY <1>2 DEF DispatchTask, Go, Update, jobVars, orchestratorVars, historyVars
<1>3. ASSUME NEW a \in Actors, EnqueueJob(a) PROVE Stranded' \subseteq Stranded
  BY <1>3 DEF EnqueueJob, Go, taskVars, orchestratorVars, historyVars
<1>4. ASSUME NEW a \in Actors, EnqueueFails(a) PROVE Stranded' \subseteq Stranded
  BY <1>4 DEF EnqueueFails, Raise, Update, Throw, End, Go, orchestratorVars
<1>5. ASSUME NEW a \in Actors, RefreshRead(a) PROVE Stranded' \subseteq Stranded
  BY <1>5 DEF RefreshRead, Go, taskVars, jobVars, orchestratorVars, historyVars
<1>6. ASSUME NEW a \in Actors, RefreshWrite(a) PROVE Stranded' \subseteq Stranded
  BY <1>6 DEF RefreshWrite, Raise, Throw, End, Go, jobVars, orchestratorVars, historyVars
<1>7. ASSUME NEW a \in Actors, Instantiate(a) PROVE Stranded' \subseteq Stranded
  BY <1>7 DEF Instantiate, Go, jobVars, orchestratorVars, historyVars
<1>8. ASSUME NEW a \in Actors, NEW t \in Tasks, ClaimJob(a, t) PROVE Stranded' \subseteq Stranded
  BY <1>8 DEF ClaimJob, Go, taskVars, orchestratorVars, historyVars
<1>9. ASSUME NEW a \in Actors, Begin(a) PROVE Stranded' \subseteq Stranded
  BY <1>9 DEF Begin, Update, Throw, End, Go, jobVars, orchestratorVars, historyVars
<1>10. ASSUME NEW a \in Actors, Finish(a) PROVE Stranded' \subseteq Stranded
  BY <1>10 DEF Finish, Go, jobVars, orchestratorVars, historyVars
<1>11. ASSUME NEW a \in Actors, Fail(a) PROVE Stranded' \subseteq Stranded
  BY <1>11 DEF Fail, Go, taskVars, jobVars, orchestratorVars, historyVars
<1>12. ASSUME NEW a \in Actors, DeadLetter(a) PROVE Stranded' \subseteq Stranded
  BY <1>12 DEF DeadLetter, Throw, End, Go, taskVars, orchestratorVars, historyVars
<1>13. ASSUME NEW a \in Actors, GoOnToDispatch(a) PROVE Stranded' \subseteq Stranded
  BY <1>13 DEF GoOnToDispatch, Go, taskVars, jobVars, orchestratorVars, historyVars
<1>14. ASSUME NEW a \in Actors, NEW t \in Tasks, Retry(a, t) PROVE Stranded' \subseteq Stranded
  BY <1>14 DEF Retry, Reset, Update, Go, jobVars, orchestratorVars
<1>15. ASSUME NEW a \in Actors, NEW t \in Tasks, Skip(a, t) PROVE Stranded' \subseteq Stranded
  BY <1>15 DEF Skip, Update, Go, jobVars, orchestratorVars, historyVars
<1>16. ASSUME NEW a \in Actors, NEW t \in Tasks, Complete(a, t) PROVE Stranded' \subseteq Stranded
  BY <1>16 DEF Complete, Update, Go, jobVars, orchestratorVars, historyVars
<1>17. ASSUME NEW a \in Actors, NEW t \in Tasks, Reconcile(a, t) PROVE Stranded' \subseteq Stranded
  BY <1>17 DEF Reconcile, Go, taskVars, historyVars
<1>18. ASSUME NEW a \in Actors, ReadFailed(a) PROVE Stranded' \subseteq Stranded
  BY <1>18 DEF ReadFailed, End, Go, taskVars, jobVars, orchestratorVars, historyVars
<1>19. ASSUME NEW a \in Actors, RetryFailed(a) PROVE Stranded' \subseteq Stranded
  BY <1>19 DEF RetryFailed, Reset, Update, Go, jobVars, orchestratorVars
<1>20. ASSUME NEW a \in Actors, CountAttempt(a) PROVE Stranded' \subseteq Stranded
  BY <1>20 DEF CountAttempt, End, Go, taskVars, jobVars, historyVars
<1>21. ASSUME NEW a \in Actors, Correction(a) PROVE Stranded' \subseteq Stranded
  BY <1>21 DEF Correction, Recoverable, Go, taskVars, jobVars, historyVars
<1>22. ASSUME NEW a \in Actors, NEW t \in Tasks, ResetCorrected(a, t) PROVE Stranded' \subseteq Stranded
  BY <1>22 DEF ResetCorrected, Reset, Update, Go, jobVars, orchestratorVars
<1>23. ASSUME NEW a \in Actors, EndCorrection(a) PROVE Stranded' \subseteq Stranded
  BY <1>23 DEF EndCorrection, Go, taskVars, jobVars, orchestratorVars, historyVars
<1>24. ASSUME NEW a \in Actors, StepFails(a) PROVE Stranded' \subseteq Stranded
  BY <1>24 DEF StepFails, Raise, Update, Throw, End, Go, taskVars, orchestratorVars
<1>25. ASSUME NEW a \in Actors, Crash(a) PROVE Stranded' \subseteq Stranded
  BY <1>25 DEF Crash, End, Go, taskVars, jobVars, orchestratorVars
<1>26. CASE Supervise
  BY <1>26 DEF Supervise, taskVars, jobVars, actorVars, historyVars
<1>27. CASE UNCHANGED vars
  BY <1>27 DEF vars, taskVars, jobVars, orchestratorVars, actorVars, historyVars
<1>28. ASSUME NEW a \in Actors, Catch(a) PROVE Stranded' \subseteq Stranded
  BY <1>28 DEF Catch, Update, Go, jobVars, orchestratorVars
<1> QED
  BY <1>1, <1>2, <1>3, <1>4, <1>5, <1>6, <1>7, <1>8, <1>9, <1>10, <1>11, <1>12, <1>13, <1>14, <1>15, <1>16, <1>17, <1>18, <1>19, <1>20, <1>21, <1>22, <1>23, <1>24, <1>25, <1>26, <1>27, <1>28
  DEF Next, Step, Request, Fault

\* A fault takes away one actor, and an actor carries one task.
LEMMA OneStranded ==
    ASSUME TypeOK, NEW a \in Actors, Fault(a)
    PROVE  /\ faults' = faults + 1
           /\ \E x \in Tasks : Stranded' \subseteq Stranded \cup {x}
<1> USE RunbookAssumption DEF TypeOK, ActorsOK, Done, Stopped, Stranded, Carried
<1> DEFINE x == IF apc[a] = "enqueue" THEN current[a]
                ELSE IF apc[a] \in {"claimed", "running", "caught"} THEN on[a] ELSE CHOOSE t \in Tasks : TRUE
<1>0. x \in Tasks
  OBVIOUS
<1>1. CASE EnqueueFails(a)
  <2>1. Stranded' \subseteq Stranded \cup {x}
    BY <1>1, <1>0 DEF EnqueueFails, Raise, Update, Throw, End, Go
  <2> QED BY <1>1, <1>0, <2>1 DEF EnqueueFails
<1>2. CASE StepFails(a)
  <2>1. Stranded' \subseteq Stranded \cup {x}
    BY <1>2, <1>0 DEF StepFails, Raise, Update, Throw, End, Go, taskVars
  <2> QED BY <1>2, <1>0, <2>1 DEF StepFails
<1>3. CASE Crash(a)
  <2>1. Stranded' \subseteq Stranded \cup {x}
    BY <1>3, <1>0 DEF Crash, End, Go, taskVars, jobVars
  <2> QED BY <1>3, <1>0, <2>1 DEF Crash
<1> QED BY <1>1, <1>2, <1>3 DEF Fault

\* Every step but a fault keeps the count of faults.
LEMMA FaultsCounted ==
    ASSUME [Next]_vars, \A a \in Actors : ~Fault(a)
    PROVE  faults' = faults
<1>1. CASE UNCHANGED vars
  BY <1>1 DEF vars, historyVars
<1>2. CASE Supervise
  BY <1>2 DEF Supervise, historyVars
<1>3. ASSUME NEW a \in Actors, Step(a) PROVE faults' = faults
  BY <1>3 DEF Step, ListTasks, DispatchTask, EnqueueJob, RefreshRead, RefreshWrite, ClaimJob, Begin,
     Finish, Fail, Catch, DeadLetter, GoOnToDispatch, Reconcile, ReadFailed, RetryFailed, CountAttempt,
     ResetCorrected, EndCorrection, historyVars
<1>4. ASSUME NEW a \in Actors, Request(a) PROVE faults' = faults
  BY <1>4 DEF Request, Instantiate, Correction, Retry, Skip, Complete, historyVars
<1> QED BY <1>1, <1>2, <1>3, <1>4 DEF Next

\* However many actors race, no more tasks are stranded than faults have happened.
THEOREM StrandedTheorem == Spec => []FaultStrandsOne
<1>1. Init => FaultStrandsOne
  <2> SUFFICES ASSUME Init PROVE FaultStrandsOne
    OBVIOUS
  <2>1. Stranded = {}
    BY DEF Init, Stranded
  <2> QED BY <2>1, FS_EmptySet DEF Init, FaultStrandsOne
<1>2. TypeOK /\ FaultStrandsOne /\ [Next]_vars => FaultStrandsOne'
  <2> SUFFICES ASSUME TypeOK, FaultStrandsOne, [Next]_vars PROVE FaultStrandsOne'
    OBVIOUS
  <2>0. IsFiniteSet(Stranded) /\ Cardinality(Stranded) \in Nat
    BY RunbookAssumption, FS_Subset, FS_CardinalityType DEF Stranded
  <2>1. CASE \A a \in Actors : ~Fault(a)
    <3>1. faults' = faults
      BY <2>1, FaultsCounted
    <3>2. Stranded' \subseteq Stranded
      BY <3>1, NoneStranded
    <3>3. Cardinality(Stranded') \in Nat /\ Cardinality(Stranded') <= Cardinality(Stranded)
      BY <2>0, <3>2, FS_Subset, FS_CardinalityType
    <3> QED BY <2>0, <3>1, <3>3 DEF FaultStrandsOne, TypeOK
  <2>2. ASSUME NEW a \in Actors, Fault(a) PROVE FaultStrandsOne'
    <3>1. PICK x \in Tasks : Stranded' \subseteq Stranded \cup {x}
      BY <2>2, OneStranded
    <3>2. faults' = faults + 1
      BY <2>2, OneStranded
    <3>3. /\ IsFiniteSet(Stranded \cup {x})
          /\ Cardinality(Stranded \cup {x}) \in Nat
          /\ Cardinality(Stranded \cup {x}) <= Cardinality(Stranded) + 1
      <4>1. /\ IsFiniteSet(Stranded \cup {x})
            /\ \/ Cardinality(Stranded \cup {x}) = Cardinality(Stranded)
               \/ Cardinality(Stranded \cup {x}) = Cardinality(Stranded) + 1
        BY <2>0, FS_AddElement
      <4> QED BY <2>0, <4>1
    <3>4. Cardinality(Stranded') \in Nat /\ Cardinality(Stranded') <= Cardinality(Stranded \cup {x})
      BY <3>1, <3>3, FS_Subset, FS_CardinalityType
    <3> QED BY <2>0, <3>2, <3>3, <3>4 DEF FaultStrandsOne, TypeOK
  <2> QED BY <2>1, <2>2
<1> QED BY <1>1, <1>2, TypeCorrect, PTL DEF Spec

\* The whole invariant: each part rests on the ones before it.
THEOREM RunbookInvariant == Spec => []RunbookInv
<1>1. Init => VerdictIsCurrent
  BY DEF Init, VerdictIsCurrent
<1>2. Spec => []VerdictIsCurrent
  BY <1>1, VerdictInductive, TypeCorrect, PTL DEF Spec
<1> QED
  BY <1>2, TypeCorrect, NothingHolds, RunnerTheorem, ReadyHolds, CompletionTheorem,
     AttendedTheorem, PTL DEF RunbookInv

=============================================================================
