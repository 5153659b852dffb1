--------------------------- MODULE RunbookExecution ---------------------------
(***************************************************************************)
(* The execution of an approved runbook for one close session              *)
(* (runbook_execution_service.ts) and the Close Orchestrator's retries of  *)
(* its tasks (close_orchestrator_service.ts).  Workers that execute a      *)
(* task's job, reviewers' requests and the orchestrator's jobs are actors; *)
(* each changes a task by a conditional update and then dispatches, that   *)
(* is: lists the tasks, queues those that are ready, one by one, and       *)
(* refreshes the status of the execution from a second list.               *)
(*                                                                         *)
(* A job is held until its handler returns; after a crash its lock expires *)
(* and it is handed out again (JobQueue).  An error's text is abstracted to*)
(* whether it is classified as operational; errors of one task that are    *)
(* have one fingerprint.                                                   *)
(***************************************************************************)
EXTENDS Naturals, FiniteSets

CONSTANTS
    Tasks,
    Deps,           \* taskSnapshot.dependencies
    HumanReview,    \* tasks whose executionMode is human_review
    ApprovalRequired,
    Eligible,       \* tasks of a capability that a correction runs again
    Actors,         \* handlers and requests running concurrently
    MaxAttempts,    \* automatic retries of a task
    MaxSteps,       \* the orchestrator's step budget
    MaxResets,      \* bound: tasks put back to pending
    MaxFaults,      \* bound: crashes and errors of a database step
    None

ASSUME RunbookAssumption ==
    /\ Tasks # {} /\ IsFiniteSet(Tasks) /\ Deps \in [Tasks -> SUBSET Tasks]
    /\ HumanReview \subseteq Tasks /\ ApprovalRequired \subseteq Tasks /\ Eligible \subseteq Tasks
    /\ MaxAttempts \in Nat /\ MaxSteps \in Nat /\ MaxResets \in Nat /\ MaxFaults \in Nat
    /\ None \notin Tasks /\ None \notin {"running", "blocked", "failed", "completed"}

VARIABLES
    execution,          \* status of the execution, None before there is one
    status,             \* of each task
    jobs, notices,      \* runbook_task_execute jobs and reports task_failed not held
    attempts, steps,    \* attempt_count of a task's incident, steps_used of the run
    apc,                \* an actor's next step
    kind, on,           \* the job it holds: its type and task
    todo, current,      \* tasks its loop has yet to visit, the one it is queuing
    verdict,            \* the execution's status it is about to write
    resets, faults,     \* history: how often a task was put back, and a step failed
    usurped             \* history: tasks failed by a worker that had left them to another

taskVars == <<execution, status>>
jobVars == <<jobs, notices>>
orchestratorVars == <<attempts, steps>>
actorVars == <<apc, kind, on, todo, current, verdict>>
historyVars == <<resets, faults, usurped>>
vars == <<taskVars, jobVars, orchestratorVars, actorVars, historyVars>>

Done == {"completed", "skipped"}
Stopped == {"waiting_human", "blocked", "failed"}

-----------------------------------------------------------------------------
(* Steps of an actor *)

Go(a, step) == apc' = [apc EXCEPT ![a] = step]

\* The handler or request returns.
End(a) ==
    /\ Go(a, "idle")
    /\ kind' = [kind EXCEPT ![a] = "none"]
    /\ on' = [on EXCEPT ![a] = None]
    /\ todo' = [todo EXCEPT ![a] = {}]
    /\ current' = [current EXCEPT ![a] = None]
    /\ verdict' = [verdict EXCEPT ![a] = None]

\* An error leaves the handler: the worker dead-letters the task's job and reports to
\* the orchestrator, if it can (an error of that is caught); the orchestrator's own job
\* is retried until its attempts are used up.
Throw(a) ==
    /\ \/ kind[a] # "none" /\ notices' = [notices EXCEPT ![on[a]] = @ + 1]
       \/ UNCHANGED notices
    /\ End(a)

\* An error after the update to running is first caught by executeRunbookTask itself,
\* wherever it comes from: the try covers the dispatch that follows the task's outcome.
Raise(a) ==
    IF kind[a] = "execute" /\ apc[a] \notin {"claimed", "caught"}
    THEN /\ Go(a, "caught")
         /\ todo' = [todo EXCEPT ![a] = {}]
         /\ current' = [current EXCEPT ![a] = None]
         /\ verdict' = [verdict EXCEPT ![a] = None]
         /\ UNCHANGED <<kind, on, notices>>
    ELSE Throw(a)

\* updateTaskExecution with fromStatuses.
Update(t, from, to) ==
    /\ status[t] \in from
    /\ status' = [status EXCEPT ![t] = to]

-----------------------------------------------------------------------------
(* dispatchReadyRunbookTasks *)

Ready(t) == status[t] = "pending" /\ \A d \in Deps[t] : status[d] \in Done

\* Mutant: a dependency counts once it is no longer under way.
ListAfterSettled(a) ==
    /\ apc[a] = "list"
    /\ todo' = [todo EXCEPT ![a] =
                {t \in Tasks : /\ status[t] = "pending"
                              /\ \A d \in Deps[t] : status[d] \notin {"pending", "queued", "running"}}]
    /\ Go(a, "each")
    /\ UNCHANGED <<taskVars, jobVars, orchestratorVars, kind, on, current, verdict, historyVars>>

\* Mutant: a dependency that was skipped does not count.
ListAfterCompleted(a) ==
    /\ apc[a] = "list"
    /\ todo' = [todo EXCEPT ![a] =
                {t \in Tasks : status[t] = "pending" /\ \A d \in Deps[t] : status[d] = "completed"}]
    /\ Go(a, "each")
    /\ UNCHANGED <<taskVars, jobVars, orchestratorVars, kind, on, current, verdict, historyVars>>

ListTasks(a) ==
    /\ apc[a] = "list"
    /\ todo' = [todo EXCEPT ![a] = {t \in Tasks : Ready(t)}]
    /\ Go(a, "each")
    /\ UNCHANGED <<taskVars, jobVars, orchestratorVars, kind, on, current, verdict, historyVars>>

\* One round of the loop: a conditional update from pending, so a task that somebody
\* else has taken since the list is passed over.
DispatchTask(a, t) ==
    /\ apc[a] = "each" /\ t \in todo[a]
    /\ todo' = [todo EXCEPT ![a] = @ \ {t}]
    /\ \/ /\ status[t] # "pending"
          /\ UNCHANGED <<status, apc, current>>
       \/ /\ t \in HumanReview
          /\ Update(t, {"pending"}, "waiting_human")
          /\ UNCHANGED <<apc, current>>
       \/ /\ t \notin HumanReview
          /\ Update(t, {"pending"}, "queued")
          /\ current' = [current EXCEPT ![a] = t]
          /\ Go(a, "enqueue")
    /\ UNCHANGED <<execution, jobVars, orchestratorVars, kind, on, verdict, historyVars>>

\* The job's id is made of the task and the row's updated_at: every dispatch has its own.
EnqueueJob(a) ==
    /\ apc[a] = "enqueue"
    /\ jobs' = [jobs EXCEPT ![current[a]] = @ + 1]
    /\ current' = [current EXCEPT ![a] = None]
    /\ Go(a, "each")
    /\ UNCHANGED <<taskVars, notices, orchestratorVars, kind, on, todo, verdict, historyVars>>

\* The insert fails, or its answer is lost: the task goes back to pending, if that
\* update does not fail as well, and the error goes on.
EnqueueFails(a) ==
    /\ apc[a] = "enqueue" /\ faults < MaxFaults
    /\ faults' = faults + 1
    /\ Update(current[a], {"queued"}, "pending") \/ UNCHANGED status
    /\ \E stored \in {0, 1} : jobs' = [jobs EXCEPT ![current[a]] = @ + stored]
    /\ Raise(a)
    /\ UNCHANGED <<execution, orchestratorVars, resets, usurped>>

\* The status refreshExecutionStatus derives from the tasks.
ExecutionStatus ==
    LET active == \E t \in Tasks : status[t] \in {"queued", "running"} IN
    CASE \A t \in Tasks : status[t] \in Done -> "completed"
      [] ~active /\ \E t \in Tasks : status[t] = "failed" -> "failed"
      [] ~active /\ (\E t \in Tasks : status[t] = "blocked")
                 /\ \A t \in Tasks : status[t] # "failed" -> "blocked"
      [] OTHER -> "running"

RefreshRead(a) ==
    /\ apc[a] = "each" /\ todo[a] = {}
    /\ verdict' = [verdict EXCEPT ![a] = ExecutionStatus]
    /\ Go(a, "refresh")
    /\ UNCHANGED <<taskVars, jobVars, orchestratorVars, kind, on, todo, current, historyVars>>

\* Mutant: without close_runbook_execution_identity_immutable.
RefreshOverwrites(a) ==
    /\ apc[a] = "refresh"
    /\ execution' = verdict[a]
    /\ End(a)
    /\ UNCHANGED <<status, jobVars, orchestratorVars, historyVars>>

\* updateExecutionStatus; the trigger refuses to change an execution that is completed.
RefreshWrite(a) ==
    /\ apc[a] = "refresh"
    /\ IF execution = "completed" /\ verdict[a] # "completed"
       THEN Raise(a) /\ UNCHANGED <<execution, jobs>>
       ELSE End(a) /\ execution' = verdict[a] /\ UNCHANGED jobVars
    /\ UNCHANGED <<status, orchestratorVars, historyVars>>

-----------------------------------------------------------------------------
(* instantiateApprovedRunbookForSession *)

\* The execution and its tasks are inserted in one transaction, under an advisory lock;
\* for an execution that is there the request only dispatches.
Instantiate(a) ==
    /\ apc[a] = "idle"
    /\ execution' = IF execution = None THEN "running" ELSE execution
    /\ Go(a, "list")
    /\ UNCHANGED <<status, jobVars, orchestratorVars, kind, on, todo, current, verdict, historyVars>>

-----------------------------------------------------------------------------
(* executeRunbookTask, in a worker *)

ClaimJob(a, t) ==
    /\ apc[a] = "idle" /\ jobs[t] > 0
    /\ jobs' = [jobs EXCEPT ![t] = @ - 1]
    /\ kind' = [kind EXCEPT ![a] = "execute"]
    /\ on' = [on EXCEPT ![a] = t]
    /\ Go(a, "claimed")
    /\ UNCHANGED <<taskVars, notices, orchestratorVars, todo, current, verdict, historyVars>>

\* Mutant: the update to running is not conditional on the status that was read.
BeginAnyway(a) ==
    /\ apc[a] = "claimed"
    /\ status[on[a]] \notin Done
    /\ status' = [status EXCEPT ![on[a]] = "running"]
    /\ Go(a, "running")
    /\ UNCHANGED <<execution, jobVars, orchestratorVars, kind, on, todo, current, verdict, historyVars>>

\* The conditional update to running.  A task that is done is left alone; one that
\* somebody else runs, or that was put back, is an error.
Begin(a) ==
    /\ apc[a] = "claimed"
    /\ \/ /\ Update(on[a], {"queued", "failed"}, "running")
          /\ Go(a, "running")
          /\ UNCHANGED <<jobVars, kind, on, todo, current, verdict>>
       \/ /\ status[on[a]] \in Done
          /\ End(a)
          /\ UNCHANGED <<status, jobVars>>
       \/ /\ status[on[a]] \notin Done \cup {"queued", "failed"}
          /\ Throw(a)
          /\ UNCHANGED <<status, jobs>>
    /\ UNCHANGED <<execution, orchestratorVars, historyVars>>

\* Mutant: without close_runbook_task_identity_immutable.
FinishOverwrites(a) ==
    /\ apc[a] = "running"
    /\ \E outcome \in {"completed", "blocked", "waiting_human"} :
        status' = [status EXCEPT ![on[a]] =
                    IF outcome = "completed" /\ on[a] \in ApprovalRequired
                    THEN "waiting_human" ELSE outcome]
    /\ Go(a, "stored")
    /\ UNCHANGED <<execution, jobVars, orchestratorVars, kind, on, todo, current, verdict, historyVars>>

\* The capability's outcome, stored by an update without a condition (the trigger
\* refuses it where the task is done).
Finish(a) ==
    /\ apc[a] = "running"
    /\ \E outcome \in {"completed", "blocked", "waiting_human"} :
        IF status[on[a]] \in Done
        THEN Go(a, "caught") /\ UNCHANGED status
        ELSE /\ status' = [status EXCEPT ![on[a]] =
                    IF outcome = "completed" /\ on[a] \in ApprovalRequired
                    THEN "waiting_human" ELSE outcome]
             /\ Go(a, "stored")
    /\ UNCHANGED <<execution, jobVars, orchestratorVars, kind, on, todo, current, verdict, historyVars>>

\* The capability, or the test that the session is in progress, throws.
Fail(a) ==
    /\ apc[a] = "running"
    /\ Go(a, "caught")
    /\ UNCHANGED <<taskVars, jobVars, orchestratorVars, kind, on, todo, current, verdict, historyVars>>

\* Mutant: the error is not stored with the task.
CatchUnrecorded(a) ==
    /\ apc[a] = "caught"
    /\ Go(a, "threw")
    /\ UNCHANGED <<taskVars, jobVars, orchestratorVars, kind, on, todo, current, verdict, historyVars>>

\* The catch of executeRunbookTask: the task is failed if it is running, by whomever.
Catch(a) ==
    /\ apc[a] = "caught"
    /\ Go(a, "threw")
    /\ \/ /\ Update(on[a], {"running"}, "failed")
          /\ usurped' = IF \E b \in Actors : apc[b] = "running" /\ on[b] = on[a]
                        THEN usurped \cup {on[a]} ELSE usurped
       \/ status[on[a]] # "running" /\ UNCHANGED <<status, usurped>>
    /\ UNCHANGED <<execution, jobVars, orchestratorVars, kind, on, todo, current, verdict, resets, faults>>

\* The worker settles the job of a handler that threw.
DeadLetter(a) ==
    /\ apc[a] = "threw"
    /\ Throw(a)
    /\ UNCHANGED <<taskVars, jobs, orchestratorVars, historyVars>>

\* The checklist and the audit entry are written; what has become ready is dispatched.
GoOnToDispatch(a) ==
    /\ apc[a] = "stored"
    /\ Go(a, "list")
    /\ UNCHANGED <<taskVars, jobVars, orchestratorVars, kind, on, todo, current, verdict, historyVars>>

-----------------------------------------------------------------------------
(* resolveRunbookTask *)

Reset(t, from) ==
    /\ resets < MaxResets
    /\ resets' = resets + 1
    /\ Update(t, from, "pending")

Retry(a, t) ==
    /\ apc[a] = "idle"
    /\ Reset(t, Stopped)
    /\ Go(a, "stored")
    /\ UNCHANGED <<execution, jobVars, orchestratorVars, kind, on, todo, current, verdict, faults, usurped>>

Skip(a, t) ==
    /\ apc[a] = "idle"
    /\ Update(t, Stopped, "skipped")
    /\ Go(a, "stored")
    /\ UNCHANGED <<execution, jobVars, orchestratorVars, kind, on, todo, current, verdict, historyVars>>

Complete(a, t) ==
    /\ apc[a] = "idle"
    /\ Update(t, {"waiting_human"}, "completed")
    /\ Go(a, "stored")
    /\ UNCHANGED <<execution, jobVars, orchestratorVars, kind, on, todo, current, verdict, historyVars>>

-----------------------------------------------------------------------------
(* reconcileCloseOrchestrator *)

\* Mutant: steps_used <= max_steps.
ReconcileOffByOne(a, t) ==
    /\ apc[a] = "idle" /\ notices[t] > 0
    /\ notices' = [notices EXCEPT ![t] = @ - 1]
    /\ steps' = IF steps <= MaxSteps THEN steps + 1 ELSE steps
    /\ UNCHANGED <<taskVars, jobs, attempts, actorVars, historyVars>>

\* A report is taken up if the run's budget has a step left, and its error classified.
\* upsertIncident returns the attempts so far; a report that does not lead to a
\* retry calls the supervisor.
Reconcile(a, t) ==
    /\ apc[a] = "idle" /\ notices[t] > 0
    /\ notices' = [notices EXCEPT ![t] = @ - 1]
    /\ steps' = IF steps < MaxSteps THEN steps + 1 ELSE steps
    /\ \/ UNCHANGED <<apc, kind, on>>
       \/ /\ steps < MaxSteps /\ attempts[t] < MaxAttempts
          /\ kind' = [kind EXCEPT ![a] = "reconcile"]
          /\ on' = [on EXCEPT ![a] = t]
          /\ Go(a, "retry")
    /\ UNCHANGED <<taskVars, jobs, attempts, todo, current, verdict, historyVars>>

\* close_started and task_blocked take a step of the budget and change no task.
Supervise ==
    /\ execution # None
    /\ steps < MaxSteps /\ steps' = steps + 1
    /\ UNCHANGED <<taskVars, jobVars, attempts, actorVars, historyVars>>

ReadFailed(a) ==
    /\ apc[a] = "retry"
    /\ IF status[on[a]] = "failed"
       THEN Go(a, "reset") /\ UNCHANGED <<kind, on, todo, current, verdict>>
       ELSE End(a)
    /\ UNCHANGED <<taskVars, jobVars, orchestratorVars, historyVars>>

\* The task is put back to pending if it is still failed.
RetryFailed(a) ==
    /\ apc[a] = "reset"
    /\ \/ Reset(on[a], {"failed"}) /\ Go(a, "count")
       \/ status[on[a]] # "failed" /\ Go(a, "lost") /\ UNCHANGED <<status, resets>>
    /\ UNCHANGED <<execution, jobVars, orchestratorVars, kind, on, todo, current, verdict, faults, usurped>>

\* updateIncident counts the attempt, up to max_attempts, whether or not the task was
\* put back.  Where the attempts were used up in the meantime the supervisor is called,
\* and the task stays pending.
CountAttempt(a) ==
    /\ apc[a] \in {"count", "lost"}
    /\ attempts' = [attempts EXCEPT ![on[a]] = IF @ < MaxAttempts THEN @ + 1 ELSE @]
    /\ IF apc[a] = "count" /\ attempts[on[a]] < MaxAttempts
       THEN Go(a, "list") /\ UNCHANGED <<kind, on, todo, current, verdict>>
       ELSE End(a)
    /\ UNCHANGED <<taskVars, jobVars, steps, historyVars>>

Recoverable == {t \in Eligible : status[t] \in Stopped}

\* A correction by a human, or a journal entry that changed status: the stopped tasks of
\* the eligible capability are listed, three of them at most (slice(0, 3)).
Correction(a) ==
    /\ apc[a] = "idle" /\ execution # None
    /\ steps < MaxSteps /\ steps' = steps + 1
    /\ \E S \in SUBSET Recoverable :
        /\ IF Cardinality(Recoverable) <= 3 THEN S = Recoverable ELSE Cardinality(S) = 3
        /\ todo' = [todo EXCEPT ![a] = S]
    /\ Go(a, "correct")
    /\ UNCHANGED <<taskVars, jobVars, attempts, kind, on, current, verdict, historyVars>>

\* They are put back one by one, and what is ready is dispatched if one of them was.
ResetCorrected(a, t) ==
    /\ apc[a] \in {"correct", "corrected"} /\ t \in todo[a]
    /\ todo' = [todo EXCEPT ![a] = @ \ {t}]
    /\ \/ Reset(t, Stopped) /\ Go(a, "corrected")
       \/ status[t] \notin Stopped /\ UNCHANGED <<status, resets, apc>>
    /\ UNCHANGED <<execution, jobVars, orchestratorVars, kind, on, current, verdict, faults, usurped>>

EndCorrection(a) ==
    /\ apc[a] \in {"correct", "corrected"} /\ todo[a] = {}
    /\ Go(a, IF apc[a] = "corrected" THEN "list" ELSE "idle")
    /\ UNCHANGED <<taskVars, jobVars, orchestratorVars, kind, on, todo, current, verdict, historyVars>>

-----------------------------------------------------------------------------
(* Faults *)

\* A database step fails, or it commits and its answer is lost: the update to running,
\* that of the execution's status (any other is a step of its own, followed by one here).
\* After the latter the error may also be that of the worker's complete().
StepFails(a) ==
    /\ apc[a] \in {"claimed", "stored", "list", "each", "refresh", "caught", "retry", "reset",
                   "count", "lost", "correct", "corrected"}
    /\ faults < MaxFaults /\ faults' = faults + 1
    /\ \/ UNCHANGED taskVars /\ Raise(a)
       \/ /\ apc[a] = "claimed"
          /\ Update(on[a], {"queued", "failed"}, "running") /\ UNCHANGED execution
          /\ Raise(a)
       \/ /\ apc[a] = "refresh" /\ (execution = "completed" => verdict[a] = "completed")
          /\ execution' = verdict[a] /\ UNCHANGED status
          /\ Raise(a) \/ Throw(a)
    /\ UNCHANGED <<jobs, orchestratorVars, resets, usurped>>

\* The process dies; the lock of the job it held expires, unless it had settled it.
Crash(a) ==
    /\ apc[a] # "idle"
    /\ faults < MaxFaults /\ faults' = faults + 1
    /\ \/ kind[a] = "execute" /\ jobs' = [jobs EXCEPT ![on[a]] = @ + 1] /\ UNCHANGED notices
       \/ kind[a] = "reconcile" /\ notices' = [notices EXCEPT ![on[a]] = @ + 1] /\ UNCHANGED jobs
       \/ UNCHANGED jobVars
    /\ End(a)
    /\ UNCHANGED <<taskVars, orchestratorVars, resets, usurped>>

-----------------------------------------------------------------------------

Init ==
    /\ execution = None
    /\ status = [t \in Tasks |-> "pending"]
    /\ jobs = [t \in Tasks |-> 0]
    /\ notices = [t \in Tasks |-> 0]
    /\ attempts = [t \in Tasks |-> 0] /\ steps = 0
    /\ apc = [a \in Actors |-> "idle"]
    /\ kind = [a \in Actors |-> "none"]
    /\ on = [a \in Actors |-> None]
    /\ todo = [a \in Actors |-> {}]
    /\ current = [a \in Actors |-> None]
    /\ verdict = [a \in Actors |-> None]
    /\ resets = 0 /\ faults = 0 /\ usurped = {}

\* What a running process does next without being asked or failing.
Step(a) ==
    \/ ListTasks(a) \/ (\E t \in Tasks : DispatchTask(a, t)) \/ EnqueueJob(a)
    \/ RefreshRead(a) \/ RefreshWrite(a)
    \/ (\E t \in Tasks : ClaimJob(a, t)) \/ Begin(a) \/ Finish(a) \/ Fail(a)
    \/ Catch(a) \/ DeadLetter(a) \/ GoOnToDispatch(a)
    \/ (\E t \in Tasks : Reconcile(a, t)) \/ ReadFailed(a) \/ RetryFailed(a) \/ CountAttempt(a)
    \/ (\E t \in Tasks : ResetCorrected(a, t)) \/ EndCorrection(a)

Request(a) ==
    \/ Instantiate(a) \/ Correction(a)
    \/ \E t \in Tasks : Retry(a, t) \/ Skip(a, t) \/ Complete(a, t)

Fault(a) == EnqueueFails(a) \/ StepFails(a) \/ Crash(a)

Next == Supervise \/ \E a \in Actors : Step(a) \/ Request(a) \/ Fault(a)

Spec == Init /\ [][Next]_vars

-----------------------------------------------------------------------------
(* Properties *)

\* An actor's state: what it holds goes with what it is doing.
ActorsOK ==
    /\ apc \in [Actors -> {"idle", "list", "each", "enqueue", "refresh", "claimed", "running",
                           "caught", "threw", "stored", "retry", "reset", "count", "lost", "correct",
                           "corrected"}]
    /\ kind \in [Actors -> {"none", "execute", "reconcile"}]
    /\ on \in [Actors -> Tasks \cup {None}]
    /\ todo \in [Actors -> SUBSET Tasks]
    /\ current \in [Actors -> Tasks \cup {None}]
    /\ verdict \in [Actors -> {None, "running", "blocked", "failed", "completed"}]
    /\ \A a \in Actors :
        /\ kind[a] # "none" <=> on[a] # None
        /\ apc[a] \in {"claimed", "running", "caught", "threw"} => kind[a] = "execute"
        /\ apc[a] \in {"retry", "reset", "count", "lost"} => kind[a] = "reconcile"
        /\ apc[a] = "enqueue" => current[a] # None
        /\ apc[a] = "refresh" => verdict[a] # None

\* Types; the attempts and steps stay within their bounds, whatever reports race.
TypeOK ==
    /\ execution \in {None, "running", "blocked", "failed", "completed"}
    /\ status \in [Tasks -> {"pending", "queued", "running"} \cup Stopped \cup Done]
    /\ jobs \in [Tasks -> Nat] /\ notices \in [Tasks -> Nat]
    /\ attempts \in [Tasks -> 0 .. MaxAttempts] /\ steps \in 0 .. MaxSteps
    /\ resets \in Nat /\ faults \in Nat /\ usurped \subseteq Tasks
    /\ ActorsOK

\* A task is run by one actor at a time, and its row says so, whatever jobs are handed out
\* again after their lock has expired, and however its status was put back in between:
\* until an error in the dispatch of a worker that had stored its outcome, and whose task
\* was retried since, fails the row under the one that runs it now.
OneRunner ==
    \A a \in Actors : apc[a] = "running" /\ on[a] \notin usurped =>
        /\ status[on[a]] = "running"
        /\ \A b \in Actors : apc[b] = "running" /\ on[a] = on[b] => a = b

\* A task leaves pending only when all it depends on is done, though the list it was
\* dispatched from is old; it stays so because what is done is never undone.
DependenciesFirst ==
    \A t \in Tasks : status[t] # "pending" => \A d \in Deps[t] : status[d] \in Done

\* An outcome that is completed or skipped is final, whatever late worker, reviewer or
\* orchestrator comes after it.
DoneIsFinal ==
    [][\A t \in Tasks : status[t] \in Done => status'[t] = status[t]]_vars

\* No wake-up is lost: a task that is ready has somebody on the way to dispatching it,
\* unless a step failed, or a late retry of the orchestrator met a spent incident.
ReadyIsAttended ==
    faults = 0 /\ execution # None =>
        \A t \in Tasks : Ready(t) =>
            \/ \E a \in Actors :
                \/ apc[a] \in {"stored", "list", "corrected"}
                \/ apc[a] = "count" /\ on[a] = t
                \/ apc[a] \in {"each", "enqueue"} /\ t \in todo[a]
            \/ attempts[t] = MaxAttempts

\* The execution is completed only with all its tasks, and once they are done somebody
\* records it, however old the lists are that others refresh it from.
CompletionIsRecorded ==
    /\ execution = "completed" => \A t \in Tasks : status[t] \in Done
    /\ faults = 0 /\ execution # None /\ (\A t \in Tasks : status[t] \in Done) =>
        \/ execution = "completed"
        \/ \E a \in Actors :
            \/ apc[a] \in {"stored", "list", "each", "enqueue"}
            \/ apc[a] = "refresh" /\ verdict[a] = "completed"

\* Somebody has the task's work: its job, or the duty to store it, while it is queued;
\* its execution, or the error it came to, while it is running.
Carried(t) ==
    \/ status[t] = "queued" /\ jobs[t] > 0
    \/ \E a \in Actors :
        \/ status[t] = "queued" /\ apc[a] = "enqueue" /\ current[a] = t
        \/ status[t] = "queued" /\ apc[a] = "claimed" /\ on[a] = t
        \/ status[t] = "running" /\ apc[a] \in {"running", "caught"} /\ on[a] = t

\* Tasks that no job, list or retry takes any further: only pending ones are dispatched,
\* and only stopped ones retried.
Stranded == {t \in Tasks : status[t] \in {"queued", "running"} /\ ~Carried(t)}

\* A crash or an error of a database step strands the one task its actor was about, at
\* most; races between actors, retries and jobs handed out again strand none.
FaultStrandsOne == Cardinality(Stranded) <= faults

-----------------------------------------------------------------------------
(* The inductive invariant (proved in RunbookExecutionProofs) *)

\* Before there is an execution there is nothing to do.
NothingBefore ==
    execution = None =>
        /\ \A t \in Tasks : status[t] = "pending" /\ jobs[t] = 0 /\ notices[t] = 0
        /\ \A a \in Actors : apc[a] = "idle"

\* What an actor is about to dispatch has become ready and cannot become unready.
ListIsReady ==
    \A a \in Actors : apc[a] \in {"each", "enqueue"} =>
        \A t \in todo[a] : \A d \in Deps[t] : status[d] \in Done

\* Nobody runs a task before what it depends on is done.
RunsReady ==
    \A a \in Actors : apc[a] = "running" => \A d \in Deps[on[a]] : status[d] \in Done

\* A verdict of completion is right when it is written.
VerdictIsCurrent ==
    \A a \in Actors : apc[a] = "refresh" /\ verdict[a] = "completed" =>
        \A t \in Tasks : status[t] \in Done

RunbookInv ==
    /\ TypeOK
    /\ NothingBefore
    /\ OneRunner
    /\ ListIsReady
    /\ RunsReady
    /\ DependenciesFirst
    /\ VerdictIsCurrent
    /\ CompletionIsRecorded
    /\ ReadyIsAttended

=============================================================================
