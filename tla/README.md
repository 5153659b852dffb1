# A verification project for the financial-close platform

TLA+ modules, TLC runs and TLAPS proofs about the parts of the platform whose
correctness depends on concurrency, failure and ordering. Paths are relative to
the repository; `services/` stands for `src/services/`, `repositories/` for
`src/db/repositories/`.

## 1. The system

A tenant closes an accounting period in a *close session*. Preparers load a trial
balance, reconcile accounts, write and approve adjusting journal entries and
generate statements; a reviewer certifies the package (a ledger snapshot and a
signed artifact), subsequent events are reviewed, the session is locked. A job
worker runs the long parts, posts approved entries to the ERP and drives runbooks.
Everything is an Express handler or a worker loop over Postgres: no state lives in
a process, every `await` lets another request or process in, and the only orders
are those of row locks, advisory locks, conditional updates and unique indexes.

| Component | State | Operations | What makes it correct |
|---|---|---|---|
| Close session (`services/close_session_service.ts`) | one `close_sessions` row, snapshots, the artifact | advance, PATCH status, certify, reject, reopen, review events, confirm, lock | no state past review without its certification; segregation of duties; one snapshot per submission; a rejection is not overtaken before it is closed; locked is terminal |
| Subsequent events (`services/subsequent_event_service.ts`) | events and dispositions | create, dispose, `isReviewComplete` | the lock waits for them |
| Write guard (`lib/session_write_guard.ts`) | none | checked before a write | certified sessions do not change |
| Job queue (`repositories/job_repository.ts`, `services/job_worker.ts`) | `jobs` | enqueue, claim, complete, fail, dead-letter | one worker per job, every job settles, one completion per key |
| ERP writeback (`services/journal_entry_erp_writeback_service.ts`) | one outbox row per entry, its job | request, dispatch, execute | one call to the ERP per entry, and a receipt only for a booking |
| Journal entries (`services/journal_entry_service.ts`) | entry, lines, evidence | draft, propose, approve, reject, post, export, delete, reverse | one decision, approver is not creator, posted is immutable |
| Audit ledger (`repositories/audit_ledger_repository.ts`) | hash chain, checkpoint | append, verify | the chain is linear in the order it is read, verification sees every entry |
| Cascade and statements (`services/cascade_engine.ts`, `services/statement_package_service.ts`) | stale flag, packages | invalidate, generate | statements called current are of the current trial balance |
| Runbooks, orchestrator, scheduler | executions, tasks, jobs | instantiate, dispatch, execute, resolve, reconcile, scan | a task runs once and only when its predecessors are done |
| Reconciliations, issues, HITL, accounting memory | rows with a status | propose, decide, supersede | one decision, no stale one |

`PROJECT.json` lists every component, the ones left out too. How they interact:
handlers call services, services call repositories with the pool or with the
client of their transaction; a mutation of the ledger calls the cascade, which
marks statements stale and recomputes readiness; approval of an entry inserts an
outbox row and a job; the worker's handlers call the same services as the API.

What is hard: checks on a status read before `BEGIN`; transactions that go back to
the pool they took their client from; writes by id alone after a lock has expired;
crashes between the steps of a handler; an ERP answer that never arrives; two
clocks compared. `PROJECT.json` "hazards" gives the lines.

## 2. Modules

| Module | Models | State and actions |
|---|---|---|
| `CloseLifecycle` | the promise of the header of `close_session_service.ts` | `phase`, `certs`; one action per arrow |
| `CloseSession` | the session row and the requests on it | row columns by name; per request its next step (`pc`), handler, caller and what it has read. One action per database step, named after the handler |
| `MCCloseSession`, `CloseSessionProofs` | instances, proofs | |
| `JobQueue` | the `jobs` table and the worker loop | row columns by name, time as `due` and `lockAge`; one action per repository statement, handler outcome, crash and passage of time |
| `MCJobQueue`, `JobQueueProofs` | instances, proofs | |
| `ErpWriteback` | the outbox, dispatcher and handler, composed with `JobQueue` by `INSTANCE` | outbox status, entry status, configuration, per worker the next `step`; one action per step of `executeApprovedErpWriteback` |
| `MCErpWriteback`, `ErpWritebackProofs` | instances, proofs | |
| `JournalEntry` | journal entries, their lines and evidence links, the triggers on them | row columns by name; per request its next statement (`pc`), entry and caller. One action per statement that writes, one (`Read`) for what a handler tests first |
| `MCJournalEntry`, `JournalEntryProofs` | instances, proofs | |
| `AuditLog` | what a reader of the audit ledger may rely on | a sequence, and whether the clocks have agreed so far; `Extend`, `Disorder` |
| `AuditLedger` | the hash chain, its lock and trigger, verification and its checkpoint | rows by column; per transaction its next statement (`wpc`) and what it has read; per verification its next step (`vpc`) and the rows left to visit |
| `MCAuditLedger`, `AuditLedgerProofs` | instances, proofs | |
| `StatementPackages` | statement packages and `statements_stale_since`, as cascade and generation change them | per change and per generation its next step, the clocks both read, the trial balance a generation read |
| `MCStatementPackages`, `StatementPackagesProofs` | instances, proofs | |
| `RunbookExecution` | the tasks of an execution, their jobs, and the orchestrator's retries | task and execution status by name; jobs and failure reports outstanding; per actor its next step (`apc`), the job it holds and what its dispatch loop has left |
| `MCRunbookExecution`, `RunbookExecutionProofs` | instances, proofs | |

**CloseSession.** A request starts (role test, `Start`), then takes its steps:
reads from the pool before the transaction (`Read`, `LockReview`), `Begin` (a client
of the pool), the row (`LockRow`, or the write itself when the transaction needs
nothing else), pool queries inside the transaction (`ComputeReadiness`,
`CertifyTrialBalance`, the issue of a reopen), the commit. `Abort` is an error at
any point: `withTransaction` rolls back. A transaction that uses only its own client
is one action, since its uncommitted writes are invisible; one that queries the pool
half-way keeps the row lock between actions. The trial balance is the number of
entries posted; readiness is the absence of hard blockers, told apart only into the
rejection's issue (`rejection`: opened by `Reject`, closed and reopened by `CloseIssue`
and `ReopenIssue`) and the rest (`blockers`, which come and go); staleness of statements
is set and cleared freely. `reopenIssue` tests the issue's status and never the
session's, so a certified session can have its closed rejection reopened: the property
`RejectedIsNotCertified` is about a rejection nobody has closed.
Left out: audit events of a transition (they commit with it), formatting of
snapshots and artifacts, the readiness rules themselves.

**JobQueue.** `claimNext` takes the oldest claimable row, stepping over those other
workers are claiming (`FOR UPDATE SKIP LOCKED`); `complete`, `fail` and `deadLetter`
write by id, as the code does. `LockAges` is five minutes passing: on the lock of a
dead worker, or of a slow one (an *overrun*). `CompleteThrows` is `complete()` failing
on the unique index or with the database away, before its update or after its commit:
it is in the handler's `try`, so the catch takes a job that reads `completed` back to
`pending`, or dead-letters it. Jobs a handler enqueues itself are enqueued by the environment.

**ErpWriteback.** An entry's job id is a hash of the entry's id, so entry and job are
one constant set. The ERP books an entry or not, independently of the answer, except
that a success is only given for a booking. `Configure` may happen between any two
steps. `StepFails` is a database error before the step's effect. The general
`push-journal-entry` route and the close-adjustment push call the same adapter with
caller-supplied lines; they do not touch the outbox and are outside `pushes`.

**JournalEntry.** Lines are counted, and `BalancedAt` says after how many of them debits
equal credits; the entry's total reaches the evidence threshold, where it does, with its
last line. `asked` is the number of lines the creator was given. The triggers of
migrations 131, 155 and 217 are guards of the statements they fire on. Three things
follow from them: an export never succeeds (155 refuses the update), `reversed_by_je_id`
is never filled (the same), and an entry that has lines is never deleted (217 names a
column the lines do not have). So `Export` has no write, a reversal has no guard against
an earlier one, and deletion is left with entries whose lines are not in yet. Left out:
period checks and the shadow audit, which may refuse a post at any time (`Fail`), memo
and provenance validation, audit events other than the posting's, file attachments.

**AuditLedger.** An entry's hash is the entry: hashes do not collide, and the triggers
refuse every change of a row, so `entry_hash` never disagrees with its contents and the
only breaks a verification can see are in the links. Rows are ordered by `created_at`
alone, and a tie is any order. `ReadClock` is `new Date()` of the appending process: any
reading, compared with nothing. So two appends of one transaction may share a
millisecond, and a process may be behind another; then the entry that follows the head is
not the row a reader sorts after it, a verification reports an untouched chain as broken,
and one that resumes from a checkpoint skips rows of its millisecond. Migration 156:3 says
"so the chain is never broken"; the code keeps that only while the clocks advance along
the chain (`ClocksAdvance`), and the properties say so: `ChainIsLinear` that the order of
reading is the chain exactly so long, the others what holds until then. One tenant; batch sizes are left out, since a batch is a prefix of the same ordered read.

**StatementPackages.** The trial balance is the set of changes in it, a package the set
it was computed from. A change commits, and raises the flag afterwards in statements of
its own (`InvalidateStatements`, `ReadClock`, `SetStatementsStaleSince`); it may fail
between them (`LeaveUnmarked`), and nothing repairs that. `Tick` is the least time from a
change to its flag's clock: with 0, a generation of the same millisecond may lower the
flag of a change it has not read. Left out: the arithmetic of statements, variances,
the cascade's readiness and auto-advance steps.

**RunbookExecution.** A worker, a reviewer's request or an orchestrator job is an actor;
it updates one task conditionally on its status and then dispatches: one list of the
tasks, one conditional update and one enqueue for each that was ready, a second list, one
write of the execution's status. A job is held until its handler returns; after a crash it is
handed out again, as `JobQueue` says. `EnqueueFails` is an error that may come before or
after the job was stored; `Throw` an error that leaves a handler, whose report to the
orchestrator may be lost. An error inside `executeRunbookTask` is caught there first
(`Raise`, `Catch`), also one of the dispatch after the outcome was stored, and the catch
fails the task where it is running, by whomever. A worker whose dispatch throws after a
reviewer retried its blocked task fails the row of the worker that runs it now, which can
then be reset and run a second time beside it; `usurped` remembers such tasks, and
`OneRunner` is about the others. The orchestrator's correction counts an attempt, resets the
task and dispatches; its limits are the attempt count of an incident and the run's steps.
Two more facts the model makes plain: a task left `queued` by a crash between its update
and its enqueue, or `running` by one in its handler, waits for ever (the job that is
handed out again no longer finds it queued); a reset whose attempt is refused by the
limit leaves the task `pending`, with nobody to dispatch it until the next event. Left
out: instantiation of runbooks from templates, results and evidence, the wording of the
classification of errors, the run's own status.

## 3. Runs

Passing runs:

| Run | Checks | Bounds, and why they are enough |
|---|---|---|
| `close_safety` | `TypeOK`, `PastReviewIsCertified`, `CertifierIsNotSubmitter`, `OneSnapshotPerReview`, `RejectedIsNotCertified` | two requests in flight (every race in the code is between two), two approvers (submitter and certifier may differ), requests that submit stop after the first submission but those under way go on, so a second submission happens |
| `close_sequential` | `ImplementsLifecycle`: refinement of `CloseLifecycle` | one request at a time, three users, an event, two entries, two submissions (so certify, reopen, certify happens) |
| `close_liveness` | `RequestsFinish` | two requests, three connections |
| `jobs` | `TypeOK`, `ExclusiveUntilOverrun`, `DeadIsExhausted`, `UnsettledByItsWorker`, `EveryJobSettles` | three jobs, two of one key and one without handler; two workers (a late one and its successor), two attempts, a crash, an overrun; the theorems cover any number of each |
| `journal` | `TypeOK`, `PreparerDoesNotApprove`, `EffectsOnce`, `UnbalancedIsUnfinished`, `ReversalIsOfPosted`, `DecisionIsFinal` | two requests (one admitted on what the other changes), two users (preparer and approver), two entries (an original and its reversal or correction), a debit and a credit (so that a creation can be half done); requests and users are symmetric |
| `erp_safety` | `PushedAtMostOnce`, `ReceiptIsConclusive`, `ErpHoldsOnlyPosted`, `BookedIsNotDismissed`, `VerdictIsFinal` | one entry (entries share nothing but the queue), three workers, a crash, two overruns, failing steps |
| `erp_liveness` | `OutboxIsCarried`, `OutboxIsDecided` | two workers, two crashes, handlers within their lock |
| `audit` | `TypeOK`, `ChainIsLinear`, `NoFalseAlarm`, `CheckpointCoversPrefix`, `ImplementsLog`: refinement of `AuditLog` | two transactions (one waits on the other's lock), two verifications (one advances the checkpoint the other has read), three entries (a transaction appends twice while another appends once), three clock readings, which may tie or go back |
| `statements` | `TypeOK`, `VersionsAreDense`, `LastMarkIsAnswered` | two changes (their flags may arrive out of order), two generations (they may compute one version), a clock of three readings, so before, at and after differ |
| `runbook` | `TypeOK`, `OneRunner`, `DependenciesFirst`, `ReadyIsAttended`, `CompletionIsRecorded`, `FaultStrandsOne`, `DoneIsFinal` | two actors (one completes the last dependency while the other dispatches), three tasks (two ready together, one waiting for both), two resets and one attempt (so the limit refuses one), a fault |

Runs that show where the code departs from what the repository says of it (the
quotes are in `PROJECT.json` "findings"):

| Run | Property | What happens |
|---|---|---|
| `close_terminal` | `LockedIsTerminal` | a request that read `certified` writes `in_progress` after the lock |
| `statements_current` | `UnflaggedIsCurrent` | two changes raise the flag out of the order of their clocks, and a generation between them lowers it |

Both are interleavings of committed statements and need no fault. Six more departures
are in the models without a run of their own, because no test in the code stands
against them: an entry posted after the certification that committed since the guard was
read (`CloseSession!Post`); the second certification of a session, which keeps the
artifact of the first; as many transactions that go back to the pool as it has
connections, each waiting for another (`close_liveness` has one to spare); a slow
worker that cancels the outbox row another is posting, after a change of configuration;
the chain that a tie of clocks breaks; the runner whose task a late catch fails.

Deadlock is checked in `CloseSession`, where a request can always fail. The queue and
the outbox may come to rest (all jobs settled), and so may the journal when its ids are
used up, and statements and runbooks when their changes and resets are, so their runs
switch it off. The audit ledger can always be verified again, and is checked.

**Fairness.** `CloseSession`: strong fairness of each request's steps, because
Postgres queues lock waiters and pg.Pool queues callers, both first-in first-out;
new requests and errors owe nothing. `JobQueue`: weak fairness of a worker's own
steps (the loop polls for ever, handlers end) and of time. `ErpWriteback`: the same,
and of the dispatcher, which scans every minute. Crashes and overruns are bounded
constants, never fair.

**Mutants.** Next to the definitions stand variants marked `Mutant`, each a plausible
slip in the code (a missing `FOR UPDATE`, a dropped status test, an off-by-one). For
each property one of them, put in place of the original, makes the run fail.

## 4. Proofs

All for arbitrary constants, from the named assumptions only (`CloseSessionAssumption`,
`JobQueueAssumption`, `ErpWritebackAssumption`, `JournalEntryAssumption`,
`AuditLedgerAssumption`, `StatementPackagesAssumption`, `RunbookAssumption`: `None` is
nobody, bounds are naturals, an entry without lines balances, a runbook has finitely many
tasks). What the staleness flag
owes to the clock has `Tick > 0` as a hypothesis of the theorem. Every module's `TypeOK` is a theorem.

* `CloseSessionProofs`: `Spec => []CloseInv`, and from it the types and the four safety
  properties of `close_safety`. None is inductive alone. `CloseInv` adds who holds the
  row lock (`LockHolder`), which handlers can be at which step (`StepOps`), that a
  certification under way still finds the row it tested (`CertifyUnderWay`), that the
  handlers that write blindly have at least seen a certified session
  (`BlindWriters`), and that snapshots are older than the submission under review
  (`ReviewCount`).

  The refinement of `CloseLifecycle` is false of the code as it stands (`close_terminal`),
  and three theorems say what it takes. Reopen, the review of events and the lock test the
  status before `BEGIN` and write by id. `LifecycleTheorem`: the refinement holds wherever
  what they read is still so when they write (`ReadIsFresh`). `DisciplinedTheorem`: that is
  so where none of the three overlaps another of them or a PATCH (`BlindRunsAlone`), with
  anything else running beside them; `TerminalTheorem`: then locked is terminal.
  `SequentialTheorem`: with one request at a time the hypothesis is met, for every value of
  the other constants, which is what `close_sequential` checks on an instance. The
  argument: a step that changes the status is one of a few (`StatusStep`, `OtherSteps`),
  each either a blind write, whose read the hypothesis keeps fresh, or a write under the
  row lock, where an advance finds the row it locked (`AdvanceUnderWay`).
* `JobQueueProofs`: `Spec => []JobInv`, exclusion, bounded attempts (`AttemptsBounded`),
  dead letters, and `UnsettledByItsWorker` as an action property. `JobInv` adds that an aged lock has no worker
  behind it before an overrun (`AgedIsAbandoned`), that the attempts a worker read are
  the row's, or lower after an overrun (`ReadAttempts`), and `AttemptsLeft`.
* `ErpWritebackProofs`: `Spec => []WritebackInv`, `PushedAtMostOnce`,
  `ReceiptIsConclusive`, `ErpHoldsOnlyPosted`, and `VerdictIsFinal`. `WritebackInv` adds
  that one worker at most is between claim and push (`ClaimIsExclusive`), that its
  claim is unspent and the row can never be pending again (`ClaimIsUnspent`), that an
  unclaimed row has not been pushed, that a confirmed push is a booking, and that
  whoever is past the internal post finds the entry posted.

  `QueueRefinement`: the composition implements `JobQueue`, step by step; handler steps
  leave the queue alone, or end in its `HandlerReturns` or `HandlerThrows`. The queue's
  theorems are then inherited, not proved again (`INSTANCE JobQueueProofs`): exclusion
  (`QueueTheorem`). `NeverRunAgainTheorem` uses its types: a job of one attempt that was
  settled stays so, whoever writes late.
  `BookedIsNotDismissed` needs that exclusion: `BookingInv` adds it, and that a handler
  which may still dismiss its row has not pushed. `CarriedTheorem` is the safety part of
  `OutboxIsDecided`: without failing steps and overruns, an undecided row's job is not
  settled and whoever holds it is still in the handler, through crashes and reclaims; it
  needs that the row is pending until its handler's claim (`PendingUntilClaimed`).
* `JournalEntryProofs`: `Spec => []JournalInv`, the invariants of the run, no lines under a
  deleted entry, and `DecisionIsFinal` as an action property. `JournalInv` adds that a request under way has
  read an inserted entry, an approval its creator (`RequestsHaveRead`), that a row not
  inserted is blank, that only decided entries have an approver, that creators were given
  balanced lines and insert no more (`AskedIsBalanced`), and that one request at most is
  between the update to posted and its effects (`OnePoster`).
* `AuditLedgerProofs`: `Spec => []AuditInv`, whatever the clocks say, and from it the
  chain, no false alarm and the checkpoint. `AuditInv` adds that the holder of the lock
  is the only one with uncommitted rows (`PendingIsOwn`), that what a transaction sees
  hangs together (`VisibleIsRooted`) and, where its links go forward in time, is a chain
  (`VisibleIsLinear`), that the head an append has read is still one when it inserts, and,
  while `ClocksAdvance`, that a verification's last row and the rows it has left split
  what was committed when it read (`CheckInv`). Rows never change, so clocks that disagree
  once do for ever, and the conditional parts are inductive. `LogTheorem`: the ledger
  implements `AuditLog`, which promises growth at the end until the first disorder.
  The mapping reads the committed rows in the order of `created_at`. That such a reading
  exists is carried along as part of the induction over steps, and that it is the only one
  follows from the rank of a row among them (`ReadingRank`, `RankIsUnique`), so no
  induction over the chain is needed; a commit appends its rows, all later than what was
  there (`ReadingExtends`, `ReadingAppends`).
* `StatementPackagesProofs`: versions from `VersionIsFree` without an assumption on the
  clock (the unique index orders the inserts); with `Tick > 0`, `Spec => []PackagesInv`,
  the answered mark and, as an action property, what lowers the flag. `PackagesInv` adds
  that a change precedes its flag's clock, that a generation has read every change from
  before it began, and that its decision to lower the flag holds until it commits.

  `UnflaggedIsCurrent`, which certification relies on, fails in two ways: the flag's clock
  is set back by a slower process (`statements_current`), or a generation that read the
  trial balance early overtakes a later one and stores the higher version. `MarksTheorem`:
  where no raise sets the clock back (`FlagKeepsItsClock`), every change that ever raised
  the flag is in some package when it is down. `CurrentTheorem`: where besides generations
  do not overlap after their read (`GenerationsAreSerial`), it is in the latest one. A
  change that raised the flag stays below it until it is answered (`MarkedIsFlagged`), and
  packages grow with their versions (`SourcesGrow`). TLC confirms, on two changes and two
  generations, both invariants under the hypotheses and a violation without either of them.
* `RunbookExecutionProofs`: `Spec => []RunbookInv`, one runner per task (until a late
  catch), dependencies first, a recorded completion, an attended ready task, and `DoneIsFinal` as an action
  property. `RunbookInv` adds that nothing is under way before there is an execution,
  that what an actor is about to dispatch, or runs, stays ready (`ListIsReady`,
  `RunsReady`, from the finality of what is done) and that a verdict of completion is right when it is written.
  `StrandedTheorem`: tasks left queued without a job, or running without a runner, are no
  more than the faults that happened. A step without a fault strands none (`NoneStranded`),
  and a fault takes one actor, which carries one task (`OneStranded`).

Each has one lemma per group of conjuncts and in it one step per action.

Only model-checked: the liveness properties (`RequestsFinish`, `EveryJobSettles`,
`OutboxIsDecided`), which rest on fairness and are out of the prover's reach. Every
invariant, action property and refinement of the passing runs is a theorem. Not listed
with a run: `LoweredByPackage`, `MarksAreAnswered`, `JobIsNeverRunAgain`, which are theorems.

## 5. Plan

In order of importance; the first seven are done.

1. `CloseSession` with `CloseLifecycle`. 2. `JobQueue`. 3. `ErpWriteback`.
4. `JournalEntry`. Left there: a posted entry keeps its evidence and is reversed at most
   once, which the code does not guarantee; `ErpWriteback`'s view of the entry
   (approved, posted) as a refinement of it.
5. `AuditLedger` with `AuditLog`. 6. `StatementPackages`. 7. `RunbookExecution` with the
   orchestrator's retries.
8. Left: the orchestrator's run status and depth limit, the scheduler's scan, period
   reconciliations, the rest of issues, HITL staging and the rest of accounting memory, each
   rows with a status of their own.
9. Proofs left: that `JournalEntry` implements the entry that `ErpWriteback` sees.

## 6. Not modelled

Parsing, mapping and classification of ledgers, statement arithmetic, the accounting
modules, prompts and model calls, adapters' HTTP, authentication, notifications,
frontend and scripts, which are most of the repository's lines: data or plumbing with no
protocol of their own, or outside what a model checker reaches.
