---------------------------- MODULE ErpWriteback ----------------------------
(***************************************************************************)
(* The outbox through which an approved journal entry reaches the ERP      *)
(* (journal_entry_erp_writeback_service.ts), composed with the job queue   *)
(* that runs it: the handler of an erp_je_writeback job is a sequence of   *)
(* database and network steps, and the queue may start a second worker on  *)
(* the same entry when the first has crashed or is merely slow.            *)
(*                                                                         *)
(* An entry has one outbox row and one job, whose id is a hash of the      *)
(* entry's; the job is enqueued with maxAttempts = 1, so it is never       *)
(* retried, only reclaimed.                                                *)
(***************************************************************************)
EXTENDS Naturals, Sequences, FiniteSets

CONSTANTS
    Jobs,           \* the journal entries, and the jobs that post them
    Workers,        \* worker processes
    None,           \* SQL NULL
    MaxCrashes,     \* bound: worker deaths
    MaxOverruns,    \* bound: locks that expire under a live handler
    StepErrors      \* whether a step may fail before it has any effect

ASSUME ErpWritebackAssumption ==
    /\ None \notin Jobs /\ None \notin Workers
    /\ MaxCrashes \in Nat /\ MaxOverruns \in Nat
    /\ StepErrors \in BOOLEAN

VARIABLES
    status, attempts, due, lockAge, owner, created,     \* the jobs table
    wpc, wjob, wattempts, crashes, overruns,
    je,             \* journal_entries.status, from approved on
    wb,             \* journal_entry_erp_writebacks.status, "missing" without a row
    config,         \* the close calendar's: "on", "changed" (off, other connection), "moved" (other entity)
    step,           \* per worker: the next step of executeApprovedErpWriteback
    pushes,         \* history: calls to the ERP, per entry
    booked          \* history: whether the ERP holds the entry

Q == INSTANCE JobQueue WITH
        MaxAttempts <- 1, Unhandled <- {}, Keys <- {}, Key <- [j \in Jobs |-> None]

queueVars == <<status, attempts, due, lockAge, owner, created,
               wpc, wjob, wattempts, crashes, overruns>>
ledgerVars == <<je, wb, config, pushes, booked>>
vars == <<queueVars, ledgerVars, step>>

Undecided == {"pending", "posting"}

-----------------------------------------------------------------------------
(* The outbox row's conditional writes *)

\* createPendingWriteback: ON CONFLICT DO NOTHING.
CreatePendingWriteback(j) ==
    /\ wb[j] = "missing"
    /\ wb' = [wb EXCEPT ![j] = "pending"]

\* Mutant: the claim takes over a posting.
BeginPostingAgain(j) ==
    /\ wb[j] \in Undecided
    /\ wb' = [wb EXCEPT ![j] = "posting"]

\* beginPosting: the one-shot claim.
BeginPosting(j) ==
    /\ wb[j] = "pending"
    /\ wb' = [wb EXCEPT ![j] = "posting"]

\* markPosted, and what it comes to when the row is no longer posting.
MarkPosted(j) ==
    /\ wb[j] = "posting"
    /\ wb' = [wb EXCEPT ![j] = "posted"]

\* Mutant: the WHERE clause of markTerminal has no status.
MarkTerminalBlindly(j, s) == wb' = [wb EXCEPT ![j] = s]

\* markTerminal: from pending or posting, whoever put it there; else no row.
MarkTerminal(j, s) == wb' = [wb EXCEPT ![j] = IF @ \in Undecided THEN s ELSE @]

-----------------------------------------------------------------------------
(* Requests *)

\* requestApprovedErpWriteback, from the approve route or the recovery route:
\* nothing without the configuration, else the outbox row.
RequestApprovedErpWriteback(j) ==
    /\ config = "on"
    /\ CreatePendingWriteback(j)
    /\ UNCHANGED <<queueVars, je, config, pushes, booked, step>>

\* The same request's enqueue, or the dispatcher's after it failed.  The row
\* leaves pending only through the job, so a stale read of it finds the job's
\* id taken and inserts nothing.
Dispatch(j) ==
    /\ wb[j] = "pending"
    /\ Q!Enqueue(j)
    /\ UNCHANGED <<ledgerVars, step>>

\* An approver posts the entry through the API (postJE's compare-and-set).
PostJournalEntry(j) ==
    /\ je[j] = "approved"
    /\ je' = [je EXCEPT ![j] = "posted"]
    /\ UNCHANGED <<queueVars, wb, config, pushes, booked, step>>

\* The close calendar's settings change.
Configure(c) ==
    /\ config' = c
    /\ UNCHANGED <<queueVars, je, wb, pushes, booked, step>>

-----------------------------------------------------------------------------
(* executeApprovedErpWriteback, run by worker w for the job it claimed *)

Goto(w, s) == step' = [step EXCEPT ![w] = s]

At(w, s) == wpc[w] = "running" /\ step[w] = s

Continue(w, s) == Goto(w, s) /\ UNCHANGED queueVars

\* Either way the handler's finally block queues a reconcile of the close
\* orchestrator, and swallows that call's own errors.
Return(w) == Q!HandlerReturns(w) /\ Goto(w, "none")

Throw(w) == Q!HandlerThrows(w) /\ Goto(w, "none")

ClaimJob(w, j) ==
    /\ Q!ClaimNext(w, j)
    /\ Goto(w, "read")
    /\ UNCHANGED ledgerVars

\* Mutant: an interrupted posting is refused without being marked.
ReadWritebackUnmarked(w) ==
    /\ At(w, "read")
    /\ \/ wb[wjob[w]] = "posted" /\ Return(w)
       \/ wb[wjob[w]] = "pending" /\ Continue(w, "config")
       \/ wb[wjob[w]] \notin {"posted", "pending"} /\ Throw(w)
    /\ UNCHANGED ledgerVars

\* getWriteback: a posted row is done, a posting row is of unknown outcome, any
\* other state but pending refuses.
ReadWriteback(w) ==
    /\ At(w, "read")
    /\ \/ wb[wjob[w]] = "posted" /\ Return(w)
       \/ wb[wjob[w]] = "posting" /\ Continue(w, "ambiguous")
       \/ wb[wjob[w]] = "pending" /\ Continue(w, "config")
       \/ wb[wjob[w]] \notin {"posted", "posting", "pending"} /\ Throw(w)
    /\ UNCHANGED ledgerVars

\* getCloseCalendarConfig and the session's entity.
ReadConfig(w) ==
    /\ At(w, "config")
    /\ Continue(w, CASE config = "on"      -> "entry"
                     [] config = "changed" -> "cancel"
                     [] config = "moved"   -> "disown")
    /\ UNCHANGED ledgerVars

\* The configuration is off: the row is cancelled, and the job ends well if
\* there was still a row to cancel.
Cancel(w) ==
    /\ At(w, "cancel")
    /\ MarkTerminal(wjob[w], "cancelled")
    /\ \/ wb[wjob[w]] \in Undecided /\ Return(w)
       \/ wb[wjob[w]] \notin Undecided /\ Throw(w)
    /\ UNCHANGED <<je, config, pushes, booked>>

\* Mutant: the entity mismatch throws before the row is marked.
DisownUnmarked(w) ==
    /\ At(w, "disown")
    /\ Throw(w)
    /\ UNCHANGED ledgerVars

\* The entry belongs to another entity: cancelled, and the job fails.
Disown(w) ==
    /\ At(w, "disown")
    /\ MarkTerminal(wjob[w], "cancelled")
    /\ Throw(w)
    /\ UNCHANGED <<je, config, pushes, booked>>

\* Mutant: an approved entry goes to the ERP without being posted first.
ReadEntryWithoutPosting(w) ==
    /\ At(w, "entry")
    /\ Continue(w, "claim")
    /\ UNCHANGED ledgerVars

\* getJournalEntryWithLines: an approved entry is posted internally first.
ReadEntry(w) ==
    /\ At(w, "entry")
    /\ Continue(w, IF je[wjob[w]] = "approved" THEN "post" ELSE "claim")
    /\ UNCHANGED ledgerVars

\* postJE: the compare-and-set wins, or it is lost, or a control refuses.
InternalPost(w) ==
    /\ At(w, "post")
    /\ je[wjob[w]] = "approved"
    /\ je' = [je EXCEPT ![wjob[w]] = "posted"]
    /\ \E s \in {"claim", "post_failed"} : Continue(w, s)    \* postJE may still throw after its write
    /\ UNCHANGED <<wb, config, pushes, booked>>

InternalPostRefused(w) ==
    /\ At(w, "post")
    /\ Continue(w, "post_failed")
    /\ UNCHANGED ledgerVars

PostFailed(w) ==
    /\ At(w, "post_failed")
    /\ MarkTerminal(wjob[w], "failed")
    /\ Throw(w)
    /\ UNCHANGED <<je, config, pushes, booked>>

\* beginPosting, and the error of a claim that is lost.
Claim(w) ==
    /\ At(w, "claim")
    /\ BeginPosting(wjob[w])
    /\ Continue(w, "connection")
    /\ UNCHANGED <<je, config, pushes, booked>>

ClaimLost(w) ==
    /\ At(w, "claim")
    /\ wb[wjob[w]] # "pending"
    /\ Throw(w)
    /\ UNCHANGED ledgerVars

\* Mutant: the receipt is written before the ERP has answered.
ConnectWithReceipt(w) ==
    /\ At(w, "connection")
    /\ wb' = [wb EXCEPT ![wjob[w]] = "posted"]
    /\ Continue(w, "push")
    /\ UNCHANGED <<je, config, pushes, booked>>

\* getConnection finds the connection, or does not.
Connect(w) ==
    /\ At(w, "connection")
    /\ Continue(w, "push")
    /\ UNCHANGED ledgerVars

NoConnection(w) ==
    /\ At(w, "connection")
    /\ MarkTerminal(wjob[w], "failed")
    /\ Throw(w)
    /\ UNCHANGED <<je, config, pushes, booked>>

\* pushJournalEntry: the ERP books the entry or not, and the answer is a success
\* (only if it did) or an error, which may hide a booking.
PushJournalEntry(w) ==
    /\ At(w, "push")
    /\ pushes' = [pushes EXCEPT ![wjob[w]] = @ + 1]
    /\ \/ booked' = [booked EXCEPT ![wjob[w]] = "yes"] /\ Continue(w, "record")
       \/ booked' = [booked EXCEPT ![wjob[w]] = "yes"] /\ Continue(w, "ambiguous")
       \/ booked' = booked /\ Continue(w, "ambiguous")
    /\ UNCHANGED <<je, wb, config>>

\* Mutant: an error answer is taken for a rejection.
ReconciliationNotRequired(w) ==
    /\ At(w, "ambiguous")
    /\ MarkTerminal(wjob[w], "failed")
    /\ Throw(w)
    /\ UNCHANGED <<je, config, pushes, booked>>

\* No conclusive answer, now or in an earlier run: a human has to look.
ReconciliationRequired(w) ==
    /\ At(w, "ambiguous")
    /\ MarkTerminal(wjob[w], "reconciliation_required")
    /\ Throw(w)
    /\ UNCHANGED <<je, config, pushes, booked>>

\* The audit event, then the receipt.
RecordEvent(w) ==
    /\ At(w, "record")
    /\ Continue(w, "receipt")
    /\ UNCHANGED ledgerVars

Receipt(w) ==
    /\ At(w, "receipt")
    /\ MarkPosted(wjob[w])
    /\ Return(w)
    /\ UNCHANGED <<je, config, pushes, booked>>

ReceiptLost(w) ==
    /\ At(w, "receipt")
    /\ wb[wjob[w]] # "posting"
    /\ Throw(w)
    /\ UNCHANGED ledgerVars

\* The database or the process fails a step before it has any effect.
StepFails(w) ==
    /\ StepErrors
    /\ wpc[w] = "running"
    /\ Throw(w)
    /\ UNCHANGED ledgerVars

Execute(w) ==
    \/ ReadWriteback(w) \/ ReadConfig(w) \/ Cancel(w) \/ Disown(w)
    \/ ReadEntry(w) \/ InternalPost(w) \/ InternalPostRefused(w) \/ PostFailed(w)
    \/ Claim(w) \/ ClaimLost(w) \/ Connect(w) \/ NoConnection(w)
    \/ PushJournalEntry(w) \/ ReconciliationRequired(w)
    \/ RecordEvent(w) \/ Receipt(w) \/ ReceiptLost(w)

-----------------------------------------------------------------------------
(* The queue around the handler *)

\* runOne's last statement.  With one attempt a failed job is dead at once.
Finish(w) ==
    /\ Q!Complete(w) \/ Q!DeadLetter(w)
    /\ UNCHANGED <<ledgerVars, step>>

\* complete() throws with or without its effect: the catch block dead-letters the job.
CompletionFails(w) ==
    /\ Q!CompleteThrows(w)
    /\ UNCHANGED <<ledgerVars, step>>

Crash(w) ==
    /\ Q!Crash(w)
    /\ Goto(w, "none")
    /\ UNCHANGED ledgerVars

LockAges(j) == Q!LockAges(j) /\ UNCHANGED <<ledgerVars, step>>

Init ==
    /\ Q!Init
    /\ je = [j \in Jobs |-> "approved"]
    /\ wb = [j \in Jobs |-> "missing"]
    /\ config = "on"
    /\ step = [w \in Workers |-> "none"]
    /\ pushes = [j \in Jobs |-> 0]
    /\ booked = [j \in Jobs |-> "no"]

WorkerStep(w) ==
    \/ \E j \in Jobs : ClaimJob(w, j)
    \/ Execute(w)
    \/ Finish(w)

Next ==
    \/ \E j \in Jobs : RequestApprovedErpWriteback(j) \/ Dispatch(j) \/ PostJournalEntry(j)
    \/ \E c \in {"on", "changed", "moved"} : Configure(c)
    \/ \E j \in Jobs : LockAges(j)
    \/ \E w \in Workers : WorkerStep(w) \/ StepFails(w) \/ CompletionFails(w) \/ Crash(w)

Spec == Init /\ [][Next]_vars

\* The dispatcher scans for ever, workers keep polling, the ERP call ends.
FairSpec ==
    /\ Spec
    /\ \A w \in Workers : WF_vars(WorkerStep(w))
    /\ \A j \in Jobs : WF_vars(Dispatch(j)) /\ WF_vars(LockAges(j))

-----------------------------------------------------------------------------
(* Properties *)

Steps == {"none", "read", "config", "cancel", "disown", "entry", "post", "post_failed",
          "claim", "connection", "push", "ambiguous", "record", "receipt"}

TypeOK ==
    /\ Q!TypeOK
    /\ je \in [Jobs -> {"approved", "posted"}]
    /\ wb \in [Jobs -> {"missing", "pending", "posting", "posted", "failed",
                        "reconciliation_required", "cancelled"}]
    /\ config \in {"on", "changed", "moved"}
    /\ step \in [Workers -> Steps]
    /\ \A w \in Workers : step[w] = "none" <=> wpc[w] # "running"
    /\ pushes \in [Jobs -> Nat]
    /\ booked \in [Jobs -> {"no", "yes"}]

\* "Execute exactly one approved-only writeback attempt": through crashes,
\* reclaims, overruns, lost answers and configuration changes, the ERP is called
\* at most once for an entry, whatever it does with its idempotency key.
PushedAtMostOnce == \A j \in Jobs : pushes[j] <= 1

\* What the close gate relies on: a posted receipt stands for an entry the ERP
\* holds, and holds once.
ReceiptIsConclusive ==
    \A j \in Jobs : wb[j] = "posted" => booked[j] = "yes" /\ pushes[j] = 1

\* "Only approved-and-posted journal entries can reach the ERP", although the
\* entry may be posted by somebody else between the handler's two reads.
ErpHoldsOnlyPosted == \A j \in Jobs : pushes[j] > 0 => je[j] = "posted"

\* Until a handler overruns its lock, an entry the ERP may hold is never reported
\* as failed or cancelled: it is posting, posted, or waits for a human.
BookedIsNotDismissed ==
    overruns = 0 =>
        \A j \in Jobs : booked[j] = "yes" => wb[j] \in {"posting", "posted", "reconciliation_required"}

\* A receipt is final, and so is every verdict: no worker, however late, takes an
\* outbox row back.
VerdictIsFinal ==
    [][\A j \in Jobs : wb[j] \notin {"missing", "pending", "posting"} => wb'[j] = wb[j]]_vars

\* Why these hold: a worker past beginPosting is alone there and has not pushed
\* yet, the row can never be claimed again, and a worker past the internal post
\* finds the entry posted.
Claimed(w) == step[w] \in {"connection", "push"}

ClaimIsExclusive ==
    \A v, w \in Workers : Claimed(v) /\ Claimed(w) /\ wjob[v] = wjob[w] => v = w

ClaimIsUnspent ==
    \A w \in Workers : Claimed(w) =>
        wb[wjob[w]] \notin {"missing", "pending"} /\ pushes[wjob[w]] = 0

UnclaimedIsUnpushed ==
    \A j \in Jobs : wb[j] \in {"missing", "pending"} => pushes[j] = 0

ConfirmedIsBooked ==
    \A w \in Workers : step[w] \in {"record", "receipt"} =>
        booked[wjob[w]] = "yes" /\ pushes[wjob[w]] = 1

PastPostIsPosted ==
    \A w \in Workers : step[w] \in {"claim", "connection", "push"} => je[wjob[w]] = "posted"

WritebackInv ==
    /\ TypeOK
    /\ ClaimIsExclusive
    /\ ClaimIsUnspent
    /\ UnclaimedIsUnpushed
    /\ ConfirmedIsBooked
    /\ PastPostIsPosted
    /\ PushedAtMostOnce
    /\ ReceiptIsConclusive
    /\ ErpHoldsOnlyPosted

\* The handler's steps are invisible to the queue: whatever the outbox does, the jobs
\* table and the workers behave as JobQueue says, for jobs of one attempt, all handled.
ImplementsQueue == Q!Spec

\* A job of the outbox that completed or died is never run again, not even by late writers
\* after an overrun or by a completion whose answer was lost: with maxAttempts = 1 whatever
\* they write by id is a verdict too, and nothing settled is claimed.
JobIsNeverRunAgain ==
    [][\A j \in Jobs : status[j] \in Q!Settled => status'[j] \in Q!Settled]_vars

\* Why a booking is not dismissed: without an overrun the queue's lock makes a handler
\* the only one on its entry, so what it has read of the outbox row stays true until it
\* writes, and a row it may still dismiss has not been pushed.
QueueIsExclusive == Q!ExclusiveUntilOverrun /\ Q!AgedIsAbandoned

Dismissable == {"config", "cancel", "disown", "entry", "post", "post_failed", "claim",
                "connection", "push"}

HandlerIsAlone ==
    overruns = 0 => \A w \in Workers :
        /\ step[w] \in Dismissable => pushes[wjob[w]] = 0
        /\ Claimed(w) => wb[wjob[w]] = "posting"

BookedIsPushed == \A j \in Jobs : booked[j] = "yes" => pushes[j] > 0

BookingInv ==
    /\ WritebackInv
    /\ QueueIsExclusive
    /\ HandlerIsAlone
    /\ BookedIsPushed
    /\ BookedIsNotDismissed

\* Nothing undecided is dropped: while no step fails and no handler overruns its lock, a
\* row that is pending or posting has a job the queue will still run, or a handler at work
\* on it, through crashes and reclaims.  The finite part of OutboxIsDecided below.
OutboxIsCarried ==
    ~StepErrors /\ overruns = 0 =>
        \A j \in Jobs :
            /\ wb[j] = "missing" => status[j] = "absent"
            /\ wb[j] = "posting" => status[j] = "locked"
            /\ wb[j] \in Undecided =>
                  /\ status[j] \notin Q!Settled
                  /\ \A w \in Workers : wpc[w] # "idle" /\ wjob[w] = j => wpc[w] = "running"

\* Why: what a handler has read of its row is still so when it writes.
BeforeClaim == {"config", "cancel", "disown", "entry", "post", "post_failed", "claim"}

PendingUntilClaimed ==
    overruns = 0 => \A w \in Workers : step[w] \in BeforeClaim => wb[wjob[w]] = "pending"

\* An outbox row is decided in the end: the dispatcher finds it, a crashed
\* worker's job is reclaimed, and a posting of unknown outcome goes to a human.
\* (With handlers that end within their lock: a late worker's dead letter takes
\* the job of a crashed one away, and nothing else looks at a posting row.)
OutboxIsDecided ==
    \A j \in Jobs : wb[j] \in Undecided ~> wb[j] \notin Undecided
=============================================================================
