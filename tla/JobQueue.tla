------------------------------ MODULE JobQueue ------------------------------
(***************************************************************************)
(* The durable job queue: the jobs table (job_repository.ts) and the       *)
(* worker processes that poll it (job_worker.ts).  Each statement of the   *)
(* repository is one step; a handler runs between two of them for as long  *)
(* as it likes, so its lock may pass the five-minute threshold while it is *)
(* still running, and its process may die at any point.                    *)
(***************************************************************************)
EXTENDS Naturals, Sequences, FiniteSets

CONSTANTS
    Jobs,           \* job ids
    Keys, Key,      \* Key[j]: the idempotency key job j is enqueued with, or None
    Unhandled,      \* jobs whose type has no handler
    Workers,        \* worker processes
    MaxAttempts,    \* jobs.max_attempts
    None,           \* SQL NULL
    MaxCrashes,     \* bound: worker deaths (and lost final writes)
    MaxOverruns     \* bound: locks that expire under a live handler

ASSUME JobQueueAssumption ==
    /\ Key \in [Jobs -> Keys \cup {None}] /\ None \notin Keys
    /\ Unhandled \subseteq Jobs
    /\ None \notin Jobs /\ None \notin Workers
    /\ MaxAttempts \in Nat \ {0}
    /\ MaxCrashes \in Nat /\ MaxOverruns \in Nat

VARIABLES
    status,         \* jobs.status, "absent" before the insert
    attempts,       \* jobs.attempts
    due,            \* jobs.run_at: "now" or "later"
    lockAge,        \* jobs.locked_at: "fresh", or "aged" beyond LOCK_TIMEOUT_MINUTES
    owner,          \* jobs.worker_id
    created,        \* job ids in created_at order
    wpc,            \* where each worker's loop is
    wjob,           \* the job runOne was called with
    wattempts,      \* job.attempts as claimNext returned it
    crashes, overruns

jobVars == <<status, attempts, due, lockAge, owner, created>>
workerVars == <<wpc, wjob, wattempts>>
counters == <<crashes, overruns>>
vars == <<jobVars, workerVars, counters>>

Settled == {"completed", "dead"}

-----------------------------------------------------------------------------

\* Some other job with the same idempotency key has completed.
KeyTaken(j) == \E k \in Jobs \ {j} : Key[j] # None /\ Key[k] = Key[j] /\ status[k] = "completed"

\* enqueue: nothing is inserted when the key is taken or the id exists.
Enqueue(j) ==
    /\ status[j] = "absent"
    /\ ~KeyTaken(j)
    /\ status' = [status EXCEPT ![j] = "pending"]
    /\ created' = Append(created, j)
    /\ UNCHANGED <<attempts, due, lockAge, owner, workerVars, counters>>

\* Mutant: a locked job is reclaimable at any age.
ClaimableAtAnyAge(j) == status[j] \in {"pending", "locked"} /\ due[j] = "now"

\* Mutant: dead letters are claimed again.
ClaimableWhenDead(j) ==
    /\ status[j] \in {"pending", "dead"} \/ (status[j] = "locked" /\ lockAge[j] = "aged")
    /\ due[j] = "now"

\* Mutant: the lock of a dead worker is never reclaimed.
ClaimableWhenPending(j) == status[j] = "pending" /\ due[j] = "now"

\* claimNext's WHERE clause: pending, or locked beyond the threshold; run_at past.
Claimable(j) ==
    /\ status[j] = "pending" \/ (status[j] = "locked" /\ lockAge[j] = "aged")
    /\ due[j] = "now"

OlderThan(j) == {k \in Jobs : \E x, y \in 1..Len(created) :
                                  x < y /\ created[x] = k /\ created[y] = j}

\* claimNext: oldest first, SKIP LOCKED stepping over at most one row for every
\* other worker that is claiming at the same time.  attempts does not change.
ClaimNext(w, j) ==
    /\ wpc[w] = "idle"
    /\ Claimable(j)
    /\ Cardinality({k \in OlderThan(j) : Claimable(k)}) < Cardinality(Workers)
    /\ status' = [status EXCEPT ![j] = "locked"]
    /\ lockAge' = [lockAge EXCEPT ![j] = "fresh"]
    /\ owner' = [owner EXCEPT ![j] = w]
    /\ wpc' = [wpc EXCEPT ![w] = IF j \in Unhandled THEN "unknown" ELSE "running"]
    /\ wjob' = [wjob EXCEPT ![w] = j]
    /\ wattempts' = [wattempts EXCEPT ![w] = attempts[j]]
    /\ UNCHANGED <<attempts, due, created, crashes, overruns>>

\* The handler's promise resolves or rejects.
HandlerReturns(w) ==
    /\ wpc[w] = "running"
    /\ wpc' = [wpc EXCEPT ![w] = "succeeded"]
    /\ UNCHANGED <<jobVars, wjob, wattempts, counters>>

HandlerThrows(w) ==
    /\ wpc[w] = "running"
    /\ wpc' = [wpc EXCEPT ![w] = "failed"]
    /\ UNCHANGED <<jobVars, wjob, wattempts, counters>>

\* complete() itself throws, on the unique index of completed keys or because
\* the database is away, before its UPDATE or after the commit (only the answer is
\* lost).  It is in the handler's try: the catch block treats the run as a failure.
CompleteThrows(w) ==
    /\ wpc[w] = "succeeded"
    /\ \/ KeyTaken(wjob[w]) /\ UNCHANGED <<status, crashes>>
       \/ /\ crashes < MaxCrashes /\ crashes' = crashes + 1
          /\ \/ UNCHANGED status
             \/ ~KeyTaken(wjob[w]) /\ status' = [status EXCEPT ![wjob[w]] = "completed"]
    /\ wpc' = [wpc EXCEPT ![w] = "failed"]
    /\ UNCHANGED <<attempts, due, lockAge, owner, created, wjob, wattempts, overruns>>

BackToPolling(w) ==
    /\ wpc' = [wpc EXCEPT ![w] = "idle"]
    /\ wjob' = [wjob EXCEPT ![w] = None]
    /\ wattempts' = [wattempts EXCEPT ![w] = 0]

\* repo.complete: by id alone, whoever holds the lock now; the partial unique
\* index lets one completed job per key through.
Complete(w) ==
    /\ wpc[w] = "succeeded"
    /\ ~KeyTaken(wjob[w])
    /\ status' = [status EXCEPT ![wjob[w]] = "completed"]
    /\ BackToPolling(w)
    /\ UNCHANGED <<attempts, due, lockAge, owner, created, counters>>

\* Mutant: the column counts down while the policy counts up.
FailCountingDown(w) ==
    /\ wpc[w] = "failed"
    /\ wattempts[w] + 1 < MaxAttempts
    /\ status' = [status EXCEPT ![wjob[w]] = "pending"]
    /\ attempts' = [attempts EXCEPT ![wjob[w]] = @ - 1]
    /\ due' = [due EXCEPT ![wjob[w]] = "later"]
    /\ lockAge' = [lockAge EXCEPT ![wjob[w]] = "fresh"]
    /\ owner' = [owner EXCEPT ![wjob[w]] = None]
    /\ BackToPolling(w)
    /\ UNCHANGED <<created, counters>>

\* repo.fail with retry, when the attempts read at the claim leave one more.
Fail(w) ==
    /\ wpc[w] = "failed"
    /\ wattempts[w] + 1 < MaxAttempts
    /\ status' = [status EXCEPT ![wjob[w]] = "pending"]
    /\ attempts' = [attempts EXCEPT ![wjob[w]] = @ + 1]
    /\ due' = [due EXCEPT ![wjob[w]] = "later"]
    /\ lockAge' = [lockAge EXCEPT ![wjob[w]] = "fresh"]
    /\ owner' = [owner EXCEPT ![wjob[w]] = None]
    /\ BackToPolling(w)
    /\ UNCHANGED <<created, counters>>

\* Mutant: the job is given up with one attempt left.
DeadLetterTooSoon(w) ==
    /\ \/ wpc[w] = "unknown"
       \/ wpc[w] = "failed" /\ wattempts[w] + 2 >= MaxAttempts
    /\ status' = [status EXCEPT ![wjob[w]] = "dead"]
    /\ attempts' = [attempts EXCEPT ![wjob[w]] = @ + 1]
    /\ lockAge' = [lockAge EXCEPT ![wjob[w]] = "fresh"]
    /\ owner' = [owner EXCEPT ![wjob[w]] = None]
    /\ BackToPolling(w)
    /\ UNCHANGED <<due, created, counters>>

\* repo.deadLetter: attempts exhausted, or no handler for the type.
DeadLetter(w) ==
    /\ \/ wpc[w] = "unknown"
       \/ wpc[w] = "failed" /\ wattempts[w] + 1 >= MaxAttempts
    /\ status' = [status EXCEPT ![wjob[w]] = "dead"]
    /\ attempts' = [attempts EXCEPT ![wjob[w]] = @ + 1]
    /\ lockAge' = [lockAge EXCEPT ![wjob[w]] = "fresh"]
    /\ owner' = [owner EXCEPT ![wjob[w]] = None]
    /\ BackToPolling(w)
    /\ UNCHANGED <<due, created, counters>>

\* The process dies, or its last statement fails: the row stays as it is.
Crash(w) ==
    /\ wpc[w] # "idle" /\ crashes < MaxCrashes
    /\ crashes' = crashes + 1
    /\ BackToPolling(w)
    /\ UNCHANGED <<jobVars, overruns>>

\* The backoff of a retry passes.
BackoffElapses(j) ==
    /\ status[j] = "pending" /\ due[j] = "later"
    /\ due' = [due EXCEPT ![j] = "now"]
    /\ UNCHANGED <<status, attempts, lockAge, owner, created, workerVars, counters>>

\* The worker the row names is still at work on it.
OwnerAtWork(j) == \E w \in Workers : owner[j] = w /\ wpc[w] # "idle" /\ wjob[w] = j

\* Five minutes pass on a lock: of a dead worker, or of one that is only slow.
LockAges(j) ==
    /\ status[j] = "locked" /\ lockAge[j] = "fresh"
    /\ lockAge' = [lockAge EXCEPT ![j] = "aged"]
    /\ \/ ~OwnerAtWork(j) /\ overruns' = overruns
       \/ /\ OwnerAtWork(j) /\ overruns < MaxOverruns
          /\ overruns' = overruns + 1
    /\ UNCHANGED <<status, attempts, due, owner, created, wpc, wjob, wattempts, crashes>>

-----------------------------------------------------------------------------

Init ==
    /\ status = [j \in Jobs |-> "absent"]
    /\ attempts = [j \in Jobs |-> 0]
    /\ due = [j \in Jobs |-> "now"]
    /\ lockAge = [j \in Jobs |-> "fresh"]
    /\ owner = [j \in Jobs |-> None]
    /\ created = <<>>
    /\ wpc = [w \in Workers |-> "idle"]
    /\ wjob = [w \in Workers |-> None]
    /\ wattempts = [w \in Workers |-> 0]
    /\ crashes = 0 /\ overruns = 0

\* What a worker does by itself.
WorkerStep(w) ==
    \/ \E j \in Jobs : ClaimNext(w, j)
    \/ HandlerReturns(w) \/ HandlerThrows(w)
    \/ Complete(w) \/ Fail(w) \/ DeadLetter(w)
    \/ CompleteThrows(w)

Next ==
    \/ \E j \in Jobs : Enqueue(j) \/ BackoffElapses(j) \/ LockAges(j)
    \/ \E w \in Workers : WorkerStep(w) \/ Crash(w)

Spec == Init /\ [][Next]_vars

\* Worker loops keep polling, handlers end, and time passes.
FairSpec ==
    /\ Spec
    /\ \A w \in Workers : WF_vars(WorkerStep(w))
    /\ \A j \in Jobs : WF_vars(BackoffElapses(j)) /\ WF_vars(LockAges(j))

-----------------------------------------------------------------------------
(* Properties *)

TypeOK ==
    /\ status \in [Jobs -> {"absent", "pending", "locked", "completed", "dead"}]
    /\ attempts \in [Jobs -> Nat]
    /\ due \in [Jobs -> {"now", "later"}]
    /\ lockAge \in [Jobs -> {"fresh", "aged"}]
    /\ owner \in [Jobs -> Workers \cup {None}]
    /\ created \in Seq(Jobs)
    /\ wpc \in [Workers -> {"idle", "running", "succeeded", "failed", "unknown"}]
    /\ wjob \in [Workers -> Jobs \cup {None}]
    /\ \A w \in Workers : wpc[w] # "idle" => wjob[w] \in Jobs
    /\ wattempts \in [Workers -> Nat]
    /\ crashes \in Nat /\ overruns \in Nat

\* claimNext's lock is a mutual exclusion as long as every handler returns
\* within LOCK_TIMEOUT_MINUTES: through crashes, reclaims, retries and late
\* final writes, a job has one worker, and its row says so.  It may already read
\* completed only when that worker never had the answer to its own complete().
ExclusiveUntilOverrun ==
    overruns = 0 =>
        \A w \in Workers : wpc[w] # "idle" =>
            /\ owner[wjob[w]] = w
            /\ status[wjob[w]] = "locked" \/ (status[wjob[w]] = "completed" /\ wpc[w] = "failed")
            /\ \A v \in Workers : wpc[v] # "idle" /\ wjob[v] = wjob[w] => v = w

\* A dead letter has used up its attempts, whatever stale count the worker that
\* wrote it had read, unless nothing handles its type.
DeadIsExhausted ==
    \A j \in Jobs : status[j] = "dead" => attempts[j] >= MaxAttempts \/ j \in Unhandled

\* The counter the retry policy is about never passes max_attempts, so long as
\* no handler overruns its lock.
AttemptsBounded ==
    overruns = 0 => \A j \in Jobs : attempts[j] <= MaxAttempts

\* A settled job is never claimed or reclaimed: all that can change its result is
\* the final write of a worker that is still on it.  Until a handler overruns its
\* lock that worker is its own, and only one whose complete() committed without
\* an answer: a dead letter is final, and no second worker undoes a completion.
UnsettledByItsWorker ==
    [][\A j \in Jobs : status[j] \in Settled /\ status'[j] # status[j] =>
          \E w \in Workers :
              /\ wjob[w] = j /\ wpc[w] \in {"succeeded", "failed", "unknown"}
              /\ overruns = 0 => owner[j] = w /\ status[j] = "completed" /\ wpc[w] = "failed"]_vars

\* Why these hold.  Without an overrun, a lock old enough to be reclaimed has no
\* worker behind it and the attempts a worker read are the row's; with one, the
\* attempts it read can only be too low.
AgedIsAbandoned ==
    overruns = 0 =>
        \A j \in Jobs, w \in Workers :
            status[j] = "locked" /\ lockAge[j] = "aged" => wpc[w] = "idle" \/ wjob[w] # j

ReadAttempts ==
    \A w \in Workers : wpc[w] # "idle" =>
        /\ wattempts[w] <= attempts[wjob[w]]
        /\ overruns = 0 => wattempts[w] = attempts[wjob[w]]
        /\ wpc[w] = "unknown" => wjob[w] \in Unhandled

AttemptsLeft ==
    overruns = 0 => \A j \in Jobs : status[j] # "dead" => attempts[j] < MaxAttempts

JobInv ==
    /\ TypeOK
    /\ ExclusiveUntilOverrun
    /\ AgedIsAbandoned
    /\ ReadAttempts
    /\ AttemptsLeft
    /\ AttemptsBounded
    /\ DeadIsExhausted

\* Every job inserted is eventually completed or dead-lettered for good, through
\* finitely many crashes and overruns: a crashed worker's lock is reclaimed, and
\* a duplicate of a completed key, which can never complete, is given up.
EveryJobSettles == <>[](\A j \in Jobs : status[j] \in Settled \cup {"absent"})
=============================================================================
