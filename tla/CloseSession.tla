---------------------------- MODULE CloseSession ----------------------------
(***************************************************************************)
(* One row of close_sessions and the HTTP requests that act on it          *)
(* concurrently (services/close_session_service.ts and its repository).    *)
(*                                                                         *)
(* A request is a sequence of database steps with an await between any two *)
(* of them; every other request may run in each gap.  Three things order   *)
(* the steps: the row lock (SELECT ... FOR UPDATE, or the lock an UPDATE   *)
(* takes), the bounded connection pool a transaction draws its client from *)
(* (and to which the same transaction goes back for its pool queries), and *)
(* nothing else: a status read before BEGIN is only as fresh as that read. *)
(*                                                                         *)
(* An uncommitted write is invisible, so a transaction that uses only its  *)
(* own client is one step, taken when the row is free; a transaction that  *)
(* queries the pool half-way keeps the row locked between its steps.       *)
(***************************************************************************)
EXTENDS Integers, Sequences, FiniteSets

CONSTANTS
    Requests,       \* in-flight request slots
    Users,          \* authenticated users
    Approvers,      \* the users whose close role is approver
    Events,         \* subsequent events that may be recorded
    None,           \* SQL NULL
    PoolMax,        \* connections in the tenant pool (db/index.ts)
    AllowSameUserCertify,  \* the entity setting of that name
    MaxReviews,     \* bound: submissions to under_review
    MaxLedger       \* bound: entries posted to the session's ledger

ASSUME CloseSessionAssumption ==
    /\ Approvers \subseteq Users
    /\ None \notin Users /\ None \notin Requests
    /\ IsFiniteSet(Requests)
    /\ PoolMax \in Nat \ {0}
    /\ AllowSameUserCertify \in BOOLEAN
    /\ MaxReviews \in Nat /\ MaxLedger \in Nat

VARIABLES
    status,         \* close_sessions.status
    advancedBy,     \* advanced_to_review_by
    certifiedBy,    \* certified_by
    certSnapshot,   \* certified_snapshot_id: index into snapshots, 0 for NULL
    confirmedBy,    \* subsequent_events_confirmed_by
    statements,     \* "stale" while statements_stale_since is set, else "current"
    snapshots,      \* ledger_snapshots of the session, oldest first
    artifact,       \* the snapshot the session's only certification artifact signs, 0: no artifact
    events,         \* subsequent_events: "absent", "open" or "disposed"
    ledger,         \* how many adjusting entries the trial balance includes
    rejection,      \* the issue of the last rejection: "none", "open" as rejectSession raised it,
                    \* "closed" once verified, "reopened" after that
    blockers,       \* the other hard blockers readiness finds: "some" or "none"
    reviews,        \* history: how often the session entered under_review
    rowLock,        \* the request whose open transaction holds the row lock
    pc, op, user,   \* per request: next step, handler, caller
    target,         \* per request: the status a PATCH asks for
    seenConfirmed,  \* per request: the confirmation lockCloseSession read
    seenTb          \* per request: the trial balance certifyCloseSession read

rowVars == <<status, advancedBy, certifiedBy, certSnapshot, confirmedBy, statements>>
issueVars == <<rejection, blockers>>
factVars == <<snapshots, artifact, events, ledger, issueVars, reviews>>
localVars == <<op, user, target, seenConfirmed, seenTb>>
reqVars == <<rowLock, pc, localVars>>
vars == <<rowVars, factVars, reqVars>>

-----------------------------------------------------------------------------

Statuses == {"open", "in_progress", "under_review", "certified",
             "subsequent_events_review", "locked"}

\* Mutant: the table lets PATCH certify.
TransitionsThatCertify ==
    [open                     |-> {"in_progress"},
     in_progress              |-> {"under_review"},
     under_review             |-> {"in_progress", "certified"},
     certified                |-> {"in_progress", "subsequent_events_review"},
     subsequent_events_review |-> {"in_progress", "locked"},
     locked                   |-> {}]

ALLOWED_TRANSITIONS ==
    [open                     |-> {"in_progress"},
     in_progress              |-> {"under_review"},
     under_review             |-> {"in_progress"},
     certified                |-> {"in_progress", "subsequent_events_review"},
     subsequent_events_review |-> {"in_progress", "locked"},
     locked                   |-> {}]

\* Statuses in which guardSessionWritable answers 409.
FROZEN_STATUSES == {"certified", "locked"}

Ops == {"advance", "patch", "certify", "reject", "reopen",
        "review_events", "confirm", "lock", "post"}

\* canPerform(role, 'certify_close' | 'period_lock') and PATCH's own role test;
\* posting an entry is je_post.
ApproverOps == Ops \ {"advance", "reject"}

\* Handlers whose first database step is BEGIN; the others first read the row.
TransactionFirst == {"certify", "reject"}

Steps == {"idle", "read", "review", "begin", "row", "ready", "tb", "commit", "write"}

\* Steps taken with a client of the pool checked out.
Connected == {"row", "ready", "tb", "commit"}

Holders == {r \in Requests : pc[r] \in Connected}

PoolFree == Cardinality(Holders) < PoolMax

RowFree == rowLock = None

\* computeReadiness counts no open hard blocker.
NoHardBlocker == rejection \notin {"open", "reopened"} /\ blockers = "none"

-----------------------------------------------------------------------------
(* Writes of the row *)

\* repo.updateCloseSessionStatus: the columns beside status depend on the target.
UpdateCloseSessionStatus(s, u) ==
    /\ status' = s
    /\ advancedBy' = CASE s = "under_review" -> u
                       [] s = "in_progress"  -> None
                       [] OTHER              -> advancedBy
    /\ reviews' = IF s = "under_review" THEN reviews + 1 ELSE reviews
    /\ UNCHANGED <<certifiedBy, certSnapshot, confirmedBy, statements>>

\* repo.updateReopen: no test of the status it replaces; the certification
\* columns and advanced_to_review_by stay.
UpdateReopen ==
    /\ status' = "in_progress"
    /\ UNCHANGED <<advancedBy, certifiedBy, certSnapshot, confirmedBy, statements, reviews>>

\* Mutant: the snapshot is inserted once, the row is bound to a new id each time.
UpdateCertificationDangling(u, tb) ==
    /\ status' = "certified"
    /\ certifiedBy' = u
    /\ snapshots' = IF snapshots = <<>> THEN <<[tb |-> tb, review |-> reviews]>> ELSE snapshots
    /\ certSnapshot' = Len(snapshots) + 1
    /\ artifact' = IF artifact = 0 THEN Len(snapshots) + 1 ELSE artifact
    /\ UNCHANGED <<advancedBy, confirmedBy, statements, reviews>>

\* repo.updateCertification and the inserts of certifyCloseSession that commit
\* with it: a new snapshot always, an artifact only when the session has none.
UpdateCertification(u, tb) ==
    /\ status' = "certified"
    /\ certifiedBy' = u
    /\ snapshots' = Append(snapshots, [tb |-> tb, review |-> reviews])
    /\ certSnapshot' = Len(snapshots) + 1
    /\ artifact' = IF artifact = 0 THEN Len(snapshots) + 1 ELSE artifact
    /\ UNCHANGED <<advancedBy, confirmedBy, statements, reviews>>

\* isReviewComplete: an explicit confirmation, or events that are all dispositioned.
IsReviewComplete(confirmed) ==
    \/ confirmed # None
    \/ /\ \E e \in Events : events[e] # "absent"
       /\ \A e \in Events : events[e] # "open"

-----------------------------------------------------------------------------
(* Request bookkeeping *)

Goto(r, l) == pc' = [pc EXCEPT ![r] = l]

\* Mutant: the transaction ends without COMMIT or ROLLBACK.
FinishKeepingLock(r) ==
    /\ Goto(r, "idle")
    /\ op' = [op EXCEPT ![r] = None]
    /\ user' = [user EXCEPT ![r] = None]
    /\ target' = [target EXCEPT ![r] = None]
    /\ seenConfirmed' = [seenConfirmed EXCEPT ![r] = None]
    /\ seenTb' = [seenTb EXCEPT ![r] = 0]
    /\ UNCHANGED rowLock

\* The request ends; its transaction, if any, commits or rolls back.
Finish(r) == /\ Goto(r, "idle")
             /\ rowLock' = IF rowLock = r THEN None ELSE rowLock
             /\ op' = [op EXCEPT ![r] = None]
             /\ user' = [user EXCEPT ![r] = None]
             /\ target' = [target EXCEPT ![r] = None]
             /\ seenConfirmed' = [seenConfirmed EXCEPT ![r] = None]
             /\ seenTb' = [seenTb EXCEPT ![r] = 0]

\* A request arrives: the role test comes first, PATCH carries its target (and
\* reads the readiness only on the way to under_review).  The bounds stop new
\* requests, never one that is under way.
Start(r, o, u, t) ==
    /\ pc[r] = "idle"
    /\ o \in ApproverOps => u \in Approvers
    /\ (o # "patch") => (t = "open")
    /\ o = "advance" \/ t = "under_review" => reviews < MaxReviews
    /\ o = "post" => ledger < MaxLedger
    /\ Goto(r, IF o \in TransactionFirst \/ (o = "patch" /\ t # "under_review")
               THEN "begin" ELSE "read")
    /\ op' = [op EXCEPT ![r] = o]
    /\ user' = [user EXCEPT ![r] = u]
    /\ target' = [target EXCEPT ![r] = IF o = "patch" THEN t ELSE None]
    /\ UNCHANGED <<rowVars, factVars, rowLock, seenConfirmed, seenTb>>

\* ... having written nothing.
End(r) == Finish(r) /\ UNCHANGED <<rowVars, factVars>>

\* An error anywhere after the request began: withTransaction rolls back and
\* releases the client; nothing of the transaction remains.
Abort(r) == pc[r] # "idle" /\ End(r)

\* pool.connect() and BEGIN.
Begin(r) ==
    /\ pc[r] = "begin"
    /\ PoolFree
    /\ Goto(r, "row")
    /\ UNCHANGED <<rowVars, factVars, rowLock, localVars>>

\* Mutant: advanceToSubsequentEventsReview does not test the status.
ReadPassesAnyStatus(r) ==
    CASE op[r] = "advance"       -> status \in {"open", "in_progress"}
      [] op[r] = "patch"         -> NoHardBlocker
      [] op[r] = "reopen"        -> status = "certified"
      [] op[r] = "review_events" -> TRUE
      [] op[r] = "confirm"       -> status = "subsequent_events_review"
      [] op[r] = "lock"          -> status = "subsequent_events_review"
      [] op[r] = "post"          -> status \notin FROZEN_STATUSES

\* The check on what the pool read before the transaction.  What was read is
\* not carried over, except lock's subsequent_events_confirmed_by.
ReadPasses(r) ==
    CASE op[r] = "advance"       -> status \in {"open", "in_progress"}
      [] op[r] = "patch"         -> NoHardBlocker
      [] op[r] = "reopen"        -> status = "certified"
      [] op[r] = "review_events" -> status = "certified"
      [] op[r] = "confirm"       -> status = "subsequent_events_review"
      [] op[r] = "lock"          -> status = "subsequent_events_review"
      [] op[r] = "post"          -> status \notin FROZEN_STATUSES

Read(r) ==
    /\ pc[r] = "read" /\ PoolFree
    /\ ReadPasses(r)
    /\ Goto(r, CASE op[r] = "lock" -> "review"
                 [] op[r] = "post" -> "write"
                 [] OTHER          -> "begin")
    /\ seenConfirmed' = [seenConfirmed EXCEPT ![r] = IF op[r] = "lock" THEN confirmedBy ELSE None]
    /\ UNCHANGED <<rowVars, factVars, rowLock, op, user, target, seenTb>>

\* Mutant: certifyCloseSession does not compare the caller with the submitter.
RowPassesWithoutSegregation(r) ==
    CASE op[r] = "patch"   -> target[r] \in ALLOWED_TRANSITIONS[status]
      [] op[r] = "advance" -> status \in {"open", "in_progress"}
      [] op[r] = "reject"  -> status = "under_review"
      [] op[r] = "certify" -> status = "under_review" /\ statements = "current"
      [] OTHER             -> TRUE

\* The checks on the row a transaction has just locked: the table for PATCH,
\* nextStatusTowardUnderReview for advance, the status for reject, and for
\* certify also segregation of duties and the stale flag.  Handlers that
\* checked the row before BEGIN check nothing here.
RowPasses(r) ==
    CASE op[r] = "patch"   -> target[r] \in ALLOWED_TRANSITIONS[status]
      [] op[r] = "advance" -> status \in {"open", "in_progress"}
      [] op[r] = "reject"  -> status = "under_review"
      [] op[r] = "certify" -> /\ status = "under_review"
                              /\ advancedBy = user[r] => AllowSameUserCertify
                              /\ statements = "current"
      [] OTHER             -> TRUE

\* A request whose check fails ends there; the order of the checks within one
\* step does not matter, as each of them only answers with an error.
Refused(r) ==
    /\ \/ pc[r] = "read"   /\ PoolFree /\ ~ReadPasses(r)
       \/ pc[r] = "review" /\ PoolFree /\ ~IsReviewComplete(seenConfirmed[r])
       \/ pc[r] = "row"    /\ RowFree  /\ ~RowPasses(r)
       \/ pc[r] = "ready"  /\ PoolFree /\ ~NoHardBlocker
    /\ End(r)

-----------------------------------------------------------------------------
(* The handlers' steps *)

\* updateStatus in a transaction of its own: FOR UPDATE, table lookup, write.
Patch(r) ==
    /\ pc[r] = "row" /\ op[r] = "patch" /\ RowFree
    /\ RowPasses(r)
    /\ UpdateCloseSessionStatus(target[r], user[r])
    /\ UNCHANGED <<snapshots, artifact, events, ledger, issueVars>>
    /\ Finish(r)

\* advanceSession from open: the transaction needs no more than its client.
AdvanceOpen(r) ==
    /\ pc[r] = "row" /\ op[r] = "advance" /\ RowFree
    /\ status = "open"
    /\ UpdateCloseSessionStatus("in_progress", user[r])
    /\ UNCHANGED <<snapshots, artifact, events, ledger, issueVars>>
    /\ Finish(r)

\* Mutant: SELECT without FOR UPDATE.
ReadRowUnlocked(r) ==
    /\ pc[r] = "row" /\ RowFree
    /\ \/ op[r] = "advance" /\ status = "in_progress"
       \/ op[r] = "certify" /\ RowPasses(r)
    /\ Goto(r, "ready")
    /\ UNCHANGED <<rowVars, factVars, rowLock, localVars>>

\* FOR UPDATE of a transaction that goes on to query the pool: advanceSession
\* on the way to under_review, and certifyCloseSession.  The latter's first pool
\* query, for the entity's settings, waits where ComputeReadiness waits.
LockRow(r) ==
    /\ pc[r] = "row" /\ RowFree
    /\ \/ op[r] = "advance" /\ status = "in_progress"
       \/ op[r] = "certify" /\ RowPasses(r)
    /\ rowLock' = r
    /\ Goto(r, "ready")
    /\ UNCHANGED <<rowVars, factVars, localVars>>

\* computeReadiness(pool), on another connection, finds no hard blocker.
ComputeReadiness(r) ==
    /\ pc[r] = "ready" /\ PoolFree
    /\ NoHardBlocker
    /\ Goto(r, IF op[r] = "certify" THEN "tb" ELSE "commit")
    /\ UNCHANGED <<rowVars, factVars, rowLock, localVars>>

AdvanceCommit(r) ==
    /\ pc[r] = "commit" /\ op[r] = "advance"
    /\ UpdateCloseSessionStatus("under_review", user[r])
    /\ UNCHANGED <<snapshots, artifact, events, ledger, issueVars>>
    /\ Finish(r)

\* getTrialBalanceForCertification(pool): on another connection.
CertifyTrialBalance(r) ==
    /\ pc[r] = "tb" /\ PoolFree
    /\ seenTb' = [seenTb EXCEPT ![r] = ledger]
    /\ Goto(r, "commit")
    /\ UNCHANGED <<rowVars, factVars, rowLock, op, user, target, seenConfirmed>>

\* Snapshot, artifact (its gate snapshot is read through the pool), row and
\* certify_close event commit together.
CertifyCommit(r) ==
    /\ pc[r] = "commit" /\ op[r] = "certify"
    /\ artifact = 0 => PoolFree
    /\ UpdateCertification(user[r], seenTb[r])
    /\ UNCHANGED <<events, ledger, issueVars>>
    /\ Finish(r)

\* Mutant: the rejection does not wait for a certification that holds the row.
RejectUnlocked(r) ==
    /\ pc[r] = "row" /\ op[r] = "reject"
    /\ RowPasses(r)
    /\ UpdateCloseSessionStatus("in_progress", user[r])
    /\ rejection' = "open"
    /\ UNCHANGED <<snapshots, artifact, events, ledger, blockers>>
    /\ Finish(r)

\* rejectSession: the status test, the transition and the blocking issue are
\* one transaction under the row lock.
Reject(r) ==
    /\ pc[r] = "row" /\ op[r] = "reject" /\ RowFree
    /\ RowPasses(r)
    /\ UpdateCloseSessionStatus("in_progress", user[r])
    /\ rejection' = "open"
    /\ UNCHANGED <<snapshots, artifact, events, ledger, blockers>>
    /\ Finish(r)

\* reopenCloseSession: the UPDATE locks the row, then createIssue runs on the
\* pool before the commit.
ReopenRow(r) ==
    /\ pc[r] = "row" /\ op[r] = "reopen" /\ RowFree
    /\ rowLock' = r
    /\ Goto(r, "commit")
    /\ UNCHANGED <<rowVars, factVars, localVars>>

ReopenCommit(r) ==
    /\ pc[r] = "commit" /\ op[r] = "reopen" /\ PoolFree
    /\ UpdateReopen
    /\ UNCHANGED <<snapshots, artifact, events, ledger, issueVars>>
    /\ Finish(r)

\* advanceToSubsequentEventsReview: the write does not look at the status again.
ReviewEvents(r) ==
    /\ pc[r] = "row" /\ op[r] = "review_events" /\ RowFree
    /\ UpdateCloseSessionStatus("subsequent_events_review", user[r])
    /\ UNCHANGED <<snapshots, artifact, events, ledger, issueVars>>
    /\ Finish(r)

\* confirmNoSubsequentEvents: likewise.
Confirm(r) ==
    /\ pc[r] = "row" /\ op[r] = "confirm" /\ RowFree
    /\ confirmedBy' = user[r]
    /\ UNCHANGED <<status, advancedBy, certifiedBy, certSnapshot, statements, factVars>>
    /\ Finish(r)

\* lockCloseSession: isReviewComplete on the confirmation read earlier and the
\* events as they are now, then an unconditional write.
LockReview(r) ==
    /\ pc[r] = "review" /\ PoolFree
    /\ IsReviewComplete(seenConfirmed[r])
    /\ Goto(r, "begin")
    /\ UNCHANGED <<rowVars, factVars, rowLock, localVars>>

Lock(r) ==
    /\ pc[r] = "row" /\ op[r] = "lock" /\ RowFree
    /\ UpdateCloseSessionStatus("locked", user[r])
    /\ UNCHANGED <<snapshots, artifact, events, ledger, issueVars>>
    /\ Finish(r)

\* A ledger write behind guardSessionWritable (posting an adjusting entry).
Post(r) ==
    /\ pc[r] = "write" /\ PoolFree
    /\ ledger' = ledger + 1
    /\ UNCHANGED <<rowVars, snapshots, artifact, events, issueVars, reviews>>
    /\ Finish(r)

-----------------------------------------------------------------------------
(* Single-statement handlers and the rest of the system *)

\* The insert's foreign key needs a share lock on the session row, which only
\* FOR UPDATE (advance, certify) excludes; no handler tests the status.
CreateEvent(e) ==
    /\ events[e] = "absent"
    /\ \A r \in Requests : rowLock = r => op[r] = "reopen"
    /\ events' = [events EXCEPT ![e] = "open"]
    /\ UNCHANGED <<rowVars, snapshots, artifact, ledger, issueVars, reviews, reqVars>>

UpdateEventDisposition(e) ==
    /\ events[e] # "absent"
    /\ events' = [events EXCEPT ![e] = "disposed"]
    /\ UNCHANGED <<rowVars, snapshots, artifact, ledger, issueVars, reviews, reqVars>>

\* Any other hard blocker of computeReadiness appears or goes.
SetBlockers(v) ==
    /\ blockers' = v
    /\ UNCHANGED <<rowVars, snapshots, artifact, events, ledger, rejection, reviews, reqVars>>

\* resolveIssue and verifyIssue: the rejection's issue no longer counts.
CloseIssue ==
    /\ rejection \in {"open", "reopened"}
    /\ rejection' = "closed"
    /\ UNCHANGED <<rowVars, snapshots, artifact, events, ledger, blockers, reviews, reqVars>>

\* reopenIssue: from resolved or verified, whatever the session's status.
ReopenIssue ==
    /\ rejection = "closed"
    /\ rejection' = "reopened"
    /\ UNCHANGED <<rowVars, snapshots, artifact, events, ledger, blockers, reviews, reqVars>>

\* setStatementsStaleSince (cascade) and clearStatementsStaleSince (generation).
SetStatements(v) ==
    /\ RowFree
    /\ statements' = v
    /\ UNCHANGED <<status, advancedBy, certifiedBy, certSnapshot, confirmedBy, factVars, reqVars>>

-----------------------------------------------------------------------------

\* createSession starts every session in open.
Init ==
    /\ status = "open"
    /\ advancedBy = None /\ certifiedBy = None /\ confirmedBy = None
    /\ certSnapshot = 0 /\ artifact = 0 /\ snapshots = <<>>
    /\ statements = "current"
    /\ events = [e \in Events |-> "absent"]
    /\ ledger = 0 /\ reviews = 0
    /\ rejection = "none" /\ blockers = "some"
    /\ rowLock = None
    /\ pc = [r \in Requests |-> "idle"]
    /\ op = [r \in Requests |-> None]
    /\ user = [r \in Requests |-> None]
    /\ target = [r \in Requests |-> None]
    /\ seenConfirmed = [r \in Requests |-> None]
    /\ seenTb = [r \in Requests |-> 0]

\* One database step of a request.
Progress(r) ==
    \/ Begin(r) \/ Read(r) \/ Refused(r)
    \/ Patch(r)
    \/ LockRow(r) \/ ComputeReadiness(r)
    \/ AdvanceOpen(r) \/ AdvanceCommit(r)
    \/ CertifyTrialBalance(r) \/ CertifyCommit(r)
    \/ Reject(r)
    \/ ReopenRow(r) \/ ReopenCommit(r)
    \/ ReviewEvents(r) \/ Confirm(r)
    \/ LockReview(r) \/ Lock(r)
    \/ Post(r)

Environment ==
    \/ \E e \in Events : CreateEvent(e) \/ UpdateEventDisposition(e)
    \/ CloseIssue \/ ReopenIssue
    \/ \E v \in {"some", "none"} : SetBlockers(v)
    \/ \E v \in {"current", "stale"} : SetStatements(v)

Next ==
    \/ \E r \in Requests, o \in Ops, u \in Users, t \in Statuses : Start(r, o, u, t)
    \/ \E r \in Requests : Progress(r)
    \/ \E r \in Requests : Abort(r)
    \/ Environment

Spec == Init /\ [][Next]_vars

\* A request that can take its next step again and again takes it: Postgres
\* queues row-lock waiters and pg.Pool queues callers of connect(), both FIFO,
\* and no handler waits for anything else.  Errors and new requests owe nothing.
FairSpec == Spec /\ \A r \in Requests : SF_vars(Progress(r))

-----------------------------------------------------------------------------
(* Properties *)

TypeOK ==
    /\ status \in Statuses
    /\ advancedBy \in Users \cup {None}
    /\ certifiedBy \in Users \cup {None}
    /\ confirmedBy \in Users \cup {None}
    /\ statements \in {"current", "stale"}
    /\ snapshots \in Seq([tb : Nat, review : Nat])
    /\ certSnapshot \in 0..Len(snapshots)
    /\ artifact \in 0..Len(snapshots)
    /\ events \in [Events -> {"absent", "open", "disposed"}]
    /\ ledger \in Nat /\ reviews \in Nat
    /\ rejection \in {"none", "open", "closed", "reopened"} /\ blockers \in {"some", "none"}
    /\ rowLock \in Requests \cup {None}
    /\ pc \in [Requests -> Steps]
    /\ op \in [Requests -> Ops \cup {None}]
    /\ user \in [Requests -> Users \cup {None}]
    /\ target \in [Requests -> Statuses \cup {None}]
    /\ seenConfirmed \in [Requests -> Users \cup {None}]
    /\ seenTb \in [Requests -> Nat]

\* Whatever the requests raced for, a session past review carries the
\* certification that took it there: who certified, the snapshot bound to the
\* row and a signed artifact (certifyCloseSession commits the four together, and
\* the handlers that write later states on a stale read never clear them).
PastReviewIsCertified ==
    status \in {"certified", "subsequent_events_review", "locked"} =>
        /\ certifiedBy # None
        /\ certSnapshot # 0
        /\ artifact # 0

\* Segregation of duties survives every interleaving of advance, PATCH, reject,
\* reopen and certify: a certified session was submitted by somebody, and not
\* by its certifier unless the entity setting allows it.
CertifierIsNotSubmitter ==
    status = "certified" =>
        /\ advancedBy # None
        /\ certifiedBy = advancedBy => AllowSameUserCertify

\* FOR UPDATE in certifyCloseSession: two concurrent certifications of one
\* submission cannot both create a snapshot, nor can a certification outlive
\* the rejection of the submission it started from.
OneSnapshotPerReview ==
    \A i, j \in 1..Len(snapshots) :
        snapshots[i].review = snapshots[j].review => i = j

\* rejectSession and certifyCloseSession: a package that was rejected is not
\* certified before somebody has closed the rejection's issue, although PATCH can
\* take it back to under_review on a readiness it read before the rejection.  (A
\* closed issue can be reopened at any time, also on a certified session.)
RejectedIsNotCertified ==
    status = "certified" => rejection # "open"

\* Why the four above hold.  What a request relies on once past its check:
\* the holder of the row lock is exactly the request between its lock and its
\* commit; a certification under way still finds the row it tested; and a
\* handler that writes a post-certification state without looking again has
\* at least seen a session that was certified, which is never undone.
EverCertified == certifiedBy # None /\ certSnapshot # 0 /\ artifact # 0

LockHolder == \A r \in Requests : pc[r] \in {"ready", "tb", "commit"} <=> rowLock = r

StepOps ==
    \A r \in Requests :
        /\ pc[r] # "idle" => op[r] \in Ops /\ user[r] \in Users
        /\ pc[r] = "review" => op[r] = "lock"
        /\ pc[r] = "ready" => op[r] \in {"advance", "certify"}
        /\ pc[r] = "tb" => op[r] = "certify"
        /\ pc[r] = "commit" => op[r] \in {"advance", "certify", "reopen"}

CertifyUnderWay ==
    \A r \in Requests :
        op[r] = "certify" =>
            /\ pc[r] \in {"ready", "tb", "commit"} =>
                   /\ status = "under_review"
                   /\ advancedBy = user[r] => AllowSameUserCertify
            /\ pc[r] \in {"tb", "commit"} => rejection # "open"

BlindWriters ==
    \A r \in Requests :
        (op[r] \in {"reopen", "review_events", "confirm", "lock"}
            /\ pc[r] \notin {"idle", "read"}) => EverCertified

ReviewCount ==
    /\ \A i \in 1..Len(snapshots) : snapshots[i].review <= reviews
    /\ status = "under_review" =>
           /\ advancedBy # None
           /\ \A i \in 1..Len(snapshots) : snapshots[i].review < reviews

CloseInv ==
    /\ TypeOK
    /\ LockHolder
    /\ StepOps
    /\ CertifyUnderWay
    /\ BlindWriters
    /\ ReviewCount
    /\ PastReviewIsCertified
    /\ CertifierIsNotSubmitter
    /\ OneSnapshotPerReview
    /\ RejectedIsNotCertified

\* With one request at a time, whatever it is and wherever it fails, the code
\* keeps the life cycle its header promises: certified only from under_review
\* and with a new snapshot, no transition outside the table, locked terminal.
Life == INSTANCE CloseLifecycle WITH phase <- status, certs <- Len(snapshots)
ImplementsLifecycle == Life!LifeSpec

\* What the life cycle needs of concurrent requests.  Three handlers test the status
\* before BEGIN and write without looking again: the status each of them read must
\* still be the row's.
StatusRead == [reopen        |-> "certified",
               review_events |-> "certified",
               lock          |-> "subsequent_events_review"]

BlindOps == DOMAIN StatusRead

PastRead(r) == pc[r] \notin {"idle", "read"}

ReadIsFresh ==
    \A r \in Requests : op[r] \in BlindOps /\ PastRead(r) => status = StatusRead[op[r]]

\* A discipline of the clients that keeps it so: one of these three past its read is
\* accompanied by no other of them, and by no PATCH.  PATCHes may run beside each other,
\* and advances, certifications, rejections, confirmations and postings beside any.
BlindRunsAlone ==
    \A r, s \in Requests :
        /\ op[r] \in BlindOps /\ PastRead(r)
        /\ op[s] \in BlindOps \cup {"patch"} /\ PastRead(s)
        => r = s

\* An advance between its row lock and its commit finds the row it locked.
AdvanceUnderWay ==
    \A r \in Requests : op[r] = "advance" /\ pc[r] \in {"ready", "commit"} => status = "in_progress"

\* Every request comes to an end (it succeeds, is refused or fails).
RequestsFinish ==
    \A r \in Requests : pc[r] # "idle" ~> pc[r] = "idle"

-----------------------------------------------------------------------------
(* What the repository says of the session and the code does not guarantee *)

\* "LOCKED: Permanent immutability, terminal state" (header of the service).
LockedIsTerminal == [][status = "locked" => status' = "locked"]_vars
=============================================================================
