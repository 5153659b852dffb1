----------------------------- MODULE AuditLedger -----------------------------
(***************************************************************************)
(* The hash-chained audit ledger of one tenant                             *)
(* (audit_ledger_repository.ts): transactions that append, under the       *)
(* tenant's advisory lock, and verifications that read without it and      *)
(* share a checkpoint.  An entry's hash is the entry itself: hashes do not *)
(* collide, and the triggers refuse every change of a row.                 *)
(*                                                                         *)
(* Entries are ordered by created_at, the millisecond clock of the process *)
(* that appends, and by nothing else; nothing compares that clock with the *)
(* rows already there, so two appends of one millisecond tie and a process *)
(* whose clock is behind appends before the head.                          *)
(***************************************************************************)
EXTENDS Naturals, FiniteSets

CONSTANTS
    Entries,    \* ids of entries
    Writers,    \* transactions that append
    Verifiers,  \* verifications running concurrently
    MaxTime,    \* bound: readings of the clock
    None        \* SQL NULL

ASSUME AuditLedgerAssumption ==
    /\ MaxTime \in Nat
    /\ Writers # {}
    /\ None \notin Entries /\ None \notin Writers

VARIABLES
    committed,          \* rows of audit_ledger everyone sees
    createdAt, prev,    \* created_at, previous_entry_hash of a row
    lock,               \* who holds pg_advisory_xact_lock
    pending,            \* rows a transaction has inserted and not committed
    wpc, stamp, head,   \* its next statement, the clock and the hash it has read
    checkpoint, verified,   \* audit_chain_checkpoints: last_verified_entry_id, entries_verified
    vpc,                \* a verification's next step
    full,               \* it is verifyFullChain
    last,               \* prevHash of its loop
    base,               \* checkpointEntriesVerified, then totalEntries
    todo                \* rows its loop has not visited

rowVars == <<committed, createdAt, prev>>
writerVars == <<lock, pending, wpc, stamp, head>>
checkpointVars == <<checkpoint, verified>>
verifierVars == <<vpc, full, last, base, todo>>
vars == <<rowVars, writerVars, checkpointVars, verifierVars>>

-----------------------------------------------------------------------------
(* Appending *)

Visible(w) == committed \cup pending[w]

\* ORDER BY created_at DESC LIMIT 1: any of the rows with the largest one.
Latest(S) ==
    IF S = {} THEN {None} ELSE {e \in S : \A x \in S : createdAt[x] <= createdAt[e]}

\* Mutant: each process takes a lock of its own.
AcquireOwnLock(w) ==
    /\ wpc[w] \in {"idle", "open"}
    /\ lock' = w
    /\ wpc' = [wpc EXCEPT ![w] = "clock"]
    /\ UNCHANGED <<rowVars, pending, stamp, head, checkpointVars, verifierVars>>

\* appendEntryInternal's first statement, in a transaction of its own or the
\* caller's; a transaction that has appended before holds the lock already.
AcquireLock(w) ==
    /\ \/ wpc[w] = "idle" /\ lock = None
       \/ wpc[w] = "open"
    /\ lock' = w
    /\ wpc' = [wpc EXCEPT ![w] = "clock"]
    /\ UNCHANGED <<rowVars, pending, stamp, head, checkpointVars, verifierVars>>

\* createdAt = new Date() of this process, with the lock held.
ReadClock(w) ==
    /\ wpc[w] = "clock"
    /\ \E t \in 0 .. MaxTime : stamp' = [stamp EXCEPT ![w] = t]
    /\ wpc' = [wpc EXCEPT ![w] = "head"]
    /\ UNCHANGED <<rowVars, lock, pending, head, checkpointVars, verifierVars>>

GetLatestHash(w) ==
    /\ wpc[w] = "head"
    /\ \E h \in Latest(Visible(w)) : head' = [head EXCEPT ![w] = h]
    /\ wpc' = [wpc EXCEPT ![w] = "insert"]
    /\ UNCHANGED <<rowVars, lock, pending, stamp, checkpointVars, verifierVars>>

\* enforce_audit_ledger_chain looks for the head again; where it finds another,
\* the insert raises and the transaction rolls back.
Insert(w, e) ==
    /\ wpc[w] = "insert"
    /\ head[w] \in Latest(Visible(w))
    /\ e \notin committed /\ \A x \in Writers : e \notin pending[x]
    /\ createdAt' = [createdAt EXCEPT ![e] = stamp[w]]
    /\ prev' = [prev EXCEPT ![e] = head[w]]
    /\ pending' = [pending EXCEPT ![w] = @ \cup {e}]
    /\ wpc' = [wpc EXCEPT ![w] = "open"]
    /\ UNCHANGED <<committed, lock, stamp, head, checkpointVars, verifierVars>>

EndTransaction(w) ==
    /\ wpc' = [wpc EXCEPT ![w] = "idle"]
    /\ stamp' = [stamp EXCEPT ![w] = 0]
    /\ head' = [head EXCEPT ![w] = None]
    /\ pending' = [pending EXCEPT ![w] = {}]
    /\ lock' = None

Commit(w) ==
    /\ wpc[w] = "open"
    /\ committed' = committed \cup pending[w]
    /\ EndTransaction(w)
    /\ UNCHANGED <<createdAt, prev, checkpointVars, verifierVars>>

\* An error of the append, of the trigger or of anything else in the caller's
\* transaction, or a connection that died.
Rollback(w) ==
    /\ lock = w
    /\ EndTransaction(w)
    /\ UNCHANGED <<rowVars, checkpointVars, verifierVars>>

-----------------------------------------------------------------------------
(* Verification *)

Start(v, isFull, from, count) ==
    /\ vpc[v] = "idle"
    /\ vpc' = [vpc EXCEPT ![v] = "rows"]
    /\ full' = [full EXCEPT ![v] = isFull]
    /\ last' = [last EXCEPT ![v] = from]
    /\ base' = [base EXCEPT ![v] = count]
    /\ UNCHANGED <<rowVars, writerVars, checkpointVars, todo>>

VerifyFullChain(v) == Start(v, TRUE, None, 0)

VerifyChain(v) == Start(v, FALSE, checkpoint, verified)

\* Mutant: the rows from the checkpoint's entry on.
ReadRowsFrom(v) ==
    LET rows == {e \in committed : last[v] # None => createdAt[e] >= createdAt[last[v]]} IN
    /\ vpc[v] = "rows"
    /\ todo' = [todo EXCEPT ![v] = rows]
    /\ base' = [base EXCEPT ![v] = @ + Cardinality(rows)]
    /\ vpc' = [vpc EXCEPT ![v] = "walk"]
    /\ UNCHANGED <<rowVars, writerVars, checkpointVars, full, last>>

\* The rows after the checkpoint's entry, or all of them, as one statement sees them.
ReadRows(v) ==
    LET rows == {e \in committed : last[v] # None => createdAt[e] > createdAt[last[v]]} IN
    /\ vpc[v] = "rows"
    /\ todo' = [todo EXCEPT ![v] = rows]
    /\ base' = [base EXCEPT ![v] = @ + Cardinality(rows)]
    /\ vpc' = [vpc EXCEPT ![v] = "walk"]
    /\ UNCHANGED <<rowVars, writerVars, checkpointVars, full, last>>

\* One round of the loop, ORDER BY created_at ASC: rows of one instant come in
\* any order.  The row's link must be to the one before it.
VisitRow(v) ==
    /\ vpc[v] = "walk"
    /\ \E e \in todo[v] :
        /\ \A x \in todo[v] : createdAt[e] <= createdAt[x]
        /\ IF prev[e] = last[v]
           THEN /\ last' = [last EXCEPT ![v] = e]
                /\ todo' = [todo EXCEPT ![v] = @ \ {e}]
                /\ UNCHANGED vpc
           ELSE /\ vpc' = [vpc EXCEPT ![v] = "broken"]
                /\ UNCHANGED <<last, todo>>
    /\ UNCHANGED <<rowVars, writerVars, checkpointVars, full, base>>

EndVerification(v) ==
    /\ vpc' = [vpc EXCEPT ![v] = "idle"]
    /\ full' = [full EXCEPT ![v] = FALSE]
    /\ last' = [last EXCEPT ![v] = None]
    /\ base' = [base EXCEPT ![v] = 0]
    /\ todo' = [todo EXCEPT ![v] = {}]

\* Mutant: entries_verified = GREATEST(entries_verified, $4).
SaveGreatestCount(v) ==
    /\ vpc[v] = "walk" /\ todo[v] = {}
    /\ ~full[v] /\ last[v] # None
    /\ checkpoint' = last[v]
    /\ verified' = IF base[v] > verified THEN base[v] ELSE verified
    /\ EndVerification(v)
    /\ UNCHANGED <<rowVars, writerVars>>

\* Every row was linked: the upsert of the checkpoint, whoever wrote it since.
SaveCheckpoint(v) ==
    /\ vpc[v] = "walk" /\ todo[v] = {}
    /\ ~full[v] /\ last[v] # None
    /\ checkpoint' = last[v] /\ verified' = base[v]
    /\ EndVerification(v)
    /\ UNCHANGED <<rowVars, writerVars>>

\* A full verification, an empty ledger, a failed upsert (caught), a process
\* that died, or a verdict reported.
Leave(v) ==
    /\ vpc[v] # "idle"
    /\ EndVerification(v)
    /\ UNCHANGED <<rowVars, writerVars, checkpointVars>>

-----------------------------------------------------------------------------

Init ==
    /\ committed = {}
    /\ createdAt = [e \in Entries |-> 0]
    /\ prev = [e \in Entries |-> None]
    /\ lock = None
    /\ pending = [w \in Writers |-> {}]
    /\ wpc = [w \in Writers |-> "idle"]
    /\ stamp = [w \in Writers |-> 0]
    /\ head = [w \in Writers |-> None]
    /\ checkpoint = None /\ verified = 0
    /\ vpc = [v \in Verifiers |-> "idle"]
    /\ full = [v \in Verifiers |-> FALSE]
    /\ last = [v \in Verifiers |-> None]
    /\ base = [v \in Verifiers |-> 0]
    /\ todo = [v \in Verifiers |-> {}]

WriterStep(w) ==
    \/ AcquireLock(w) \/ ReadClock(w) \/ GetLatestHash(w)
    \/ \E e \in Entries : Insert(w, e)
    \/ Commit(w) \/ Rollback(w)

VerifierStep(v) ==
    \/ VerifyFullChain(v) \/ VerifyChain(v) \/ ReadRows(v) \/ VisitRow(v)
    \/ SaveCheckpoint(v) \/ Leave(v)

Next == (\E w \in Writers : WriterStep(w)) \/ (\E v \in Verifiers : VerifierStep(v))

Spec == Init /\ [][Next]_vars

-----------------------------------------------------------------------------
(* Properties *)

\* Types; only the lock's holder has rows under way.
TypeOK ==
    /\ committed \subseteq Entries
    /\ createdAt \in [Entries -> Nat]
    /\ prev \in [Entries -> Entries \cup {None}]
    /\ lock \in Writers \cup {None}
    /\ pending \in [Writers -> SUBSET Entries]
    /\ wpc \in [Writers -> {"idle", "clock", "head", "insert", "open"}]
    /\ stamp \in [Writers -> Nat]
    /\ head \in [Writers -> Entries \cup {None}]
    /\ checkpoint \in Entries \cup {None} /\ verified \in Nat
    /\ vpc \in [Verifiers -> {"idle", "rows", "walk", "broken"}]
    /\ full \in [Verifiers -> BOOLEAN]
    /\ last \in [Verifiers -> Entries \cup {None}]
    /\ base \in [Verifiers -> Nat]
    /\ todo \in [Verifiers -> SUBSET Entries]
    /\ \A w \in Writers : wpc[w] # "idle" <=> lock = w

\* p precedes e: nothing visible lies between them.
Precedes(S, p, e) ==
    /\ p \in S /\ createdAt[p] < createdAt[e]
    /\ \A x \in S : createdAt[x] <= createdAt[p] \/ createdAt[x] >= createdAt[e]

\* e is the first entry of S.
First(S, e) == \A x \in S : createdAt[e] <= createdAt[x]

Linked(S) ==
    \A e \in S : IF prev[e] = None THEN First(S, e) ELSE Precedes(S, prev[e], e)

\* Every link of S is to an entry of S, and one entry has none.
Rooted(S) ==
    /\ \A e \in S : prev[e] \in S \cup {None}
    /\ \A e, f \in S : prev[e] = None /\ prev[f] = None => e = f

\* No entry of S has a clock at or before that of the entry it links to.
Forward(S) == \A e \in S : prev[e] # None => createdAt[prev[e]] < createdAt[e]

\* The clocks of the processes that appended so far agree with the chain: no two
\* appends fell into one millisecond and no process was behind another.
ClocksAdvance == Forward(committed)

\* Whatever transactions interleaved, appended several entries or failed, and whatever
\* their clocks said, the committed entries hang together: one first entry, and no link to
\* one that was rolled back.  They form one chain in the order they are read, without fork
\* or gap, exactly until some entry's clock is not past that of the entry it links to.
ChainIsLinear ==
    /\ Rooted(committed)
    /\ ClocksAdvance <=> Linked(committed)

\* Nobody has altered anything, so no verification reports a break while the clocks
\* agree: neither one that started from a checkpoint another verification moved in the
\* meantime, nor one that reads while entries are committed.
NoFalseAlarm ==
    ClocksAdvance => \A v \in Verifiers : vpc[v] # "broken"

\* The committed entries up to x.
UpTo(x) == IF x = None THEN {} ELSE {e \in committed : createdAt[e] <= createdAt[x]}

CheckpointCounts == verified = Cardinality(UpTo(checkpoint))

\* The checkpoint stands for exactly the entries up to its own: racing
\* verifications may move it back, but none ever leaves an entry behind it that was
\* not counted (created_at > the checkpoint's would skip it for ever), while the clocks
\* agree: an entry of the checkpoint's own millisecond is skipped.
CheckpointCoversPrefix ==
    ClocksAdvance => CheckpointCounts

\* The ledger as its readers see it, ORDER BY created_at ASC.
Read ==
    CHOOSE s \in [1 .. Cardinality(committed) -> committed] :
        \A i, j \in DOMAIN s : i < j => s[i] # s[j] /\ createdAt[s[i]] <= createdAt[s[j]]

Log == INSTANCE AuditLog WITH log <- Read, ordered <- ClocksAdvance

\* The ledger implements an append-only log: what a reader has seen stays where it
\* was, and no commit slips an entry in before it, until the clocks disagree.
ImplementsLog == Log!Spec

-----------------------------------------------------------------------------
(* The inductive invariant (proved in AuditLedgerProofs) *)

\* A transaction's own rows are new, and only the lock's holder has any.
PendingIsOwn ==
    \A w \in Writers :
        /\ lock # w => pending[w] = {}
        /\ pending[w] \cap committed = {}

\* What a transaction sees hangs together, its own entries included.
VisibleIsRooted == \A w \in Writers : Rooted(Visible(w))

\* No two rows of S have one clock.
ClocksDiffer(S) == \A x, y \in S : createdAt[x] = createdAt[y] => x = y

\* Where its links go forward it is a chain, and the transaction's rows are past the
\* committed ones.
VisibleIsLinear ==
    \A w \in Writers : Forward(Visible(w)) =>
        /\ Linked(Visible(w))
        /\ ClocksDiffer(Visible(w))
        /\ \A x \in committed, y \in pending[w] : createdAt[x] < createdAt[y]

CommittedDiffer == ClocksAdvance => ClocksDiffer(committed)

\* The head an append has read is still one when it inserts.
AppendIsCurrent ==
    \A w \in Writers : wpc[w] = "insert" => head[w] \in Latest(Visible(w))

RowsAreFinite == IsFiniteSet(committed) /\ \A w \in Writers : IsFiniteSet(pending[w])

CheckpointIsCommitted == checkpoint \in committed \cup {None}

\* A verification stands at a committed entry, has counted those up to it and
\* those it has yet to visit, and the latter follow it without a gap.
WalkIsContiguous ==
    \A v \in Verifiers :
        /\ vpc[v] # "broken"
        /\ last[v] \in committed \cup {None}
        /\ todo[v] \subseteq committed
        /\ vpc[v] \in {"idle", "rows"} => todo[v] = {}
        /\ vpc[v] = "rows" => base[v] = Cardinality(UpTo(last[v]))
        /\ vpc[v] = "walk" => base[v] = Cardinality(UpTo(last[v])) + Cardinality(todo[v])
        /\ \A e \in todo[v] :
            /\ e \notin UpTo(last[v])
            /\ \A x \in committed : createdAt[x] < createdAt[e] => x \in todo[v] \cup UpTo(last[v])

\* Checkpoint and verifications, while the clocks agree.
CheckInv ==
    /\ CheckpointIsCommitted
    /\ CheckpointCounts
    /\ WalkIsContiguous

AuditInv ==
    /\ TypeOK
    /\ RowsAreFinite
    /\ PendingIsOwn
    /\ VisibleIsRooted
    /\ VisibleIsLinear
    /\ ChainIsLinear
    /\ CommittedDiffer
    /\ AppendIsCurrent
    /\ ClocksAdvance => CheckInv

=============================================================================
