---------------------------- MODULE JournalEntry ----------------------------
(***************************************************************************)
(* Journal entries (journal_entry_service.ts), their rows                  *)
(* (journal_entry_repository.ts) and the triggers on them.  No handler but *)
(* a correction runs in a transaction: each reads the entry, tests what it *)
(* read, and writes one statement at a time while other requests do the    *)
(* same.  The statement that moves a status tests the old one; the deletes *)
(* and the inserts of lines test nothing, only the triggers do.            *)
(*                                                                         *)
(* A status never comes back once left, and lines are only added: reads of *)
(* one handler that nothing separates but other reads are one step, the    *)
(* last of them.                                                           *)
(***************************************************************************)
EXTENDS Naturals

CONSTANTS
    Entries,        \* ids of entries
    Requests,       \* handlers running concurrently
    Users,          \* people and engines that create, approve, correct
    MaxLines,       \* bound: lines of an entry
    BalancedAt,     \* n \in BalancedAt: debits equal credits over the first n lines
    Material,       \* entries whose total, all lines in, reaches the evidence threshold
    AllowSameUser,  \* isSameUserApproveAllowed()
    None            \* SQL NULL

ASSUME JournalEntryAssumption ==
    /\ MaxLines \in Nat
    /\ BalancedAt \subseteq 0 .. MaxLines /\ 0 \in BalancedAt
    /\ Material \subseteq Entries
    /\ AllowSameUser \in BOOLEAN
    /\ None \notin Entries /\ None \notin Users

VARIABLES
    status,         \* journal_entries.status, "absent" before the insert, "deleted" after
    createdBy, approvedBy, reverses,   \* created_by, approved_by, reverses_je_id
    lines,          \* how many rows of journal_entry_lines the entry has
    asked,          \* how many its creator was given
    evidence,       \* the entry has evidence links
    events,         \* je_posting events recorded when it was posted
    cascades,       \* AJE_POSTED cascades run for it
    pc,             \* each request's next statement
    target, origin, user               \* its entry, the entry it reverses, its caller

rowVars == <<status, createdBy, approvedBy, reverses, lines, asked>>
effectVars == <<events, cascades>>
requestVars == <<pc, target, origin, user>>
vars == <<rowVars, evidence, effectVars, requestVars>>

Statuses == {"absent", "draft", "proposed", "approved", "rejected", "posted", "deleted"}

Steps == {"idle", "line", "link", "propose", "approve", "reject", "post", "event", "cascade",
          "export", "unlink", "delete"}

-----------------------------------------------------------------------------

Goto(r, s) == pc' = [pc EXCEPT ![r] = s] /\ UNCHANGED <<target, origin, user>>

Begin(r, s, e, o, u) ==
    /\ pc[r] = "idle"
    /\ pc' = [pc EXCEPT ![r] = s]
    /\ target' = [target EXCEPT ![r] = e]
    /\ origin' = [origin EXCEPT ![r] = o]
    /\ user' = [user EXCEPT ![r] = u]

End(r) ==
    /\ pc' = [pc EXCEPT ![r] = "idle"]
    /\ target' = [target EXCEPT ![r] = None]
    /\ origin' = [origin EXCEPT ![r] = None]
    /\ user' = [user EXCEPT ![r] = None]

\* Mutant: the UPDATE goes by id alone.
UpdateStatusById(e, from, to) ==
    /\ status[e] \notin {"absent", "deleted", "posted"}
    /\ to = "posted" => lines[e] \in BalancedAt
    /\ status' = [status EXCEPT ![e] = to]

\* updateJournalEntryStatus: the row if its status is still the expected one.
\* The triggers refuse any update of a posted row, and a post that does not balance.
UpdateJournalEntryStatus(e, from, to) ==
    /\ status[e] = from
    /\ from # "posted"
    /\ to = "posted" => lines[e] \in BalancedAt
    /\ status' = [status EXCEPT ![e] = to]

-----------------------------------------------------------------------------
(* Creation *)

InsertJournalEntry(e, u, n) ==
    /\ status[e] = "absent"
    /\ status' = [status EXCEPT ![e] = "draft"]
    /\ createdBy' = [createdBy EXCEPT ![e] = u]
    /\ asked' = [asked EXCEPT ![e] = n]
    /\ UNCHANGED <<approvedBy, reverses, lines>>

\* createDraftJE: validateBalanced on what the caller gave, then the entry; its
\* lines follow one at a time.
CreateDraftJE(r, e, u) ==
    \E n \in BalancedAt :
        /\ InsertJournalEntry(e, u, n)
        /\ Begin(r, "line", e, None, u)
        /\ UNCHANGED <<evidence, effectVars>>

\* Mutant: the lines of the original are not validated again.
ReverseUnvalidated(r, o, e, u) ==
    /\ status[o] = "posted"
    /\ InsertJournalEntry(e, u, lines[o])
    /\ Begin(r, "line", e, o, u)
    /\ UNCHANGED <<evidence, effectVars>>

\* Mutant: any entry can be reversed.
ReverseAnyStatus(r, o, e, u) ==
    /\ status[o] # "absent" /\ o # e
    /\ lines[o] \in BalancedAt
    /\ InsertJournalEntry(e, u, lines[o])
    /\ Begin(r, "line", e, o, u)
    /\ UNCHANGED <<evidence, effectVars>>

\* reversePostedJE, and each round of processScheduledReversals, which calls it.
\* reversed_by_je_id stops nothing: the entry as read has no such field, and
\* the update that would fill it always meets the trigger on posted rows.
ReversePostedJE(r, o, e, u) ==
    /\ status[o] = "posted"
    /\ lines[o] \in BalancedAt
    /\ InsertJournalEntry(e, u, lines[o])
    /\ Begin(r, "line", e, o, u)
    /\ UNCHANGED <<evidence, effectVars>>

\* insertJournalEntryLines, one line: the foreign key wants the entry, nothing
\* looks at its status.
InsertLine(r) ==
    LET e == target[r] IN
    /\ pc[r] = "line"
    /\ lines[e] < asked[e]
    /\ status[e] # "deleted"
    /\ lines' = [lines EXCEPT ![e] = @ + 1]
    /\ UNCHANGED <<status, createdBy, approvedBy, reverses, asked, evidence, effectVars, requestVars>>

\* Mutant: every new entry is linked, as if it were a reversal.
LinesDoneAlwaysLinks(r) ==
    /\ pc[r] = "line"
    /\ lines[target[r]] = asked[target[r]]
    /\ Goto(r, "link")
    /\ UNCHANGED <<rowVars, evidence, effectVars>>

\* All lines are in: createDraftJE returns, to its caller or to reversePostedJE.
LinesDone(r) ==
    /\ pc[r] = "line"
    /\ lines[target[r]] = asked[target[r]]
    /\ IF origin[r] = None THEN End(r) ELSE Goto(r, "link")
    /\ UNCHANGED <<rowVars, evidence, effectVars>>

\* The reversal names its original, unless it has been posted or deleted by now:
\* then the update fails, which is caught.
LinkReversal(r) ==
    LET e == target[r] IN
    /\ pc[r] = "link"
    /\ reverses' = [reverses EXCEPT ![e] = IF status[e] \in {"posted", "deleted"} THEN @ ELSE origin[r]]
    /\ End(r)
    /\ UNCHANGED <<status, createdBy, approvedBy, lines, asked, evidence, effectVars>>

\* correctProposedJournalEntry: one transaction inserts and proposes the
\* replacement and rejects the original.
Correct(o, e, u) ==
    \E n \in BalancedAt :
        /\ n >= 2
        /\ status[o] = "proposed" /\ status[e] = "absent"
        /\ status' = [status EXCEPT ![o] = "rejected", ![e] = "proposed"]
        /\ createdBy' = [createdBy EXCEPT ![e] = u]
        /\ asked' = [asked EXCEPT ![e] = n]
        /\ lines' = [lines EXCEPT ![e] = n]
        /\ UNCHANGED <<approvedBy, reverses, evidence, effectVars, requestVars>>

-----------------------------------------------------------------------------
(* Decisions *)

\* Mutant: the approver may be the preparer.
ReadPassesWithoutSegregation(s, e, u) ==
    \/ s = "propose" /\ status[e] = "draft" /\ lines[e] \in BalancedAt
    \/ s \in {"approve", "reject"} /\ status[e] = "proposed"
    \/ s = "post" /\ status[e] = "approved"
    \/ s = "export" /\ status[e] = "posted"
    \/ s = "unlink" /\ status[e] \in {"draft", "rejected"}

\* What each handler tests on the entry, its lines and its evidence before it
\* writes.  Checks that can refuse a post at any time (period, shadow audit)
\* are Fail.
ReadPasses(s, e, u) ==
    \/ s = "propose" /\ status[e] = "draft" /\ lines[e] \in BalancedAt
    \/ s = "approve" /\ status[e] = "proposed" /\ (AllowSameUser \/ createdBy[e] # u)
    \/ s = "reject" /\ status[e] = "proposed"
    \/ /\ s = "post" /\ status[e] = "approved"
       /\ e \in Material /\ lines[e] = asked[e] => evidence[e]
    \/ s = "export" /\ status[e] = "posted"
    \/ s = "unlink" /\ status[e] \in {"draft", "rejected"}

Read(r, s, e, u) ==
    /\ ReadPasses(s, e, u)
    /\ Begin(r, s, e, None, u)
    /\ UNCHANGED <<rowVars, evidence, effectVars>>

ProposeJE(r) ==
    /\ pc[r] = "propose"
    /\ UpdateJournalEntryStatus(target[r], "draft", "proposed")
    /\ End(r)
    /\ UNCHANGED <<createdBy, approvedBy, reverses, lines, asked, evidence, effectVars>>

ApproveJE(r) ==
    /\ pc[r] = "approve"
    /\ UpdateJournalEntryStatus(target[r], "proposed", "approved")
    /\ approvedBy' = [approvedBy EXCEPT ![target[r]] = user[r]]
    /\ End(r)
    /\ UNCHANGED <<createdBy, reverses, lines, asked, evidence, effectVars>>

RejectJE(r) ==
    /\ pc[r] = "reject"
    /\ UpdateJournalEntryStatus(target[r], "proposed", "rejected")
    /\ End(r)
    /\ UNCHANGED <<createdBy, approvedBy, reverses, lines, asked, evidence, effectVars>>

\* Mutant: postJE does not look at what the update returned.
PostUnchecked(r) ==
    /\ pc[r] = "post"
    /\ status' = [status EXCEPT ![target[r]] = IF @ = "approved" THEN "posted" ELSE @]
    /\ Goto(r, "event")
    /\ UNCHANGED <<createdBy, approvedBy, reverses, lines, asked, evidence, effectVars>>

PostJE(r) ==
    /\ pc[r] = "post"
    /\ UpdateJournalEntryStatus(target[r], "approved", "posted")
    /\ Goto(r, "event")
    /\ UNCHANGED <<createdBy, approvedBy, reverses, lines, asked, evidence, effectVars>>

\* postJE's material event, then the justification, then the cascade.
RecordPosting(r) ==
    /\ pc[r] = "event"
    /\ events' = [events EXCEPT ![target[r]] = @ + 1]
    /\ Goto(r, "cascade")
    /\ UNCHANGED <<rowVars, evidence, cascades>>

ExecuteCascade(r) ==
    /\ pc[r] = "cascade"
    /\ cascades' = [cascades EXCEPT ![target[r]] = @ + 1]
    /\ End(r)
    /\ UNCHANGED <<rowVars, evidence, events>>

-----------------------------------------------------------------------------
(* Evidence and deletion *)

LinkEvidence(e) ==
    /\ status[e] \notin {"absent", "deleted"}
    /\ evidence' = [evidence EXCEPT ![e] = TRUE]
    /\ UNCHANGED <<rowVars, effectVars, requestVars>>

\* deleteJournalEntry's first statement: whatever the entry has become, as long
\* as its session is open.
UnlinkEvidence(r) ==
    /\ pc[r] = "unlink"
    /\ evidence' = [evidence EXCEPT ![target[r]] = FALSE]
    /\ Goto(r, "delete")
    /\ UNCHANGED <<rowVars, effectVars>>

\* Its second: by id.  The triggers refuse a posted row, and a row with lines,
\* since the one on the lines names a column they do not have.
DeleteJournalEntry(r) ==
    LET e == target[r] IN
    /\ pc[r] = "delete"
    /\ status[e] \notin {"posted", "deleted"}
    /\ lines[e] = 0
    /\ status' = [status EXCEPT ![e] = "deleted"]
    /\ End(r)
    /\ UNCHANGED <<createdBy, approvedBy, reverses, lines, asked, evidence, effectVars>>

\* A statement that changed no row or raised an error, a check that refused, a
\* process that died: the request ends, what it has written stays.  An export
\* always ends here, at the trigger on posted rows.
Fail(r) ==
    /\ pc[r] # "idle"
    /\ End(r)
    /\ UNCHANGED <<rowVars, evidence, effectVars>>

-----------------------------------------------------------------------------

Init ==
    /\ status = [e \in Entries |-> "absent"]
    /\ createdBy = [e \in Entries |-> None]
    /\ approvedBy = [e \in Entries |-> None]
    /\ reverses = [e \in Entries |-> None]
    /\ lines = [e \in Entries |-> 0]
    /\ asked = [e \in Entries |-> 0]
    /\ evidence = [e \in Entries |-> FALSE]
    /\ events = [e \in Entries |-> 0]
    /\ cascades = [e \in Entries |-> 0]
    /\ pc = [r \in Requests |-> "idle"]
    /\ target = [r \in Requests |-> None]
    /\ origin = [r \in Requests |-> None]
    /\ user = [r \in Requests |-> None]

RequestStep(r) ==
    \/ InsertLine(r) \/ LinesDone(r) \/ LinkReversal(r)
    \/ ProposeJE(r) \/ ApproveJE(r) \/ RejectJE(r)
    \/ PostJE(r) \/ RecordPosting(r) \/ ExecuteCascade(r)
    \/ UnlinkEvidence(r) \/ DeleteJournalEntry(r)
    \/ Fail(r)

Reads == {"propose", "approve", "reject", "post", "export", "unlink"}

Next ==
    \/ \E r \in Requests : RequestStep(r)
    \/ \E r \in Requests, e \in Entries, u \in Users :
        \/ CreateDraftJE(r, e, u)
        \/ \E o \in Entries : ReversePostedJE(r, o, e, u)
        \/ \E s \in Reads : Read(r, s, e, u)
    \/ \E o, e \in Entries, u \in Users : Correct(o, e, u)
    \/ \E e \in Entries : LinkEvidence(e)

Spec == Init /\ [][Next]_vars

-----------------------------------------------------------------------------
(* Properties *)

\* Types: rows and requests stay within their columns and steps, and a request
\* under way has its entry and caller.
TypeOK ==
    /\ status \in [Entries -> Statuses]
    /\ createdBy \in [Entries -> Users \cup {None}]
    /\ approvedBy \in [Entries -> Users \cup {None}]
    /\ reverses \in [Entries -> Entries \cup {None}]
    /\ lines \in [Entries -> 0 .. MaxLines]
    /\ asked \in [Entries -> 0 .. MaxLines]
    /\ evidence \in [Entries -> BOOLEAN]
    /\ events \in [Entries -> Nat]
    /\ cascades \in [Entries -> Nat]
    /\ pc \in [Requests -> Steps]
    /\ target \in [Requests -> Entries \cup {None}]
    /\ origin \in [Requests -> Entries \cup {None}]
    /\ user \in [Requests -> Users \cup {None}]
    /\ \A r \in Requests : pc[r] # "idle" => target[r] \in Entries /\ user[r] \in Users
    /\ \A r \in Requests : pc[r] = "link" => origin[r] \in Entries

\* Segregation of duties: nobody approves an entry of their own, although the
\* approval is written some time after the creator was read (approveJE), and a
\* correction replaces entries under the approver's eyes.
PreparerDoesNotApprove ==
    \A e \in Entries : approvedBy[e] # None /\ ~AllowSameUser => approvedBy[e] # createdBy[e]

\* The effects of a posting (the je_posting event, the cascade that invalidates
\* statements) happen only for a posted entry, at most once and in that order,
\* however many requests post it at a time: the API and the writeback's worker.
EffectsOnce ==
    \A e \in Entries :
        /\ cascades[e] <= events[e] /\ events[e] <= 1
        /\ events[e] > 0 => status[e] = "posted"

\* A posted entry whose lines do not balance is one whose creation has not
\* inserted all of them; every entry whose creation went through balances, the
\* reversals of half-created entries included.
UnbalancedIsUnfinished ==
    \A e \in Entries : status[e] = "posted" /\ lines[e] \notin BalancedAt => lines[e] < asked[e]

\* A deletion that overtakes the creation leaves no lines behind.
NoOrphanLines == \A e \in Entries : status[e] = "deleted" => lines[e] = 0

\* Only entries on the ledger are reversed, and they stay there: whatever
\* happens between the test and the link, an entry marked as a reversal points
\* to a posted one.
ReversalIsOfPosted ==
    \A e \in Entries : reverses[e] # None => status[reverses[e]] = "posted"

\* One decision per entry: of two approvals, or an approval and a rejection or
\* correction, that were both admitted on a proposed entry, the second changes
\* nothing; and nothing takes a posted entry back, a deletion admitted when it was
\* a draft included.
DecisionIsFinal ==
    [][\A e \in Entries :
        /\ status[e] = "approved" => status'[e] \in {"approved", "posted", "deleted"}
        /\ status[e] = "rejected" => status'[e] \in {"rejected", "deleted"}
        /\ status[e] \in {"posted", "deleted"} => status'[e] = status[e]
        /\ approvedBy[e] # None => approvedBy'[e] = approvedBy[e]]_vars

-----------------------------------------------------------------------------
(* The inductive invariant (proved in JournalEntryProofs) *)

\* Rows not inserted yet are blank.
AbsentIsBlank ==
    \A e \in Entries : status[e] = "absent" =>
        approvedBy[e] = None /\ reverses[e] = None /\ lines[e] = 0 /\ events[e] = 0 /\ cascades[e] = 0

\* Requests work on inserted entries; an approval has seen who created its own.
RequestsHaveRead ==
    \A r \in Requests :
        /\ pc[r] # "idle" => status[target[r]] # "absent"
        /\ pc[r] = "approve" /\ ~AllowSameUser => user[r] # createdBy[target[r]]
        /\ pc[r] # "idle" /\ origin[r] # None => status[origin[r]] = "posted"

\* Only decided entries have an approver.
ApprovedIsDecided ==
    \A e \in Entries : approvedBy[e] # None => status[e] \in {"approved", "posted", "deleted"}

\* Creations were given balanced lines and insert no more than those.
AskedIsBalanced == \A e \in Entries : asked[e] \in BalancedAt /\ lines[e] <= asked[e]

\* One request at most carries out the effects of a posting.
OnePoster ==
    /\ \A e \in Entries : status[e] # "posted" => events[e] = 0 /\ cascades[e] = 0
    /\ \A r \in Requests : pc[r] = "event" =>
        status[target[r]] = "posted" /\ events[target[r]] = 0 /\ cascades[target[r]] = 0
    /\ \A r \in Requests : pc[r] = "cascade" =>
        status[target[r]] = "posted" /\ events[target[r]] = 1 /\ cascades[target[r]] = 0
    /\ \A r, q \in Requests :
        pc[r] \in {"event", "cascade"} /\ pc[q] \in {"event", "cascade"} /\ target[r] = target[q] => r = q

JournalInv ==
    /\ TypeOK
    /\ PreparerDoesNotApprove
    /\ EffectsOnce
    /\ NoOrphanLines
    /\ ReversalIsOfPosted
    /\ AbsentIsBlank
    /\ RequestsHaveRead
    /\ ApprovedIsDecided
    /\ AskedIsBalanced
    /\ OnePoster

=============================================================================
