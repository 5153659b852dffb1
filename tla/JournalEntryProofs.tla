-------------------------- MODULE JournalEntryProofs -------------------------
(***************************************************************************)
(* The invariants of JournalEntry for any number of entries, requests and  *)
(* users, any lines and any evidence policy.                               *)
(***************************************************************************)
EXTENDS JournalEntry, TLAPS

\* Types.
LEMMA StepTypes ==
    ASSUME TypeOK, AskedIsBalanced, Next
    PROVE  TypeOK'
<1> USE JournalEntryAssumption DEF TypeOK, Statuses, Steps, AskedIsBalanced, rowVars, effectVars, requestVars
<1>1. ASSUME NEW r \in Requests, InsertLine(r) PROVE TypeOK'
  BY <1>1 DEF InsertLine
<1>2. ASSUME NEW r \in Requests, LinesDone(r) PROVE TypeOK'
  BY <1>2 DEF LinesDone, End, Goto
<1>3. ASSUME NEW r \in Requests, LinkReversal(r) PROVE TypeOK'
  BY <1>3 DEF LinkReversal, End
<1>4. ASSUME NEW r \in Requests, ProposeJE(r) PROVE TypeOK'
  BY <1>4 DEF ProposeJE, UpdateJournalEntryStatus, End
<1>5. ASSUME NEW r \in Requests, ApproveJE(r) PROVE TypeOK'
  BY <1>5 DEF ApproveJE, UpdateJournalEntryStatus, End
<1>6. ASSUME NEW r \in Requests, RejectJE(r) PROVE TypeOK'
  BY <1>6 DEF RejectJE, UpdateJournalEntryStatus, End
<1>7. ASSUME NEW r \in Requests, PostJE(r) PROVE TypeOK'
  BY <1>7 DEF PostJE, UpdateJournalEntryStatus, Goto
<1>8. ASSUME NEW r \in Requests, RecordPosting(r) PROVE TypeOK'
  BY <1>8 DEF RecordPosting, Goto
<1>9. ASSUME NEW r \in Requests, ExecuteCascade(r) PROVE TypeOK'
  BY <1>9 DEF ExecuteCascade, End
<1>10. ASSUME NEW r \in Requests, UnlinkEvidence(r) PROVE TypeOK'
  BY <1>10 DEF UnlinkEvidence, Goto
<1>11. ASSUME NEW r \in Requests, DeleteJournalEntry(r) PROVE TypeOK'
  BY <1>11 DEF DeleteJournalEntry, End
<1>12. ASSUME NEW r \in Requests, Fail(r) PROVE TypeOK'
  BY <1>12 DEF Fail, End
<1>13. ASSUME NEW r \in Requests, NEW e \in Entries, NEW u \in Users, CreateDraftJE(r, e, u) PROVE TypeOK'
  BY <1>13 DEF CreateDraftJE, InsertJournalEntry, Begin
<1>14. ASSUME NEW r \in Requests, NEW o \in Entries, NEW e \in Entries, NEW u \in Users, ReversePostedJE(r, o, e, u) PROVE TypeOK'
  BY <1>14 DEF ReversePostedJE, InsertJournalEntry, Begin
<1>15. ASSUME NEW r \in Requests, NEW s \in Reads, NEW e \in Entries, NEW u \in Users, Read(r, s, e, u) PROVE TypeOK'
  BY <1>15 DEF Read, ReadPasses, Reads, Begin
<1>16. ASSUME NEW o \in Entries, NEW e \in Entries, NEW u \in Users, Correct(o, e, u) PROVE TypeOK'
  BY <1>16 DEF Correct
<1>17. ASSUME NEW e \in Entries, LinkEvidence(e) PROVE TypeOK'
  BY <1>17 DEF LinkEvidence
<1> QED
  BY <1>1, <1>2, <1>3, <1>4, <1>5, <1>6, <1>7, <1>8, <1>9, <1>10, <1>11, <1>12, <1>13, <1>14, <1>15, <1>16, <1>17 DEF Next, RequestStep

\* Lines are inserted up to what was asked, and what was asked was validated.
LEMMA StepAsked ==
    ASSUME JournalInv, Next
    PROVE  AskedIsBalanced'
<1> USE JournalEntryAssumption DEF JournalInv, TypeOK, Statuses, Steps, AskedIsBalanced, AbsentIsBlank, rowVars, effectVars, requestVars
<1>1. ASSUME NEW r \in Requests, InsertLine(r) PROVE AskedIsBalanced'
  BY <1>1 DEF InsertLine
<1>2. ASSUME NEW r \in Requests, LinesDone(r) PROVE AskedIsBalanced'
  BY <1>2 DEF LinesDone, End, Goto
<1>3. ASSUME NEW r \in Requests, LinkReversal(r) PROVE AskedIsBalanced'
  BY <1>3 DEF LinkReversal, End
<1>4. ASSUME NEW r \in Requests, ProposeJE(r) PROVE AskedIsBalanced'
  BY <1>4 DEF ProposeJE, UpdateJournalEntryStatus, End
<1>5. ASSUME NEW r \in Requests, ApproveJE(r) PROVE AskedIsBalanced'
  BY <1>5 DEF ApproveJE, UpdateJournalEntryStatus, End
<1>6. ASSUME NEW r \in Requests, RejectJE(r) PROVE AskedIsBalanced'
  BY <1>6 DEF RejectJE, UpdateJournalEntryStatus, End
<1>7. ASSUME NEW r \in Requests, PostJE(r) PROVE AskedIsBalanced'
  BY <1>7 DEF PostJE, UpdateJournalEntryStatus, Goto
<1>8. ASSUME NEW r \in Requests, RecordPosting(r) PROVE AskedIsBalanced'
  BY <1>8 DEF RecordPosting, Goto
<1>9. ASSUME NEW r \in Requests, ExecuteCascade(r) PROVE AskedIsBalanced'
  BY <1>9 DEF ExecuteCascade, End
<1>10. ASSUME NEW r \in Requests, UnlinkEvidence(r) PROVE AskedIsBalanced'
  BY <1>10 DEF UnlinkEvidence, Goto
<1>11. ASSUME NEW r \in Requests, DeleteJournalEntry(r) PROVE AskedIsBalanced'
  BY <1>11 DEF DeleteJournalEntry, End
<1>12. ASSUME NEW r \in Requests, Fail(r) PROVE AskedIsBalanced'
  BY <1>12 DEF Fail, End
<1>13. ASSUME NEW r \in Requests, NEW e \in Entries, NEW u \in Users, CreateDraftJE(r, e, u) PROVE AskedIsBalanced'
  BY <1>13 DEF CreateDraftJE, InsertJournalEntry, Begin
<1>14. ASSUME NEW r \in Requests, NEW o \in Entries, NEW e \in Entries, NEW u \in Users, ReversePostedJE(r, o, e, u) PROVE AskedIsBalanced'
  BY <1>14 DEF ReversePostedJE, InsertJournalEntry, Begin
<1>15. ASSUME NEW r \in Requests, NEW s \in Reads, NEW e \in Entries, NEW u \in Users, Read(r, s, e, u) PROVE AskedIsBalanced'
  BY <1>15 DEF Read, ReadPasses, Reads, Begin
<1>16. ASSUME NEW o \in Entries, NEW e \in Entries, NEW u \in Users, Correct(o, e, u) PROVE AskedIsBalanced'
  BY <1>16 DEF Correct
<1>17. ASSUME NEW e \in Entries, LinkEvidence(e) PROVE AskedIsBalanced'
  BY <1>17 DEF LinkEvidence
<1> QED
  BY <1>1, <1>2, <1>3, <1>4, <1>5, <1>6, <1>7, <1>8, <1>9, <1>10, <1>11, <1>12, <1>13, <1>14, <1>15, <1>16, <1>17 DEF Next, RequestStep

\* An absent entry is blank; requests have an inserted entry before them, an
\* approval also its creator, which never changes.
LEMMA StepRead ==
    ASSUME JournalInv, Next
    PROVE  AbsentIsBlank' /\ RequestsHaveRead'
<1> USE JournalEntryAssumption DEF JournalInv, TypeOK, Statuses, Steps, AbsentIsBlank, RequestsHaveRead, OnePoster, rowVars, effectVars, requestVars
<1>1. ASSUME NEW r \in Requests, InsertLine(r) PROVE AbsentIsBlank' /\ RequestsHaveRead'
  BY <1>1 DEF InsertLine
<1>2. ASSUME NEW r \in Requests, LinesDone(r) PROVE AbsentIsBlank' /\ RequestsHaveRead'
  BY <1>2 DEF LinesDone, End, Goto
<1>3. ASSUME NEW r \in Requests, LinkReversal(r) PROVE AbsentIsBlank' /\ RequestsHaveRead'
  BY <1>3 DEF LinkReversal, End
<1>4. ASSUME NEW r \in Requests, ProposeJE(r) PROVE AbsentIsBlank' /\ RequestsHaveRead'
  BY <1>4 DEF ProposeJE, UpdateJournalEntryStatus, End
<1>5. ASSUME NEW r \in Requests, ApproveJE(r) PROVE AbsentIsBlank' /\ RequestsHaveRead'
  BY <1>5 DEF ApproveJE, UpdateJournalEntryStatus, End
<1>6. ASSUME NEW r \in Requests, RejectJE(r) PROVE AbsentIsBlank' /\ RequestsHaveRead'
  BY <1>6 DEF RejectJE, UpdateJournalEntryStatus, End
<1>7. ASSUME NEW r \in Requests, PostJE(r) PROVE AbsentIsBlank' /\ RequestsHaveRead'
  BY <1>7 DEF PostJE, UpdateJournalEntryStatus, Goto
<1>8. ASSUME NEW r \in Requests, RecordPosting(r) PROVE AbsentIsBlank' /\ RequestsHaveRead'
  BY <1>8 DEF RecordPosting, Goto
<1>9. ASSUME NEW r \in Requests, ExecuteCascade(r) PROVE AbsentIsBlank' /\ RequestsHaveRead'
  BY <1>9 DEF ExecuteCascade, End
<1>10. ASSUME NEW r \in Requests, UnlinkEvidence(r) PROVE AbsentIsBlank' /\ RequestsHaveRead'
  BY <1>10 DEF UnlinkEvidence, Goto
<1>11. ASSUME NEW r \in Requests, DeleteJournalEntry(r) PROVE AbsentIsBlank' /\ RequestsHaveRead'
  BY <1>11 DEF DeleteJournalEntry, End
<1>12. ASSUME NEW r \in Requests, Fail(r) PROVE AbsentIsBlank' /\ RequestsHaveRead'
  BY <1>12 DEF Fail, End
<1>13. ASSUME NEW r \in Requests, NEW e \in Entries, NEW u \in Users, CreateDraftJE(r, e, u) PROVE AbsentIsBlank' /\ RequestsHaveRead'
  BY <1>13 DEF CreateDraftJE, InsertJournalEntry, Begin
<1>14. ASSUME NEW r \in Requests, NEW o \in Entries, NEW e \in Entries, NEW u \in Users, ReversePostedJE(r, o, e, u) PROVE AbsentIsBlank' /\ RequestsHaveRead'
  BY <1>14 DEF ReversePostedJE, InsertJournalEntry, Begin
<1>15. ASSUME NEW r \in Requests, NEW s \in Reads, NEW e \in Entries, NEW u \in Users, Read(r, s, e, u) PROVE AbsentIsBlank' /\ RequestsHaveRead'
  BY <1>15 DEF Read, ReadPasses, Reads, Begin
<1>16. ASSUME NEW o \in Entries, NEW e \in Entries, NEW u \in Users, Correct(o, e, u) PROVE AbsentIsBlank' /\ RequestsHaveRead'
  BY <1>16 DEF Correct
<1>17. ASSUME NEW e \in Entries, LinkEvidence(e) PROVE AbsentIsBlank' /\ RequestsHaveRead'
  BY <1>17 DEF LinkEvidence
<1> QED
  BY <1>1, <1>2, <1>3, <1>4, <1>5, <1>6, <1>7, <1>8, <1>9, <1>10, <1>11, <1>12, <1>13, <1>14, <1>15, <1>16, <1>17 DEF Next, RequestStep

\* An approval writes the user its read compared with the creator.
LEMMA StepApproval ==
    ASSUME JournalInv, Next
    PROVE  PreparerDoesNotApprove' /\ ApprovedIsDecided'
<1> USE JournalEntryAssumption DEF JournalInv, TypeOK, Statuses, Steps, PreparerDoesNotApprove, ApprovedIsDecided, AbsentIsBlank, RequestsHaveRead, rowVars, effectVars, requestVars
<1>1. ASSUME NEW r \in Requests, InsertLine(r) PROVE PreparerDoesNotApprove' /\ ApprovedIsDecided'
  BY <1>1 DEF InsertLine
<1>2. ASSUME NEW r \in Requests, LinesDone(r) PROVE PreparerDoesNotApprove' /\ ApprovedIsDecided'
  BY <1>2 DEF LinesDone, End, Goto
<1>3. ASSUME NEW r \in Requests, LinkReversal(r) PROVE PreparerDoesNotApprove' /\ ApprovedIsDecided'
  BY <1>3 DEF LinkReversal, End
<1>4. ASSUME NEW r \in Requests, ProposeJE(r) PROVE PreparerDoesNotApprove' /\ ApprovedIsDecided'
  BY <1>4 DEF ProposeJE, UpdateJournalEntryStatus, End
<1>5. ASSUME NEW r \in Requests, ApproveJE(r) PROVE PreparerDoesNotApprove' /\ ApprovedIsDecided'
  BY <1>5 DEF ApproveJE, UpdateJournalEntryStatus, End
<1>6. ASSUME NEW r \in Requests, RejectJE(r) PROVE PreparerDoesNotApprove' /\ ApprovedIsDecided'
  BY <1>6 DEF RejectJE, UpdateJournalEntryStatus, End
<1>7. ASSUME NEW r \in Requests, PostJE(r) PROVE PreparerDoesNotApprove' /\ ApprovedIsDecided'
  BY <1>7 DEF PostJE, UpdateJournalEntryStatus, Goto
<1>8. ASSUME NEW r \in Requests, RecordPosting(r) PROVE PreparerDoesNotApprove' /\ ApprovedIsDecided'
  BY <1>8 DEF RecordPosting, Goto
<1>9. ASSUME NEW r \in Requests, ExecuteCascade(r) PROVE PreparerDoesNotApprove' /\ ApprovedIsDecided'
  BY <1>9 DEF ExecuteCascade, End
<1>10. ASSUME NEW r \in Requests, UnlinkEvidence(r) PROVE PreparerDoesNotApprove' /\ ApprovedIsDecided'
  BY <1>10 DEF UnlinkEvidence, Goto
<1>11. ASSUME NEW r \in Requests, DeleteJournalEntry(r) PROVE PreparerDoesNotApprove' /\ ApprovedIsDecided'
  BY <1>11 DEF DeleteJournalEntry, End
<1>12. ASSUME NEW r \in Requests, Fail(r) PROVE PreparerDoesNotApprove' /\ ApprovedIsDecided'
  BY <1>12 DEF Fail, End
<1>13. ASSUME NEW r \in Requests, NEW e \in Entries, NEW u \in Users, CreateDraftJE(r, e, u) PROVE PreparerDoesNotApprove' /\ ApprovedIsDecided'
  BY <1>13 DEF CreateDraftJE, InsertJournalEntry, Begin
<1>14. ASSUME NEW r \in Requests, NEW o \in Entries, NEW e \in Entries, NEW u \in Users, ReversePostedJE(r, o, e, u) PROVE PreparerDoesNotApprove' /\ ApprovedIsDecided'
  BY <1>14 DEF ReversePostedJE, InsertJournalEntry, Begin
<1>15. ASSUME NEW r \in Requests, NEW s \in Reads, NEW e \in Entries, NEW u \in Users, Read(r, s, e, u) PROVE PreparerDoesNotApprove' /\ ApprovedIsDecided'
  BY <1>15 DEF Read, ReadPasses, Reads, Begin
<1>16. ASSUME NEW o \in Entries, NEW e \in Entries, NEW u \in Users, Correct(o, e, u) PROVE PreparerDoesNotApprove' /\ ApprovedIsDecided'
  BY <1>16 DEF Correct
<1>17. ASSUME NEW e \in Entries, LinkEvidence(e) PROVE PreparerDoesNotApprove' /\ ApprovedIsDecided'
  BY <1>17 DEF LinkEvidence
<1> QED
  BY <1>1, <1>2, <1>3, <1>4, <1>5, <1>6, <1>7, <1>8, <1>9, <1>10, <1>11, <1>12, <1>13, <1>14, <1>15, <1>16, <1>17 DEF Next, RequestStep

\* The update to posted succeeds once, and whoever made it succeed carries out
\* the effects.
LEMMA StepPoster ==
    ASSUME JournalInv, Next
    PROVE  OnePoster' /\ EffectsOnce'
<1> USE JournalEntryAssumption DEF JournalInv, TypeOK, Statuses, Steps, OnePoster, EffectsOnce, AbsentIsBlank, RequestsHaveRead, rowVars, effectVars, requestVars
<1>1. ASSUME NEW r \in Requests, InsertLine(r) PROVE OnePoster' /\ EffectsOnce'
  BY <1>1 DEF InsertLine
<1>2. ASSUME NEW r \in Requests, LinesDone(r) PROVE OnePoster' /\ EffectsOnce'
  BY <1>2 DEF LinesDone, End, Goto
<1>3. ASSUME NEW r \in Requests, LinkReversal(r) PROVE OnePoster' /\ EffectsOnce'
  BY <1>3 DEF LinkReversal, End
<1>4. ASSUME NEW r \in Requests, ProposeJE(r) PROVE OnePoster' /\ EffectsOnce'
  BY <1>4 DEF ProposeJE, UpdateJournalEntryStatus, End
<1>5. ASSUME NEW r \in Requests, ApproveJE(r) PROVE OnePoster' /\ EffectsOnce'
  BY <1>5 DEF ApproveJE, UpdateJournalEntryStatus, End
<1>6. ASSUME NEW r \in Requests, RejectJE(r) PROVE OnePoster' /\ EffectsOnce'
  BY <1>6 DEF RejectJE, UpdateJournalEntryStatus, End
<1>7. ASSUME NEW r \in Requests, PostJE(r) PROVE OnePoster' /\ EffectsOnce'
  BY <1>7 DEF PostJE, UpdateJournalEntryStatus, Goto
<1>8. ASSUME NEW r \in Requests, RecordPosting(r) PROVE OnePoster' /\ EffectsOnce'
  BY <1>8 DEF RecordPosting, Goto
<1>9. ASSUME NEW r \in Requests, ExecuteCascade(r) PROVE OnePoster' /\ EffectsOnce'
  BY <1>9 DEF ExecuteCascade, End
<1>10. ASSUME NEW r \in Requests, UnlinkEvidence(r) PROVE OnePoster' /\ EffectsOnce'
  BY <1>10 DEF UnlinkEvidence, Goto
<1>11. ASSUME NEW r \in Requests, DeleteJournalEntry(r) PROVE OnePoster' /\ EffectsOnce'
  BY <1>11 DEF DeleteJournalEntry, End
<1>12. ASSUME NEW r \in Requests, Fail(r) PROVE OnePoster' /\ EffectsOnce'
  BY <1>12 DEF Fail, End
<1>13. ASSUME NEW r \in Requests, NEW e \in Entries, NEW u \in Users, CreateDraftJE(r, e, u) PROVE OnePoster' /\ EffectsOnce'
  BY <1>13 DEF CreateDraftJE, InsertJournalEntry, Begin
<1>14. ASSUME NEW r \in Requests, NEW o \in Entries, NEW e \in Entries, NEW u \in Users, ReversePostedJE(r, o, e, u) PROVE OnePoster' /\ EffectsOnce'
  BY <1>14 DEF ReversePostedJE, InsertJournalEntry, Begin
<1>15. ASSUME NEW r \in Requests, NEW s \in Reads, NEW e \in Entries, NEW u \in Users, Read(r, s, e, u) PROVE OnePoster' /\ EffectsOnce'
  BY <1>15 DEF Read, ReadPasses, Reads, Begin
<1>16. ASSUME NEW o \in Entries, NEW e \in Entries, NEW u \in Users, Correct(o, e, u) PROVE OnePoster' /\ EffectsOnce'
  BY <1>16 DEF Correct
<1>17. ASSUME NEW e \in Entries, LinkEvidence(e) PROVE OnePoster' /\ EffectsOnce'
  BY <1>17 DEF LinkEvidence
<1> QED
  BY <1>1, <1>2, <1>3, <1>4, <1>5, <1>6, <1>7, <1>8, <1>9, <1>10, <1>11, <1>12, <1>13, <1>14, <1>15, <1>16, <1>17 DEF Next, RequestStep

\* A deleted entry had no lines and gets none; an original stays posted.
LEMMA StepRows ==
    ASSUME JournalInv, Next
    PROVE  NoOrphanLines' /\ ReversalIsOfPosted'
<1> USE JournalEntryAssumption DEF JournalInv, TypeOK, Statuses, Steps, NoOrphanLines, ReversalIsOfPosted, AbsentIsBlank, RequestsHaveRead, rowVars, effectVars, requestVars
<1>1. ASSUME NEW r \in Requests, InsertLine(r) PROVE NoOrphanLines' /\ ReversalIsOfPosted'
  BY <1>1 DEF InsertLine
<1>2. ASSUME NEW r \in Requests, LinesDone(r) PROVE NoOrphanLines' /\ ReversalIsOfPosted'
  BY <1>2 DEF LinesDone, End, Goto
<1>3. ASSUME NEW r \in Requests, LinkReversal(r) PROVE NoOrphanLines' /\ ReversalIsOfPosted'
  BY <1>3 DEF LinkReversal, End
<1>4. ASSUME NEW r \in Requests, ProposeJE(r) PROVE NoOrphanLines' /\ ReversalIsOfPosted'
  BY <1>4 DEF ProposeJE, UpdateJournalEntryStatus, End
<1>5. ASSUME NEW r \in Requests, ApproveJE(r) PROVE NoOrphanLines' /\ ReversalIsOfPosted'
  BY <1>5 DEF ApproveJE, UpdateJournalEntryStatus, End
<1>6. ASSUME NEW r \in Requests, RejectJE(r) PROVE NoOrphanLines' /\ ReversalIsOfPosted'
  BY <1>6 DEF RejectJE, UpdateJournalEntryStatus, End
<1>7. ASSUME NEW r \in Requests, PostJE(r) PROVE NoOrphanLines' /\ ReversalIsOfPosted'
  BY <1>7 DEF PostJE, UpdateJournalEntryStatus, Goto
<1>8. ASSUME NEW r \in Requests, RecordPosting(r) PROVE NoOrphanLines' /\ ReversalIsOfPosted'
  BY <1>8 DEF RecordPosting, Goto
<1>9. ASSUME NEW r \in Requests, ExecuteCascade(r) PROVE NoOrphanLines' /\ ReversalIsOfPosted'
  BY <1>9 DEF ExecuteCascade, End
<1>10. ASSUME NEW r \in Requests, UnlinkEvidence(r) PROVE NoOrphanLines' /\ ReversalIsOfPosted'
  BY <1>10 DEF UnlinkEvidence, Goto
<1>11. ASSUME NEW r \in Requests, DeleteJournalEntry(r) PROVE NoOrphanLines' /\ ReversalIsOfPosted'
  BY <1>11 DEF DeleteJournalEntry, End
<1>12. ASSUME NEW r \in Requests, Fail(r) PROVE NoOrphanLines' /\ ReversalIsOfPosted'
  BY <1>12 DEF Fail, End
<1>13. ASSUME NEW r \in Requests, NEW e \in Entries, NEW u \in Users, CreateDraftJE(r, e, u) PROVE NoOrphanLines' /\ ReversalIsOfPosted'
  BY <1>13 DEF CreateDraftJE, InsertJournalEntry, Begin
<1>14. ASSUME NEW r \in Requests, NEW o \in Entries, NEW e \in Entries, NEW u \in Users, ReversePostedJE(r, o, e, u) PROVE NoOrphanLines' /\ ReversalIsOfPosted'
  BY <1>14 DEF ReversePostedJE, InsertJournalEntry, Begin
<1>15. ASSUME NEW r \in Requests, NEW s \in Reads, NEW e \in Entries, NEW u \in Users, Read(r, s, e, u) PROVE NoOrphanLines' /\ ReversalIsOfPosted'
  BY <1>15 DEF Read, ReadPasses, Reads, Begin
<1>16. ASSUME NEW o \in Entries, NEW e \in Entries, NEW u \in Users, Correct(o, e, u) PROVE NoOrphanLines' /\ ReversalIsOfPosted'
  BY <1>16 DEF Correct
<1>17. ASSUME NEW e \in Entries, LinkEvidence(e) PROVE NoOrphanLines' /\ ReversalIsOfPosted'
  BY <1>17 DEF LinkEvidence
<1> QED
  BY <1>1, <1>2, <1>3, <1>4, <1>5, <1>6, <1>7, <1>8, <1>9, <1>10, <1>11, <1>12, <1>13, <1>14, <1>15, <1>16, <1>17 DEF Next, RequestStep

\* The initial state.
LEMMA InitInvariant == Init => JournalInv
  BY JournalEntryAssumption
  DEF Init, JournalInv, TypeOK, Statuses, Steps, PreparerDoesNotApprove, EffectsOnce, NoOrphanLines,
      ReversalIsOfPosted, AbsentIsBlank, RequestsHaveRead, ApprovedIsDecided, AskedIsBalanced, OnePoster

\* Stuttering.
LEMMA StutterInvariant == JournalInv /\ UNCHANGED vars => JournalInv'
  BY DEF vars, rowVars, effectVars, requestVars, JournalInv, TypeOK, PreparerDoesNotApprove, EffectsOnce,
         NoOrphanLines, ReversalIsOfPosted, AbsentIsBlank, RequestsHaveRead, ApprovedIsDecided,
         AskedIsBalanced, OnePoster

\* The inductive invariant: types, segregation of duties, effects of a posting
\* at most once, no orphan lines, reversals of posted entries, and what they need.
THEOREM JournalInvariant == Spec => []JournalInv
<1>1. JournalInv /\ [Next]_vars => JournalInv'
  <2>1. ASSUME JournalInv, Next PROVE JournalInv'
    BY <2>1, StepTypes, StepAsked, StepRead, StepApproval, StepPoster, StepRows DEF JournalInv
  <2> QED
    BY <2>1, StutterInvariant
<1> QED
  BY <1>1, InitInvariant, PTL DEF Spec

\* Entries and requests keep their types, whatever requests overlap.
THEOREM TypeCorrect == Spec => []TypeOK
  BY JournalInvariant, PTL DEF JournalInv

\* Nobody approves an entry of their own (approveJE).
THEOREM SegregationOfDuties == Spec => []PreparerDoesNotApprove
<1>1. JournalInv => PreparerDoesNotApprove
  BY DEF JournalInv
<1> QED
  BY <1>1, JournalInvariant, PTL

\* The effects of a posting happen at most once (postJE).
THEOREM EffectsTheorem == Spec => []EffectsOnce
<1>1. JournalInv => EffectsOnce
  BY DEF JournalInv
<1> QED
  BY <1>1, JournalInvariant, PTL

\* Only an unfinished creation leaves a posted entry out of balance
\* (createDraftJE, reversePostedJE).
THEOREM BalanceTheorem == Spec => []UnbalancedIsUnfinished
<1>1. JournalInv => UnbalancedIsUnfinished
  <2>1. SUFFICES ASSUME JournalInv, NEW e \in Entries, lines[e] \notin BalancedAt
                 PROVE  lines[e] < asked[e]
    BY DEF UnbalancedIsUnfinished
  <2>2. lines[e] \in 0 .. MaxLines /\ asked[e] \in 0 .. MaxLines
    BY <2>1 DEF JournalInv, TypeOK
  <2>3. lines[e] <= asked[e] /\ lines[e] # asked[e]
    BY <2>1 DEF JournalInv, AskedIsBalanced
  <2> QED
    BY <2>2, <2>3, JournalEntryAssumption
<1> QED
  BY <1>1, JournalInvariant, PTL

\* No lines without their entry (deleteJournalEntry, insertJournalEntryLines).
THEOREM OrphanTheorem == Spec => []NoOrphanLines
<1>1. JournalInv => NoOrphanLines
  BY DEF JournalInv
<1> QED
  BY <1>1, JournalInvariant, PTL

\* What is reversed is on the ledger (reversePostedJE).
THEOREM ReversalTheorem == Spec => []ReversalIsOfPosted
<1>1. JournalInv => ReversalIsOfPosted
  BY DEF JournalInv
<1> QED
  BY <1>1, JournalInvariant, PTL

\* What one step may do to a decision.
DecisionKept ==
    \A x \in Entries :
        /\ status[x] = "approved" => status'[x] \in {"approved", "posted", "deleted"}
        /\ status[x] = "rejected" => status'[x] \in {"rejected", "deleted"}
        /\ status[x] \in {"posted", "deleted"} => status'[x] = status[x]
        /\ approvedBy[x] # None => approvedBy'[x] = approvedBy[x]

\* No statement moves a decided entry except to post or delete it.
LEMMA StepDecision ==
    ASSUME JournalInv, Next
    PROVE  DecisionKept
<1> USE JournalEntryAssumption DEF JournalInv, TypeOK, Statuses, Steps, DecisionKept, ApprovedIsDecided, AbsentIsBlank, rowVars, effectVars, requestVars
<1>1. ASSUME NEW r \in Requests, InsertLine(r) PROVE DecisionKept
  BY <1>1 DEF InsertLine
<1>2. ASSUME NEW r \in Requests, LinesDone(r) PROVE DecisionKept
  BY <1>2 DEF LinesDone, End, Goto
<1>3. ASSUME NEW r \in Requests, LinkReversal(r) PROVE DecisionKept
  BY <1>3 DEF LinkReversal, End
<1>4. ASSUME NEW r \in Requests, ProposeJE(r) PROVE DecisionKept
  BY <1>4 DEF ProposeJE, UpdateJournalEntryStatus, End
<1>5. ASSUME NEW r \in Requests, ApproveJE(r) PROVE DecisionKept
  BY <1>5 DEF ApproveJE, UpdateJournalEntryStatus, End
<1>6. ASSUME NEW r \in Requests, RejectJE(r) PROVE DecisionKept
  BY <1>6 DEF RejectJE, UpdateJournalEntryStatus, End
<1>7. ASSUME NEW r \in Requests, PostJE(r) PROVE DecisionKept
  BY <1>7 DEF PostJE, UpdateJournalEntryStatus, Goto
<1>8. ASSUME NEW r \in Requests, RecordPosting(r) PROVE DecisionKept
  BY <1>8 DEF RecordPosting, Goto
<1>9. ASSUME NEW r \in Requests, ExecuteCascade(r) PROVE DecisionKept
  BY <1>9 DEF ExecuteCascade, End
<1>10. ASSUME NEW r \in Requests, UnlinkEvidence(r) PROVE DecisionKept
  BY <1>10 DEF UnlinkEvidence, Goto
<1>11. ASSUME NEW r \in Requests, DeleteJournalEntry(r) PROVE DecisionKept
  BY <1>11 DEF DeleteJournalEntry, End
<1>12. ASSUME NEW r \in Requests, Fail(r) PROVE DecisionKept
  BY <1>12 DEF Fail, End
<1>13. ASSUME NEW r \in Requests, NEW e \in Entries, NEW u \in Users, CreateDraftJE(r, e, u) PROVE DecisionKept
  BY <1>13 DEF CreateDraftJE, InsertJournalEntry, Begin
<1>14. ASSUME NEW r \in Requests, NEW o \in Entries, NEW e \in Entries, NEW u \in Users, ReversePostedJE(r, o, e, u) PROVE DecisionKept
  BY <1>14 DEF ReversePostedJE, InsertJournalEntry, Begin
<1>15. ASSUME NEW r \in Requests, NEW s \in Reads, NEW e \in Entries, NEW u \in Users, Read(r, s, e, u) PROVE DecisionKept
  BY <1>15 DEF Read, ReadPasses, Reads, Begin
<1>16. ASSUME NEW o \in Entries, NEW e \in Entries, NEW u \in Users, Correct(o, e, u) PROVE DecisionKept
  BY <1>16 DEF Correct
<1>17. ASSUME NEW e \in Entries, LinkEvidence(e) PROVE DecisionKept
  BY <1>17 DEF LinkEvidence
<1> QED
  BY <1>1, <1>2, <1>3, <1>4, <1>5, <1>6, <1>7, <1>8, <1>9, <1>10, <1>11, <1>12, <1>13, <1>14, <1>15, <1>16, <1>17 DEF Next, RequestStep

\* One decision per entry, and nothing takes a posted entry back
\* (updateJournalEntryStatus and the triggers).
THEOREM DecisionTheorem == Spec => DecisionIsFinal
<1>1. JournalInv /\ [Next]_vars =>
        [\A e \in Entries :
            /\ status[e] = "approved" => status'[e] \in {"approved", "posted", "deleted"}
            /\ status[e] = "rejected" => status'[e] \in {"rejected", "deleted"}
            /\ status[e] \in {"posted", "deleted"} => status'[e] = status[e]
            /\ approvedBy[e] # None => approvedBy'[e] = approvedBy[e]]_vars
  BY StepDecision DEF DecisionKept
<1> QED
  BY <1>1, JournalInvariant, PTL DEF Spec, DecisionIsFinal

=============================================================================
