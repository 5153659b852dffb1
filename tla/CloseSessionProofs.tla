------------------------- MODULE CloseSessionProofs -------------------------
(***************************************************************************)
(* The invariants of CloseSession for any number of requests, users,       *)
(* events and connections.                                                 *)
(***************************************************************************)
EXTENDS CloseSession, SequenceTheorems, TLAPS

\* What the transition table lets PATCH do: it never certifies, and it reaches
\* the post-certification states only from one another.
LEMMA TableLemma ==
    ASSUME NEW s \in Statuses, NEW t \in ALLOWED_TRANSITIONS[s]
    PROVE  /\ t \in {"in_progress", "under_review", "subsequent_events_review", "locked"}
           /\ t \in {"subsequent_events_review", "locked"}
                 => s \in {"certified", "subsequent_events_review"}
<1>1. CASE s = "open"
  BY <1>1 DEF ALLOWED_TRANSITIONS
<1>2. CASE s = "in_progress"
  BY <1>2 DEF ALLOWED_TRANSITIONS
<1>3. CASE s = "under_review"
  BY <1>3 DEF ALLOWED_TRANSITIONS
<1>4. CASE s = "certified"
  BY <1>4 DEF ALLOWED_TRANSITIONS
<1>5. CASE s = "subsequent_events_review"
  BY <1>5 DEF ALLOWED_TRANSITIONS
<1>6. CASE s = "locked"
  BY <1>6 DEF ALLOWED_TRANSITIONS
<1> QED
  BY <1>1, <1>2, <1>3, <1>4, <1>5, <1>6 DEF Statuses

\* The same of a PATCH that is about to write.
LEMMA PatchTarget ==
    ASSUME TypeOK, NEW r \in Requests, op[r] = "patch", RowPasses(r)
    PROVE  /\ target[r] \in Statuses
           /\ target[r] # "certified"
           /\ target[r] \in {"subsequent_events_review", "locked"}
                 => status \in {"certified", "subsequent_events_review"}
<1>1. status \in Statuses
  BY DEF TypeOK
<1>2. target[r] \in ALLOWED_TRANSITIONS[status]
  BY DEF RowPasses
<1> QED
  BY <1>1, <1>2, TableLemma DEF Statuses

\* Types.
LEMMA StepType ==
    ASSUME TypeOK, NEW r \in Requests, Progress(r)
    PROVE  TypeOK'
<1> USE CloseSessionAssumption DEF TypeOK, Statuses, Steps, rowVars, factVars, issueVars, reqVars, localVars
<1>0. op[r] = "patch" /\ RowPasses(r) => target[r] \in Statuses
  BY PatchTarget
<1>1. CASE Begin(r)
  BY <1>1 DEF Begin, Goto
<1>2. CASE Read(r)
  BY <1>2 DEF Read, Goto
<1>3. CASE Refused(r)
  BY <1>3 DEF Refused, End, Finish, Goto
<1>4. CASE Patch(r)
  BY <1>4, <1>0 DEF Patch, UpdateCloseSessionStatus, Finish, Goto
<1>5. CASE LockRow(r)
  BY <1>5 DEF LockRow, RowFree, Goto
<1>6. CASE ComputeReadiness(r)
  BY <1>6 DEF ComputeReadiness, Goto
<1>7. CASE AdvanceOpen(r)
  BY <1>7 DEF AdvanceOpen, UpdateCloseSessionStatus, Finish, Goto
<1>8. CASE AdvanceCommit(r)
  <2>1. /\ status' = "under_review" /\ advancedBy' = user[r] /\ reviews' = reviews + 1
        /\ UNCHANGED <<certifiedBy, certSnapshot, confirmedBy, statements, snapshots, artifact,
                       events, ledger, rejection, blockers>>
    BY <1>8 DEF AdvanceCommit, UpdateCloseSessionStatus
  <2> QED
    BY <1>8, <2>1 DEF AdvanceCommit, Finish, Goto
<1>9. CASE CertifyTrialBalance(r)
  BY <1>9 DEF CertifyTrialBalance, Goto
<1>10. CASE CertifyCommit(r)
  BY <1>10 DEF CertifyCommit, UpdateCertification, Finish, Goto
<1>11. CASE Reject(r)
  BY <1>11 DEF Reject, UpdateCloseSessionStatus, Finish, Goto
<1>12. CASE ReopenRow(r)
  BY <1>12 DEF ReopenRow, RowFree, Goto
<1>13. CASE ReopenCommit(r)
  BY <1>13 DEF ReopenCommit, UpdateReopen, Finish, Goto
<1>14. CASE ReviewEvents(r)
  BY <1>14 DEF ReviewEvents, UpdateCloseSessionStatus, Finish, Goto
<1>15. CASE Confirm(r)
  BY <1>15 DEF Confirm, Finish, Goto
<1>16. CASE LockReview(r)
  BY <1>16 DEF LockReview, Goto
<1>17. CASE Lock(r)
  BY <1>17 DEF Lock, UpdateCloseSessionStatus, Finish, Goto
<1>18. CASE Post(r)
  BY <1>18 DEF Post, Finish, Goto
<1> QED
  BY <1>1, <1>2, <1>3, <1>4, <1>5, <1>6, <1>7, <1>8, <1>9, <1>10, <1>11, <1>12, <1>13, <1>14, <1>15, <1>16, <1>17, <1>18 DEF Progress

\* A step changes the protocol state (who holds the row, which handler is at
\* which step) only as LockHolder and StepOps say.
LEMMA StepLock ==
    ASSUME TypeOK, LockHolder, StepOps, NEW r \in Requests, Progress(r)
    PROVE  LockHolder' /\ StepOps'
<1> USE CloseSessionAssumption DEF TypeOK, LockHolder, StepOps, Steps, Ops, rowVars, factVars, issueVars, reqVars, localVars
<1>1. CASE Begin(r)
  BY <1>1 DEF Begin, Goto
<1>2. CASE Read(r)
  BY <1>2 DEF Read, Goto
<1>3. CASE Refused(r)
  BY <1>3 DEF Refused, End, Finish, Goto
<1>4. CASE Patch(r)
  BY <1>4 DEF Patch, UpdateCloseSessionStatus, Finish, Goto
<1>5. CASE LockRow(r)
  BY <1>5 DEF LockRow, RowFree, Goto
<1>6. CASE ComputeReadiness(r)
  BY <1>6 DEF ComputeReadiness, Goto
<1>7. CASE AdvanceOpen(r)
  BY <1>7 DEF AdvanceOpen, UpdateCloseSessionStatus, Finish, Goto
<1>8. CASE AdvanceCommit(r)
  BY <1>8 DEF AdvanceCommit, UpdateCloseSessionStatus, Finish, Goto
<1>9. CASE CertifyTrialBalance(r)
  BY <1>9 DEF CertifyTrialBalance, Goto
<1>10. CASE CertifyCommit(r)
  BY <1>10 DEF CertifyCommit, UpdateCertification, Finish, Goto
<1>11. CASE Reject(r)
  BY <1>11 DEF Reject, UpdateCloseSessionStatus, Finish, Goto
<1>12. CASE ReopenRow(r)
  BY <1>12 DEF ReopenRow, RowFree, Goto
<1>13. CASE ReopenCommit(r)
  BY <1>13 DEF ReopenCommit, UpdateReopen, Finish, Goto
<1>14. CASE ReviewEvents(r)
  BY <1>14 DEF ReviewEvents, UpdateCloseSessionStatus, Finish, Goto
<1>15. CASE Confirm(r)
  BY <1>15 DEF Confirm, Finish, Goto
<1>16. CASE LockReview(r)
  BY <1>16 DEF LockReview, Goto
<1>17. CASE Lock(r)
  BY <1>17 DEF Lock, UpdateCloseSessionStatus, Finish, Goto
<1>18. CASE Post(r)
  BY <1>18 DEF Post, Finish, Goto
<1> QED
  BY <1>1, <1>2, <1>3, <1>4, <1>5, <1>6, <1>7, <1>8, <1>9, <1>10, <1>11, <1>12, <1>13, <1>14, <1>15, <1>16, <1>17, <1>18 DEF Progress

\* While a certification is under way nobody else writes the row: a write needs
\* the row lock, which the certification holds.
LEMMA StepCertify ==
    ASSUME CloseInv, NEW r \in Requests, Progress(r)
    PROVE  CertifyUnderWay'
<1> USE CloseSessionAssumption DEF CloseInv, TypeOK, LockHolder, StepOps, CertifyUnderWay, rowVars, factVars, issueVars, reqVars, localVars, RowFree
<1>1. CASE Begin(r)
  BY <1>1 DEF Begin, Goto
<1>2. CASE Read(r)
  BY <1>2 DEF Read, Goto
<1>3. CASE Refused(r)
  BY <1>3 DEF Refused, End, Finish, Goto
<1>4. CASE Patch(r)
  BY <1>4 DEF Patch, UpdateCloseSessionStatus, Finish, Goto, RowPasses
<1>5. CASE LockRow(r)
  BY <1>5 DEF LockRow, RowFree, Goto, RowPasses
<1>6. CASE ComputeReadiness(r)
  BY <1>6 DEF ComputeReadiness, NoHardBlocker, Goto
<1>7. CASE AdvanceOpen(r)
  BY <1>7 DEF AdvanceOpen, UpdateCloseSessionStatus, Finish, Goto
<1>8. CASE AdvanceCommit(r)
  BY <1>8 DEF AdvanceCommit, UpdateCloseSessionStatus, Finish, Goto
<1>9. CASE CertifyTrialBalance(r)
  BY <1>9 DEF CertifyTrialBalance, Goto
<1>10. CASE CertifyCommit(r)
  BY <1>10 DEF CertifyCommit, UpdateCertification, Finish, Goto
<1>11. CASE Reject(r)
  BY <1>11 DEF Reject, UpdateCloseSessionStatus, Finish, Goto, RowPasses
<1>12. CASE ReopenRow(r)
  BY <1>12 DEF ReopenRow, RowFree, Goto
<1>13. CASE ReopenCommit(r)
  BY <1>13 DEF ReopenCommit, UpdateReopen, Finish, Goto
<1>14. CASE ReviewEvents(r)
  BY <1>14 DEF ReviewEvents, UpdateCloseSessionStatus, Finish, Goto
<1>15. CASE Confirm(r)
  BY <1>15 DEF Confirm, Finish, Goto
<1>16. CASE LockReview(r)
  BY <1>16 DEF LockReview, Goto
<1>17. CASE Lock(r)
  BY <1>17 DEF Lock, UpdateCloseSessionStatus, Finish, Goto
<1>18. CASE Post(r)
  BY <1>18 DEF Post, Finish, Goto
<1> QED
  BY <1>1, <1>2, <1>3, <1>4, <1>5, <1>6, <1>7, <1>8, <1>9, <1>10, <1>11, <1>12, <1>13, <1>14, <1>15, <1>16, <1>17, <1>18 DEF Progress

\* A state after certification is written by a certification, from another such
\* state, or by a handler that saw one before it began.
LEMMA StepPastReview ==
    ASSUME CloseInv, NEW r \in Requests, Progress(r)
    PROVE  BlindWriters' /\ PastReviewIsCertified'
<1> USE CloseSessionAssumption DEF CloseInv, TypeOK, StepOps, BlindWriters, PastReviewIsCertified, EverCertified, rowVars, factVars, issueVars, reqVars, localVars
<1>0. op[r] = "patch" /\ RowPasses(r) =>
            /\ target[r] # "certified"
            /\ target[r] \in {"subsequent_events_review", "locked"}
                   => status \in {"certified", "subsequent_events_review"}
  BY PatchTarget
<1>1. CASE Begin(r)
  BY <1>1 DEF Begin, Goto
<1>2. CASE Read(r)
  BY <1>2 DEF Read, Goto, ReadPasses
<1>3. CASE Refused(r)
  BY <1>3 DEF Refused, End, Finish, Goto
<1>4. CASE Patch(r)
  BY <1>4, <1>0 DEF Patch, UpdateCloseSessionStatus, Finish, Goto
<1>5. CASE LockRow(r)
  BY <1>5 DEF LockRow, RowFree, Goto
<1>6. CASE ComputeReadiness(r)
  BY <1>6 DEF ComputeReadiness, Goto
<1>7. CASE AdvanceOpen(r)
  BY <1>7 DEF AdvanceOpen, UpdateCloseSessionStatus, Finish, Goto
<1>8. CASE AdvanceCommit(r)
  BY <1>8 DEF AdvanceCommit, UpdateCloseSessionStatus, Finish, Goto
<1>9. CASE CertifyTrialBalance(r)
  BY <1>9 DEF CertifyTrialBalance, Goto
<1>10. CASE CertifyCommit(r)
  BY <1>10 DEF CertifyCommit, UpdateCertification, Finish, Goto
<1>11. CASE Reject(r)
  BY <1>11 DEF Reject, UpdateCloseSessionStatus, Finish, Goto
<1>12. CASE ReopenRow(r)
  BY <1>12 DEF ReopenRow, RowFree, Goto
<1>13. CASE ReopenCommit(r)
  BY <1>13 DEF ReopenCommit, UpdateReopen, Finish, Goto
<1>14. CASE ReviewEvents(r)
  BY <1>14 DEF ReviewEvents, UpdateCloseSessionStatus, Finish, Goto
<1>15. CASE Confirm(r)
  BY <1>15 DEF Confirm, Finish, Goto
<1>16. CASE LockReview(r)
  BY <1>16 DEF LockReview, Goto
<1>17. CASE Lock(r)
  BY <1>17 DEF Lock, UpdateCloseSessionStatus, Finish, Goto
<1>18. CASE Post(r)
  BY <1>18 DEF Post, Finish, Goto
<1> QED
  BY <1>1, <1>2, <1>3, <1>4, <1>5, <1>6, <1>7, <1>8, <1>9, <1>10, <1>11, <1>12, <1>13, <1>14, <1>15, <1>16, <1>17, <1>18 DEF Progress

\* Snapshots are numbered by the submission they certify, and the submission
\* under review has none yet.
LEMMA StepReviewCount ==
    ASSUME CloseInv, NEW r \in Requests, Progress(r)
    PROVE  ReviewCount' /\ OneSnapshotPerReview'
<1> DEFINE Kept == /\ snapshots' = snapshots /\ reviews' = reviews
                   /\ status' = "under_review" => status = "under_review" /\ advancedBy' = advancedBy
           Submitted == snapshots' = snapshots /\ reviews' = reviews + 1 /\ advancedBy' # None
           Certified == /\ status = "under_review" /\ status' = "certified" /\ reviews' = reviews
                        /\ snapshots' = Append(snapshots, [tb |-> seenTb[r], review |-> reviews])
<1>1. /\ snapshots \in Seq([tb : Nat, review : Nat]) /\ reviews \in Nat /\ seenTb[r] \in Nat
      /\ ReviewCount /\ OneSnapshotPerReview
  BY DEF CloseInv, TypeOK
<1>2. reviews \in Nat /\ Len(snapshots) \in Nat /\ \A i \in 1..Len(snapshots) : snapshots[i].review \in Nat
  <2>1. \A i \in 1..Len(snapshots) : snapshots[i] \in [tb : Nat, review : Nat]
    BY <1>1, ElementOfSeq
  <2> QED
    BY <1>1, <2>1
<1>3. pc[r] # "idle" => user[r] # None
  BY CloseSessionAssumption DEF CloseInv, StepOps
<1>4. CASE Kept
  BY <1>1, <1>4 DEF ReviewCount, OneSnapshotPerReview
<1>5. CASE Submitted
  BY <1>1, <1>2, <1>5 DEF ReviewCount, OneSnapshotPerReview
<1>6. CASE Certified
  <2>1. /\ Len(snapshots') = Len(snapshots) + 1
        /\ \A i \in 1..Len(snapshots) : snapshots'[i] = snapshots[i]
        /\ snapshots'[Len(snapshots) + 1].review = reviews
    BY <1>1, <1>2, <1>6
  <2>2. \A i \in 1..Len(snapshots') : i \in 1..Len(snapshots) \/ i = Len(snapshots) + 1
    BY <1>2, <2>1
  <2>3. \A i \in 1..Len(snapshots) : snapshots[i].review < reviews
    BY <1>1, <1>6 DEF ReviewCount
  <2>4. ReviewCount'
    BY <1>1, <1>2, <1>6, <2>1, <2>2, <2>3 DEF ReviewCount
  <2>5. OneSnapshotPerReview'
    <3> SUFFICES ASSUME NEW i \in 1..Len(snapshots'), NEW j \in 1..Len(snapshots'),
                        snapshots'[i].review = snapshots'[j].review
                 PROVE  i = j
      BY DEF OneSnapshotPerReview
    <3>1. CASE i \in 1..Len(snapshots) /\ j \in 1..Len(snapshots)
      BY <1>1, <2>1, <3>1 DEF OneSnapshotPerReview
    <3>2. CASE i \in 1..Len(snapshots) /\ j = Len(snapshots) + 1
      BY <1>2, <2>1, <2>3, <3>2
    <3>3. CASE i = Len(snapshots) + 1 /\ j \in 1..Len(snapshots)
      BY <1>2, <2>1, <2>3, <3>3
    <3> QED
      BY <2>2, <3>1, <3>2, <3>3
  <2> QED
    BY <2>4, <2>5
<1>7. Kept \/ Submitted \/ Certified
  <2> USE DEF rowVars, factVars, issueVars, reqVars, localVars
  <2>1. CASE Begin(r) \/ Read(r) \/ Refused(r) \/ LockRow(r) \/ ComputeReadiness(r)
    BY <2>1 DEF Begin, Read, Refused, End, LockRow, ComputeReadiness
  <2>2. CASE CertifyTrialBalance(r) \/ ReopenRow(r) \/ Confirm(r) \/ LockReview(r) \/ Post(r)
    BY <2>2 DEF CertifyTrialBalance, ReopenRow, Confirm, LockReview, Post
  <2>3. CASE AdvanceOpen(r) \/ Reject(r) \/ ReviewEvents(r) \/ Lock(r)
    BY <2>3 DEF AdvanceOpen, Reject, ReviewEvents, Lock, UpdateCloseSessionStatus
  <2>4. CASE ReopenCommit(r)
    BY <2>4 DEF ReopenCommit, UpdateReopen
  <2>5. CASE Patch(r)
    BY <1>3, <2>5 DEF Patch, UpdateCloseSessionStatus
  <2>6. CASE AdvanceCommit(r)
    BY <1>3, <2>6 DEF AdvanceCommit, UpdateCloseSessionStatus
  <2>7. CASE CertifyCommit(r)
    BY <2>7 DEF CertifyCommit, UpdateCertification, CloseInv, CertifyUnderWay
  <2> QED
    BY <2>1, <2>2, <2>3, <2>4, <2>5, <2>6, <2>7 DEF Progress
<1> QED
  BY <1>4, <1>5, <1>6, <1>7

\* The certifying step finds the row and the blockers as the certification
\* tested them.
LEMMA StepCertified ==
    ASSUME CloseInv, NEW r \in Requests, Progress(r)
    PROVE  CertifierIsNotSubmitter' /\ RejectedIsNotCertified'
<1> USE CloseSessionAssumption DEF CloseInv, TypeOK, StepOps, CertifyUnderWay, ReviewCount, CertifierIsNotSubmitter, RejectedIsNotCertified, rowVars, factVars, issueVars, reqVars, localVars
<1>0. op[r] = "patch" /\ RowPasses(r) => target[r] # "certified"
  BY PatchTarget
<1>1. CASE Begin(r)
  BY <1>1 DEF Begin, Goto
<1>2. CASE Read(r)
  BY <1>2 DEF Read, Goto
<1>3. CASE Refused(r)
  BY <1>3 DEF Refused, End, Finish, Goto
<1>4. CASE Patch(r)
  BY <1>4, <1>0 DEF Patch, UpdateCloseSessionStatus, Finish, Goto
<1>5. CASE LockRow(r)
  BY <1>5 DEF LockRow, RowFree, Goto
<1>6. CASE ComputeReadiness(r)
  BY <1>6 DEF ComputeReadiness, Goto
<1>7. CASE AdvanceOpen(r)
  BY <1>7 DEF AdvanceOpen, UpdateCloseSessionStatus, Finish, Goto
<1>8. CASE AdvanceCommit(r)
  BY <1>8 DEF AdvanceCommit, UpdateCloseSessionStatus, Finish, Goto
<1>9. CASE CertifyTrialBalance(r)
  BY <1>9 DEF CertifyTrialBalance, Goto
<1>10. CASE CertifyCommit(r)
  BY <1>10 DEF CertifyCommit, UpdateCertification, Finish, Goto
<1>11. CASE Reject(r)
  BY <1>11 DEF Reject, UpdateCloseSessionStatus, Finish, Goto, RowPasses
<1>12. CASE ReopenRow(r)
  BY <1>12 DEF ReopenRow, RowFree, Goto
<1>13. CASE ReopenCommit(r)
  BY <1>13 DEF ReopenCommit, UpdateReopen, Finish, Goto
<1>14. CASE ReviewEvents(r)
  BY <1>14 DEF ReviewEvents, UpdateCloseSessionStatus, Finish, Goto
<1>15. CASE Confirm(r)
  BY <1>15 DEF Confirm, Finish, Goto
<1>16. CASE LockReview(r)
  BY <1>16 DEF LockReview, Goto
<1>17. CASE Lock(r)
  BY <1>17 DEF Lock, UpdateCloseSessionStatus, Finish, Goto
<1>18. CASE Post(r)
  BY <1>18 DEF Post, Finish, Goto
<1> QED
  BY <1>1, <1>2, <1>3, <1>4, <1>5, <1>6, <1>7, <1>8, <1>9, <1>10, <1>11, <1>12, <1>13, <1>14, <1>15, <1>16, <1>17, <1>18 DEF Progress

\* A request that starts, ends or fails writes nothing of the session.
LEMMA StartInv ==
    ASSUME CloseInv, NEW r \in Requests, NEW o \in Ops, NEW u \in Users, NEW t \in Statuses,
           Start(r, o, u, t)
    PROVE  CloseInv'
<1> USE CloseSessionAssumption DEF CloseInv, Start, Goto, TypeOK, rowVars, factVars, issueVars
<1>1. TypeOK'
  BY DEF Steps
<1>2. LockHolder' /\ StepOps'
  BY DEF LockHolder, StepOps
<1>3. CertifyUnderWay' /\ BlindWriters'
  BY DEF CertifyUnderWay, BlindWriters, EverCertified, TransactionFirst
<1>4. ReviewCount' /\ OneSnapshotPerReview'
  BY DEF ReviewCount, OneSnapshotPerReview
<1>5. PastReviewIsCertified' /\ CertifierIsNotSubmitter' /\ RejectedIsNotCertified'
  BY DEF PastReviewIsCertified, CertifierIsNotSubmitter, RejectedIsNotCertified
<1> QED
  BY <1>1, <1>2, <1>3, <1>4, <1>5

\* A request that fails leaves only its own bookkeeping behind.
LEMMA AbortInv ==
    ASSUME CloseInv, NEW r \in Requests, Abort(r)
    PROVE  CloseInv'
<1> USE CloseSessionAssumption DEF CloseInv, Abort, End, Finish, Goto, TypeOK, rowVars, factVars, issueVars
<1>1. TypeOK'
  BY DEF Steps
<1>2. LockHolder' /\ StepOps'
  BY DEF LockHolder, StepOps
<1>3. CertifyUnderWay' /\ BlindWriters'
  BY DEF LockHolder, CertifyUnderWay, BlindWriters, EverCertified
<1>4. ReviewCount' /\ OneSnapshotPerReview'
  BY DEF ReviewCount, OneSnapshotPerReview
<1>5. PastReviewIsCertified' /\ CertifierIsNotSubmitter' /\ RejectedIsNotCertified'
  BY DEF PastReviewIsCertified, CertifierIsNotSubmitter, RejectedIsNotCertified
<1> QED
  BY <1>1, <1>2, <1>3, <1>4, <1>5

\* The environment adds no rejection and leaves the row's status, submitter and
\* certification alone.
LEMMA EnvironmentInv ==
    ASSUME CloseInv, Environment
    PROVE  CloseInv'
<1>1. /\ UNCHANGED <<status, advancedBy, certifiedBy, certSnapshot, confirmedBy>>
      /\ UNCHANGED <<snapshots, artifact, ledger, reviews, reqVars>>
      /\ statements' \in {"current", "stale"}
      /\ events' \in [Events -> {"absent", "open", "disposed"}]
      /\ blockers' \in {"some", "none"}
      /\ rejection' \in {"none", "open", "closed", "reopened"}
      /\ rejection' = "open" => rejection = "open"
  <2> USE DEF CloseInv, TypeOK, rowVars, factVars, issueVars
  <2>1. ASSUME NEW e \in Events, CreateEvent(e) \/ UpdateEventDisposition(e) PROVE <1>1!:
    BY <2>1 DEF CreateEvent, UpdateEventDisposition
  <2>2. CASE CloseIssue \/ ReopenIssue
    BY <2>2 DEF CloseIssue, ReopenIssue
  <2>3. ASSUME NEW v \in {"some", "none"}, SetBlockers(v) PROVE <1>1!:
    BY <2>3 DEF SetBlockers
  <2>4. ASSUME NEW v \in {"current", "stale"}, SetStatements(v) PROVE <1>1!:
    BY <2>4 DEF SetStatements
  <2> QED
    BY <2>1, <2>2, <2>3, <2>4 DEF Environment
<1> USE <1>1 DEF CloseInv, reqVars, localVars, TypeOK
<1>2. TypeOK'
  OBVIOUS
<1>3. LockHolder' /\ StepOps'
  BY DEF LockHolder, StepOps
<1>4. CertifyUnderWay' /\ BlindWriters'
  BY DEF CertifyUnderWay, BlindWriters, EverCertified
<1>5. ReviewCount' /\ OneSnapshotPerReview'
  BY DEF ReviewCount, OneSnapshotPerReview
<1>6. PastReviewIsCertified' /\ CertifierIsNotSubmitter' /\ RejectedIsNotCertified'
  BY DEF PastReviewIsCertified, CertifierIsNotSubmitter, RejectedIsNotCertified
<1> QED
  BY <1>2, <1>3, <1>4, <1>5, <1>6

\* CloseInv is inductive.
THEOREM CloseSessionInvariant == Spec => []CloseInv
<1>1. Init => CloseInv
  <2> SUFFICES ASSUME Init PROVE CloseInv
    OBVIOUS
  <2> USE CloseSessionAssumption DEF Init
  <2>1. TypeOK
    BY DEF TypeOK, Statuses, Steps
  <2>2. LockHolder /\ StepOps /\ CertifyUnderWay /\ BlindWriters
    BY DEF LockHolder, StepOps, CertifyUnderWay, BlindWriters
  <2>3. ReviewCount /\ OneSnapshotPerReview
    BY DEF ReviewCount, OneSnapshotPerReview
  <2>4. PastReviewIsCertified /\ CertifierIsNotSubmitter /\ RejectedIsNotCertified
    BY DEF PastReviewIsCertified, CertifierIsNotSubmitter, RejectedIsNotCertified
  <2> QED
    BY <2>1, <2>2, <2>3, <2>4 DEF CloseInv
<1>2. CloseInv /\ [Next]_vars => CloseInv'
  <2> SUFFICES ASSUME CloseInv, [Next]_vars PROVE CloseInv'
    OBVIOUS
  <2>1. ASSUME NEW r \in Requests, Progress(r) PROVE CloseInv'
    <3>1. TypeOK'
      BY <2>1, StepType DEF CloseInv
    <3>2. LockHolder' /\ StepOps'
      BY <2>1, StepLock DEF CloseInv
    <3>3. CertifyUnderWay' /\ BlindWriters' /\ PastReviewIsCertified'
      BY <2>1, StepCertify, StepPastReview
    <3>4. ReviewCount' /\ OneSnapshotPerReview' /\ CertifierIsNotSubmitter' /\ RejectedIsNotCertified'
      BY <2>1, StepReviewCount, StepCertified
    <3> QED
      BY <3>1, <3>2, <3>3, <3>4 DEF CloseInv
  <2>2. CASE UNCHANGED vars
    <3> USE <2>2 DEF CloseInv, vars, rowVars, factVars, issueVars, reqVars, localVars
    <3>1. TypeOK' /\ LockHolder' /\ StepOps'
      BY DEF TypeOK, LockHolder, StepOps
    <3>2. CertifyUnderWay' /\ BlindWriters' /\ PastReviewIsCertified'
      BY DEF CertifyUnderWay, BlindWriters, EverCertified, PastReviewIsCertified
    <3>3. ReviewCount' /\ OneSnapshotPerReview' /\ CertifierIsNotSubmitter' /\ RejectedIsNotCertified'
      BY DEF ReviewCount, OneSnapshotPerReview, CertifierIsNotSubmitter, RejectedIsNotCertified
    <3> QED
      BY <3>1, <3>2, <3>3
  <2> QED
    BY <2>1, <2>2, StartInv, AbortInv, EnvironmentInv DEF Next
<1> QED
  BY <1>1, <1>2, PTL DEF Spec

\* Types, for every number of requests, users, events and connections.
THEOREM CloseSessionTypes == Spec => []TypeOK
  BY CloseSessionInvariant, PTL DEF CloseInv

\* No interleaving takes a session past review without a certifier, a snapshot
\* and an artifact.
THEOREM PastReviewTheorem == Spec => []PastReviewIsCertified
  BY CloseSessionInvariant, PTL DEF CloseInv

\* No interleaving lets the submitter certify.
THEOREM SegregationTheorem == Spec => []CertifierIsNotSubmitter
  BY CloseSessionInvariant, PTL DEF CloseInv

\* Concurrent certifications of one submission produce one snapshot.
THEOREM OneSnapshotTheorem == Spec => []OneSnapshotPerReview
  BY CloseSessionInvariant, PTL DEF CloseInv

\* A rejected package is not certified before its rejection is resolved.
THEOREM RejectionTheorem == Spec => []RejectedIsNotCertified
  BY CloseSessionInvariant, PTL DEF CloseInv

\* The columns the life cycle looks at change in a certification (under the row lock it
\* took in under_review), in an advance or a rejection (of a row tested under its lock),
\* in a PATCH (of a row tested against the table), or in a blind write.
LEMMA StatusStep ==
    ASSUME CloseInv, AdvanceUnderWay, NEW r \in Requests, Progress(r)
    PROVE  \/ UNCHANGED <<status, snapshots>>
           \/ status \in {"open", "in_progress", "under_review"} /\ Life!LifeNext
           \/ op[r] = "patch" /\ PastRead(r) /\ Life!LifeNext
           \/ /\ op[r] \in BlindOps /\ PastRead(r)
              /\ snapshots' = snapshots
              /\ op[r] = "reopen" => status' = "in_progress"
              /\ op[r] = "review_events" => status' = "subsequent_events_review"
              /\ op[r] = "lock" => status' = "locked"
<1> USE DEF rowVars, factVars, issueVars, reqVars, localVars, UpdateCloseSessionStatus, Life!LifeNext, Life!Move
<1>1. CASE Begin(r) \/ Read(r) \/ Refused(r) \/ LockRow(r) \/ ComputeReadiness(r)
  BY <1>1 DEF Begin, Read, Refused, End, LockRow, ComputeReadiness
<1>2. CASE CertifyTrialBalance(r) \/ ReopenRow(r) \/ Confirm(r) \/ LockReview(r) \/ Post(r)
  BY <1>2 DEF CertifyTrialBalance, ReopenRow, Confirm, LockReview, Post
<1>3. CASE Patch(r)
  <2>1. /\ op[r] = "patch" /\ PastRead(r)
        /\ target[r] \in ALLOWED_TRANSITIONS[status]
        /\ status' = target[r] /\ snapshots' = snapshots
    BY <1>3 DEF Patch, RowPasses, PastRead
  <2>2. status \in Statuses
    BY DEF CloseInv, TypeOK
  <2>3. Life!LifeNext
    BY <2>1, <2>2 DEF Statuses, ALLOWED_TRANSITIONS, Life!BeginWork, Life!Submit, Life!SendBack,
       Life!Reopen, Life!ReviewSubsequentEvents, Life!LockForGood
  <2> QED
    BY <2>1, <2>3
<1>4. CASE AdvanceOpen(r)
  BY <1>4 DEF AdvanceOpen, Life!BeginWork
<1>5. CASE AdvanceCommit(r)
  <2>1. status = "in_progress"
    BY <1>5 DEF AdvanceCommit, AdvanceUnderWay
  <2> QED
    BY <1>5, <2>1 DEF AdvanceCommit, Life!Submit
<1>6. CASE CertifyCommit(r)
  <2>1. status = "under_review"
    BY <1>6 DEF CertifyCommit, CloseInv, CertifyUnderWay
  <2>2. Len(snapshots') = Len(snapshots) + 1
    BY <1>6 DEF CertifyCommit, UpdateCertification, CloseInv, TypeOK
  <2> QED
    BY <1>6, <2>1, <2>2 DEF CertifyCommit, UpdateCertification, Life!Attest
<1>7. CASE Reject(r)
  BY <1>7 DEF Reject, RowPasses, Life!SendBack
<1>8. CASE ReopenCommit(r) \/ ReviewEvents(r) \/ Lock(r)
  BY <1>8 DEF ReopenCommit, UpdateReopen, ReviewEvents, Lock, BlindOps, StatusRead, PastRead
<1> QED
  BY <1>1, <1>2, <1>3, <1>4, <1>5, <1>6, <1>7, <1>8 DEF Progress

\* Outside a request's own step the status, the snapshots and who is past a read stay.
LEMMA OtherSteps ==
    ASSUME CloseInv, [Next]_vars, \A r \in Requests : ~Progress(r)
    PROVE  /\ UNCHANGED <<status, snapshots>>
           /\ \A r \in Requests :
                 \/ pc'[r] = pc[r] /\ op'[r] = op[r]
                 \/ pc'[r] \in {"idle", "read"}
                 \/ pc'[r] = "begin" /\ op'[r] \in TransactionFirst \cup {"patch"}
<1> DEFINE Quiet ==
        /\ UNCHANGED <<status, snapshots>>
        /\ \A r \in Requests :
              \/ pc'[r] = pc[r] /\ op'[r] = op[r]
              \/ pc'[r] \in {"idle", "read"}
              \/ pc'[r] = "begin" /\ op'[r] \in TransactionFirst \cup {"patch"}
<1> USE DEF CloseInv, TypeOK, rowVars, factVars, issueVars, reqVars, localVars
<1>1. ASSUME NEW r \in Requests, NEW o \in Ops, NEW u \in Users, NEW t \in Statuses, Start(r, o, u, t)
      PROVE  Quiet
  BY <1>1 DEF Start, Goto
<1>2. ASSUME NEW r \in Requests, Abort(r) PROVE Quiet
  BY <1>2 DEF Abort, End, Finish, Goto
<1>3. CASE Environment
  BY <1>3 DEF Environment, CreateEvent, UpdateEventDisposition, CloseIssue, ReopenIssue, SetBlockers, SetStatements
<1>4. CASE UNCHANGED vars
  BY <1>4 DEF vars
<1> QED
  BY <1>1, <1>2, <1>3, <1>4 DEF Next

\* An advance that holds the row is the only one to write it.
LEMMA StepAdvance ==
    ASSUME CloseInv, AdvanceUnderWay, [Next]_vars
    PROVE  AdvanceUnderWay'
<1>1. CASE \A r \in Requests : ~Progress(r)
  BY <1>1, OtherSteps DEF AdvanceUnderWay
<1>2. ASSUME NEW r \in Requests, Progress(r) PROVE AdvanceUnderWay'
  <2> USE CloseSessionAssumption DEF CloseInv, TypeOK, LockHolder, StepOps, AdvanceUnderWay, RowFree, Goto,
          rowVars, factVars, issueVars, reqVars, localVars
  <2>1. CASE Begin(r) \/ Read(r)
    BY <2>1 DEF Begin, Read
  <2>2. CASE LockRow(r) \/ ReopenRow(r)
    BY <2>2 DEF LockRow, ReopenRow
  <2>3. CASE ComputeReadiness(r) \/ CertifyTrialBalance(r) \/ LockReview(r)
    BY <2>3 DEF ComputeReadiness, CertifyTrialBalance, LockReview
  <2>4. CASE Refused(r) \/ Confirm(r) \/ Post(r)
    BY <2>4 DEF Refused, End, Confirm, Post, Finish
  <2>5. CASE Patch(r) \/ AdvanceOpen(r) \/ Reject(r) \/ ReviewEvents(r) \/ Lock(r)
    <3>1. RowFree /\ pc' = [pc EXCEPT ![r] = "idle"] /\ op' = [op EXCEPT ![r] = None]
      BY <2>5 DEF Patch, AdvanceOpen, Reject, ReviewEvents, Lock, Finish
    <3> QED
      BY <3>1
  <2>6. CASE AdvanceCommit(r) \/ CertifyCommit(r) \/ ReopenCommit(r)
    <3>1. pc[r] = "commit" /\ pc' = [pc EXCEPT ![r] = "idle"] /\ op' = [op EXCEPT ![r] = None]
      BY <2>6 DEF AdvanceCommit, CertifyCommit, ReopenCommit, Finish
    <3> QED
      BY <3>1
  <2> QED
    BY <1>2, <2>1, <2>2, <2>3, <2>4, <2>5, <2>6 DEF Progress
<1> QED
  BY <1>1, <1>2

\* So AdvanceUnderWay is invariant.
LEMMA AdvanceInvariant == Spec => []AdvanceUnderWay
<1>1. Init => AdvanceUnderWay
  BY DEF Init, AdvanceUnderWay
<1>2. CloseInv /\ AdvanceUnderWay /\ [Next]_vars => AdvanceUnderWay'
  BY StepAdvance
<1> QED
  BY <1>1, <1>2, CloseSessionInvariant, PTL DEF Spec

\* With any number of concurrent requests the session keeps the life cycle of the
\* service's header exactly as long as reopenCloseSession, advanceToSubsequentEventsReview
\* and lockCloseSession write over the status they read: every other handler's test is
\* made under the row lock, and needs no hypothesis.
THEOREM LifecycleTheorem == Spec /\ []ReadIsFresh => ImplementsLifecycle
<1>1. Init => Life!LifeInit
  BY DEF Init, Life!LifeInit
<1>2. CloseInv /\ AdvanceUnderWay /\ ReadIsFresh /\ [Next]_vars => [Life!LifeNext]_(Life!lifeVars)
  <2> SUFFICES ASSUME CloseInv, AdvanceUnderWay, ReadIsFresh, [Next]_vars
               PROVE  Life!LifeNext \/ UNCHANGED <<status, snapshots>>
    BY DEF Life!lifeVars
  <2>1. CASE \A r \in Requests : ~Progress(r)
    BY <2>1, OtherSteps
  <2>2. ASSUME NEW r \in Requests, Progress(r), op[r] \in BlindOps, PastRead(r), snapshots' = snapshots,
               op[r] = "reopen" => status' = "in_progress",
               op[r] = "review_events" => status' = "subsequent_events_review",
               op[r] = "lock" => status' = "locked"
        PROVE  Life!LifeNext
    <3>1. status = StatusRead[op[r]]
      BY <2>2 DEF ReadIsFresh
    <3> QED
      BY <2>2, <3>1 DEF BlindOps, StatusRead, Life!LifeNext, Life!Move, Life!Reopen,
         Life!ReviewSubsequentEvents, Life!LockForGood
  <2> QED
    BY <2>1, <2>2, StatusStep
<1> QED
  BY <1>1, <1>2, CloseSessionInvariant, AdvanceInvariant, PTL DEF Spec, ImplementsLifecycle, Life!LifeSpec

\* The other handlers leave a certified session, or one in subsequent events review, as
\* it is: what a blind handler read is overwritten only by another one, or by PATCH.
LEMMA StepFresh ==
    ASSUME CloseInv, AdvanceUnderWay, BlindRunsAlone, ReadIsFresh, [Next]_vars
    PROVE  ReadIsFresh'
<1>1. CASE \A r \in Requests : ~Progress(r)
  BY <1>1, OtherSteps DEF ReadIsFresh, PastRead, BlindOps, StatusRead, TransactionFirst
<1>2. ASSUME NEW r \in Requests, Progress(r), NEW s \in Requests, (op[s] \in BlindOps /\ PastRead(s))'
      PROVE  status' = StatusRead[op'[s]]
  <2> USE DEF CloseInv, TypeOK, StepOps, Goto, rowVars, factVars, issueVars, reqVars, localVars
  <2>1. CASE s # r
    <3>1. pc'[s] = pc[s] /\ op'[s] = op[s]
      BY <1>2, <2>1 DEF Progress, Begin, Read, Refused, End, Patch, LockRow, ComputeReadiness, AdvanceOpen,
         AdvanceCommit, CertifyTrialBalance, CertifyCommit, Reject, ReopenRow, ReopenCommit,
         ReviewEvents, Confirm, LockReview, Lock, Post, Finish
    <3>2. op[s] \in BlindOps /\ PastRead(s) /\ status = StatusRead[op[s]]
      BY <1>2, <3>1 DEF ReadIsFresh, PastRead
    <3>3. status \in {"certified", "subsequent_events_review"}
      BY <3>2 DEF BlindOps, StatusRead
    <3>4. ~(op[r] \in BlindOps \cup {"patch"} /\ PastRead(r))
      BY <2>1, <3>2 DEF BlindRunsAlone
    <3>5. status' = status
      BY <1>2, <3>3, <3>4, StatusStep
    <3> QED
      BY <3>1, <3>2, <3>5
  <2>2. CASE s = r
    <3>1. CASE Read(r)
      <4>1. op'[s] = op[r] /\ status' = status /\ ReadPasses(r)
        BY <2>2, <3>1 DEF Read
      <4>2. op[r] \in {"reopen", "review_events", "lock"}
        BY <1>2, <4>1 DEF BlindOps, StatusRead
      <4>3. CASE op[r] = "lock"
        BY <4>1, <4>3 DEF ReadPasses, StatusRead
      <4>4. CASE op[r] = "reopen"
        BY <4>1, <4>4 DEF ReadPasses, StatusRead
      <4>5. CASE op[r] = "review_events"
        BY <4>1, <4>5 DEF ReadPasses, StatusRead
      <4> QED
        BY <4>2, <4>3, <4>4, <4>5
    <3>2. CASE Begin(r) \/ LockReview(r) \/ ReopenRow(r)
      <4>1. PastRead(r) /\ op' = op /\ status' = status
        BY <3>2 DEF Begin, LockReview, ReopenRow, PastRead
      <4> QED
        BY <1>2, <2>2, <4>1 DEF ReadIsFresh
    <3>3. CASE LockRow(r) \/ ComputeReadiness(r) \/ CertifyTrialBalance(r)
      <4>1. op' = op /\ op[r] \in {"advance", "certify"}
        BY <3>3 DEF LockRow, ComputeReadiness, CertifyTrialBalance
      <4> QED
        BY <1>2, <2>2, <4>1 DEF BlindOps, StatusRead
    <3>4. ASSUME Finish(r) PROVE FALSE
      BY <1>2, <2>2, <3>4 DEF Finish, PastRead
    <3> QED
      BY <1>2, <3>1, <3>2, <3>3, <3>4 DEF Progress, Refused, End, Patch, AdvanceOpen, AdvanceCommit,
         CertifyCommit, Reject, ReopenCommit, ReviewEvents, Confirm, Lock, Post
  <2> QED
    BY <2>1, <2>2
<1> QED
  BY <1>1, <1>2 DEF ReadIsFresh, PastRead

\* Clients that let no two of the blind handlers overlap, nor one of them and a PATCH, see
\* the promised life cycle, whatever else runs at the same time.
THEOREM DisciplinedTheorem == Spec /\ []BlindRunsAlone => ImplementsLifecycle
<1>1. Init => ReadIsFresh
  BY DEF Init, ReadIsFresh, PastRead
<1>2. CloseInv /\ AdvanceUnderWay /\ BlindRunsAlone /\ ReadIsFresh /\ [Next]_vars => ReadIsFresh'
  BY StepFresh
<1>3. Spec /\ []BlindRunsAlone => []ReadIsFresh
  BY <1>1, <1>2, CloseSessionInvariant, AdvanceInvariant, PTL DEF Spec
<1> QED
  BY <1>3, LifecycleTheorem, PTL

\* In particular "locked" is then terminal, as the header of the service says: without the
\* discipline it is not.
THEOREM TerminalTheorem == Spec /\ []BlindRunsAlone => LockedIsTerminal
<1>1. [Life!LifeNext]_(Life!lifeVars) => (status = "locked" => status' = "locked")
  BY DEF Life!lifeVars, Life!LifeNext, Life!Move, Life!BeginWork, Life!Submit, Life!SendBack, Life!Attest,
     Life!Reopen, Life!ReviewSubsequentEvents, Life!LockForGood
<1> QED
  BY <1>1, DisciplinedTheorem, PTL DEF ImplementsLifecycle, Life!LifeSpec, LockedIsTerminal

\* One request at a time keeps the life cycle unconditionally.
THEOREM SequentialTheorem ==
    ASSUME \A r, s \in Requests : r = s
    PROVE  Spec => ImplementsLifecycle
<1>1. BlindRunsAlone
  BY DEF BlindRunsAlone
<1> QED
  BY <1>1, DisciplinedTheorem, PTL

=============================================================================
