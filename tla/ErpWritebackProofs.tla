------------------------- MODULE ErpWritebackProofs -------------------------
(***************************************************************************)
(* Proofs about ErpWriteback, for every number of entries, workers, crashes *)
(* and overruns.                                                           *)
(***************************************************************************)
EXTENDS ErpWriteback, TLAPS

\* The queue's types survive each of its steps, with the parameters this module
\* gives it.
LEMMA QueueTypes ==
    ASSUME Q!TypeOK
    PROVE  /\ \A j \in Jobs : Q!Enqueue(j) \/ Q!LockAges(j) => Q!TypeOK'
           /\ \A w \in Workers, j \in Jobs : Q!ClaimNext(w, j) => Q!TypeOK'
           /\ \A w \in Workers :
                 Q!HandlerReturns(w) \/ Q!HandlerThrows(w) \/ Q!Complete(w)
                    \/ Q!DeadLetter(w) \/ Q!CompleteThrows(w) \/ Q!Crash(w) => Q!TypeOK'
<1> USE ErpWritebackAssumption DEF Q!TypeOK, Q!jobVars, Q!workerVars, Q!counters
<1>1. ASSUME NEW j \in Jobs, Q!Enqueue(j) PROVE Q!TypeOK'
  BY <1>1 DEF Q!Enqueue
<1>2. ASSUME NEW j \in Jobs, Q!LockAges(j) PROVE Q!TypeOK'
  BY <1>2 DEF Q!LockAges, Q!OwnerAtWork
<1>3. ASSUME NEW w \in Workers, NEW j \in Jobs, Q!ClaimNext(w, j) PROVE Q!TypeOK'
  BY <1>3 DEF Q!ClaimNext
<1>4. ASSUME NEW w \in Workers, Q!HandlerReturns(w) PROVE Q!TypeOK'
  BY <1>4 DEF Q!HandlerReturns
<1>5. ASSUME NEW w \in Workers, Q!HandlerThrows(w) PROVE Q!TypeOK'
  BY <1>5 DEF Q!HandlerThrows
<1>6. ASSUME NEW w \in Workers, Q!Complete(w) PROVE Q!TypeOK'
  BY <1>6 DEF Q!Complete, Q!BackToPolling
<1>7. ASSUME NEW w \in Workers, Q!DeadLetter(w) PROVE Q!TypeOK'
  BY <1>7 DEF Q!DeadLetter, Q!BackToPolling
<1>8. ASSUME NEW w \in Workers, Q!CompleteThrows(w) PROVE Q!TypeOK'
  <2>1. status' = status \/ status' = [status EXCEPT ![wjob[w]] = "completed"]
    BY <1>8 DEF Q!CompleteThrows
  <2>2. crashes' = crashes \/ crashes' = crashes + 1
    BY <1>8 DEF Q!CompleteThrows
  <2>3. /\ wpc[w] = "succeeded" /\ wpc' = [wpc EXCEPT ![w] = "failed"]
        /\ UNCHANGED <<attempts, due, lockAge, owner, created, wjob, wattempts, overruns>>
    BY <1>8 DEF Q!CompleteThrows
  <2>4. status' \in [Jobs -> {"absent", "pending", "locked", "completed", "dead"}]
    BY <2>1
  <2>5. crashes' \in Nat
    BY <2>2
  <2>6. /\ wpc' \in [Workers -> {"idle", "running", "succeeded", "failed", "unknown"}]
        /\ \A v \in Workers : wpc'[v] # "idle" => wjob'[v] \in Jobs
    BY <2>3
  <2> QED
    BY <2>3, <2>4, <2>5, <2>6
<1>9. ASSUME NEW w \in Workers, Q!Crash(w) PROVE Q!TypeOK'
  BY <1>9 DEF Q!Crash, Q!BackToPolling
<1> QED
  BY <1>1, <1>2, <1>3, <1>4, <1>5, <1>6, <1>7, <1>8, <1>9

\* A worker has a next step exactly while its handler runs.
LEMMA StepTypes ==
    ASSUME TypeOK, Next
    PROVE  TypeOK'
<1> USE ErpWritebackAssumption DEF TypeOK, Q!TypeOK, Steps, queueVars, ledgerVars, Q!jobVars, Q!workerVars, Q!counters
<1>1. ASSUME NEW j \in Jobs, RequestApprovedErpWriteback(j) PROVE TypeOK'
  BY <1>1 DEF RequestApprovedErpWriteback, CreatePendingWriteback
<1>2. ASSUME NEW j \in Jobs, Dispatch(j) PROVE TypeOK'
  <2>1. Q!TypeOK'
    BY <1>2, QueueTypes DEF Dispatch
  <2> QED
    BY <1>2, <2>1 DEF Dispatch, Q!Enqueue
<1>3. ASSUME NEW j \in Jobs, PostJournalEntry(j) PROVE TypeOK'
  BY <1>3 DEF PostJournalEntry
<1>4. ASSUME NEW j \in Jobs, LockAges(j) PROVE TypeOK'
  BY <1>4 DEF LockAges, Q!LockAges, Q!OwnerAtWork
<1>5. ASSUME NEW c \in {"on", "changed", "moved"}, Configure(c) PROVE TypeOK'
  BY <1>5 DEF Configure
<1>6. ASSUME NEW w \in Workers, NEW j \in Jobs, ClaimJob(w, j) PROVE TypeOK'
  BY <1>6 DEF ClaimJob, Q!ClaimNext, Goto
<1>7. ASSUME NEW w \in Workers, ReadWriteback(w) PROVE TypeOK'
  <2>1. CASE Return(w)
    BY <1>7, <2>1 DEF ReadWriteback, At, Return, Q!HandlerReturns, Goto
  <2>2. CASE Throw(w)
    BY <1>7, <2>2 DEF ReadWriteback, At, Throw, Q!HandlerThrows, Goto
  <2>3. CASE Continue(w, "ambiguous")
    BY <1>7, <2>3 DEF ReadWriteback, At, Continue, Goto
  <2>4. CASE Continue(w, "config")
    BY <1>7, <2>4 DEF ReadWriteback, At, Continue, Goto
  <2> QED
    BY <1>7, <2>1, <2>2, <2>3, <2>4 DEF ReadWriteback
<1>8. ASSUME NEW w \in Workers, ReadConfig(w) PROVE TypeOK'
  BY <1>8 DEF ReadConfig, At, Goto, Continue
<1>9. ASSUME NEW w \in Workers, Cancel(w) PROVE TypeOK'
  <2>1. CASE Return(w)
    BY <1>9, <2>1 DEF Cancel, At, MarkTerminal, Undecided, Return, Q!HandlerReturns, Goto
  <2>2. CASE Throw(w)
    BY <1>9, <2>2 DEF Cancel, At, MarkTerminal, Undecided, Throw, Q!HandlerThrows, Goto
  <2> QED
    BY <1>9, <2>1, <2>2 DEF Cancel
<1>10. ASSUME NEW w \in Workers, Disown(w) PROVE TypeOK'
  BY <1>10 DEF Disown, MarkTerminal, Undecided, At, Goto, Throw, Q!HandlerThrows
<1>11. ASSUME NEW w \in Workers, ReadEntry(w) PROVE TypeOK'
  BY <1>11 DEF ReadEntry, At, Goto, Continue
<1>12. ASSUME NEW w \in Workers, InternalPost(w) PROVE TypeOK'
  BY <1>12 DEF InternalPost, At, Goto, Continue
<1>13. ASSUME NEW w \in Workers, InternalPostRefused(w) PROVE TypeOK'
  BY <1>13 DEF InternalPostRefused, At, Goto, Continue
<1>14. ASSUME NEW w \in Workers, PostFailed(w) PROVE TypeOK'
  BY <1>14 DEF PostFailed, MarkTerminal, Undecided, At, Goto, Throw, Q!HandlerThrows
<1>15. ASSUME NEW w \in Workers, Claim(w) PROVE TypeOK'
  BY <1>15 DEF Claim, BeginPosting, At, Goto, Continue
<1>16. ASSUME NEW w \in Workers, ClaimLost(w) PROVE TypeOK'
  BY <1>16 DEF ClaimLost, At, Goto, Throw, Q!HandlerThrows
<1>17. ASSUME NEW w \in Workers, Connect(w) PROVE TypeOK'
  BY <1>17 DEF Connect, At, Goto, Continue
<1>18. ASSUME NEW w \in Workers, NoConnection(w) PROVE TypeOK'
  BY <1>18 DEF NoConnection, MarkTerminal, Undecided, At, Goto, Throw, Q!HandlerThrows
<1>19. ASSUME NEW w \in Workers, PushJournalEntry(w) PROVE TypeOK'
  <2>1. wjob[w] \in Jobs
    BY <1>19 DEF PushJournalEntry, At
  <2>2. /\ step' \in [Workers -> Steps]
        /\ \A v \in Workers : step'[v] = "none" <=> step[v] = "none"
    <3>1. PICK s \in {"record", "ambiguous"} : step' = [step EXCEPT ![w] = s]
      BY <1>19 DEF PushJournalEntry, Continue, Goto
    <3>2. step[w] # "none"
      BY <1>19 DEF PushJournalEntry, At
    <3> QED
      BY <3>1, <3>2
  <2>3. UNCHANGED <<queueVars, je, wb, config>>
    BY <1>19 DEF PushJournalEntry, Continue
  <2>4. pushes' \in [Jobs -> Nat]
    BY <1>19, <2>1 DEF PushJournalEntry
  <2>5. booked' \in [Jobs -> {"no", "yes"}]
    BY <1>19, <2>1 DEF PushJournalEntry
  <2> QED
    BY <2>2, <2>3, <2>4, <2>5
<1>20. ASSUME NEW w \in Workers, ReconciliationRequired(w) PROVE TypeOK'
  BY <1>20 DEF ReconciliationRequired, MarkTerminal, Undecided, At, Goto, Throw, Q!HandlerThrows
<1>21. ASSUME NEW w \in Workers, RecordEvent(w) PROVE TypeOK'
  BY <1>21 DEF RecordEvent, At, Goto, Continue
<1>22. ASSUME NEW w \in Workers, Receipt(w) PROVE TypeOK'
  BY <1>22 DEF Receipt, MarkPosted, At, Goto, Return, Q!HandlerReturns
<1>23. ASSUME NEW w \in Workers, ReceiptLost(w) PROVE TypeOK'
  BY <1>23 DEF ReceiptLost, At, Goto, Throw, Q!HandlerThrows
<1>24. ASSUME NEW w \in Workers, StepFails(w) PROVE TypeOK'
  BY <1>24 DEF StepFails, Goto, Throw, Q!HandlerThrows
<1>25. ASSUME NEW w \in Workers, Finish(w) PROVE TypeOK'
  <2>1. CASE Q!Complete(w)
    BY <1>25, <2>1 DEF Finish, Q!Complete, Q!BackToPolling
  <2>2. CASE Q!DeadLetter(w)
    BY <1>25, <2>2 DEF Finish, Q!DeadLetter, Q!BackToPolling
  <2> QED
    BY <1>25, <2>1, <2>2 DEF Finish
<1>26. ASSUME NEW w \in Workers, CompletionFails(w) PROVE TypeOK'
  <2>1. Q!CompleteThrows(w) /\ UNCHANGED <<ledgerVars, step>>
    BY <1>26 DEF CompletionFails
  <2>2. Q!TypeOK /\ Q!TypeOK'
    BY <2>1, QueueTypes
  <2>3. \A v \in Workers : wpc'[v] = "running" <=> wpc[v] = "running"
    BY <2>1 DEF Q!CompleteThrows
  <2> QED
    BY <2>1, <2>2, <2>3
<1>27. ASSUME NEW w \in Workers, Crash(w) PROVE TypeOK'
  BY <1>27 DEF Crash, Q!Crash, Q!BackToPolling, Goto
<1> QED
  BY <1>1, <1>2, <1>3, <1>4, <1>5, <1>6, <1>7, <1>8, <1>9, <1>10, <1>11, <1>12, <1>13, <1>14,
     <1>15, <1>16, <1>17, <1>18, <1>19, <1>20, <1>21, <1>22, <1>23, <1>24, <1>25, <1>26, <1>27
  DEF Next, WorkerStep, Execute

\* A worker at the end of runOne has no step left to take, and frees only itself.
LEMMA FinishFrame ==
    ASSUME TypeOK, NEW w \in Workers, Finish(w)
    PROVE  /\ step[w] = "none"
           /\ UNCHANGED <<ledgerVars, step>>
           /\ wjob' = [wjob EXCEPT ![w] = None]
<1>1. wpc[w] # "running" /\ wjob' = [wjob EXCEPT ![w] = None]
  BY DEF Finish, Q!Complete, Q!DeadLetter, Q!BackToPolling
<1> QED
  BY <1>1 DEF Finish, TypeOK, Q!TypeOK

\* beginPosting finds the row pending, which no worker past it allows, and the push
\* that spends a claim takes its worker out of it.
LEMMA StepClaim ==
    ASSUME WritebackInv, Next
    PROVE  ClaimIsExclusive' /\ ClaimIsUnspent'
<1> USE ErpWritebackAssumption DEF WritebackInv, TypeOK, Q!TypeOK, Claimed, ClaimIsExclusive, ClaimIsUnspent, UnclaimedIsUnpushed, queueVars, ledgerVars, Q!jobVars, Q!workerVars, Q!counters
<1>1. ASSUME NEW j \in Jobs, RequestApprovedErpWriteback(j) PROVE ClaimIsExclusive' /\ ClaimIsUnspent'
  BY <1>1 DEF RequestApprovedErpWriteback, CreatePendingWriteback
<1>2. ASSUME NEW j \in Jobs, Dispatch(j) PROVE ClaimIsExclusive' /\ ClaimIsUnspent'
  BY <1>2 DEF Dispatch, Q!Enqueue
<1>3. ASSUME NEW j \in Jobs, PostJournalEntry(j) PROVE ClaimIsExclusive' /\ ClaimIsUnspent'
  BY <1>3 DEF PostJournalEntry
<1>4. ASSUME NEW j \in Jobs, LockAges(j) PROVE ClaimIsExclusive' /\ ClaimIsUnspent'
  BY <1>4 DEF LockAges, Q!LockAges, Q!OwnerAtWork
<1>5. ASSUME NEW c \in {"on", "changed", "moved"}, Configure(c) PROVE ClaimIsExclusive' /\ ClaimIsUnspent'
  BY <1>5 DEF Configure
<1>6. ASSUME NEW w \in Workers, NEW j \in Jobs, ClaimJob(w, j) PROVE ClaimIsExclusive' /\ ClaimIsUnspent'
  BY <1>6 DEF ClaimJob, Q!ClaimNext, Goto
<1>7. ASSUME NEW w \in Workers, ReadWriteback(w) PROVE ClaimIsExclusive' /\ ClaimIsUnspent'
  <2>1. CASE Return(w)
    BY <1>7, <2>1 DEF ReadWriteback, At, Return, Q!HandlerReturns, Goto
  <2>2. CASE Throw(w)
    BY <1>7, <2>2 DEF ReadWriteback, At, Throw, Q!HandlerThrows, Goto
  <2>3. CASE Continue(w, "ambiguous")
    BY <1>7, <2>3 DEF ReadWriteback, At, Continue, Goto
  <2>4. CASE Continue(w, "config")
    BY <1>7, <2>4 DEF ReadWriteback, At, Continue, Goto
  <2> QED
    BY <1>7, <2>1, <2>2, <2>3, <2>4 DEF ReadWriteback
<1>8. ASSUME NEW w \in Workers, ReadConfig(w) PROVE ClaimIsExclusive' /\ ClaimIsUnspent'
  BY <1>8 DEF ReadConfig, At, Goto, Continue
<1>9. ASSUME NEW w \in Workers, Cancel(w) PROVE ClaimIsExclusive' /\ ClaimIsUnspent'
  <2>1. CASE Return(w)
    BY <1>9, <2>1 DEF Cancel, At, MarkTerminal, Undecided, Return, Q!HandlerReturns, Goto
  <2>2. CASE Throw(w)
    BY <1>9, <2>2 DEF Cancel, At, MarkTerminal, Undecided, Throw, Q!HandlerThrows, Goto
  <2> QED
    BY <1>9, <2>1, <2>2 DEF Cancel
<1>10. ASSUME NEW w \in Workers, Disown(w) PROVE ClaimIsExclusive' /\ ClaimIsUnspent'
  BY <1>10 DEF Disown, MarkTerminal, Undecided, At, Goto, Throw, Q!HandlerThrows
<1>11. ASSUME NEW w \in Workers, ReadEntry(w) PROVE ClaimIsExclusive' /\ ClaimIsUnspent'
  BY <1>11 DEF ReadEntry, At, Goto, Continue
<1>12. ASSUME NEW w \in Workers, InternalPost(w) PROVE ClaimIsExclusive' /\ ClaimIsUnspent'
  BY <1>12 DEF InternalPost, At, Goto, Continue
<1>13. ASSUME NEW w \in Workers, InternalPostRefused(w) PROVE ClaimIsExclusive' /\ ClaimIsUnspent'
  BY <1>13 DEF InternalPostRefused, At, Goto, Continue
<1>14. ASSUME NEW w \in Workers, PostFailed(w) PROVE ClaimIsExclusive' /\ ClaimIsUnspent'
  BY <1>14 DEF PostFailed, MarkTerminal, Undecided, At, Goto, Throw, Q!HandlerThrows
<1>15. ASSUME NEW w \in Workers, Claim(w) PROVE ClaimIsExclusive' /\ ClaimIsUnspent'
  BY <1>15 DEF Claim, BeginPosting, At, Goto, Continue
<1>16. ASSUME NEW w \in Workers, ClaimLost(w) PROVE ClaimIsExclusive' /\ ClaimIsUnspent'
  BY <1>16 DEF ClaimLost, At, Goto, Throw, Q!HandlerThrows
<1>17. ASSUME NEW w \in Workers, Connect(w) PROVE ClaimIsExclusive' /\ ClaimIsUnspent'
  BY <1>17 DEF Connect, At, Goto, Continue
<1>18. ASSUME NEW w \in Workers, NoConnection(w) PROVE ClaimIsExclusive' /\ ClaimIsUnspent'
  BY <1>18 DEF NoConnection, MarkTerminal, Undecided, At, Goto, Throw, Q!HandlerThrows
<1>19. ASSUME NEW w \in Workers, PushJournalEntry(w) PROVE ClaimIsExclusive' /\ ClaimIsUnspent'
  <2>1. CASE Continue(w, "record")
    BY <1>19, <2>1 DEF PushJournalEntry, At, Continue, Goto
  <2>2. CASE Continue(w, "ambiguous")
    BY <1>19, <2>2 DEF PushJournalEntry, At, Continue, Goto
  <2> QED
    BY <1>19, <2>1, <2>2 DEF PushJournalEntry
<1>20. ASSUME NEW w \in Workers, ReconciliationRequired(w) PROVE ClaimIsExclusive' /\ ClaimIsUnspent'
  BY <1>20 DEF ReconciliationRequired, MarkTerminal, Undecided, At, Goto, Throw, Q!HandlerThrows
<1>21. ASSUME NEW w \in Workers, RecordEvent(w) PROVE ClaimIsExclusive' /\ ClaimIsUnspent'
  BY <1>21 DEF RecordEvent, At, Goto, Continue
<1>22. ASSUME NEW w \in Workers, Receipt(w) PROVE ClaimIsExclusive' /\ ClaimIsUnspent'
  BY <1>22 DEF Receipt, MarkPosted, At, Goto, Return, Q!HandlerReturns
<1>23. ASSUME NEW w \in Workers, ReceiptLost(w) PROVE ClaimIsExclusive' /\ ClaimIsUnspent'
  BY <1>23 DEF ReceiptLost, At, Goto, Throw, Q!HandlerThrows
<1>24. ASSUME NEW w \in Workers, StepFails(w) PROVE ClaimIsExclusive' /\ ClaimIsUnspent'
  BY <1>24 DEF StepFails, Goto, Throw, Q!HandlerThrows
<1>25. ASSUME NEW w \in Workers, Finish(w) PROVE ClaimIsExclusive' /\ ClaimIsUnspent'
  <2>1. step[w] = "none" /\ step' = step /\ UNCHANGED ledgerVars
    BY <1>25, FinishFrame
  <2>2. wjob' = [wjob EXCEPT ![w] = None]
    BY <1>25, FinishFrame
  <2> QED
    BY <2>1, <2>2
<1>26. ASSUME NEW w \in Workers, CompletionFails(w) PROVE ClaimIsExclusive' /\ ClaimIsUnspent'
  BY <1>26 DEF CompletionFails, Q!CompleteThrows
<1>27. ASSUME NEW w \in Workers, Crash(w) PROVE ClaimIsExclusive' /\ ClaimIsUnspent'
  BY <1>27 DEF Crash, Q!Crash, Q!BackToPolling, Goto
<1> QED
  BY <1>1, <1>2, <1>3, <1>4, <1>5, <1>6, <1>7, <1>8, <1>9, <1>10, <1>11, <1>12, <1>13, <1>14,
     <1>15, <1>16, <1>17, <1>18, <1>19, <1>20, <1>21, <1>22, <1>23, <1>24, <1>25, <1>26, <1>27
  DEF Next, WorkerStep, Execute

\* The entry is posted before the row is claimed, and never taken back.
LEMMA StepPosted ==
    ASSUME WritebackInv, Next
    PROVE  ConfirmedIsBooked' /\ PastPostIsPosted' /\ ErpHoldsOnlyPosted'
<1> USE ErpWritebackAssumption DEF WritebackInv, TypeOK, Q!TypeOK, Claimed, ClaimIsUnspent, ConfirmedIsBooked, PastPostIsPosted, ErpHoldsOnlyPosted, queueVars, ledgerVars, Q!jobVars, Q!workerVars, Q!counters
<1>1. ASSUME NEW j \in Jobs, RequestApprovedErpWriteback(j) PROVE ConfirmedIsBooked' /\ PastPostIsPosted' /\ ErpHoldsOnlyPosted'
  BY <1>1 DEF RequestApprovedErpWriteback, CreatePendingWriteback
<1>2. ASSUME NEW j \in Jobs, Dispatch(j) PROVE ConfirmedIsBooked' /\ PastPostIsPosted' /\ ErpHoldsOnlyPosted'
  BY <1>2 DEF Dispatch, Q!Enqueue
<1>3. ASSUME NEW j \in Jobs, PostJournalEntry(j) PROVE ConfirmedIsBooked' /\ PastPostIsPosted' /\ ErpHoldsOnlyPosted'
  BY <1>3 DEF PostJournalEntry
<1>4. ASSUME NEW j \in Jobs, LockAges(j) PROVE ConfirmedIsBooked' /\ PastPostIsPosted' /\ ErpHoldsOnlyPosted'
  BY <1>4 DEF LockAges, Q!LockAges, Q!OwnerAtWork
<1>5. ASSUME NEW c \in {"on", "changed", "moved"}, Configure(c) PROVE ConfirmedIsBooked' /\ PastPostIsPosted' /\ ErpHoldsOnlyPosted'
  BY <1>5 DEF Configure
<1>6. ASSUME NEW w \in Workers, NEW j \in Jobs, ClaimJob(w, j) PROVE ConfirmedIsBooked' /\ PastPostIsPosted' /\ ErpHoldsOnlyPosted'
  BY <1>6 DEF ClaimJob, Q!ClaimNext, Goto
<1>7. ASSUME NEW w \in Workers, ReadWriteback(w) PROVE ConfirmedIsBooked' /\ PastPostIsPosted' /\ ErpHoldsOnlyPosted'
  <2>1. CASE Return(w)
    BY <1>7, <2>1 DEF ReadWriteback, At, Return, Q!HandlerReturns, Goto
  <2>2. CASE Throw(w)
    BY <1>7, <2>2 DEF ReadWriteback, At, Throw, Q!HandlerThrows, Goto
  <2>3. CASE Continue(w, "ambiguous")
    BY <1>7, <2>3 DEF ReadWriteback, At, Continue, Goto
  <2>4. CASE Continue(w, "config")
    BY <1>7, <2>4 DEF ReadWriteback, At, Continue, Goto
  <2> QED
    BY <1>7, <2>1, <2>2, <2>3, <2>4 DEF ReadWriteback
<1>8. ASSUME NEW w \in Workers, ReadConfig(w) PROVE ConfirmedIsBooked' /\ PastPostIsPosted' /\ ErpHoldsOnlyPosted'
  BY <1>8 DEF ReadConfig, At, Goto, Continue
<1>9. ASSUME NEW w \in Workers, Cancel(w) PROVE ConfirmedIsBooked' /\ PastPostIsPosted' /\ ErpHoldsOnlyPosted'
  <2>1. CASE Return(w)
    BY <1>9, <2>1 DEF Cancel, At, MarkTerminal, Undecided, Return, Q!HandlerReturns, Goto
  <2>2. CASE Throw(w)
    BY <1>9, <2>2 DEF Cancel, At, MarkTerminal, Undecided, Throw, Q!HandlerThrows, Goto
  <2> QED
    BY <1>9, <2>1, <2>2 DEF Cancel
<1>10. ASSUME NEW w \in Workers, Disown(w) PROVE ConfirmedIsBooked' /\ PastPostIsPosted' /\ ErpHoldsOnlyPosted'
  BY <1>10 DEF Disown, MarkTerminal, Undecided, At, Goto, Throw, Q!HandlerThrows
<1>11. ASSUME NEW w \in Workers, ReadEntry(w) PROVE ConfirmedIsBooked' /\ PastPostIsPosted' /\ ErpHoldsOnlyPosted'
  BY <1>11 DEF ReadEntry, At, Goto, Continue
<1>12. ASSUME NEW w \in Workers, InternalPost(w) PROVE ConfirmedIsBooked' /\ PastPostIsPosted' /\ ErpHoldsOnlyPosted'
  BY <1>12 DEF InternalPost, At, Goto, Continue
<1>13. ASSUME NEW w \in Workers, InternalPostRefused(w) PROVE ConfirmedIsBooked' /\ PastPostIsPosted' /\ ErpHoldsOnlyPosted'
  BY <1>13 DEF InternalPostRefused, At, Goto, Continue
<1>14. ASSUME NEW w \in Workers, PostFailed(w) PROVE ConfirmedIsBooked' /\ PastPostIsPosted' /\ ErpHoldsOnlyPosted'
  BY <1>14 DEF PostFailed, MarkTerminal, Undecided, At, Goto, Throw, Q!HandlerThrows
<1>15. ASSUME NEW w \in Workers, Claim(w) PROVE ConfirmedIsBooked' /\ PastPostIsPosted' /\ ErpHoldsOnlyPosted'
  BY <1>15 DEF Claim, BeginPosting, At, Goto, Continue
<1>16. ASSUME NEW w \in Workers, ClaimLost(w) PROVE ConfirmedIsBooked' /\ PastPostIsPosted' /\ ErpHoldsOnlyPosted'
  BY <1>16 DEF ClaimLost, At, Goto, Throw, Q!HandlerThrows
<1>17. ASSUME NEW w \in Workers, Connect(w) PROVE ConfirmedIsBooked' /\ PastPostIsPosted' /\ ErpHoldsOnlyPosted'
  BY <1>17 DEF Connect, At, Goto, Continue
<1>18. ASSUME NEW w \in Workers, NoConnection(w) PROVE ConfirmedIsBooked' /\ PastPostIsPosted' /\ ErpHoldsOnlyPosted'
  BY <1>18 DEF NoConnection, MarkTerminal, Undecided, At, Goto, Throw, Q!HandlerThrows
<1>19. ASSUME NEW w \in Workers, PushJournalEntry(w) PROVE ConfirmedIsBooked' /\ PastPostIsPosted' /\ ErpHoldsOnlyPosted'
  <2>1. CASE Continue(w, "record")
    BY <1>19, <2>1 DEF PushJournalEntry, At, Continue, Goto
  <2>2. CASE Continue(w, "ambiguous")
    BY <1>19, <2>2 DEF PushJournalEntry, At, Continue, Goto
  <2> QED
    BY <1>19, <2>1, <2>2 DEF PushJournalEntry
<1>20. ASSUME NEW w \in Workers, ReconciliationRequired(w) PROVE ConfirmedIsBooked' /\ PastPostIsPosted' /\ ErpHoldsOnlyPosted'
  BY <1>20 DEF ReconciliationRequired, MarkTerminal, Undecided, At, Goto, Throw, Q!HandlerThrows
<1>21. ASSUME NEW w \in Workers, RecordEvent(w) PROVE ConfirmedIsBooked' /\ PastPostIsPosted' /\ ErpHoldsOnlyPosted'
  BY <1>21 DEF RecordEvent, At, Goto, Continue
<1>22. ASSUME NEW w \in Workers, Receipt(w) PROVE ConfirmedIsBooked' /\ PastPostIsPosted' /\ ErpHoldsOnlyPosted'
  BY <1>22 DEF Receipt, MarkPosted, At, Goto, Return, Q!HandlerReturns
<1>23. ASSUME NEW w \in Workers, ReceiptLost(w) PROVE ConfirmedIsBooked' /\ PastPostIsPosted' /\ ErpHoldsOnlyPosted'
  BY <1>23 DEF ReceiptLost, At, Goto, Throw, Q!HandlerThrows
<1>24. ASSUME NEW w \in Workers, StepFails(w) PROVE ConfirmedIsBooked' /\ PastPostIsPosted' /\ ErpHoldsOnlyPosted'
  BY <1>24 DEF StepFails, Goto, Throw, Q!HandlerThrows
<1>25. ASSUME NEW w \in Workers, Finish(w) PROVE ConfirmedIsBooked' /\ PastPostIsPosted' /\ ErpHoldsOnlyPosted'
  <2>1. step[w] = "none" /\ step' = step /\ UNCHANGED ledgerVars
    BY <1>25, FinishFrame
  <2>2. wjob' = [wjob EXCEPT ![w] = None]
    BY <1>25, FinishFrame
  <2> QED
    BY <2>1, <2>2
<1>26. ASSUME NEW w \in Workers, CompletionFails(w) PROVE ConfirmedIsBooked' /\ PastPostIsPosted' /\ ErpHoldsOnlyPosted'
  BY <1>26 DEF CompletionFails, Q!CompleteThrows
<1>27. ASSUME NEW w \in Workers, Crash(w) PROVE ConfirmedIsBooked' /\ PastPostIsPosted' /\ ErpHoldsOnlyPosted'
  BY <1>27 DEF Crash, Q!Crash, Q!BackToPolling, Goto
<1> QED
  BY <1>1, <1>2, <1>3, <1>4, <1>5, <1>6, <1>7, <1>8, <1>9, <1>10, <1>11, <1>12, <1>13, <1>14,
     <1>15, <1>16, <1>17, <1>18, <1>19, <1>20, <1>21, <1>22, <1>23, <1>24, <1>25, <1>26, <1>27
  DEF Next, WorkerStep, Execute

\* Only the worker that holds the claim pushes, and only a confirmed push is receipted.
LEMMA StepPushes ==
    ASSUME WritebackInv, Next
    PROVE  UnclaimedIsUnpushed' /\ PushedAtMostOnce' /\ ReceiptIsConclusive'
<1> USE ErpWritebackAssumption DEF WritebackInv, TypeOK, Q!TypeOK, Claimed, ClaimIsUnspent, UnclaimedIsUnpushed, ConfirmedIsBooked, PushedAtMostOnce, ReceiptIsConclusive, queueVars, ledgerVars, Q!jobVars, Q!workerVars, Q!counters
<1>1. ASSUME NEW j \in Jobs, RequestApprovedErpWriteback(j) PROVE UnclaimedIsUnpushed' /\ PushedAtMostOnce' /\ ReceiptIsConclusive'
  BY <1>1 DEF RequestApprovedErpWriteback, CreatePendingWriteback
<1>2. ASSUME NEW j \in Jobs, Dispatch(j) PROVE UnclaimedIsUnpushed' /\ PushedAtMostOnce' /\ ReceiptIsConclusive'
  BY <1>2 DEF Dispatch, Q!Enqueue
<1>3. ASSUME NEW j \in Jobs, PostJournalEntry(j) PROVE UnclaimedIsUnpushed' /\ PushedAtMostOnce' /\ ReceiptIsConclusive'
  BY <1>3 DEF PostJournalEntry
<1>4. ASSUME NEW j \in Jobs, LockAges(j) PROVE UnclaimedIsUnpushed' /\ PushedAtMostOnce' /\ ReceiptIsConclusive'
  BY <1>4 DEF LockAges, Q!LockAges, Q!OwnerAtWork
<1>5. ASSUME NEW c \in {"on", "changed", "moved"}, Configure(c) PROVE UnclaimedIsUnpushed' /\ PushedAtMostOnce' /\ ReceiptIsConclusive'
  BY <1>5 DEF Configure
<1>6. ASSUME NEW w \in Workers, NEW j \in Jobs, ClaimJob(w, j) PROVE UnclaimedIsUnpushed' /\ PushedAtMostOnce' /\ ReceiptIsConclusive'
  BY <1>6 DEF ClaimJob, Q!ClaimNext, Goto
<1>7. ASSUME NEW w \in Workers, ReadWriteback(w) PROVE UnclaimedIsUnpushed' /\ PushedAtMostOnce' /\ ReceiptIsConclusive'
  <2>1. CASE Return(w)
    BY <1>7, <2>1 DEF ReadWriteback, At, Return, Q!HandlerReturns, Goto
  <2>2. CASE Throw(w)
    BY <1>7, <2>2 DEF ReadWriteback, At, Throw, Q!HandlerThrows, Goto
  <2>3. CASE Continue(w, "ambiguous")
    BY <1>7, <2>3 DEF ReadWriteback, At, Continue, Goto
  <2>4. CASE Continue(w, "config")
    BY <1>7, <2>4 DEF ReadWriteback, At, Continue, Goto
  <2> QED
    BY <1>7, <2>1, <2>2, <2>3, <2>4 DEF ReadWriteback
<1>8. ASSUME NEW w \in Workers, ReadConfig(w) PROVE UnclaimedIsUnpushed' /\ PushedAtMostOnce' /\ ReceiptIsConclusive'
  BY <1>8 DEF ReadConfig, At, Goto, Continue
<1>9. ASSUME NEW w \in Workers, Cancel(w) PROVE UnclaimedIsUnpushed' /\ PushedAtMostOnce' /\ ReceiptIsConclusive'
  <2>1. CASE Return(w)
    BY <1>9, <2>1 DEF Cancel, At, MarkTerminal, Undecided, Return, Q!HandlerReturns, Goto
  <2>2. CASE Throw(w)
    BY <1>9, <2>2 DEF Cancel, At, MarkTerminal, Undecided, Throw, Q!HandlerThrows, Goto
  <2> QED
    BY <1>9, <2>1, <2>2 DEF Cancel
<1>10. ASSUME NEW w \in Workers, Disown(w) PROVE UnclaimedIsUnpushed' /\ PushedAtMostOnce' /\ ReceiptIsConclusive'
  BY <1>10 DEF Disown, MarkTerminal, Undecided, At, Goto, Throw, Q!HandlerThrows
<1>11. ASSUME NEW w \in Workers, ReadEntry(w) PROVE UnclaimedIsUnpushed' /\ PushedAtMostOnce' /\ ReceiptIsConclusive'
  BY <1>11 DEF ReadEntry, At, Goto, Continue
<1>12. ASSUME NEW w \in Workers, InternalPost(w) PROVE UnclaimedIsUnpushed' /\ PushedAtMostOnce' /\ ReceiptIsConclusive'
  BY <1>12 DEF InternalPost, At, Goto, Continue
<1>13. ASSUME NEW w \in Workers, InternalPostRefused(w) PROVE UnclaimedIsUnpushed' /\ PushedAtMostOnce' /\ ReceiptIsConclusive'
  BY <1>13 DEF InternalPostRefused, At, Goto, Continue
<1>14. ASSUME NEW w \in Workers, PostFailed(w) PROVE UnclaimedIsUnpushed' /\ PushedAtMostOnce' /\ ReceiptIsConclusive'
  BY <1>14 DEF PostFailed, MarkTerminal, Undecided, At, Goto, Throw, Q!HandlerThrows
<1>15. ASSUME NEW w \in Workers, Claim(w) PROVE UnclaimedIsUnpushed' /\ PushedAtMostOnce' /\ ReceiptIsConclusive'
  BY <1>15 DEF Claim, BeginPosting, At, Goto, Continue
<1>16. ASSUME NEW w \in Workers, ClaimLost(w) PROVE UnclaimedIsUnpushed' /\ PushedAtMostOnce' /\ ReceiptIsConclusive'
  BY <1>16 DEF ClaimLost, At, Goto, Throw, Q!HandlerThrows
<1>17. ASSUME NEW w \in Workers, Connect(w) PROVE UnclaimedIsUnpushed' /\ PushedAtMostOnce' /\ ReceiptIsConclusive'
  BY <1>17 DEF Connect, At, Goto, Continue
<1>18. ASSUME NEW w \in Workers, NoConnection(w) PROVE UnclaimedIsUnpushed' /\ PushedAtMostOnce' /\ ReceiptIsConclusive'
  BY <1>18 DEF NoConnection, MarkTerminal, Undecided, At, Goto, Throw, Q!HandlerThrows
<1>19. ASSUME NEW w \in Workers, PushJournalEntry(w) PROVE UnclaimedIsUnpushed' /\ PushedAtMostOnce' /\ ReceiptIsConclusive'
  <2>1. CASE Continue(w, "record")
    BY <1>19, <2>1 DEF PushJournalEntry, At, Continue, Goto
  <2>2. CASE Continue(w, "ambiguous")
    BY <1>19, <2>2 DEF PushJournalEntry, At, Continue, Goto
  <2> QED
    BY <1>19, <2>1, <2>2 DEF PushJournalEntry
<1>20. ASSUME NEW w \in Workers, ReconciliationRequired(w) PROVE UnclaimedIsUnpushed' /\ PushedAtMostOnce' /\ ReceiptIsConclusive'
  BY <1>20 DEF ReconciliationRequired, MarkTerminal, Undecided, At, Goto, Throw, Q!HandlerThrows
<1>21. ASSUME NEW w \in Workers, RecordEvent(w) PROVE UnclaimedIsUnpushed' /\ PushedAtMostOnce' /\ ReceiptIsConclusive'
  BY <1>21 DEF RecordEvent, At, Goto, Continue
<1>22. ASSUME NEW w \in Workers, Receipt(w) PROVE UnclaimedIsUnpushed' /\ PushedAtMostOnce' /\ ReceiptIsConclusive'
  BY <1>22 DEF Receipt, MarkPosted, At, Goto, Return, Q!HandlerReturns
<1>23. ASSUME NEW w \in Workers, ReceiptLost(w) PROVE UnclaimedIsUnpushed' /\ PushedAtMostOnce' /\ ReceiptIsConclusive'
  BY <1>23 DEF ReceiptLost, At, Goto, Throw, Q!HandlerThrows
<1>24. ASSUME NEW w \in Workers, StepFails(w) PROVE UnclaimedIsUnpushed' /\ PushedAtMostOnce' /\ ReceiptIsConclusive'
  BY <1>24 DEF StepFails, Goto, Throw, Q!HandlerThrows
<1>25. ASSUME NEW w \in Workers, Finish(w) PROVE UnclaimedIsUnpushed' /\ PushedAtMostOnce' /\ ReceiptIsConclusive'
  <2>1. CASE Q!Complete(w)
    BY <1>25, <2>1 DEF Finish, Q!Complete, Q!BackToPolling
  <2>2. CASE Q!DeadLetter(w)
    BY <1>25, <2>2 DEF Finish, Q!DeadLetter, Q!BackToPolling
  <2> QED
    BY <1>25, <2>1, <2>2 DEF Finish
<1>26. ASSUME NEW w \in Workers, CompletionFails(w) PROVE UnclaimedIsUnpushed' /\ PushedAtMostOnce' /\ ReceiptIsConclusive'
  BY <1>26 DEF CompletionFails, Q!CompleteThrows
<1>27. ASSUME NEW w \in Workers, Crash(w) PROVE UnclaimedIsUnpushed' /\ PushedAtMostOnce' /\ ReceiptIsConclusive'
  BY <1>27 DEF Crash, Q!Crash, Q!BackToPolling, Goto
<1> QED
  BY <1>1, <1>2, <1>3, <1>4, <1>5, <1>6, <1>7, <1>8, <1>9, <1>10, <1>11, <1>12, <1>13, <1>14,
     <1>15, <1>16, <1>17, <1>18, <1>19, <1>20, <1>21, <1>22, <1>23, <1>24, <1>25, <1>26, <1>27
  DEF Next, WorkerStep, Execute

\* The inductive invariant of the outbox, of executeApprovedErpWriteback on any
\* number of workers.
THEOREM WritebackInvariant == Spec => []WritebackInv
<1>1. Init => WritebackInv
  BY ErpWritebackAssumption DEF Init, Q!Init, WritebackInv, TypeOK, Q!TypeOK, Steps, Claimed,
     ClaimIsExclusive, ClaimIsUnspent, UnclaimedIsUnpushed, ConfirmedIsBooked, PastPostIsPosted,
     PushedAtMostOnce, ReceiptIsConclusive, ErpHoldsOnlyPosted
<1>2. WritebackInv /\ [Next]_vars => WritebackInv'
  <2> SUFFICES ASSUME WritebackInv, [Next]_vars PROVE WritebackInv'
    OBVIOUS
  <2>1. CASE Next
    BY <2>1, StepTypes, StepClaim, StepPosted, StepPushes DEF WritebackInv
  <2>2. CASE UNCHANGED vars
    BY <2>2 DEF vars, queueVars, ledgerVars, WritebackInv, TypeOK, Q!TypeOK, Claimed,
       ClaimIsExclusive, ClaimIsUnspent, UnclaimedIsUnpushed, ConfirmedIsBooked, PastPostIsPosted,
       PushedAtMostOnce, ReceiptIsConclusive, ErpHoldsOnlyPosted
  <2> QED
    BY <2>1, <2>2
<1> QED
  BY <1>1, <1>2, PTL DEF Spec

\* The outbox, the ledger and the workers keep their types; so does the queue under them.
THEOREM TypeCorrect == Spec => []TypeOK
  BY WritebackInvariant, PTL DEF WritebackInv

\* executeApprovedErpWriteback calls pushJournalEntry at most once for an entry,
\* whatever crashes, reclaims and overruns the queue goes through.
THEOREM PushedTheorem == Spec => []PushedAtMostOnce
<1>1. WritebackInv => PushedAtMostOnce
  BY DEF WritebackInv
<1> QED
  BY <1>1, WritebackInvariant, PTL

\* markPosted's receipt, which the close gate reads, stands for one booking.
THEOREM ReceiptTheorem == Spec => []ReceiptIsConclusive
<1>1. WritebackInv => ReceiptIsConclusive
  BY DEF WritebackInv
<1> QED
  BY <1>1, WritebackInvariant, PTL

\* pushJournalEntry is reached only by entries postJE, or the API, has posted.
THEOREM PostedTheorem == Spec => []ErpHoldsOnlyPosted
<1>1. WritebackInv => ErpHoldsOnlyPosted
  BY DEF WritebackInv
<1> QED
  BY <1>1, WritebackInvariant, PTL

\* A step of the outbox is one step of the queue, or leaves the jobs table and the workers.
LEMMA StepQueueMaps ==
    ASSUME Next
    PROVE  Q!Next \/ UNCHANGED Q!vars
<1> USE DEF queueVars, Q!vars, Q!jobVars, Q!workerVars, Q!counters, Q!Next, Q!WorkerStep
<1>1. ASSUME NEW j \in Jobs, RequestApprovedErpWriteback(j) \/ PostJournalEntry(j) PROVE UNCHANGED Q!vars
  BY <1>1 DEF RequestApprovedErpWriteback, PostJournalEntry
<1>2. ASSUME NEW c \in {"on", "changed", "moved"}, Configure(c) PROVE UNCHANGED Q!vars
  BY <1>2 DEF Configure
<1>3. ASSUME NEW j \in Jobs, Dispatch(j) \/ LockAges(j) PROVE Q!Next
  BY <1>3 DEF Dispatch, LockAges
<1>4. ASSUME NEW w \in Workers, NEW j \in Jobs, ClaimJob(w, j) PROVE Q!Next
  BY <1>4 DEF ClaimJob
<1>5. ASSUME NEW w \in Workers, Execute(w) \/ StepFails(w) PROVE Q!Next \/ UNCHANGED Q!vars
  <2>1. Return(w) \/ Throw(w) \/ UNCHANGED queueVars
    BY <1>5 DEF Execute, StepFails, ReadWriteback, ReadConfig, Cancel, Disown, ReadEntry, InternalPost,
       InternalPostRefused, PostFailed, Claim, ClaimLost, Connect, NoConnection, PushJournalEntry,
       ReconciliationRequired, RecordEvent, Receipt, ReceiptLost, Continue
  <2> QED
    BY <2>1 DEF Return, Throw
<1>6. ASSUME NEW w \in Workers, Finish(w) \/ CompletionFails(w) \/ Crash(w) PROVE Q!Next
  BY <1>6 DEF Finish, CompletionFails, Crash
<1> QED
  BY <1>1, <1>2, <1>3, <1>4, <1>5, <1>6 DEF Next, WorkerStep

\* enqueue, claimNext, complete, deadLetter and the lock's age, called from the outbox, make
\* up the queue's own specification: the composition adds no write of the jobs table.
THEOREM QueueRefinement == Spec => ImplementsQueue
<1>1. Init => Q!Init
  BY DEF Init
<1>2. [Next]_vars => [Q!Next]_(Q!vars)
  <2>1. UNCHANGED vars => UNCHANGED Q!vars
    BY DEF vars, queueVars, Q!vars, Q!jobVars, Q!workerVars, Q!counters
  <2> QED
    BY <2>1, StepQueueMaps
<1> QED
  BY <1>1, <1>2, PTL DEF Spec, ImplementsQueue, Q!Spec

\* So what is proved of the queue alone is true of the queue under the outbox.
QP == INSTANCE JobQueueProofs WITH
        MaxAttempts <- 1, Unhandled <- {}, Keys <- {}, Key <- [j \in Jobs |-> None]

\* The two instances are the same specification.
LEMMA SameQueue == Q!Spec => QP!Spec
<1>1. Q!Init => QP!Init
  BY DEF Q!Init, QP!Init
<1>2. [Q!Next]_(Q!vars) => [QP!Next]_(QP!vars)
  BY DEF Q!vars, QP!vars, Q!Next, QP!Next, Q!WorkerStep, QP!WorkerStep, Q!jobVars, Q!workerVars, Q!counters, Q!KeyTaken, Q!Enqueue, Q!Claimable, Q!OlderThan, Q!ClaimNext, Q!HandlerReturns, Q!HandlerThrows, Q!CompleteThrows, Q!BackToPolling, Q!Complete, Q!Fail, Q!DeadLetter, Q!Crash, Q!BackoffElapses, Q!OwnerAtWork, Q!LockAges, Q!Cardinality, QP!Cardinality, QP!jobVars, QP!workerVars, QP!counters, QP!KeyTaken, QP!Enqueue, QP!Claimable, QP!OlderThan, QP!ClaimNext, QP!HandlerReturns, QP!HandlerThrows, QP!CompleteThrows, QP!BackToPolling, QP!Complete, QP!Fail, QP!DeadLetter, QP!Crash, QP!BackoffElapses, QP!OwnerAtWork, QP!LockAges
<1> QED
  BY <1>1, <1>2, PTL DEF Q!Spec, QP!Spec

\* The job of a handler is locked by its worker, and a claim takes a job nobody works on:
\* claimNext's exclusion, inherited from the queue.
THEOREM QueueTheorem == Spec => []QueueIsExclusive
<1>1. QP!JobQueueAssumption
  BY ErpWritebackAssumption DEF QP!JobQueueAssumption
<1>2. QP!Spec => []QP!JobInv
  BY <1>1, QP!JobQueueInvariant
<1>3. QP!JobInv => QueueIsExclusive
  BY DEF QP!JobInv, QueueIsExclusive, QP!ExclusiveUntilOverrun, Q!ExclusiveUntilOverrun,
     QP!AgedIsAbandoned, Q!AgedIsAbandoned
<1> QED
  BY <1>2, <1>3, QueueRefinement, SameQueue, PTL DEF ImplementsQueue

\* A settled job of the outbox stays settled: with one attempt every late or repeated write
\* of complete or deadLetter is a verdict, and claimNext takes no settled row.
THEOREM NeverRunAgainTheorem == Spec => JobIsNeverRunAgain
<1>1. ASSUME QP!TypeOK, [Q!Next]_(Q!vars), NEW j \in Jobs, status[j] \in Q!Settled
      PROVE  status'[j] \in Q!Settled
  <2> USE DEF QP!TypeOK, Q!Settled, Q!jobVars, Q!workerVars, Q!counters
  <2>1. ASSUME NEW k \in Jobs, Q!Enqueue(k) \/ Q!BackoffElapses(k) \/ Q!LockAges(k)
        PROVE  status'[j] = status[j]
    BY <1>1, <2>1 DEF Q!Enqueue, Q!BackoffElapses, Q!LockAges
  <2>2. ASSUME NEW w \in Workers, NEW k \in Jobs, Q!ClaimNext(w, k) PROVE status'[j] = status[j]
    BY <1>1, <2>2 DEF Q!ClaimNext, Q!Claimable
  <2>3. ASSUME NEW w \in Workers, Q!HandlerReturns(w) \/ Q!HandlerThrows(w) \/ Q!Crash(w)
        PROVE  status'[j] = status[j]
    BY <1>1, <2>3 DEF Q!HandlerReturns, Q!HandlerThrows, Q!Crash
  <2>4. ASSUME NEW w \in Workers, Q!Complete(w) \/ Q!CompleteThrows(w) PROVE status'[j] \in Q!Settled
    BY <1>1, <2>4 DEF Q!Complete, Q!CompleteThrows
  <2>5. ASSUME NEW w \in Workers, Q!DeadLetter(w) PROVE status'[j] \in Q!Settled
    BY <1>1, <2>5 DEF Q!DeadLetter
  <2>6. ASSUME NEW w \in Workers PROVE ~Q!Fail(w)
    BY <1>1, <2>6 DEF Q!Fail
  <2> QED
    BY <1>1, <2>1, <2>2, <2>3, <2>4, <2>5, <2>6 DEF Q!Next, Q!WorkerStep, Q!vars
<1>2. QP!TypeOK /\ [Q!Next]_(Q!vars) =>
        [\A j \in Jobs : status[j] \in Q!Settled => status'[j] \in Q!Settled]_vars
  BY <1>1
<1>3. QP!JobQueueAssumption
  BY ErpWritebackAssumption DEF QP!JobQueueAssumption
<1>4. QP!Spec => []QP!TypeOK
  BY <1>3, QP!TypeCorrect
<1> QED
  BY <1>2, <1>4, QueueRefinement, SameQueue, PTL DEF ImplementsQueue, Q!Spec, JobIsNeverRunAgain

\* A handler that ends with a write of its own row disturbs no other handler.
LEMMA AloneFrame ==
    ASSUME BookingInv, NEW w \in Workers, wpc[w] = "running",
           step' = [step EXCEPT ![w] = "none"],
           overruns' = overruns, wjob' = wjob, pushes' = pushes,
           \A j \in Jobs : j # wjob[w] => wb'[j] = wb[j]
    PROVE  HandlerIsAlone'
<1>1. \A v \in Workers : overruns = 0 /\ v # w /\ step[v] # "none" => wjob[v] \in Jobs \ {wjob[w]}
  BY DEF BookingInv, WritebackInv, TypeOK, Q!TypeOK, QueueIsExclusive, Q!ExclusiveUntilOverrun
<1> QED
  BY <1>1 DEF BookingInv, WritebackInv, TypeOK, HandlerIsAlone, Dismissable, Claimed

\* A handler that read the row pending is the only one on it until it pushes.
LEMMA StepAlone ==
    ASSUME BookingInv, Next
    PROVE  HandlerIsAlone'
<1> USE ErpWritebackAssumption DEF BookingInv, WritebackInv, TypeOK, Q!TypeOK, Claimed, ClaimIsUnspent, UnclaimedIsUnpushed, Dismissable, HandlerIsAlone, QueueIsExclusive, Q!ExclusiveUntilOverrun, queueVars, ledgerVars, Q!jobVars, Q!workerVars, Q!counters
<1>1. ASSUME NEW j \in Jobs, RequestApprovedErpWriteback(j) PROVE HandlerIsAlone'
  BY <1>1 DEF RequestApprovedErpWriteback, CreatePendingWriteback
<1>2. ASSUME NEW j \in Jobs, Dispatch(j) PROVE HandlerIsAlone'
  BY <1>2 DEF Dispatch, Q!Enqueue
<1>3. ASSUME NEW j \in Jobs, PostJournalEntry(j) PROVE HandlerIsAlone'
  BY <1>3 DEF PostJournalEntry
<1>4. ASSUME NEW j \in Jobs, LockAges(j) PROVE HandlerIsAlone'
  BY <1>4 DEF LockAges, Q!LockAges, Q!OwnerAtWork
<1>5. ASSUME NEW c \in {"on", "changed", "moved"}, Configure(c) PROVE HandlerIsAlone'
  BY <1>5 DEF Configure
<1>6. ASSUME NEW w \in Workers, NEW j \in Jobs, ClaimJob(w, j) PROVE HandlerIsAlone'
  BY <1>6 DEF ClaimJob, Q!ClaimNext, Goto
<1>7. ASSUME NEW w \in Workers, ReadWriteback(w) PROVE HandlerIsAlone'
  <2>1. CASE Return(w)
    BY <1>7, <2>1 DEF ReadWriteback, At, Return, Q!HandlerReturns, Goto
  <2>2. CASE Throw(w)
    BY <1>7, <2>2 DEF ReadWriteback, At, Throw, Q!HandlerThrows, Goto
  <2>3. CASE Continue(w, "ambiguous")
    BY <1>7, <2>3 DEF ReadWriteback, At, Continue, Goto
  <2>4. CASE Continue(w, "config")
    <3>1. step' = [step EXCEPT ![w] = "config"] /\ UNCHANGED <<queueVars, ledgerVars>>
      BY <1>7, <2>4 DEF ReadWriteback, Continue, Goto
    <3>2. wb[wjob[w]] = "pending" /\ wjob[w] \in Jobs
      BY <1>7, <3>1 DEF ReadWriteback, At, Continue, Return, Throw, Goto
    <3>3. pushes[wjob[w]] = 0
      BY <3>2
    <3> QED
      BY <3>1, <3>3
  <2> QED
    BY <1>7, <2>1, <2>2, <2>3, <2>4 DEF ReadWriteback
<1>8. ASSUME NEW w \in Workers, ReadConfig(w) PROVE HandlerIsAlone'
  BY <1>8 DEF ReadConfig, At, Goto, Continue
<1>9. ASSUME NEW w \in Workers, Cancel(w) PROVE HandlerIsAlone'
  <2>1. wpc[w] = "running" /\ step' = [step EXCEPT ![w] = "none"]
    BY <1>9 DEF Cancel, At, Return, Throw, Goto
  <2>2. overruns' = overruns /\ wjob' = wjob /\ pushes' = pushes
    BY <1>9 DEF Cancel, Return, Throw, Q!HandlerReturns, Q!HandlerThrows
  <2>3. \A j \in Jobs : j # wjob[w] => wb'[j] = wb[j]
    BY <1>9 DEF Cancel, MarkTerminal
  <2> HIDE DEF BookingInv, HandlerIsAlone
  <2> QED
    BY <2>1, <2>2, <2>3, AloneFrame
<1>10. ASSUME NEW w \in Workers, Disown(w) PROVE HandlerIsAlone'
  BY <1>10 DEF Disown, MarkTerminal, Undecided, At, Goto, Throw, Q!HandlerThrows
<1>11. ASSUME NEW w \in Workers, ReadEntry(w) PROVE HandlerIsAlone'
  BY <1>11 DEF ReadEntry, At, Goto, Continue
<1>12. ASSUME NEW w \in Workers, InternalPost(w) PROVE HandlerIsAlone'
  BY <1>12 DEF InternalPost, At, Goto, Continue
<1>13. ASSUME NEW w \in Workers, InternalPostRefused(w) PROVE HandlerIsAlone'
  BY <1>13 DEF InternalPostRefused, At, Goto, Continue
<1>14. ASSUME NEW w \in Workers, PostFailed(w) PROVE HandlerIsAlone'
  BY <1>14 DEF PostFailed, MarkTerminal, Undecided, At, Goto, Throw, Q!HandlerThrows
<1>15. ASSUME NEW w \in Workers, Claim(w) PROVE HandlerIsAlone'
  BY <1>15 DEF Claim, BeginPosting, At, Goto, Continue
<1>16. ASSUME NEW w \in Workers, ClaimLost(w) PROVE HandlerIsAlone'
  BY <1>16 DEF ClaimLost, At, Goto, Throw, Q!HandlerThrows
<1>17. ASSUME NEW w \in Workers, Connect(w) PROVE HandlerIsAlone'
  BY <1>17 DEF Connect, At, Goto, Continue
<1>18. ASSUME NEW w \in Workers, NoConnection(w) PROVE HandlerIsAlone'
  BY <1>18 DEF NoConnection, MarkTerminal, Undecided, At, Goto, Throw, Q!HandlerThrows
<1>19. ASSUME NEW w \in Workers, PushJournalEntry(w) PROVE HandlerIsAlone'
  <2>1. PICK s \in {"record", "ambiguous"} : step' = [step EXCEPT ![w] = s]
    BY <1>19 DEF PushJournalEntry, Continue, Goto
  <2>2. wpc[w] = "running" /\ overruns' = overruns /\ wjob' = wjob /\ wb' = wb
    BY <1>19 DEF PushJournalEntry, At, Continue
  <2>3. \A j \in Jobs : j # wjob[w] => pushes'[j] = pushes[j]
    BY <1>19 DEF PushJournalEntry
  <2>4. \A v \in Workers : overruns = 0 /\ v # w /\ step[v] # "none" => wjob[v] \in Jobs \ {wjob[w]}
    BY <2>2
  <2> QED
    BY <2>1, <2>2, <2>3, <2>4
<1>20. ASSUME NEW w \in Workers, ReconciliationRequired(w) PROVE HandlerIsAlone'
  BY <1>20 DEF ReconciliationRequired, MarkTerminal, Undecided, At, Goto, Throw, Q!HandlerThrows
<1>21. ASSUME NEW w \in Workers, RecordEvent(w) PROVE HandlerIsAlone'
  BY <1>21 DEF RecordEvent, At, Goto, Continue
<1>22. ASSUME NEW w \in Workers, Receipt(w) PROVE HandlerIsAlone'
  <2>1. wpc[w] = "running" /\ step' = [step EXCEPT ![w] = "none"]
    BY <1>22 DEF Receipt, At, Return, Goto
  <2>2. overruns' = overruns /\ wjob' = wjob /\ pushes' = pushes
    BY <1>22 DEF Receipt, Return, Q!HandlerReturns
  <2>3. \A j \in Jobs : j # wjob[w] => wb'[j] = wb[j]
    BY <1>22 DEF Receipt, MarkPosted
  <2> HIDE DEF BookingInv, HandlerIsAlone
  <2> QED
    BY <2>1, <2>2, <2>3, AloneFrame
<1>23. ASSUME NEW w \in Workers, ReceiptLost(w) PROVE HandlerIsAlone'
  BY <1>23 DEF ReceiptLost, At, Goto, Throw, Q!HandlerThrows
<1>24. ASSUME NEW w \in Workers, StepFails(w) PROVE HandlerIsAlone'
  BY <1>24 DEF StepFails, Goto, Throw, Q!HandlerThrows
<1>25. ASSUME NEW w \in Workers, Finish(w) PROVE HandlerIsAlone'
  <2>1. step[w] = "none" /\ step' = step /\ UNCHANGED ledgerVars
    BY <1>25, FinishFrame
  <2>2. wjob' = [wjob EXCEPT ![w] = None]
    BY <1>25, FinishFrame
  <2>3. overruns' = overruns
    BY <1>25 DEF Finish, Q!Complete, Q!DeadLetter
  <2> QED
    BY <2>1, <2>2, <2>3
<1>26. ASSUME NEW w \in Workers, CompletionFails(w) PROVE HandlerIsAlone'
  BY <1>26 DEF CompletionFails, Q!CompleteThrows
<1>27. ASSUME NEW w \in Workers, Crash(w) PROVE HandlerIsAlone'
  BY <1>27 DEF Crash, Q!Crash, Q!BackToPolling, Goto
<1> QED
  BY <1>1, <1>2, <1>3, <1>4, <1>5, <1>6, <1>7, <1>8, <1>9, <1>10, <1>11, <1>12, <1>13, <1>14,
     <1>15, <1>16, <1>17, <1>18, <1>19, <1>20, <1>21, <1>22, <1>23, <1>24, <1>25, <1>26, <1>27
  DEF Next, WorkerStep, Execute

\* The handlers that dismiss a row have not pushed, and a push finds its row posting.
LEMMA StepBooking ==
    ASSUME BookingInv, Next
    PROVE  BookedIsPushed' /\ BookedIsNotDismissed'
<1> USE ErpWritebackAssumption DEF BookingInv, WritebackInv, TypeOK, Q!TypeOK, Claimed, Dismissable, HandlerIsAlone, BookedIsPushed, BookedIsNotDismissed, queueVars, ledgerVars, Q!jobVars, Q!workerVars, Q!counters
<1>1. ASSUME NEW j \in Jobs, RequestApprovedErpWriteback(j) PROVE BookedIsPushed' /\ BookedIsNotDismissed'
  BY <1>1 DEF RequestApprovedErpWriteback, CreatePendingWriteback
<1>2. ASSUME NEW j \in Jobs, Dispatch(j) PROVE BookedIsPushed' /\ BookedIsNotDismissed'
  BY <1>2 DEF Dispatch, Q!Enqueue
<1>3. ASSUME NEW j \in Jobs, PostJournalEntry(j) PROVE BookedIsPushed' /\ BookedIsNotDismissed'
  BY <1>3 DEF PostJournalEntry
<1>4. ASSUME NEW j \in Jobs, LockAges(j) PROVE BookedIsPushed' /\ BookedIsNotDismissed'
  BY <1>4 DEF LockAges, Q!LockAges, Q!OwnerAtWork
<1>5. ASSUME NEW c \in {"on", "changed", "moved"}, Configure(c) PROVE BookedIsPushed' /\ BookedIsNotDismissed'
  BY <1>5 DEF Configure
<1>6. ASSUME NEW w \in Workers, NEW j \in Jobs, ClaimJob(w, j) PROVE BookedIsPushed' /\ BookedIsNotDismissed'
  BY <1>6 DEF ClaimJob, Q!ClaimNext, Goto
<1>7. ASSUME NEW w \in Workers, ReadWriteback(w) PROVE BookedIsPushed' /\ BookedIsNotDismissed'
  <2>1. CASE Return(w)
    BY <1>7, <2>1 DEF ReadWriteback, At, Return, Q!HandlerReturns, Goto
  <2>2. CASE Throw(w)
    BY <1>7, <2>2 DEF ReadWriteback, At, Throw, Q!HandlerThrows, Goto
  <2>3. CASE Continue(w, "ambiguous")
    BY <1>7, <2>3 DEF ReadWriteback, At, Continue, Goto
  <2>4. CASE Continue(w, "config")
    BY <1>7, <2>4 DEF ReadWriteback, At, Continue, Goto
  <2> QED
    BY <1>7, <2>1, <2>2, <2>3, <2>4 DEF ReadWriteback
<1>8. ASSUME NEW w \in Workers, ReadConfig(w) PROVE BookedIsPushed' /\ BookedIsNotDismissed'
  BY <1>8 DEF ReadConfig, At, Goto, Continue
<1>9. ASSUME NEW w \in Workers, Cancel(w) PROVE BookedIsPushed' /\ BookedIsNotDismissed'
  <2>1. CASE Return(w)
    BY <1>9, <2>1 DEF Cancel, At, MarkTerminal, Undecided, Return, Q!HandlerReturns, Goto
  <2>2. CASE Throw(w)
    BY <1>9, <2>2 DEF Cancel, At, MarkTerminal, Undecided, Throw, Q!HandlerThrows, Goto
  <2> QED
    BY <1>9, <2>1, <2>2 DEF Cancel
<1>10. ASSUME NEW w \in Workers, Disown(w) PROVE BookedIsPushed' /\ BookedIsNotDismissed'
  BY <1>10 DEF Disown, MarkTerminal, Undecided, At, Goto, Throw, Q!HandlerThrows
<1>11. ASSUME NEW w \in Workers, ReadEntry(w) PROVE BookedIsPushed' /\ BookedIsNotDismissed'
  BY <1>11 DEF ReadEntry, At, Goto, Continue
<1>12. ASSUME NEW w \in Workers, InternalPost(w) PROVE BookedIsPushed' /\ BookedIsNotDismissed'
  BY <1>12 DEF InternalPost, At, Goto, Continue
<1>13. ASSUME NEW w \in Workers, InternalPostRefused(w) PROVE BookedIsPushed' /\ BookedIsNotDismissed'
  BY <1>13 DEF InternalPostRefused, At, Goto, Continue
<1>14. ASSUME NEW w \in Workers, PostFailed(w) PROVE BookedIsPushed' /\ BookedIsNotDismissed'
  BY <1>14 DEF PostFailed, MarkTerminal, Undecided, At, Goto, Throw, Q!HandlerThrows
<1>15. ASSUME NEW w \in Workers, Claim(w) PROVE BookedIsPushed' /\ BookedIsNotDismissed'
  BY <1>15 DEF Claim, BeginPosting, At, Goto, Continue
<1>16. ASSUME NEW w \in Workers, ClaimLost(w) PROVE BookedIsPushed' /\ BookedIsNotDismissed'
  BY <1>16 DEF ClaimLost, At, Goto, Throw, Q!HandlerThrows
<1>17. ASSUME NEW w \in Workers, Connect(w) PROVE BookedIsPushed' /\ BookedIsNotDismissed'
  BY <1>17 DEF Connect, At, Goto, Continue
<1>18. ASSUME NEW w \in Workers, NoConnection(w) PROVE BookedIsPushed' /\ BookedIsNotDismissed'
  BY <1>18 DEF NoConnection, MarkTerminal, Undecided, At, Goto, Throw, Q!HandlerThrows
<1>19. ASSUME NEW w \in Workers, PushJournalEntry(w) PROVE BookedIsPushed' /\ BookedIsNotDismissed'
  <2>1. CASE Continue(w, "record")
    BY <1>19, <2>1 DEF PushJournalEntry, At, Continue, Goto
  <2>2. CASE Continue(w, "ambiguous")
    BY <1>19, <2>2 DEF PushJournalEntry, At, Continue, Goto
  <2> QED
    BY <1>19, <2>1, <2>2 DEF PushJournalEntry
<1>20. ASSUME NEW w \in Workers, ReconciliationRequired(w) PROVE BookedIsPushed' /\ BookedIsNotDismissed'
  BY <1>20 DEF ReconciliationRequired, MarkTerminal, Undecided, At, Goto, Throw, Q!HandlerThrows
<1>21. ASSUME NEW w \in Workers, RecordEvent(w) PROVE BookedIsPushed' /\ BookedIsNotDismissed'
  BY <1>21 DEF RecordEvent, At, Goto, Continue
<1>22. ASSUME NEW w \in Workers, Receipt(w) PROVE BookedIsPushed' /\ BookedIsNotDismissed'
  BY <1>22 DEF Receipt, MarkPosted, At, Goto, Return, Q!HandlerReturns
<1>23. ASSUME NEW w \in Workers, ReceiptLost(w) PROVE BookedIsPushed' /\ BookedIsNotDismissed'
  BY <1>23 DEF ReceiptLost, At, Goto, Throw, Q!HandlerThrows
<1>24. ASSUME NEW w \in Workers, StepFails(w) PROVE BookedIsPushed' /\ BookedIsNotDismissed'
  BY <1>24 DEF StepFails, Goto, Throw, Q!HandlerThrows
<1>25. ASSUME NEW w \in Workers, Finish(w) PROVE BookedIsPushed' /\ BookedIsNotDismissed'
  <2>1. step[w] = "none" /\ step' = step /\ UNCHANGED ledgerVars
    BY <1>25, FinishFrame
  <2>2. wjob' = [wjob EXCEPT ![w] = None]
    BY <1>25, FinishFrame
  <2>3. overruns' = overruns
    BY <1>25 DEF Finish, Q!Complete, Q!DeadLetter
  <2> QED
    BY <2>1, <2>2, <2>3
<1>26. ASSUME NEW w \in Workers, CompletionFails(w) PROVE BookedIsPushed' /\ BookedIsNotDismissed'
  BY <1>26 DEF CompletionFails, Q!CompleteThrows
<1>27. ASSUME NEW w \in Workers, Crash(w) PROVE BookedIsPushed' /\ BookedIsNotDismissed'
  BY <1>27 DEF Crash, Q!Crash, Q!BackToPolling, Goto
<1> QED
  BY <1>1, <1>2, <1>3, <1>4, <1>5, <1>6, <1>7, <1>8, <1>9, <1>10, <1>11, <1>12, <1>13, <1>14,
     <1>15, <1>16, <1>17, <1>18, <1>19, <1>20, <1>21, <1>22, <1>23, <1>24, <1>25, <1>26, <1>27
  DEF Next, WorkerStep, Execute

\* The strengthening of WritebackInv is inductive as well.
THEOREM BookingInvariant == Spec => []BookingInv
<1>1. Init => QueueIsExclusive /\ HandlerIsAlone /\ BookedIsPushed /\ BookedIsNotDismissed
  BY ErpWritebackAssumption
  DEF Init, Q!Init, QueueIsExclusive, Q!ExclusiveUntilOverrun, Q!AgedIsAbandoned, HandlerIsAlone,
      Dismissable, Claimed, BookedIsPushed, BookedIsNotDismissed
<1>2. BookingInv /\ WritebackInv' /\ QueueIsExclusive' /\ [Next]_vars => BookingInv'
  <2> SUFFICES ASSUME BookingInv, WritebackInv', QueueIsExclusive', [Next]_vars PROVE BookingInv'
    OBVIOUS
  <2>1. CASE Next
    BY <2>1, StepAlone, StepBooking DEF BookingInv
  <2>2. CASE UNCHANGED vars
    <3>1. UNCHANGED <<queueVars, ledgerVars, step>>
      BY <2>2 DEF vars
    <3>2. HandlerIsAlone' /\ BookedIsPushed' /\ BookedIsNotDismissed'
      BY <3>1 DEF queueVars, ledgerVars, BookingInv, HandlerIsAlone, Dismissable, Claimed,
         BookedIsPushed, BookedIsNotDismissed
    <3> QED
      BY <3>2 DEF BookingInv
  <2> QED
    BY <2>1, <2>2
<1> QED
  BY <1>1, <1>2, WritebackInvariant, QueueTheorem, PTL DEF Spec, BookingInv

\* As long as handlers return within their lock, no markTerminal to failed or cancelled
\* reaches the row of an entry the ERP may hold, through crashes and reclaims.
THEOREM BookedTheorem == Spec => []BookedIsNotDismissed
<1>1. BookingInv => BookedIsNotDismissed
  BY DEF BookingInv
<1> QED
  BY <1>1, BookingInvariant, PTL

\* A step of the handler leaves the jobs table, and every other worker and row, alone.
LEMMA HandlerFrame ==
    ASSUME TypeOK, NEW w \in Workers, Execute(w) \/ StepFails(w)
    PROVE  /\ wpc[w] = "running" /\ wjob[w] \in Jobs
           /\ UNCHANGED <<status, wjob, overruns>>
           /\ \A v \in Workers \ {w} : step'[v] = step[v] /\ wpc'[v] = wpc[v]
           /\ \A j \in Jobs \ {wjob[w]} : wb'[j] = wb[j]
<1> USE DEF TypeOK, Q!TypeOK, queueVars, ledgerVars, Q!jobVars, Q!counters
<1>1. Return(w) \/ Throw(w) \/ \E s \in Steps : Continue(w, s)
  BY DEF Execute, StepFails, ReadWriteback, ReadConfig, Cancel, Disown, ReadEntry, InternalPost,
     InternalPostRefused, PostFailed, Claim, ClaimLost, Connect, NoConnection, PushJournalEntry,
     ReconciliationRequired, RecordEvent, Receipt, ReceiptLost, Steps
<1>2. wpc[w] = "running"
  BY DEF Execute, StepFails, ReadWriteback, ReadConfig, Cancel, Disown, ReadEntry, InternalPost,
     InternalPostRefused, PostFailed, Claim, ClaimLost, Connect, NoConnection, PushJournalEntry,
     ReconciliationRequired, RecordEvent, Receipt, ReceiptLost, At
<1>3. UNCHANGED <<status, wjob, overruns>>
  BY <1>1 DEF Return, Throw, Continue, Q!HandlerReturns, Q!HandlerThrows
<1>4. \A v \in Workers \ {w} : step'[v] = step[v] /\ wpc'[v] = wpc[v]
  BY <1>1 DEF Return, Throw, Continue, Goto, Q!HandlerReturns, Q!HandlerThrows
<1>5. \A j \in Jobs \ {wjob[w]} : wb'[j] = wb[j]
  BY <1>2 DEF Execute, StepFails, ReadWriteback, ReadConfig, Cancel, Disown, ReadEntry, InternalPost,
     InternalPostRefused, PostFailed, Claim, ClaimLost, Connect, NoConnection, PushJournalEntry,
     ReconciliationRequired, RecordEvent, Receipt, ReceiptLost, MarkTerminal, MarkPosted, BeginPosting
<1> QED
  BY <1>2, <1>3, <1>4, <1>5

\* Before beginPosting a handler has written nothing, and no other handler is on its row.
LEMMA StepPending ==
    ASSUME BookingInv, PendingUntilClaimed, Next
    PROVE  PendingUntilClaimed'
<1> USE ErpWritebackAssumption DEF BookingInv, WritebackInv, TypeOK, Q!TypeOK, PendingUntilClaimed,
        BeforeClaim, queueVars, ledgerVars, Q!jobVars, Q!workerVars, Q!counters
<1>1. ASSUME NEW j \in Jobs, RequestApprovedErpWriteback(j) PROVE PendingUntilClaimed'
  BY <1>1 DEF RequestApprovedErpWriteback, CreatePendingWriteback
<1>2. ASSUME NEW j \in Jobs, Dispatch(j) \/ PostJournalEntry(j) PROVE PendingUntilClaimed'
  BY <1>2 DEF Dispatch, Q!Enqueue, PostJournalEntry
<1>3. ASSUME NEW j \in Jobs, LockAges(j) PROVE PendingUntilClaimed'
  BY <1>3 DEF LockAges, Q!LockAges
<1>4. ASSUME NEW c \in {"on", "changed", "moved"}, Configure(c) PROVE PendingUntilClaimed'
  BY <1>4 DEF Configure
<1>5. ASSUME NEW w \in Workers, NEW j \in Jobs, ClaimJob(w, j) PROVE PendingUntilClaimed'
  BY <1>5 DEF ClaimJob, Q!ClaimNext, Goto
<1>6. ASSUME NEW w \in Workers, Execute(w) \/ StepFails(w) PROVE PendingUntilClaimed'
  <2>1. overruns' = 0 /\ step'[w] \in BeforeClaim => wb'[wjob[w]] = "pending"
    <3>1. Return(w) \/ Throw(w) => step'[w] = "none"
      BY DEF Return, Throw, Goto
    <3>2. CASE ReadWriteback(w)
      BY <3>1, <3>2 DEF ReadWriteback, Continue, Goto
    <3>3. CASE ReadConfig(w) \/ ReadEntry(w) \/ InternalPost(w) \/ InternalPostRefused(w)
      BY <3>3 DEF ReadConfig, ReadEntry, InternalPost, InternalPostRefused, Continue, Goto, At
    <3>4. CASE Claim(w) \/ Connect(w) \/ PushJournalEntry(w) \/ RecordEvent(w)
      BY <3>4 DEF Claim, Connect, PushJournalEntry, RecordEvent, Continue, Goto
    <3>5. CASE Return(w) \/ Throw(w)
      BY <3>1, <3>5
    <3> QED
      BY <1>6, <3>2, <3>3, <3>4, <3>5 DEF Execute, StepFails, Cancel, Disown, PostFailed, ClaimLost,
         NoConnection, ReconciliationRequired, Receipt, ReceiptLost
  <2>2. /\ wpc[w] = "running" /\ wjob[w] \in Jobs
        /\ UNCHANGED <<wjob, overruns>>
        /\ \A v \in Workers \ {w} : step'[v] = step[v]
        /\ \A j \in Jobs \ {wjob[w]} : wb'[j] = wb[j]
    BY <1>6, HandlerFrame
  <2>3. \A v \in Workers \ {w} : overruns = 0 /\ step[v] # "none" => wjob[v] \in Jobs \ {wjob[w]}
    BY <2>2 DEF QueueIsExclusive, Q!ExclusiveUntilOverrun
  <2> QED
    BY <2>1, <2>2, <2>3
<1>7. ASSUME NEW w \in Workers, Finish(w) PROVE PendingUntilClaimed'
  <2>1. step[w] = "none" /\ step' = step /\ wb' = wb /\ wjob' = [wjob EXCEPT ![w] = None]
    BY <1>7, FinishFrame
  <2>2. overruns' = overruns
    BY <1>7 DEF Finish, Q!Complete, Q!DeadLetter
  <2> QED
    BY <2>1, <2>2
<1>8. ASSUME NEW w \in Workers, CompletionFails(w) \/ Crash(w) PROVE PendingUntilClaimed'
  BY <1>8 DEF CompletionFails, Q!CompleteThrows, Crash, Q!Crash, Q!BackToPolling, Goto
<1> QED
  BY <1>1, <1>2, <1>3, <1>4, <1>5, <1>6, <1>7, <1>8 DEF Next, WorkerStep

\* A handler ends with its row decided: only a step that fails ends it before that.
LEMMA StepCarried ==
    ASSUME BookingInv, PendingUntilClaimed, OutboxIsCarried, Next
    PROVE  OutboxIsCarried'
<1> SUFFICES ASSUME ~StepErrors, overruns' = 0
             PROVE  \A j \in Jobs :
                      /\ wb'[j] = "missing" => status'[j] = "absent"
                      /\ wb'[j] = "posting" => status'[j] = "locked"
                      /\ wb'[j] \in Undecided =>
                            /\ status'[j] \notin Q!Settled
                            /\ \A w \in Workers : wpc'[w] # "idle" /\ wjob'[w] = j => wpc'[w] = "running"
  BY DEF OutboxIsCarried
<1>0. overruns = 0
  <2>1. [Q!Next]_(Q!vars)
    BY StepQueueMaps
  <2>2. overruns' = overruns \/ overruns' = overruns + 1
    BY <2>1 DEF Q!vars, Q!Next, Q!WorkerStep, Q!jobVars, Q!workerVars, Q!counters, Q!Enqueue,
       Q!BackoffElapses, Q!LockAges, Q!ClaimNext, Q!HandlerReturns, Q!HandlerThrows,
       Q!CompleteThrows, Q!Complete, Q!Fail, Q!DeadLetter, Q!Crash
  <2> QED
    BY <2>2 DEF BookingInv, WritebackInv, TypeOK, Q!TypeOK
<1>c. \A j \in Jobs : /\ wb[j] = "missing" => status[j] = "absent"
                      /\ wb[j] = "posting" => status[j] = "locked"
                      /\ wb[j] \in Undecided =>
                            /\ status[j] \notin Q!Settled
                            /\ \A w \in Workers : wpc[w] # "idle" /\ wjob[w] = j => wpc[w] = "running"
  BY <1>0 DEF OutboxIsCarried
<1> DEFINE Carried(j) == /\ wb'[j] = "missing" => status'[j] = "absent"
                         /\ wb'[j] = "posting" => status'[j] = "locked"
                         /\ wb'[j] \in Undecided =>
                               /\ status'[j] \notin Q!Settled
                               /\ \A w \in Workers : wpc'[w] # "idle" /\ wjob'[w] = j => wpc'[w] = "running"
<1> SUFFICES ASSUME NEW k \in Jobs PROVE Carried(k)
  OBVIOUS
<1> USE ErpWritebackAssumption, <1>0, <1>c DEF BookingInv, WritebackInv, TypeOK, Q!TypeOK, Undecided,
        Q!Settled, queueVars, ledgerVars, Q!jobVars, Q!workerVars, Q!counters
<1>1. ASSUME NEW j \in Jobs, RequestApprovedErpWriteback(j) PROVE Carried(k)
  <2>1. wb[j] = "missing" => \A w \in Workers : wjob[w] = j => wpc[w] = "idle"
    BY DEF QueueIsExclusive, Q!ExclusiveUntilOverrun
  <2> QED
    BY <1>1, <2>1 DEF RequestApprovedErpWriteback, CreatePendingWriteback
<1>2. ASSUME NEW j \in Jobs, Dispatch(j) PROVE Carried(k)
  BY <1>2 DEF Dispatch, Q!Enqueue
<1>3. ASSUME NEW j \in Jobs, PostJournalEntry(j) \/ LockAges(j) PROVE Carried(k)
  BY <1>3 DEF PostJournalEntry, LockAges, Q!LockAges
<1>4. ASSUME NEW c \in {"on", "changed", "moved"}, Configure(c) PROVE Carried(k)
  BY <1>4 DEF Configure
<1>5. ASSUME NEW w \in Workers, NEW j \in Jobs, ClaimJob(w, j) PROVE Carried(k)
  BY <1>5 DEF ClaimJob, Q!ClaimNext, Q!Claimable
<1>6. ASSUME NEW w \in Workers, Execute(w) PROVE Carried(k)
  <2>1. /\ wpc[w] = "running" /\ wjob[w] \in Jobs
        /\ UNCHANGED <<status, wjob>>
        /\ \A v \in Workers \ {w} : wpc'[v] = wpc[v]
        /\ \A j \in Jobs \ {wjob[w]} : wb'[j] = wb[j]
    BY <1>6, HandlerFrame
  <2>2. status[wjob[w]] = "locked" /\ \A v \in Workers \ {w} : wjob[v] = wjob[w] => wpc[v] = "idle"
    <3>1. /\ status[wjob[w]] = "locked" \/ (status[wjob[w]] = "completed" /\ wpc[w] = "failed")
          /\ \A v \in Workers : wpc[v] # "idle" /\ wjob[v] = wjob[w] => v = w
      BY <2>1 DEF QueueIsExclusive, Q!ExclusiveUntilOverrun
    <3> QED
      BY <2>1, <3>1
  <2>3. wb[wjob[w]] # "missing"
    BY <2>1, <2>2
  <2>4. wb'[wjob[w]] # "missing" /\ (wb'[wjob[w]] \in Undecided => wpc'[w] = "running")
    <3>1. (\E s \in Steps : Continue(w, s)) => wpc' = wpc
      BY DEF Continue
    <3>2. CASE ReadWriteback(w)
      BY <2>1, <2>3, <3>1, <3>2 DEF ReadWriteback, Steps
    <3>3. CASE Claim(w)
      BY <2>1, <3>1, <3>3 DEF Claim, BeginPosting, Steps
    <3>4. CASE ReadConfig(w) \/ ReadEntry(w) \/ InternalPost(w) \/ InternalPostRefused(w)
            \/ Connect(w) \/ PushJournalEntry(w) \/ RecordEvent(w)
      <4>1. wb' = wb /\ \E s \in Steps : Continue(w, s)
        BY <3>4 DEF ReadConfig, ReadEntry, InternalPost, InternalPostRefused, Connect,
           PushJournalEntry, RecordEvent, Steps
      <4> QED
        BY <2>1, <2>3, <3>1, <4>1
    <3>5. CASE Cancel(w) \/ Disown(w) \/ PostFailed(w) \/ NoConnection(w) \/ ReconciliationRequired(w)
            \/ Receipt(w)
      BY <2>1, <2>3, <3>5 DEF Cancel, Disown, PostFailed, NoConnection, ReconciliationRequired, Receipt,
         MarkTerminal, MarkPosted
    <3>6. CASE ClaimLost(w)
      BY <3>6 DEF ClaimLost, At, PendingUntilClaimed, BeforeClaim
    <3>7. CASE ReceiptLost(w)
      <4>1. pushes[wjob[w]] = 1
        BY <3>7 DEF ReceiptLost, At, ConfirmedIsBooked
      <4>2. wb[wjob[w]] \notin {"missing", "pending", "posting"}
        BY <2>1, <3>7, <4>1 DEF ReceiptLost, UnclaimedIsUnpushed
      <4> QED
        BY <3>7, <4>2 DEF ReceiptLost
    <3> QED
      BY <1>6, <3>2, <3>3, <3>4, <3>5, <3>6, <3>7 DEF Execute
  <2>5. CASE k = wjob[w]
    <3>1. ASSUME NEW v \in Workers, v # w, wjob'[v] = k PROVE wpc'[v] = "idle"
      BY <2>1, <2>2, <2>5, <3>1
    <3> QED
      BY <2>1, <2>2, <2>4, <2>5, <3>1
  <2>6. CASE k # wjob[w]
    <3>1. wb'[k] = wb[k] /\ status'[k] = status[k]
      BY <2>1, <2>6
    <3>2. ASSUME NEW v \in Workers, wjob'[v] = k PROVE wpc'[v] = wpc[v] /\ wjob[v] = k
      BY <2>1, <2>6, <3>2
    <3> QED
      BY <3>1, <3>2
  <2> QED
    BY <2>5, <2>6
<1>7. ASSUME NEW w \in Workers, StepFails(w) PROVE Carried(k)
  BY <1>7 DEF StepFails
<1>8. ASSUME NEW w \in Workers, Finish(w) PROVE Carried(k)
  <2>1. /\ wpc[w] \notin {"idle", "running"}
        /\ status' \in {[status EXCEPT ![wjob[w]] = "completed"], [status EXCEPT ![wjob[w]] = "dead"]}
        /\ wpc' = [wpc EXCEPT ![w] = "idle"] /\ wjob' = [wjob EXCEPT ![w] = None] /\ wb' = wb
    BY <1>8 DEF Finish, Q!Complete, Q!DeadLetter, Q!BackToPolling
  <2>2. wjob[w] \in Jobs /\ status[wjob[w]] \in {"locked", "completed"}
    BY <2>1 DEF QueueIsExclusive, Q!ExclusiveUntilOverrun
  <2>3. wb[wjob[w]] \notin {"missing", "pending", "posting"}
    BY <2>1, <2>2
  <2> QED
    BY <2>1, <2>2, <2>3
<1>9. ASSUME NEW w \in Workers, CompletionFails(w) PROVE Carried(k)
  <2>1. /\ wpc[w] = "succeeded" /\ wpc' = [wpc EXCEPT ![w] = "failed"] /\ UNCHANGED <<wjob, wb>>
        /\ status' = status \/ status' = [status EXCEPT ![wjob[w]] = "completed"]
    BY <1>9 DEF CompletionFails, Q!CompleteThrows
  <2>2. wjob[w] \in Jobs /\ status[wjob[w]] = "locked"
    BY <2>1 DEF QueueIsExclusive, Q!ExclusiveUntilOverrun
  <2>3. wb[wjob[w]] \notin {"missing", "pending", "posting"}
    BY <2>1, <2>2
  <2> QED
    BY <2>1, <2>2, <2>3
<1>10. ASSUME NEW w \in Workers, Crash(w) PROVE Carried(k)
  <2>1. /\ wpc' = [wpc EXCEPT ![w] = "idle"] /\ wjob' = [wjob EXCEPT ![w] = None]
        /\ UNCHANGED <<status, wb>>
    BY <1>10 DEF Crash, Q!Crash, Q!BackToPolling
  <2> QED
    BY <2>1
<1> QED
  BY <1>1, <1>2, <1>3, <1>4, <1>5, <1>6, <1>7, <1>8, <1>9, <1>10 DEF Next, WorkerStep

\* While every step has its effect and every handler ends within its lock, the dispatcher,
\* the reclaim of a crashed worker's job and the handler's own exits leave no outbox row
\* undecided with nobody left to decide it.
THEOREM CarriedTheorem == Spec => []OutboxIsCarried
<1>1. Init => PendingUntilClaimed /\ OutboxIsCarried
  BY ErpWritebackAssumption DEF Init, Q!Init, PendingUntilClaimed, BeforeClaim, OutboxIsCarried, Undecided
<1>2. BookingInv /\ PendingUntilClaimed /\ OutboxIsCarried /\ [Next]_vars
        => PendingUntilClaimed' /\ OutboxIsCarried'
  <2>1. UNCHANGED vars => UNCHANGED <<status, overruns, wpc, wjob, wb, step>>
    BY DEF vars, queueVars, ledgerVars
  <2>2. PendingUntilClaimed /\ OutboxIsCarried /\ UNCHANGED <<status, overruns, wpc, wjob, wb, step>>
          => PendingUntilClaimed' /\ OutboxIsCarried'
    BY DEF PendingUntilClaimed, OutboxIsCarried
  <2> QED
    BY <2>1, <2>2, StepPending, StepCarried
<1> QED
  BY <1>1, <1>2, BookingInvariant, PTL DEF Spec

\* No conditional write of the repository leaves a decided row.
VerdictKept == \A j \in Jobs : wb[j] \notin {"missing", "pending", "posting"} => wb'[j] = wb[j]

\* No conditional write of the repository leaves a decided row.
LEMMA StepVerdict ==
    ASSUME WritebackInv, Next
    PROVE  VerdictKept
<1> USE ErpWritebackAssumption DEF VerdictKept, WritebackInv, TypeOK, Q!TypeOK, queueVars, ledgerVars, Q!jobVars, Q!workerVars, Q!counters
<1>1. ASSUME NEW j \in Jobs, RequestApprovedErpWriteback(j) PROVE VerdictKept
  BY <1>1 DEF RequestApprovedErpWriteback, CreatePendingWriteback
<1>2. ASSUME NEW j \in Jobs, Dispatch(j) PROVE VerdictKept
  BY <1>2 DEF Dispatch, Q!Enqueue
<1>3. ASSUME NEW j \in Jobs, PostJournalEntry(j) PROVE VerdictKept
  BY <1>3 DEF PostJournalEntry
<1>4. ASSUME NEW j \in Jobs, LockAges(j) PROVE VerdictKept
  BY <1>4 DEF LockAges, Q!LockAges, Q!OwnerAtWork
<1>5. ASSUME NEW c \in {"on", "changed", "moved"}, Configure(c) PROVE VerdictKept
  BY <1>5 DEF Configure
<1>6. ASSUME NEW w \in Workers, NEW j \in Jobs, ClaimJob(w, j) PROVE VerdictKept
  BY <1>6 DEF ClaimJob, Q!ClaimNext, Goto
<1>7. ASSUME NEW w \in Workers, ReadWriteback(w) PROVE VerdictKept
  <2>1. CASE Return(w)
    BY <1>7, <2>1 DEF ReadWriteback, At, Return, Q!HandlerReturns, Goto
  <2>2. CASE Throw(w)
    BY <1>7, <2>2 DEF ReadWriteback, At, Throw, Q!HandlerThrows, Goto
  <2>3. CASE Continue(w, "ambiguous")
    BY <1>7, <2>3 DEF ReadWriteback, At, Continue, Goto
  <2>4. CASE Continue(w, "config")
    BY <1>7, <2>4 DEF ReadWriteback, At, Continue, Goto
  <2> QED
    BY <1>7, <2>1, <2>2, <2>3, <2>4 DEF ReadWriteback
<1>8. ASSUME NEW w \in Workers, ReadConfig(w) PROVE VerdictKept
  BY <1>8 DEF ReadConfig, At, Goto, Continue
<1>9. ASSUME NEW w \in Workers, Cancel(w) PROVE VerdictKept
  <2>1. CASE Return(w)
    BY <1>9, <2>1 DEF Cancel, At, MarkTerminal, Undecided, Return, Q!HandlerReturns, Goto
  <2>2. CASE Throw(w)
    BY <1>9, <2>2 DEF Cancel, At, MarkTerminal, Undecided, Throw, Q!HandlerThrows, Goto
  <2> QED
    BY <1>9, <2>1, <2>2 DEF Cancel
<1>10. ASSUME NEW w \in Workers, Disown(w) PROVE VerdictKept
  BY <1>10 DEF Disown, MarkTerminal, Undecided, At, Goto, Throw, Q!HandlerThrows
<1>11. ASSUME NEW w \in Workers, ReadEntry(w) PROVE VerdictKept
  BY <1>11 DEF ReadEntry, At, Goto, Continue
<1>12. ASSUME NEW w \in Workers, InternalPost(w) PROVE VerdictKept
  BY <1>12 DEF InternalPost, At, Goto, Continue
<1>13. ASSUME NEW w \in Workers, InternalPostRefused(w) PROVE VerdictKept
  BY <1>13 DEF InternalPostRefused, At, Goto, Continue
<1>14. ASSUME NEW w \in Workers, PostFailed(w) PROVE VerdictKept
  BY <1>14 DEF PostFailed, MarkTerminal, Undecided, At, Goto, Throw, Q!HandlerThrows
<1>15. ASSUME NEW w \in Workers, Claim(w) PROVE VerdictKept
  BY <1>15 DEF Claim, BeginPosting, At, Goto, Continue
<1>16. ASSUME NEW w \in Workers, ClaimLost(w) PROVE VerdictKept
  BY <1>16 DEF ClaimLost, At, Goto, Throw, Q!HandlerThrows
<1>17. ASSUME NEW w \in Workers, Connect(w) PROVE VerdictKept
  BY <1>17 DEF Connect, At, Goto, Continue
<1>18. ASSUME NEW w \in Workers, NoConnection(w) PROVE VerdictKept
  BY <1>18 DEF NoConnection, MarkTerminal, Undecided, At, Goto, Throw, Q!HandlerThrows
<1>19. ASSUME NEW w \in Workers, PushJournalEntry(w) PROVE VerdictKept
  <2>1. CASE Continue(w, "record")
    BY <1>19, <2>1 DEF PushJournalEntry, At, Continue, Goto
  <2>2. CASE Continue(w, "ambiguous")
    BY <1>19, <2>2 DEF PushJournalEntry, At, Continue, Goto
  <2> QED
    BY <1>19, <2>1, <2>2 DEF PushJournalEntry
<1>20. ASSUME NEW w \in Workers, ReconciliationRequired(w) PROVE VerdictKept
  BY <1>20 DEF ReconciliationRequired, MarkTerminal, Undecided, At, Goto, Throw, Q!HandlerThrows
<1>21. ASSUME NEW w \in Workers, RecordEvent(w) PROVE VerdictKept
  BY <1>21 DEF RecordEvent, At, Goto, Continue
<1>22. ASSUME NEW w \in Workers, Receipt(w) PROVE VerdictKept
  BY <1>22 DEF Receipt, MarkPosted, At, Goto, Return, Q!HandlerReturns
<1>23. ASSUME NEW w \in Workers, ReceiptLost(w) PROVE VerdictKept
  BY <1>23 DEF ReceiptLost, At, Goto, Throw, Q!HandlerThrows
<1>24. ASSUME NEW w \in Workers, StepFails(w) PROVE VerdictKept
  BY <1>24 DEF StepFails, Goto, Throw, Q!HandlerThrows
<1>25. ASSUME NEW w \in Workers, Finish(w) PROVE VerdictKept
  <2>1. CASE Q!Complete(w)
    BY <1>25, <2>1 DEF Finish, Q!Complete, Q!BackToPolling
  <2>2. CASE Q!DeadLetter(w)
    BY <1>25, <2>2 DEF Finish, Q!DeadLetter, Q!BackToPolling
  <2> QED
    BY <1>25, <2>1, <2>2 DEF Finish
<1>26. ASSUME NEW w \in Workers, CompletionFails(w) PROVE VerdictKept
  BY <1>26 DEF CompletionFails, Q!CompleteThrows
<1>27. ASSUME NEW w \in Workers, Crash(w) PROVE VerdictKept
  BY <1>27 DEF Crash, Q!Crash, Q!BackToPolling, Goto
<1> QED
  BY <1>1, <1>2, <1>3, <1>4, <1>5, <1>6, <1>7, <1>8, <1>9, <1>10, <1>11, <1>12, <1>13, <1>14,
     <1>15, <1>16, <1>17, <1>18, <1>19, <1>20, <1>21, <1>22, <1>23, <1>24, <1>25, <1>26, <1>27
  DEF Next, WorkerStep, Execute

\* markTerminal, markPosted and beginPosting never take back a verdict, so what
\* the close gate has seen stays true.
THEOREM VerdictTheorem == Spec => VerdictIsFinal
<1>1. WritebackInv /\ [Next]_vars => [VerdictKept]_vars
  BY StepVerdict DEF VerdictKept, vars, ledgerVars
<1> QED
  BY <1>1, WritebackInvariant, PTL DEF Spec, VerdictIsFinal, VerdictKept
=============================================================================
