--------------------------- MODULE JobQueueProofs ---------------------------
(***************************************************************************)
(* The invariants of JobQueue for any number of jobs and workers and any   *)
(* number of crashes and overruns.                                         *)
(***************************************************************************)
EXTENDS JobQueue, TLAPS

\* Types.
LEMMA StepTypes ==
    ASSUME TypeOK, Next
    PROVE  TypeOK'
<1> USE JobQueueAssumption DEF TypeOK, jobVars, workerVars, counters
<1>1. ASSUME NEW j \in Jobs, Enqueue(j) PROVE TypeOK'
  BY <1>1 DEF Enqueue
<1>2. ASSUME NEW j \in Jobs, BackoffElapses(j) PROVE TypeOK'
  BY <1>2 DEF BackoffElapses
<1>3. ASSUME NEW j \in Jobs, LockAges(j) PROVE TypeOK'
  BY <1>3 DEF LockAges, OwnerAtWork
<1>4. ASSUME NEW w \in Workers, NEW j \in Jobs, ClaimNext(w, j) PROVE TypeOK'
  BY <1>4 DEF ClaimNext, Claimable
<1>5. ASSUME NEW w \in Workers, HandlerReturns(w) PROVE TypeOK'
  BY <1>5 DEF HandlerReturns
<1>6. ASSUME NEW w \in Workers, HandlerThrows(w) PROVE TypeOK'
  BY <1>6 DEF HandlerThrows
<1>7. ASSUME NEW w \in Workers, CompleteThrows(w) PROVE TypeOK'
  <2>1. status' = status \/ status' = [status EXCEPT ![wjob[w]] = "completed"]
    BY <1>7 DEF CompleteThrows
  <2>2. crashes' = crashes \/ crashes' = crashes + 1
    BY <1>7 DEF CompleteThrows
  <2> QED
    BY <1>7, <2>1, <2>2 DEF CompleteThrows
<1>8. ASSUME NEW w \in Workers, Complete(w) PROVE TypeOK'
  BY <1>8 DEF Complete, BackToPolling
<1>9. ASSUME NEW w \in Workers, Fail(w) PROVE TypeOK'
  BY <1>9 DEF Fail, BackToPolling
<1>10. ASSUME NEW w \in Workers, DeadLetter(w) PROVE TypeOK'
  BY <1>10 DEF DeadLetter, BackToPolling
<1>11. ASSUME NEW w \in Workers, Crash(w) PROVE TypeOK'
  BY <1>11 DEF Crash, BackToPolling
<1> QED
  BY <1>1, <1>2, <1>3, <1>4, <1>5, <1>6, <1>7, <1>8, <1>9, <1>10, <1>11 DEF Next, WorkerStep

\* A claim takes a pending job, which has no worker, or an aged lock, which has
\* none either until a handler overruns.
LEMMA StepExclusive ==
    ASSUME JobInv, Next
    PROVE  ExclusiveUntilOverrun' /\ AgedIsAbandoned'
<1> USE JobQueueAssumption DEF JobInv, TypeOK, ExclusiveUntilOverrun, AgedIsAbandoned, jobVars, workerVars, counters
<1>1. ASSUME NEW j \in Jobs, Enqueue(j) PROVE ExclusiveUntilOverrun' /\ AgedIsAbandoned'
  BY <1>1 DEF Enqueue
<1>2. ASSUME NEW j \in Jobs, BackoffElapses(j) PROVE ExclusiveUntilOverrun' /\ AgedIsAbandoned'
  BY <1>2 DEF BackoffElapses
<1>3. ASSUME NEW j \in Jobs, LockAges(j) PROVE ExclusiveUntilOverrun' /\ AgedIsAbandoned'
  BY <1>3 DEF LockAges, OwnerAtWork
<1>4. ASSUME NEW w \in Workers, NEW j \in Jobs, ClaimNext(w, j) PROVE ExclusiveUntilOverrun' /\ AgedIsAbandoned'
  BY <1>4 DEF ClaimNext, Claimable
<1>5. ASSUME NEW w \in Workers, HandlerReturns(w) PROVE ExclusiveUntilOverrun' /\ AgedIsAbandoned'
  BY <1>5 DEF HandlerReturns
<1>6. ASSUME NEW w \in Workers, HandlerThrows(w) PROVE ExclusiveUntilOverrun' /\ AgedIsAbandoned'
  BY <1>6 DEF HandlerThrows
<1>7. ASSUME NEW w \in Workers, CompleteThrows(w) PROVE ExclusiveUntilOverrun' /\ AgedIsAbandoned'
  BY <1>7 DEF CompleteThrows
<1>8. ASSUME NEW w \in Workers, Complete(w) PROVE ExclusiveUntilOverrun' /\ AgedIsAbandoned'
  BY <1>8 DEF Complete, BackToPolling
<1>9. ASSUME NEW w \in Workers, Fail(w) PROVE ExclusiveUntilOverrun' /\ AgedIsAbandoned'
  BY <1>9 DEF Fail, BackToPolling
<1>10. ASSUME NEW w \in Workers, DeadLetter(w) PROVE ExclusiveUntilOverrun' /\ AgedIsAbandoned'
  BY <1>10 DEF DeadLetter, BackToPolling
<1>11. ASSUME NEW w \in Workers, Crash(w) PROVE ExclusiveUntilOverrun' /\ AgedIsAbandoned'
  BY <1>11 DEF Crash, BackToPolling
<1> QED
  BY <1>1, <1>2, <1>3, <1>4, <1>5, <1>6, <1>7, <1>8, <1>9, <1>10, <1>11 DEF Next, WorkerStep

\* attempts only grows, and without an overrun only its own worker makes it grow.
LEMMA StepReadAttempts ==
    ASSUME JobInv, Next
    PROVE  ReadAttempts'
<1> USE JobQueueAssumption DEF JobInv, TypeOK, ExclusiveUntilOverrun, ReadAttempts, jobVars, workerVars, counters
<1>1. ASSUME NEW j \in Jobs, Enqueue(j) PROVE ReadAttempts'
  BY <1>1 DEF Enqueue
<1>2. ASSUME NEW j \in Jobs, BackoffElapses(j) PROVE ReadAttempts'
  BY <1>2 DEF BackoffElapses
<1>3. ASSUME NEW j \in Jobs, LockAges(j) PROVE ReadAttempts'
  BY <1>3 DEF LockAges, OwnerAtWork
<1>4. ASSUME NEW w \in Workers, NEW j \in Jobs, ClaimNext(w, j) PROVE ReadAttempts'
  BY <1>4 DEF ClaimNext, Claimable
<1>5. ASSUME NEW w \in Workers, HandlerReturns(w) PROVE ReadAttempts'
  BY <1>5 DEF HandlerReturns
<1>6. ASSUME NEW w \in Workers, HandlerThrows(w) PROVE ReadAttempts'
  BY <1>6 DEF HandlerThrows
<1>7. ASSUME NEW w \in Workers, CompleteThrows(w) PROVE ReadAttempts'
  BY <1>7 DEF CompleteThrows
<1>8. ASSUME NEW w \in Workers, Complete(w) PROVE ReadAttempts'
  BY <1>8 DEF Complete, BackToPolling
<1>9. ASSUME NEW w \in Workers, Fail(w) PROVE ReadAttempts'
  BY <1>9 DEF Fail, BackToPolling
<1>10. ASSUME NEW w \in Workers, DeadLetter(w) PROVE ReadAttempts'
  BY <1>10 DEF DeadLetter, BackToPolling
<1>11. ASSUME NEW w \in Workers, Crash(w) PROVE ReadAttempts'
  BY <1>11 DEF Crash, BackToPolling
<1> QED
  BY <1>1, <1>2, <1>3, <1>4, <1>5, <1>6, <1>7, <1>8, <1>9, <1>10, <1>11 DEF Next, WorkerStep

\* A retry leaves an attempt, a dead letter uses the last one.
LEMMA StepAttempts ==
    ASSUME JobInv, Next
    PROVE  AttemptsLeft' /\ AttemptsBounded' /\ DeadIsExhausted'
<1> USE JobQueueAssumption DEF JobInv, TypeOK, ReadAttempts, AttemptsLeft, AttemptsBounded, DeadIsExhausted, Settled, jobVars, workerVars, counters
<1>1. ASSUME NEW j \in Jobs, Enqueue(j) PROVE AttemptsLeft' /\ AttemptsBounded' /\ DeadIsExhausted'
  BY <1>1 DEF Enqueue
<1>2. ASSUME NEW j \in Jobs, BackoffElapses(j) PROVE AttemptsLeft' /\ AttemptsBounded' /\ DeadIsExhausted'
  BY <1>2 DEF BackoffElapses
<1>3. ASSUME NEW j \in Jobs, LockAges(j) PROVE AttemptsLeft' /\ AttemptsBounded' /\ DeadIsExhausted'
  BY <1>3 DEF LockAges, OwnerAtWork
<1>4. ASSUME NEW w \in Workers, NEW j \in Jobs, ClaimNext(w, j) PROVE AttemptsLeft' /\ AttemptsBounded' /\ DeadIsExhausted'
  BY <1>4 DEF ClaimNext, Claimable
<1>5. ASSUME NEW w \in Workers, HandlerReturns(w) PROVE AttemptsLeft' /\ AttemptsBounded' /\ DeadIsExhausted'
  BY <1>5 DEF HandlerReturns
<1>6. ASSUME NEW w \in Workers, HandlerThrows(w) PROVE AttemptsLeft' /\ AttemptsBounded' /\ DeadIsExhausted'
  BY <1>6 DEF HandlerThrows
<1>7. ASSUME NEW w \in Workers, CompleteThrows(w) PROVE AttemptsLeft' /\ AttemptsBounded' /\ DeadIsExhausted'
  <2>1. /\ status' = status \/ status' = [status EXCEPT ![wjob[w]] = "completed"]
        /\ UNCHANGED <<attempts, overruns>> /\ wjob[w] \in Jobs
    BY <1>7 DEF CompleteThrows
  <2>2. overruns = 0 => attempts[wjob[w]] < MaxAttempts
    BY <1>7 DEF CompleteThrows, ExclusiveUntilOverrun
  <2> QED
    BY <2>1, <2>2
<1>8. ASSUME NEW w \in Workers, Complete(w) PROVE AttemptsLeft' /\ AttemptsBounded' /\ DeadIsExhausted'
  <2>1. overruns = 0 => attempts[wjob[w]] < MaxAttempts
    BY <1>8 DEF Complete, ExclusiveUntilOverrun
  <2> QED
    BY <1>8, <2>1 DEF Complete, BackToPolling
<1>9. ASSUME NEW w \in Workers, Fail(w) PROVE AttemptsLeft' /\ AttemptsBounded' /\ DeadIsExhausted'
  BY <1>9 DEF Fail, BackToPolling
<1>10. ASSUME NEW w \in Workers, DeadLetter(w) PROVE AttemptsLeft' /\ AttemptsBounded' /\ DeadIsExhausted'
  <2>1. /\ wjob[w] \in Jobs /\ wpc[w] \in {"unknown", "failed"}
        /\ status' = [status EXCEPT ![wjob[w]] = "dead"]
        /\ attempts' = [attempts EXCEPT ![wjob[w]] = @ + 1]
        /\ overruns' = overruns
    BY <1>10 DEF DeadLetter
  <2>2. wjob[w] \in Unhandled \/ attempts[wjob[w]] + 1 >= MaxAttempts
    BY <1>10, <2>1 DEF DeadLetter
  <2>3. overruns = 0 => attempts[wjob[w]] < MaxAttempts
    BY <2>1 DEF ExclusiveUntilOverrun
  <2>4. AttemptsLeft'
    BY <2>1
  <2>5. AttemptsBounded'
    BY <2>1, <2>3
  <2>6. DeadIsExhausted'
    BY <2>1, <2>2
  <2> QED
    BY <2>4, <2>5, <2>6
<1>11. ASSUME NEW w \in Workers, Crash(w) PROVE AttemptsLeft' /\ AttemptsBounded' /\ DeadIsExhausted'
  BY <1>11 DEF Crash, BackToPolling
<1> QED
  BY <1>1, <1>2, <1>3, <1>4, <1>5, <1>6, <1>7, <1>8, <1>9, <1>10, <1>11 DEF Next, WorkerStep

\* JobInv is inductive.
THEOREM JobQueueInvariant == Spec => []JobInv
<1>1. Init => JobInv
  BY JobQueueAssumption DEF Init, JobInv, TypeOK, ExclusiveUntilOverrun, AgedIsAbandoned,
     ReadAttempts, AttemptsLeft, AttemptsBounded, DeadIsExhausted
<1>2. JobInv /\ [Next]_vars => JobInv'
  <2> SUFFICES ASSUME JobInv, [Next]_vars PROVE JobInv'
    OBVIOUS
  <2>1. CASE Next
    BY <2>1, StepTypes, StepExclusive, StepReadAttempts, StepAttempts DEF JobInv
  <2>2. CASE UNCHANGED vars
    BY <2>2 DEF vars, jobVars, workerVars, counters, JobInv, TypeOK, ExclusiveUntilOverrun,
       AgedIsAbandoned, ReadAttempts, AttemptsLeft, AttemptsBounded, DeadIsExhausted
  <2> QED
    BY <2>1, <2>2
<1> QED
  BY <1>1, <1>2, PTL DEF Spec

\* The rows and the workers keep their types.
THEOREM TypeCorrect == Spec => []TypeOK
  BY JobQueueInvariant, PTL DEF JobInv

\* A job has one worker until some handler overruns its lock.
THEOREM ExclusiveTheorem == Spec => []ExclusiveUntilOverrun
  BY JobQueueInvariant, PTL DEF JobInv

\* No job is dead-lettered with attempts left.
THEOREM DeadTheorem == Spec => []DeadIsExhausted
  BY JobQueueInvariant, PTL DEF JobInv

\* attempts stays within max_attempts until some handler overruns its lock.
THEOREM AttemptsTheorem == Spec => []AttemptsBounded
  BY JobQueueInvariant, PTL DEF JobInv

\* A settled job is changed only by the final write of a worker still on it, and
\* until some handler overruns its lock only by the owner of a completion whose
\* answer was lost.
THEOREM UnsettledTheorem == Spec => UnsettledByItsWorker
<1> USE JobQueueAssumption DEF jobVars, workerVars, counters, Settled
<1> DEFINE LastWord(j, w) ==
        /\ wjob[w] = j /\ wpc[w] \in {"succeeded", "failed", "unknown"}
        /\ overruns = 0 => owner[j] = w /\ status[j] = "completed" /\ wpc[w] = "failed"
<1>1. ASSUME JobInv, [Next]_vars, NEW j \in Jobs, status[j] \in Settled, status'[j] # status[j]
      PROVE  \E w \in Workers : LastWord(j, w)
  <2> USE DEF JobInv, TypeOK
  <2>1. ASSUME NEW w \in Workers, wpc[w] \in {"succeeded", "failed", "unknown"}, wjob[w] = j
        PROVE  LastWord(j, w)
    BY <1>1, <2>1 DEF ExclusiveUntilOverrun
  <2>2. ASSUME NEW w \in Workers, WorkerStep(w) \/ Crash(w)
        PROVE  wpc[w] \in {"succeeded", "failed", "unknown"} /\ wjob[w] = j
    <3>1. CASE \E k \in Jobs : ClaimNext(w, k)
      BY <1>1, <3>1 DEF ClaimNext, Claimable
    <3>2. CASE HandlerReturns(w) \/ HandlerThrows(w) \/ Crash(w)
      BY <1>1, <3>2 DEF HandlerReturns, HandlerThrows, Crash
    <3>3. CASE Complete(w)
      BY <1>1, <3>3 DEF Complete
    <3>4. CASE Fail(w)
      BY <1>1, <3>4 DEF Fail
    <3>5. CASE DeadLetter(w)
      BY <1>1, <3>5 DEF DeadLetter
    <3>6. CASE CompleteThrows(w)
      BY <1>1, <3>6 DEF CompleteThrows
    <3> QED BY <2>2, <3>1, <3>2, <3>3, <3>4, <3>5, <3>6 DEF WorkerStep
  <2>3. ASSUME NEW k \in Jobs, Enqueue(k) \/ BackoffElapses(k) \/ LockAges(k) PROVE status'[j] = status[j]
    BY <1>1, <2>3 DEF Enqueue, BackoffElapses, LockAges
  <2>4. PICK w \in Workers : WorkerStep(w) \/ Crash(w)
    BY <1>1, <2>3 DEF Next, vars
  <2> QED BY <2>1, <2>2, <2>4
<1>2. JobInv /\ [Next]_vars =>
        [\A j \in Jobs : status[j] \in Settled /\ status'[j] # status[j] =>
             \E w \in Workers : LastWord(j, w)]_vars
  BY <1>1
<1> QED
  BY <1>2, JobQueueInvariant, PTL DEF Spec, UnsettledByItsWorker
=============================================================================
