\* Two jobs with one idempotency key and one without handler, two workers, a crash and an overrun.
SPECIFICATION FairSpec
CONSTANTS
    j1 = j1
    j2 = j2
    j3 = j3
    k1 = k1
    Jobs = {j1, j2, j3}
    Keys = {k1}
    Key <- SameKey
    Unhandled = {j3}
    Workers = {w1, w2}
    MaxAttempts = 2
    None = None
    MaxCrashes = 1
    MaxOverruns = 1
INVARIANTS
    TypeOK
    ExclusiveUntilOverrun
    DeadIsExhausted
PROPERTIES
    UnsettledByItsWorker
    EveryJobSettles
CHECK_DEADLOCK FALSE
