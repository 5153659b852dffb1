\* One automatic task, one of review, and a third that waits for both; two actors, two retries, one fault.
SPECIFICATION Spec
CONSTANTS
    t1 = t1
    t2 = t2
    t3 = t3
    Tasks = {t1, t2, t3}
    Deps <- MCDeps
    HumanReview = {t2, t3}
    ApprovalRequired = {}
    Eligible = {t2}
    Actors = {a1, a2}
    MaxAttempts = 1
    MaxSteps = 2
    MaxResets = 2
    MaxFaults = 1
    None = None
SYMMETRY Symmetry
CHECK_DEADLOCK FALSE
INVARIANTS
    TypeOK
    OneRunner
    DependenciesFirst
    ReadyIsAttended
    CompletionIsRecorded
    FaultStrandsOne
PROPERTIES DoneIsFinal
