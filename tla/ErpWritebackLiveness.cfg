\* One entry, two workers and two crashes; handlers end within their lock, and a step that runs has its effect.
SPECIFICATION FairSpec
CONSTANTS
    Jobs = {j1}
    Workers = {w1, w2}
    None = None
    MaxCrashes = 2
    MaxOverruns = 0
    StepErrors = FALSE
INVARIANTS OutboxIsCarried
PROPERTIES OutboxIsDecided
CHECK_DEADLOCK FALSE
