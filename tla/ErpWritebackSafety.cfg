\* One entry, three workers, a crash and an overrun, and steps that may fail.
SPECIFICATION Spec
CONSTANTS
    Jobs = {j1}
    Workers = {w1, w2, w3}
    None = None
    MaxCrashes = 1
    MaxOverruns = 2
    StepErrors = TRUE
SYMMETRY WorkerSymmetry
INVARIANTS
    PushedAtMostOnce
    ReceiptIsConclusive
    ErpHoldsOnlyPosted
    BookedIsNotDismissed
PROPERTIES VerdictIsFinal
CHECK_DEADLOCK FALSE
