\* Two transactions, two verifications, three entries; the clocks are any.
SPECIFICATION Spec
CONSTANTS
    Entries = {e1, e2, e3}
    Writers = {w1, w2}
    Verifiers = {v1, v2}
    MaxTime = 2
    None = None
SYMMETRY Symmetry
INVARIANTS
    TypeOK
    ChainIsLinear
    NoFalseAlarm
    CheckpointCoversPrefix
PROPERTIES ImplementsLog
