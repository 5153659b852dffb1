\* Two generations race two changes; a change takes at least a millisecond to raise the flag.
SPECIFICATION Spec
CONSTANTS
    Changes = {c1, c2}
    Packages = {p1, p2}
    MaxTime = 2
    Tick = 1
    None = None
SYMMETRY Symmetry
CHECK_DEADLOCK FALSE
INVARIANTS
    TypeOK
    VersionsAreDense
    LastMarkIsAnswered
