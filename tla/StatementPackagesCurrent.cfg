\* As StatementPackages.cfg.
SPECIFICATION Spec
CONSTANTS
    Changes = {c1, c2}
    Packages = {p1, p2}
    MaxTime = 2
    Tick = 1
    None = None
SYMMETRY Symmetry
CHECK_DEADLOCK FALSE
INVARIANTS UnflaggedIsCurrent
