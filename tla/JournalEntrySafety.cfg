\* Two concurrent requests by two users on two entries of a debit and a credit.
SPECIFICATION Spec
CONSTANTS
    Entries = {e1, e2}
    Requests = {r1, r2}
    Users = {u1, u2}
    MaxLines = 2
    BalancedAt <- OneDebitOneCredit
    Material = {e1}
    AllowSameUser = FALSE
    None = None
INVARIANTS
    TypeOK
    PreparerDoesNotApprove
    EffectsOnce
    UnbalancedIsUnfinished
    ReversalIsOfPosted
PROPERTIES
    DecisionIsFinal
SYMMETRY Symmetry
CHECK_DEADLOCK FALSE
