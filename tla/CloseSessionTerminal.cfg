\* Two requests, one of which acts on a status it read before the other.
SPECIFICATION Spec
CONSTANTS
    Requests = {r1, r2}
    Users = {alice}
    Approvers = {alice}
    Events = {}
    None = None
    PoolMax = 3
    AllowSameUserCertify = TRUE
    MaxReviews = 1
    MaxLedger = 0
PROPERTIES LockedIsTerminal
