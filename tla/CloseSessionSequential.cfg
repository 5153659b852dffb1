\* One request at a time: two approvers and a preparer, an event, two entries.
SPECIFICATION Spec
CONSTANTS
    Requests = {r1}
    Users = {alice, bob, carol}
    Approvers = {alice, bob}
    Events = {e1}
    None = None
    PoolMax = 2
    AllowSameUserCertify = FALSE
    MaxReviews = 2
    MaxLedger = 2
PROPERTIES ImplementsLifecycle
