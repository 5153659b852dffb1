\* As many connections as requests and one more.
SPECIFICATION FairSpec
CONSTANTS
    Requests = {r1, r2}
    Users = {alice}
    Approvers = {alice}
    Events = {}
    None = None
    PoolMax = 3
    AllowSameUserCertify = TRUE
    MaxReviews = 1
    MaxLedger = 0
PROPERTIES RequestsFinish
