\* Two concurrent requests of two approvers; no new submission after the first, but those under way go on.
SPECIFICATION Spec
CONSTANTS
    Requests = {r1, r2}
    Users = {alice, bob}
    Approvers = {alice, bob}
    Events = {}
    None = None
    PoolMax = 3
    AllowSameUserCertify = FALSE
    MaxReviews = 1
    MaxLedger = 0
SYMMETRY RequestSymmetry
INVARIANTS
    TypeOK
    PastReviewIsCertified
    CertifierIsNotSubmitter
    OneSnapshotPerReview
    RejectedIsNotCertified
