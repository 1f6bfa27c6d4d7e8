SPECIFICATION Spec
CONSTANTS
    Drafts = {d1}
    Workers = {w1, w2}
    Reliable = {}
    Clients = {c1}
    Claims = {k1, k2}
    MaxAttempts = 2
    SlowWorkers = TRUE
    SlowRequests = FALSE
    ApiCrashes = FALSE
    None = None
SYMMETRY MCSymmetry
CHECK_DEADLOCK FALSE
INVARIANT OneClaimPerDraft
