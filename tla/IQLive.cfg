SPECIFICATION FairSpec
CONSTANTS
    Drafts = {d1, d2}
    Workers = {w1, w2}
    Reliable = {w1}
    Clients = {c1, c2}
    Claims = {k1, k2}
    MaxAttempts = 2
    SlowWorkers = FALSE
    SlowRequests = FALSE
    ApiCrashes = TRUE
    None = None
CHECK_DEADLOCK FALSE
INVARIANTS DraftInv 
PROPERTIES  EveryDraftSettles
