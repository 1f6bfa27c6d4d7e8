SPECIFICATION FairSpec
CONSTANTS
    Families = {1, 2}
    Providers = {"sharepoint"}
    Workers = {w}
    Humans = {}
    Results = {"missing"}
    Events = {"disable", "outage"}
    CandidateLimit = 8
    MaxTick = 1
    MaxRevision = 1
    MaxVersion = 1
    None = None
CHECK_DEADLOCK FALSE
PROPERTY EveryTickObserved
PROPERTY EveryChangeReviewed
