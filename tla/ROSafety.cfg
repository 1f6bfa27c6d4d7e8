SPECIFICATION Spec
CONSTANTS
    Families = {1}
    Providers = {"sharepoint", "sftp"}
    Workers = {w}
    Humans = {h}
    Results = {"changed"}
    Events = {"replace", "disable", "admit", "upload", "refresh", "baseline", "delete", "outage"}
    CandidateLimit = 8
    MaxTick = 1
    MaxRevision = 2
    MaxVersion = 2
    None = None
CHECK_DEADLOCK FALSE
SYMMETRY MCSymmetry
INVARIANTS TickInv
PROPERTIES ObservesUnderAuthority LedgerSpec
