SPECIFICATION TimelineSpec
CONSTANTS
    Chief = chief
    Log = log
    Reports <- NearAndFar
    Tolerance = 1
    Denied = denied
    Nil = Nil
    Users = {u}
    Statuses = {explained}
    StaleReads = FALSE
    Admissions = TRUE
    MaxDocs <- TwoLogs
    MaxEvents = 2
    MaxConflicts = 1
    MaxState = 2
SYMMETRY MCSymmetry
CHECK_DEADLOCK FALSE
INVARIANTS  RebuildIdempotent
PROPERTIES EventsRestOnCurrentEvidence CorrectionKeepsIdentity ResolutionsSpec
