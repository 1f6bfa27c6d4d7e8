SPECIFICATION Spec
CONSTANTS
    Providers = {"sharepoint", "sftp"}
    Processes = {p, q}
    Requests = {r, s}
    Contents = {a, b, c}
    First = a
    Faults = {"crash", "disconnect", "lost_reply", "stray"}
    Events = {"disable", "upload", "admit", "baseline", "delete", "elsewhere"}
    MaxToken = 3
    MaxHandoffs = 1
    MaxDocs = 3
    MaxCrashes = 1
    None = None
CHECK_DEADLOCK FALSE
SYMMETRY MCSymmetry
INVARIANTS EvidenceInv 
PROPERTIES NoReadOnceStored GovernedSpec
