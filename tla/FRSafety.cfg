SPECIFICATION Spec
CONSTANTS
    Cands = {x, y}
    Workers = {w}
    Reviewers = {r, s}
    Overlap = FALSE
    Intake = intake
    Typed = typed
    None = None
    MaxGen = 2
    MaxVersion = 3
SYMMETRY MCSymmetry
CHECK_DEADLOCK FALSE
INVARIANTS FactInv FactHasAuthority
PROPERTIES  RegisterSpec
