SPECIFICATION Spec
CONSTANTS
    a1 = a1
    a2 = a2
    a3 = a3
    c1 = c1
    c2 = c2
    c3 = c3
    Admins = {a1, a2, a3}
    Cutovers = {c1, c2, c3}
    Pairs <- OnePair
    Readers = {r1, r2}
    CutoverApprover = a1
    Duty <- Assigned
    MaxFaults = 1
    MaxLapses = 1
    FirstRead = 6
    Local = Local
    Nobody = Nobody
SYMMETRY Sym
CHECK_DEADLOCK FALSE
INVARIANTS AuthorityInv ThreeHands PromotionOnUnmovedRoute
PROPERTIES ReplicaReadsAreLicensed LadderSpec 
