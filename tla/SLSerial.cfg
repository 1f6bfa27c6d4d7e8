SPECIFICATION Spec
CONSTANTS
 Users = {m1, m2, m3}
 Managers = {m1, m2, m3}
 Requests = {r1, r2}
 Proposals = {s1}
 Payments = {p1, p2}
 NetAdjusted = 2
 Overlap = FALSE
 None = None
SYMMETRY MCSymmetry
INVARIANTS LedgerInv CapRespected FourEyes
PROPERTIES EscrowSpec
