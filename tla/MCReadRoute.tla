---------------------------- MODULE MCReadRoute -----------------------------
(* Instances of ReadRoute for TLC.                                          *)
EXTENDS ReadRoute, TLC

CONSTANTS a1, a2, a3, c1, c2, c3

OnePair == {{c1, c2}}

\* Each duty is somebody's, but two Admins may approve.
Assigned == [d \in Duties |-> CASE d = "prepare" -> {a1}
                                [] d \in {"activate", "request"} -> {a2}
                                [] d \in {"qualify", "renew"} -> {a3}
                                [] d = "approve" -> {a1, a3}]

Sym == Permutations(Readers)
=============================================================================
