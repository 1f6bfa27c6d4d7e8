------------------------- MODULE MCEvidenceRefresh -------------------------
(* The refresh of one evidence family for TLC.  Handlers are interchangeable. *)
EXTENDS EvidenceRefresh, TLC

MCSymmetry == Permutations(Processes)

=============================================================================
