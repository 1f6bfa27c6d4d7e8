----------------------- MODULE MCRecurringObservation -----------------------
(* Small instances of RecurringObservation for TLC. *)
EXTENDS RecurringObservation, TLC

MCSymmetry == Permutations(Workers) \cup Permutations(Humans)

=============================================================================
