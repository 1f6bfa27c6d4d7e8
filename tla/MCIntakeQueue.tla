--------------------------- MODULE MCIntakeQueue ---------------------------
(* Small instances of IntakeQueue for TLC. *)
EXTENDS IntakeQueue, TLC

CONSTANT Reliable   \* the workers that are always running

MCSymmetry == Permutations(Workers) \cup Permutations(Clients)
                \cup Permutations(Claims) \cup Permutations(Drafts)

FairSpec == Spec /\ Fairness(Reliable)

=============================================================================
