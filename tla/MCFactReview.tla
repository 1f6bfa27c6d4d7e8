---------------------------- MODULE MCFactReview ----------------------------
(* Small instances of FactReview for TLC. *)
EXTENDS FactReview, TLC

MCSymmetry == Permutations(Cands) \cup Permutations(Workers) \cup Permutations(Reviewers)

=============================================================================
