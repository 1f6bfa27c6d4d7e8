------------------------- MODULE MCSettlementLedger -------------------------
(* Small instances of SettlementLedger for TLC. *)
EXTENDS SettlementLedger, TLC

\* Managers, requests and payments are interchangeable.
MCSymmetry == Permutations(Users) \cup Permutations(Requests)
                \cup Permutations(Payments)

=============================================================================
