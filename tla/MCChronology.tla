---------------------------- MODULE MCChronology ----------------------------
(* Small instances of Chronology for TLC. *)
EXTENDS Chronology, TLC

MCSymmetry == Permutations(Users) \cup Permutations(Statuses)

\* One report, and a log that may be replaced.
TwoLogs == [s \in {Chief, Log} |-> IF s = Log THEN 2 ELSE 1]

\* Times that agree although they differ, that are the same, and that conflict.
NearAndFar == [s \in {Chief, Log} |-> IF s = Log THEN {2, 4} ELSE {1, 4}]

=============================================================================
