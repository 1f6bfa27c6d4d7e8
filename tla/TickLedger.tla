----------------------------- MODULE TickLedger -----------------------------
(***************************************************************************)
(* What recurring observation promises, without processes, locks or        *)
(* documents: a family has at most one open schedule revision; only the    *)
(* open revision counts ticks, one at a time and in order; a service       *)
(* settles a tick once, with the count that includes it.                   *)
(***************************************************************************)
EXTENDS Naturals, FiniteSets

CONSTANTS Families, MaxRevision

VARIABLES
    open,       \* [Families -> the open revision, or 0]
    revisions,  \* [Families -> how many revisions there were]
    done,       \* [Families -> [revision -> ticks observed]]
    settled     \* <<family, revision, n>>: the n-th tick was settled

vars == <<open, revisions, done, settled>>

Init ==
    /\ open = [f \in Families |-> 0]
    /\ revisions = [f \in Families |-> 0]
    /\ done = [f \in Families |-> [r \in 1..MaxRevision |-> 0]]
    /\ settled = {}

\* A revision opens only with the next number.
OpenRevision(f) ==
    /\ revisions[f] < MaxRevision
    /\ revisions' = [revisions EXCEPT ![f] = @ + 1]
    /\ open' = [open EXCEPT ![f] = revisions[f] + 1]
    /\ UNCHANGED <<done, settled>>

CloseRevision(f) ==
    /\ open[f] # 0
    /\ open' = [open EXCEPT ![f] = 0]
    /\ UNCHANGED <<revisions, done, settled>>

Count(f) == [done EXCEPT ![f][open[f]] = @ + 1]

Observe(f) ==
    /\ open[f] # 0
    /\ done' = Count(f)
    /\ UNCHANGED <<open, revisions, settled>>

ObserveAndSettle(f) ==
    /\ open[f] # 0
    /\ done' = Count(f)
    /\ settled' = settled \cup {<<f, open[f], done[f][open[f]] + 1>>}
    /\ UNCHANGED <<open, revisions>>

Settle(f, r, n) ==
    /\ n \in 1..done[f][r]
    /\ <<f, r, n>> \notin settled
    /\ settled' = settled \cup {<<f, r, n>>}
    /\ UNCHANGED <<open, revisions, done>>

Next ==
    \E f \in Families :
        \/ OpenRevision(f) \/ CloseRevision(f)
        \/ Observe(f) \/ ObserveAndSettle(f)
        \/ \E r \in 1..MaxRevision : \E n \in 1..done[f][r] : Settle(f, r, n)

Spec == Init /\ [][Next]_vars

=============================================================================
