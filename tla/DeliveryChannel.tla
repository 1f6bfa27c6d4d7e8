-------------------------- MODULE DeliveryChannel --------------------------
(***************************************************************************)
(* What webhook delivery promises about one event, with workers, keys and  *)
(* timers left out: the receiver accepts only events that are being        *)
(* delivered, an event counts as delivered only when the receiver has it,  *)
(* and it is sent again only while it does not count as delivered.         *)
(***************************************************************************)
CONSTANT Events

VARIABLES phase, received

Init == /\ phase = [k \in Events |-> "none"]
        /\ received = {}

Queue(K) == /\ \A k \in K : phase[k] = "none"
            /\ phase' = [k \in Events |-> IF k \in K THEN "open" ELSE phase[k]]
            /\ UNCHANGED received

Receive(k) == /\ phase[k] = "open"
              /\ received' = received \cup {k}
              /\ UNCHANGED phase

Confirm(k) == /\ phase[k] = "open" /\ k \in received
              /\ phase' = [phase EXCEPT ![k] = "delivered"]
              /\ UNCHANGED received

GiveUp(k) == /\ phase[k] = "open"
             /\ phase' = [phase EXCEPT ![k] = "dead_letter"]
             /\ UNCHANGED received

Reopen(k) == /\ phase[k] = "dead_letter"
             /\ phase' = [phase EXCEPT ![k] = "open"]
             /\ UNCHANGED received

Next == \/ \E K \in SUBSET Events : Queue(K)
        \/ \E k \in Events : Receive(k) \/ Confirm(k) \/ GiveUp(k) \/ Reopen(k)

Spec == Init /\ [][Next]_<<phase, received>>

=============================================================================
