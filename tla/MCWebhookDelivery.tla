------------------------- MODULE MCWebhookDelivery -------------------------
(* Small instances of WebhookDelivery for TLC. *)
EXTENDS WebhookDelivery, TLC

CONSTANT Restarted   \* the workers that die

\* A worker dies while it holds no row, or in the middle of an attempt.
DieBetweenAttempts ==
    [w \in Workers |-> IF w \in Restarted THEN {"syncing", "polling"} ELSE {}]
DieInAttempts ==
    [w \in Workers |-> IF w \in Restarted THEN {"claimed", "sending", "answered"} ELSE {}]

=============================================================================
