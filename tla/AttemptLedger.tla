--------------------------- MODULE AttemptLedger ---------------------------
(***************************************************************************)
(* What the processing queue promises about one job, with the workers,     *)
(* leases and documents left out: a job is attempted at most MaxAttempts   *)
(* times, every attempt is settled once, and a completed job stays so.     *)
(*                                                                         *)
(* A lease that expires hands the job back (Retry) or gives it up (Settle).*)
(* The session that held it may be inside its last write at that moment,   *)
(* and its outcome then lands on a job already handed back or given up     *)
(* (LateSettle): the promise is weaker than "the stale session is rolled   *)
(* back" by exactly that action.                                           *)
(***************************************************************************)
EXTENDS Naturals

CONSTANTS Jobs, MaxAttempts

VARIABLES status, attempts

vars == <<status, attempts>>

Init == /\ status = [j \in Jobs |-> "absent"]
        /\ attempts = [j \in Jobs |-> 0]

Becomes(j, s) == /\ status' = [status EXCEPT ![j] = s]
                 /\ UNCHANGED attempts

Submit(j) == status[j] = "absent" /\ Becomes(j, "PENDING")

Attempt(j) ==
    /\ status[j] = "PENDING"
    /\ attempts[j] < MaxAttempts
    /\ status' = [status EXCEPT ![j] = "RUNNING"]
    /\ attempts' = [attempts EXCEPT ![j] = @ + 1]

\* The attempts in S are over at once: one recovery can end several leases.
Expire(S) ==
    /\ \A j \in S : status[j] = "RUNNING"
    /\ status' = [j \in Jobs |-> IF j \notin S THEN status[j]
                                 ELSE IF attempts[j] < MaxAttempts THEN "PENDING"
                                 ELSE "FAILED"]
    /\ UNCHANGED attempts

Retry(j) ==
    status[j] = "RUNNING" /\ attempts[j] < MaxAttempts /\ Becomes(j, "PENDING")

Settle(j, s) == status[j] = "RUNNING" /\ Becomes(j, s)

LateSettle(j, s) ==
    /\ attempts[j] > 0
    /\ \/ status[j] = "PENDING"
       \/ status[j] = "FAILED" /\ attempts[j] = MaxAttempts
    /\ Becomes(j, s)

Next == \/ \E j \in Jobs : \/ Submit(j) \/ Attempt(j) \/ Retry(j)
                           \/ \E s \in {"COMPLETED", "FAILED"} :
                                Settle(j, s) \/ LateSettle(j, s)
        \/ \E S \in SUBSET Jobs : Expire(S)

Spec == Init /\ [][Next]_vars

=============================================================================
