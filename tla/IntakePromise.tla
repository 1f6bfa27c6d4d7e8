--------------------------- MODULE IntakePromise ---------------------------
(***************************************************************************)
(* What claim intake promises about one draft, with files, jobs and        *)
(* workers left out: a draft is opened for review once, it is decided      *)
(* once, and only its approval opens a claim, exactly one.                 *)
(***************************************************************************)
CONSTANTS Drafts, Claims

VARIABLES
    decision,   \* [Drafts -> "none", "open", "approved" or "rejected"]
    opened      \* [Drafts -> the claims made from the draft]

Init == /\ decision = [d \in Drafts |-> "none"]
        /\ opened = [d \in Drafts |-> {}]

Take(d) == /\ decision[d] = "none"
           /\ decision' = [decision EXCEPT ![d] = "open"]
           /\ UNCHANGED opened

Approve(d) == /\ decision[d] = "open"
              /\ decision' = [decision EXCEPT ![d] = "approved"]
              /\ \E k \in Claims \ UNION {opened[e] : e \in Drafts} :
                   opened' = [opened EXCEPT ![d] = {k}]

Reject(d) == /\ decision[d] = "open"
             /\ decision' = [decision EXCEPT ![d] = "rejected"]
             /\ UNCHANGED opened

Next == \E d \in Drafts : Take(d) \/ Approve(d) \/ Reject(d)

Spec == Init /\ [][Next]_<<decision, opened>>

=============================================================================
