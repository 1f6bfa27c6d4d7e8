-------------------------- MODULE GovernedRefresh --------------------------
(***************************************************************************)
(* What reviewers are promised of refreshed evidence: each approval is     *)
(* used at most once, goes through staging and a second authorization, and *)
(* adds exactly the bytes that were staged, on top of the version it was   *)
(* given for.  No locks, requests, storage or faults.                      *)
(***************************************************************************)
EXTENDS Naturals, Sequences

CONSTANTS Contents, MaxHandoffs, None

VARIABLES
    history,  \* contents of the family's versions
    stage,    \* sequence: how far each handed over change has got
    over,     \* sequence: the version it was observed over
    bytes     \* sequence: what was staged for it

vars == <<history, stage, over, bytes>>

Init ==
    /\ history \in {<<c>> : c \in Contents}
    /\ stage = <<>> /\ over = <<>> /\ bytes = <<>>

HandOver ==
    /\ Len(stage) < MaxHandoffs
    /\ stage' = Append(stage, "open")
    /\ over' = Append(over, Len(history))
    /\ bytes' = Append(bytes, None)
    /\ UNCHANGED history

Decide(h, d) ==
    /\ stage[h] = "open" /\ over[h] = Len(history)
    /\ stage' = [stage EXCEPT ![h] = d]
    /\ UNCHANGED <<history, over, bytes>>

\* The rows stay locked from the checks to the record.
Stage(h, c) ==
    /\ stage[h] = "approved" /\ over[h] = Len(history)
    /\ stage' = [stage EXCEPT ![h] = "staged"]
    /\ bytes' = [bytes EXCEPT ![h] = c]
    /\ UNCHANGED <<history, over>>

Grant(h) ==
    /\ stage[h] = "staged" /\ over[h] = Len(history)
    /\ bytes[h] # history[over[h]]
    /\ stage' = [stage EXCEPT ![h] = "granted"]
    /\ UNCHANGED <<history, over, bytes>>

Admit(h) ==
    /\ stage[h] = "granted" /\ over[h] = Len(history)
    /\ stage' = [stage EXCEPT ![h] = "admitted"]
    /\ history' = Append(history, bytes[h])
    /\ UNCHANGED <<over, bytes>>

\* A version that came another way.
Other(c) == history' = Append(history, c) /\ UNCHANGED <<stage, over, bytes>>

Next ==
    \/ HandOver
    \/ \E h \in DOMAIN stage :
          \/ \E d \in {"dismissed", "approved"} : Decide(h, d)
          \/ \E c \in Contents : Stage(h, c)
          \/ Grant(h) \/ Admit(h)
    \/ \E c \in Contents : Other(c)

Spec == Init /\ [][Next]_vars

=============================================================================
