--------------------------- MODULE PaymentEscrow ---------------------------
(***************************************************************************)
(* What the settlement ledger promises about money, with rows, people and  *)
(* requests left out: a settlement is opened once, at a limit that never   *)
(* changes; payments bind at most that much; what has been authorized is   *)
(* never released again.                                                   *)
(***************************************************************************)
EXTENDS Naturals

CONSTANTS Settlements, Amounts

VARIABLES
    limit,  \* [Settlements -> amount of the accepted settlement, or 0]
    bound,  \* [Settlements -> total of its active payments]
    firm    \* [Settlements -> total of its authorized and paid payments]

vars == <<limit, bound, firm>>

Init == /\ limit = [s \in Settlements |-> 0]
        /\ bound = [s \in Settlements |-> 0]
        /\ firm = [s \in Settlements |-> 0]

Open(s) == /\ limit[s] = 0
           /\ \E n \in Amounts : limit' = [limit EXCEPT ![s] = n]
           /\ UNCHANGED <<bound, firm>>

Bind(s) == /\ \E n \in 1..(limit[s] - bound[s]) :
                bound' = [bound EXCEPT ![s] = @ + n]
           /\ UNCHANGED <<limit, firm>>

Authorize(s) == /\ \E n \in 1..(bound[s] - firm[s]) :
                     firm' = [firm EXCEPT ![s] = @ + n]
                /\ UNCHANGED <<limit, bound>>

Release(s) == /\ \E n \in 1..(bound[s] - firm[s]) :
                   bound' = [bound EXCEPT ![s] = @ - n]
              /\ UNCHANGED <<limit, firm>>

Next == \E s \in Settlements :
          Open(s) \/ Bind(s) \/ Authorize(s) \/ Release(s)

Spec == Init /\ [][Next]_vars

=============================================================================
