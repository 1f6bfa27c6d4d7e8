-------------------------- MODULE SettlementLedger --------------------------
(***************************************************************************)
(* Settlement proposals of a claim and the payment authorizations drawn    *)
(* on them.                                                                *)
(*                                                                         *)
(* A request on a proposal reads its row without a lock, checks what it    *)
(* read, and writes the columns it changed: two steps.  A request on a     *)
(* payment also reads the row first, but then locks the settlement and the *)
(* payment and reads again before it checks and writes: one step.          *)
(* Nothing here is more than one transaction, so a request that dies is a  *)
(* request that never takes its second step.                               *)
(***************************************************************************)
EXTENDS Integers, FiniteSets

CONSTANTS
    Users,
    Managers,       \* users in the role ADMIN or CLAIMS_MANAGER
    Requests,       \* requests in progress at a time
    Proposals,
    Payments,
    NetAdjusted,    \* total of the approved adjustment, in currency units
    Overlap,        \* FALSE: requests on one proposal come one after another
    None

ASSUME LedgerAssumption ==
    /\ Managers \subseteq Users
    /\ IsFiniteSet(Payments)
    /\ NetAdjusted \in Nat \ {0}
    /\ Overlap \in BOOLEAN
    /\ None \notin Users \cup Proposals \cup Payments

VARIABLES
    proposal,   \* [Proposals -> row of settlement_proposals]
    payment,    \* [Payments -> row of payment_authorizations]
    edit,       \* [Requests -> the proposal row a request has read]
    move        \* [Requests -> the payment row a request has read]

vars == <<proposal, payment, edit, move>>

Amounts == 1..NetAdjusted

\* content_hash covers the amount (and the terms, which amount stands for).
ProposalRow ==
    [status : {"absent", "DRAFT", "UNDER_REVIEW", "APPROVED", "REJECTED",
               "ACCEPTED", "DECLINED", "WITHDRAWN"},
     amount : Amounts, creator : Users \cup {None}, reviewer : Users \cup {None},
     hashed : {0} \cup Amounts]

PaymentRow ==
    [status : {"absent", "DRAFT", "UNDER_REVIEW", "FIRST_APPROVED",
               "AUTHORIZED", "REJECTED", "PAID_EXTERNALLY"},
     settlement : Proposals \cup {None}, amount : Amounts,
     creator : Users \cup {None}, first : Users \cup {None},
     second : Users \cup {None}]

NoProposal == [status |-> "absent", amount |-> 1, creator |-> None,
               reviewer |-> None, hashed |-> 0]
NoPayment == [status |-> "absent", settlement |-> None, amount |-> 1,
              creator |-> None, first |-> None, second |-> None]
NoEdit == [item |-> None, seen |-> NoProposal]
NoMove == [item |-> None, seen |-> NoPayment]

TypeOK ==
    /\ proposal \in [Proposals -> ProposalRow]
    /\ payment \in [Payments -> PaymentRow]
    /\ edit \in [Requests -> [item : Proposals \cup {None}, seen : ProposalRow]]
    /\ move \in [Requests -> [item : Payments \cup {None}, seen : PaymentRow]]

Init ==
    /\ proposal = [s \in Proposals |-> NoProposal]
    /\ payment = [p \in Payments |-> NoPayment]
    /\ edit = [r \in Requests |-> NoEdit]
    /\ move = [r \in Requests |-> NoMove]

-----------------------------------------------------------------------------
(* Proposals.                                                              *)

\* A draft within the approved adjusted total.
CreateProposal(s, u, a) ==
    /\ proposal[s].status = "absent"
    /\ proposal' = [proposal EXCEPT ![s] =
         [NoProposal EXCEPT !.status = "DRAFT", !.amount = a, !.creator = u]]
    /\ UNCHANGED <<payment, edit, move>>

\* get_settlement without a lock.
ReadProposal(r, s) ==
    /\ edit[r].item = None
    /\ proposal[s].status # "absent"
    /\ Overlap \/ \A q \in Requests : edit[q].item # s
    /\ edit' = [edit EXCEPT ![r] = [item |-> s, seen |-> proposal[s]]]
    /\ UNCHANGED <<proposal, payment, move>>

\* The UPDATE of a flush names the columns that differ from the row as read.
Flushed(row, seen, new) ==
    [status   |-> IF new.status = seen.status THEN row.status ELSE new.status,
     amount   |-> IF new.amount = seen.amount THEN row.amount ELSE new.amount,
     creator  |-> row.creator,
     reviewer |-> IF new.reviewer = seen.reviewer THEN row.reviewer
                                                  ELSE new.reviewer,
     hashed   |-> IF new.hashed = seen.hashed THEN row.hashed ELSE new.hashed]

\* The request commits the row it has made out of the one it read.
Commit(r, new) ==
    LET s == edit[r].item IN
    /\ proposal' = [proposal EXCEPT ![s] = Flushed(@, edit[r].seen, new)]
    /\ edit' = [edit EXCEPT ![r] = NoEdit]
    /\ UNCHANGED <<payment, move>>

Reading(r, statuses) == edit[r].item # None /\ edit[r].seen.status \in statuses

\* Mutant: an approved proposal can be edited like a draft.
UpdateApproved(r, a) ==
    /\ Reading(r, {"DRAFT", "REJECTED", "APPROVED"})
    /\ Commit(r, [edit[r].seen EXCEPT !.amount = a])

UpdateProposal(r, a) ==
    /\ Reading(r, {"DRAFT", "REJECTED"})
    /\ Commit(r, [edit[r].seen EXCEPT !.status = "DRAFT", !.amount = a,
                                      !.reviewer = None, !.hashed = 0])

SubmitProposal(r) ==
    /\ Reading(r, {"DRAFT", "REJECTED"})
    /\ Commit(r, [edit[r].seen EXCEPT !.status = "UNDER_REVIEW"])

\* review_settlement(approve=True): not by the creator.
ApproveProposal(r, u) ==
    /\ Reading(r, {"UNDER_REVIEW"})
    /\ u \in Managers
    /\ edit[r].seen.creator # u
    /\ Commit(r, [edit[r].seen EXCEPT !.status = "APPROVED", !.reviewer = u,
                                      !.hashed = edit[r].seen.amount])

RejectProposal(r, u) ==
    /\ Reading(r, {"UNDER_REVIEW"})
    /\ u \in Managers
    /\ Commit(r, [edit[r].seen EXCEPT !.status = "REJECTED", !.reviewer = u,
                                      !.hashed = 0])

RecordDisposition(r, d) ==
    /\ Reading(r, {"APPROVED"})
    /\ Commit(r, [edit[r].seen EXCEPT !.status = d])

\* A 409, or a request that dies.
AbandonEdit(r) ==
    /\ edit[r].item # None
    /\ edit' = [edit EXCEPT ![r] = NoEdit]
    /\ UNCHANGED <<proposal, payment, move>>

-----------------------------------------------------------------------------
(* Payments.                                                               *)

ActivePayment == {"DRAFT", "UNDER_REVIEW", "FIRST_APPROVED", "AUTHORIZED",
                  "PAID_EXTERNALLY"}

\* The currency units of s that its active payments bind, one by one: their
\* number is the sum of the payments' amounts.
Units(s) ==
    {unit \in Payments \X Amounts :
       /\ payment[unit[1]].settlement = s
       /\ payment[unit[1]].status \in ActivePayment
       /\ unit[2] <= payment[unit[1]].amount}

\* The same without payment p.
OtherUnits(s, p) == {unit \in Units(s) : unit[1] # p}

Fits(s, p, a) == Cardinality(OtherUnits(s, p)) + a <= proposal[s].amount

SetPayment(p, row) == payment' = [payment EXCEPT ![p] = row]

\* create_payment locks an accepted settlement and adds up its payments.
CreatePayment(p, s, u, a) ==
    /\ payment[p].status = "absent"
    /\ proposal[s].status = "ACCEPTED"
    /\ Fits(s, p, a)
    /\ SetPayment(p, [NoPayment EXCEPT !.status = "DRAFT", !.settlement = s,
                                       !.amount = a, !.creator = u])
    /\ UNCHANGED <<proposal, edit, move>>

\* get_payment.
ReadPayment(r, p) ==
    /\ move[r].item = None
    /\ payment[p].status # "absent"
    /\ move' = [move EXCEPT ![r] = [item |-> p, seen |-> payment[p]]]
    /\ UNCHANGED <<proposal, payment, edit>>

\* populate_existing: the row is read again under its lock.
LockedRow(r) == payment[move[r].item]

\* lock_payment_transition: the settlement must still be accepted.
Locks(r, statuses) ==
    /\ move[r].item # None
    /\ LockedRow(r).status \in statuses
    /\ proposal[LockedRow(r).settlement].status = "ACCEPTED"

\* Mutant: capacity is left to the creation of a payment.
CapacityUnchecked(r) == LockedRow(r).amount > 0

\* lock_and_validate_payment_capacity.
Capacity(r) == Fits(LockedRow(r).settlement, move[r].item, LockedRow(r).amount)

Transition(r, row) ==
    /\ SetPayment(move[r].item, row)
    /\ move' = [move EXCEPT ![r] = NoMove]
    /\ UNCHANGED <<proposal, edit>>

\* Also a rejected payment can be submitted, again.
SubmitPayment(r) ==
    /\ Locks(r, {"DRAFT", "REJECTED"})
    /\ Capacity(r)
    /\ Transition(r, [LockedRow(r) EXCEPT !.status = "UNDER_REVIEW"])

FirstApprove(r, u) ==
    /\ Locks(r, {"UNDER_REVIEW"})
    /\ Capacity(r)
    /\ u \in Managers \ {LockedRow(r).creator}
    /\ Transition(r, [LockedRow(r) EXCEPT !.status = "FIRST_APPROVED",
                                          !.first = u])

\* Mutant: the second approval may come from the same manager.
ApproveTwice(r, u) ==
    /\ Locks(r, {"FIRST_APPROVED"})
    /\ Capacity(r)
    /\ u \in Managers \ {LockedRow(r).creator}
    /\ Transition(r, [LockedRow(r) EXCEPT !.status = "AUTHORIZED",
                                          !.second = u])

SecondApprove(r, u) ==
    /\ Locks(r, {"FIRST_APPROVED"})
    /\ Capacity(r)
    /\ u \in Managers \ {LockedRow(r).creator, LockedRow(r).first}
    /\ Transition(r, [LockedRow(r) EXCEPT !.status = "AUTHORIZED",
                                          !.second = u])

\* Mutant: an authorization can be taken back.
RejectAuthorized(r) ==
    /\ Locks(r, {"UNDER_REVIEW", "FIRST_APPROVED", "AUTHORIZED"})
    /\ Transition(r, [LockedRow(r) EXCEPT !.status = "REJECTED", !.first = None])

\* A rejection forgets the first approval and frees the capacity.
RejectPayment(r) ==
    /\ Locks(r, {"UNDER_REVIEW", "FIRST_APPROVED"})
    /\ Transition(r, [LockedRow(r) EXCEPT !.status = "REJECTED", !.first = None])

RecordPaid(r) ==
    /\ Locks(r, {"AUTHORIZED"})
    /\ Transition(r, [LockedRow(r) EXCEPT !.status = "PAID_EXTERNALLY"])

\* A 409 or 422, or a request that dies.
AbandonMove(r) ==
    /\ move[r].item # None
    /\ move' = [move EXCEPT ![r] = NoMove]
    /\ UNCHANGED <<proposal, payment, edit>>

-----------------------------------------------------------------------------
EditStep(r) ==
    \/ \E s \in Proposals : ReadProposal(r, s)
    \/ \E a \in Amounts : UpdateProposal(r, a)
    \/ SubmitProposal(r)
    \/ \E u \in Users : ApproveProposal(r, u) \/ RejectProposal(r, u)
    \/ \E d \in {"ACCEPTED", "DECLINED", "WITHDRAWN"} : RecordDisposition(r, d)
    \/ AbandonEdit(r)

MoveStep(r) ==
    \/ \E p \in Payments : ReadPayment(r, p)
    \/ SubmitPayment(r)
    \/ \E u \in Users : FirstApprove(r, u) \/ SecondApprove(r, u)
    \/ RejectPayment(r) \/ RecordPaid(r)
    \/ AbandonMove(r)

Next ==
    \/ \E s \in Proposals, u \in Users, a \in Amounts : CreateProposal(s, u, a)
    \/ \E p \in Payments, s \in Proposals, u \in Users, a \in Amounts :
         CreatePayment(p, s, u, a)
    \/ \E r \in Requests : EditStep(r) \/ MoveStep(r)

Spec == Init /\ [][Next]_vars

-----------------------------------------------------------------------------
(* Properties.                                                             *)

\* ADR-040: three different people stand behind an authorized payment, two of
\* them managers, whatever requests raced on it.
FourEyes ==
    \A p \in Payments :
        payment[p].status \in {"AUTHORIZED", "PAID_EXTERNALLY"} =>
            /\ payment[p].first \in Managers \ {payment[p].creator}
            /\ payment[p].second \in Managers \ {payment[p].creator,
                                                 payment[p].first}

\* A02: an authorization cannot be undone by a request that read the payment
\* before it was given, and a recorded payment is final.
AuthorityFinal ==
    [][\A p \in Payments :
         /\ payment[p].status = "AUTHORIZED" =>
              payment'[p].status \in {"AUTHORIZED", "PAID_EXTERNALLY"}
         /\ payment[p].status = "PAID_EXTERNALLY" => payment'[p] = payment[p]]_vars

\* A01: the active payments of an accepted settlement fit its amount.
CapRespected ==
    \A s \in Proposals : proposal[s].status = "ACCEPTED" =>
        Cardinality(Units(s)) <= proposal[s].amount

\* Every payment rests on a settlement that was accepted and still is, at the
\* amount that somebody other than its creator approved.
PaymentsHaveAuthority ==
    \A p \in Payments : payment[p].status # "absent" =>
        LET s == proposal[payment[p].settlement] IN
        /\ s.status = "ACCEPTED"
        /\ s.hashed = s.amount
        /\ s.reviewer \in Managers \ {s.creator}

-----------------------------------------------------------------------------
(* The inductive invariants behind these properties.                       *)

\* A payment waiting for its second approval has an independent first one.
FirstApprovalsIndependent ==
    \A p \in Payments : payment[p].status = "FIRST_APPROVED" =>
        payment[p].first \in Managers \ {payment[p].creator}

ApprovalInv == TypeOK /\ FirstApprovalsIndependent /\ FourEyes

\* Without overlap, what a request has read of a proposal is still so.
EditsAreCurrent ==
    \A r \in Requests : edit[r].item # None =>
        /\ edit[r].seen = proposal[edit[r].item]
        /\ edit[r].seen.status # "absent"
        /\ \A q \in Requests : edit[q].item = edit[r].item => q = r

ApprovedAsHashed ==
    \A s \in Proposals : proposal[s].status \in {"APPROVED", "ACCEPTED"} =>
        /\ proposal[s].hashed = proposal[s].amount
        /\ proposal[s].reviewer \in Managers \ {proposal[s].creator}

PaymentsHaveSettlements ==
    /\ \A p \in Payments : payment[p].status # "absent" =>
         payment[p].settlement \in Proposals
    /\ \A r \in Requests : move[r].item # None =>
         payment[move[r].item].status # "absent"

LedgerInv == /\ TypeOK
             /\ EditsAreCurrent
             /\ ApprovedAsHashed
             /\ PaymentsHaveSettlements
             /\ PaymentsHaveAuthority
             /\ CapRespected

\* The units bound by payments that nobody can reject any more.
FirmUnits(s) ==
    {unit \in Units(s) : payment[unit[1]].status \in {"AUTHORIZED",
                                                      "PAID_EXTERNALLY"}}

Limits == [s \in Proposals |->
             IF proposal[s].status = "ACCEPTED" THEN proposal[s].amount ELSE 0]
Bounds == [s \in Proposals |-> Cardinality(Units(s))]
Firms == [s \in Proposals |-> Cardinality(FirmUnits(s))]

\* The ledger keeps the promise of PaymentEscrow.
Escrow == INSTANCE PaymentEscrow
            WITH Settlements <- Proposals,
                 limit <- Limits, bound <- Bounds, firm <- Firms
EscrowSpec == Escrow!Spec

=============================================================================
