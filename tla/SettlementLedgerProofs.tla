----------------------- MODULE SettlementLedgerProofs -----------------------
(***************************************************************************)
(* The invariants of SettlementLedger, for any number of users, requests,  *)
(* proposals and payments and any amounts.                                 *)
(***************************************************************************)
EXTENDS SettlementLedger, FiniteSetTheorems, TLAPS

\* The units of settlement s in a payment table f, of the payments in the
\* statuses of kinds: those that bind money, or those whose money is firm.
UnitsIn(f, s, kinds) == {unit \in Payments \X Amounts :
                       /\ f[unit[1]].settlement = s
                       /\ f[unit[1]].status \in kinds
                       /\ unit[2] <= f[unit[1]].amount}

OthersIn(f, s, p, kinds) == {unit \in UnitsIn(f, s, kinds) : unit[1] # p}

\* What a payment with this row contributes to them.
Share(row, s, kinds) == IF row.settlement = s /\ row.status \in kinds THEN row.amount ELSE 0

LEMMA AmountsFinite == Amounts \in SUBSET Nat /\ IsFiniteSet(Amounts)
  BY FS_Interval, LedgerAssumption DEF Amounts

LEMMA UnitsFinite ==
  ASSUME NEW f, NEW s, NEW kinds
  PROVE  /\ IsFiniteSet(UnitsIn(f, s, kinds))
         /\ Cardinality(UnitsIn(f, s, kinds)) \in Nat
  <1>1. IsFiniteSet(Payments \X Amounts)
    BY FS_Product, AmountsFinite, LedgerAssumption
  <1>2. UnitsIn(f, s, kinds) \in SUBSET (Payments \X Amounts)
    BY DEF UnitsIn
  <1> QED
    BY <1>1, <1>2, FS_Subset, FS_CardinalityType

LEMMA RowOfUnits ==
  ASSUME NEW p, NEW n \in Nat
  PROVE  Cardinality({p} \X (1..n)) = n
  <1>1. IsFiniteSet({p}) /\ Cardinality({p}) = 1
    BY FS_Singleton
  <1>2. IsFiniteSet(1..n) /\ Cardinality(1..n) = IF 1 > n THEN 0 ELSE n - 1 + 1
    BY FS_Interval
  <1>3. Cardinality({p} \X (1..n)) = Cardinality({p}) * Cardinality(1..n)
    BY <1>1, <1>2, FS_Product, Zenon
  <1>4. Cardinality(1..n) = n
    BY <1>2
  <1> QED
    BY <1>1, <1>3, <1>4

\* The number of units bound is what p binds and what the others bind.
LEMMA UnitsSplit ==
  ASSUME NEW f \in [Payments -> PaymentRow], NEW s, NEW kinds, NEW p \in Payments
  PROVE  /\ Cardinality(OthersIn(f, s, p, kinds)) \in Nat
         /\ Share(f[p], s, kinds) \in Nat
         /\ Cardinality(UnitsIn(f, s, kinds)) =
              Cardinality(OthersIn(f, s, p, kinds)) + Share(f[p], s, kinds)
  <1> DEFINE Own == {unit \in UnitsIn(f, s, kinds) : unit[1] = p}
             Others == OthersIn(f, s, p, kinds)
  <1>1. IsFiniteSet(UnitsIn(f, s, kinds)) /\ Own \in SUBSET UnitsIn(f, s, kinds)
        /\ Others \in SUBSET UnitsIn(f, s, kinds)
    BY UnitsFinite DEF OthersIn
  <1>2. IsFiniteSet(Own) /\ IsFiniteSet(Others)
    BY <1>1, FS_Subset
  <1>3. Others \cup Own = UnitsIn(f, s, kinds) /\ Others \cap Own = {}
    BY DEF OthersIn
  <1> HIDE DEF Own, Others
  <1>4. Cardinality(UnitsIn(f, s, kinds)) = Cardinality(Others) + Cardinality(Own)
    <2>1. Cardinality(Others \cap Own) = 0
      BY <1>3, FS_EmptySet
    <2>2. Cardinality(Others) \in Nat /\ Cardinality(Own) \in Nat
      BY <1>2, FS_CardinalityType
    <2>3. Cardinality(Others \cup Own) =
            Cardinality(Others) + Cardinality(Own) - Cardinality(Others \cap Own)
      BY <1>2, FS_Union
    <2>4. Cardinality(Others \cup Own) = Cardinality(UnitsIn(f, s, kinds))
      BY <1>3, Zenon
    <2> QED
      BY <2>1, <2>2, <2>3, <2>4
  <1>5. f[p].amount \in Amounts
    BY DEF PaymentRow
  <1>6. Cardinality(Own) = Share(f[p], s, kinds)
    <2>1. CASE f[p].settlement = s /\ f[p].status \in kinds
      <3>1. Own = {p} \X (1..f[p].amount)
        BY <1>5, <2>1, LedgerAssumption DEF Own, UnitsIn, Amounts
      <3>2. f[p].amount \in Nat /\ f[p].amount > 0
        BY <1>5, LedgerAssumption DEF Amounts
      <3>5. Cardinality({p} \X (1..f[p].amount)) = f[p].amount
        BY <3>2, RowOfUnits
      <3>6. Share(f[p], s, kinds) = f[p].amount
        BY <2>1 DEF Share
      <3> QED
        BY <3>1, <3>2, <3>5, <3>6
    <2>2. CASE ~(f[p].settlement = s /\ f[p].status \in kinds)
      <3>1. Own = {}
        BY <2>2 DEF Own, UnitsIn
      <3>2. Share(f[p], s, kinds) = 0
        BY <2>2 DEF Share
      <3> QED
        BY <3>1, <3>2, FS_EmptySet
    <2> QED
      BY <2>1, <2>2
  <1> QED
    <2>1. Cardinality(Others) \in Nat /\ Cardinality(Own) \in Nat
      BY <1>2, FS_CardinalityType
    <2> QED
      BY <1>4, <1>6, <2>1 DEF Others

-----------------------------------------------------------------------------
(* Steps on proposals.                                                     *)

LEMMA FlushedType ==
  ASSUME NEW row \in ProposalRow, NEW seen \in ProposalRow, NEW new \in ProposalRow
  PROVE  Flushed(row, seen, new) \in ProposalRow
  BY DEF Flushed, ProposalRow

\* A flush of a row read just now writes the whole row.
LEMMA FlushedCurrent ==
  ASSUME NEW row \in ProposalRow, NEW new \in ProposalRow,
         new.creator = row.creator
  PROVE  Flushed(row, row, new) = new
  BY DEF Flushed, ProposalRow

\* What the requests on proposals have in common: the row they commit.
ProposalCommit(r, new) ==
    /\ edit[r].item # None
    /\ Commit(r, new)
    /\ new \in ProposalRow
    /\ new.creator = edit[r].seen.creator
    /\ edit[r].seen.status # "ACCEPTED"
    /\ new.status # "absent"
    /\ new.status \in {"APPROVED", "ACCEPTED"} =>
         \/ new.hashed = new.amount /\ new.reviewer \in Managers \ {new.creator}
         \/ /\ edit[r].seen.status = "APPROVED"
            /\ new = [edit[r].seen EXCEPT !.status = new.status]

LEMMA EditIsCommit ==
  ASSUME TypeOK, NEW r \in Requests,
         \/ \E a \in Amounts : UpdateProposal(r, a)
         \/ SubmitProposal(r)
         \/ \E u \in Users : ApproveProposal(r, u) \/ RejectProposal(r, u)
         \/ \E d \in {"ACCEPTED", "DECLINED", "WITHDRAWN"} :
              RecordDisposition(r, d)
  PROVE  \E new : ProposalCommit(r, new)
  <1> DEFINE seen == edit[r].seen
  <1>1. seen \in ProposalRow
    BY DEF TypeOK
  <1>2. ASSUME NEW a \in Amounts, UpdateProposal(r, a)
        PROVE  ProposalCommit(r, [seen EXCEPT !.status = "DRAFT", !.amount = a,
                                              !.reviewer = None, !.hashed = 0])
    BY <1>1, <1>2 DEF UpdateProposal, Reading, ProposalCommit, ProposalRow
  <1>3. ASSUME SubmitProposal(r)
        PROVE  ProposalCommit(r, [seen EXCEPT !.status = "UNDER_REVIEW"])
    BY <1>1, <1>3 DEF SubmitProposal, Reading, ProposalCommit, ProposalRow
  <1>4. ASSUME NEW u \in Users, ApproveProposal(r, u)
        PROVE  ProposalCommit(r, [seen EXCEPT !.status = "APPROVED",
                                              !.reviewer = u, !.hashed = seen.amount])
    BY <1>1, <1>4 DEF ApproveProposal, Reading, ProposalCommit, ProposalRow
  <1>5. ASSUME NEW u \in Users, RejectProposal(r, u)
        PROVE  ProposalCommit(r, [seen EXCEPT !.status = "REJECTED",
                                              !.reviewer = u, !.hashed = 0])
    BY <1>1, <1>5 DEF RejectProposal, Reading, ProposalCommit, ProposalRow
  <1>6. ASSUME NEW d \in {"ACCEPTED", "DECLINED", "WITHDRAWN"},
               RecordDisposition(r, d)
        PROVE  ProposalCommit(r, [seen EXCEPT !.status = d])
    BY <1>1, <1>6 DEF RecordDisposition, Reading, ProposalCommit, ProposalRow
  <1> QED
    BY <1>2, <1>3, <1>4, <1>5, <1>6

-----------------------------------------------------------------------------
(* Steps on payments.                                                      *)

\* What the requests on payments have in common: the row they write keeps its
\* settlement, amount and creator, and the settlement is accepted.
PaymentWrite(r, row) ==
    /\ move[r].item \in Payments
    /\ Transition(r, row)
    /\ row \in PaymentRow
    /\ row.settlement = LockedRow(r).settlement
    /\ row.amount = LockedRow(r).amount
    /\ row.creator = LockedRow(r).creator
    /\ row.status # "absent"
    /\ LockedRow(r).status # "absent"
    /\ proposal[row.settlement].status = "ACCEPTED"
    \* The write keeps the independence of approvals ...
    /\ row.status \in {"FIRST_APPROVED", "AUTHORIZED", "PAID_EXTERNALLY"} =>
         \/ row.status = "FIRST_APPROVED" /\ row.first \in Managers \ {row.creator}
         \/ /\ row.status = "AUTHORIZED"
            /\ LockedRow(r).status = "FIRST_APPROVED"
            /\ row.first = LockedRow(r).first
            /\ row.second \in Managers \ {row.creator, row.first}
         \/ /\ row.status = "PAID_EXTERNALLY"
            /\ row.first = LockedRow(r).first
            /\ row.second = LockedRow(r).second
    /\ LockedRow(r).status # "PAID_EXTERNALLY"
    /\ LockedRow(r).status = "AUTHORIZED" <=> row.status = "PAID_EXTERNALLY"
    \* ... and a payment binds more only if it fits.
    /\ row.status \in ActivePayment =>
         LockedRow(r).status \in ActivePayment \/ Capacity(r)

LEMMA MoveIsWrite ==
  ASSUME TypeOK, NEW r \in Requests,
         \/ SubmitPayment(r)
         \/ \E u \in Users : FirstApprove(r, u) \/ SecondApprove(r, u)
         \/ RejectPayment(r) \/ RecordPaid(r)
  PROVE  \E row : PaymentWrite(r, row)
  <1> DEFINE locked == LockedRow(r)
  <1>1. move[r].item # None => move[r].item \in Payments /\ locked \in PaymentRow
    BY DEF TypeOK, LockedRow
  <1>2. ASSUME SubmitPayment(r)
        PROVE  PaymentWrite(r, [locked EXCEPT !.status = "UNDER_REVIEW"])
    BY <1>1, <1>2 DEF SubmitPayment, Locks, PaymentWrite, PaymentRow, ActivePayment
  <1>3. ASSUME NEW u \in Users, FirstApprove(r, u)
        PROVE  PaymentWrite(r, [locked EXCEPT !.status = "FIRST_APPROVED",
                                              !.first = u])
    BY <1>1, <1>3 DEF FirstApprove, Locks, PaymentWrite, PaymentRow, ActivePayment
  <1>4. ASSUME NEW u \in Users, SecondApprove(r, u)
        PROVE  PaymentWrite(r, [locked EXCEPT !.status = "AUTHORIZED", !.second = u])
    BY <1>1, <1>4 DEF SecondApprove, Locks, PaymentWrite, PaymentRow, ActivePayment
  <1>5. ASSUME RejectPayment(r)
        PROVE  PaymentWrite(r, [locked EXCEPT !.status = "REJECTED", !.first = None])
    BY <1>1, <1>5 DEF RejectPayment, Locks, PaymentWrite, PaymentRow, ActivePayment
  <1>6. ASSUME RecordPaid(r)
        PROVE  PaymentWrite(r, [locked EXCEPT !.status = "PAID_EXTERNALLY"])
    BY <1>1, <1>6 DEF RecordPaid, Locks, PaymentWrite, PaymentRow, ActivePayment
  <1> QED
    BY <1>2, <1>3, <1>4, <1>5, <1>6

-----------------------------------------------------------------------------
(* The kinds of steps.                                                     *)

OpenProposal == \E s \in Proposals, u \in Users, a \in Amounts :
                  CreateProposal(s, u, a)

OpenPayment == \E p \in Payments, s \in Proposals, u \in Users, a \in Amounts :
                 CreatePayment(p, s, u, a)

LEMMA StepKinds ==
  ASSUME TypeOK, Next
  PROVE  \/ OpenProposal
         \/ OpenPayment
         \/ \E r \in Requests, s \in Proposals : ReadProposal(r, s)
         \/ \E r \in Requests : \E new : ProposalCommit(r, new)
         \/ \E r \in Requests : AbandonEdit(r)
         \/ \E r \in Requests, p \in Payments : ReadPayment(r, p)
         \/ \E r \in Requests : \E row : PaymentWrite(r, row)
         \/ \E r \in Requests : AbandonMove(r)
  <1>1. CASE OpenProposal \/ OpenPayment
    BY <1>1
  <1>2. ASSUME NEW r \in Requests, EditStep(r)
        PROVE  \/ \E s \in Proposals : ReadProposal(r, s)
               \/ \E new : ProposalCommit(r, new)
               \/ AbandonEdit(r)
    BY <1>2, EditIsCommit DEF EditStep
  <1>3. ASSUME NEW r \in Requests, MoveStep(r)
        PROVE  \/ \E p \in Payments : ReadPayment(r, p)
               \/ \E row : PaymentWrite(r, row)
               \/ AbandonMove(r)
    BY <1>3, MoveIsWrite DEF MoveStep
  <1> QED
    BY <1>1, <1>2, <1>3, Zenon DEF Next, OpenProposal, OpenPayment

LEMMA TypeInit == Init => TypeOK
  BY LedgerAssumption DEF Init, TypeOK, NoProposal, NoPayment, NoEdit, NoMove,
                          ProposalRow, PaymentRow, Amounts

LEMMA TypeNext ==
  ASSUME TypeOK, [Next]_vars
  PROVE  TypeOK'
  <1>0. NoEdit \in [item : Proposals \cup {None}, seen : ProposalRow]
        /\ NoMove \in [item : Payments \cup {None}, seen : PaymentRow]
    BY LedgerAssumption DEF NoEdit, NoMove, NoProposal, NoPayment, ProposalRow,
                            PaymentRow, Amounts
  <1>1. CASE OpenProposal
    <2>1. PICK s \in Proposals, u \in Users, a \in Amounts : CreateProposal(s, u, a)
      BY <1>1 DEF OpenProposal
    <2>2. [NoProposal EXCEPT !.status = "DRAFT", !.amount = a, !.creator = u]
            \in ProposalRow
      BY DEF NoProposal, ProposalRow
    <2> QED
      BY <2>1, <2>2 DEF CreateProposal, TypeOK
  <1>2. CASE OpenPayment
    <2>1. PICK p \in Payments, s \in Proposals, u \in Users, a \in Amounts :
            CreatePayment(p, s, u, a)
      BY <1>2 DEF OpenPayment
    <2>2. [NoPayment EXCEPT !.status = "DRAFT", !.settlement = s, !.amount = a,
                            !.creator = u] \in PaymentRow
      BY DEF NoPayment, PaymentRow
    <2> QED
      BY <2>1, <2>2 DEF CreatePayment, SetPayment, TypeOK
  <1>3. ASSUME NEW r \in Requests, NEW s \in Proposals, ReadProposal(r, s)
        PROVE  TypeOK'
    BY <1>3 DEF ReadProposal, TypeOK
  <1>4. ASSUME NEW r \in Requests, NEW new, ProposalCommit(r, new)
        PROVE  TypeOK'
    <2>1. edit[r].item \in Proposals /\ edit[r].seen \in ProposalRow
      BY <1>4 DEF ProposalCommit, TypeOK
    <2>2. Flushed(proposal[edit[r].item], edit[r].seen, new) \in ProposalRow
      BY <1>4, <2>1, FlushedType DEF ProposalCommit, TypeOK
    <2> QED
      BY <1>0, <1>4, <2>1, <2>2 DEF ProposalCommit, Commit, TypeOK
  <1>5. ASSUME NEW r \in Requests, AbandonEdit(r)
        PROVE  TypeOK'
    BY <1>0, <1>5 DEF AbandonEdit, TypeOK
  <1>6. ASSUME NEW r \in Requests, NEW p \in Payments, ReadPayment(r, p)
        PROVE  TypeOK'
    BY <1>6 DEF ReadPayment, TypeOK
  <1>7. ASSUME NEW r \in Requests, NEW row, PaymentWrite(r, row)
        PROVE  TypeOK'
    BY <1>0, <1>7 DEF PaymentWrite, Transition, SetPayment, TypeOK
  <1>8. ASSUME NEW r \in Requests, AbandonMove(r)
        PROVE  TypeOK'
    BY <1>0, <1>8 DEF AbandonMove, TypeOK
  <1>9. CASE UNCHANGED vars
    BY <1>9 DEF vars, TypeOK
  <1> QED
    BY <1>1, <1>2, <1>3, <1>4, <1>5, <1>6, <1>7, <1>8, <1>9, StepKinds, Zenon

\* TypeOK holds in every state: the rows and the requests of the ledger have the
\* columns and the values that the code gives them.
THEOREM TypeCorrect == Spec => []TypeOK
  BY TypeInit, TypeNext, PTL DEF Spec

-----------------------------------------------------------------------------
(* Approvals: with or without overlap of the requests on a proposal.       *)

\* What becomes of a payment in a step: it stays, it is created as a draft, or
\* it is written under its lock.
LEMMA PaymentSteps ==
  ASSUME TypeOK, [Next]_vars
  PROVE  \/ payment' = payment
         \/ \E p \in Payments : /\ payment[p].status = "absent"
                                /\ payment'[p].status = "DRAFT"
                                /\ payment' = [payment EXCEPT ![p] = payment'[p]]
         \/ \E r \in Requests : \E row : PaymentWrite(r, row)
  <1>1. CASE OpenPayment
    <2>1. PICK p \in Payments, s \in Proposals, u \in Users, a \in Amounts :
            CreatePayment(p, s, u, a)
      BY <1>1 DEF OpenPayment
    <2> QED
      BY <2>1 DEF CreatePayment, SetPayment, NoPayment, TypeOK
  <1>2. CASE ~OpenPayment
    BY <1>2, StepKinds DEF OpenProposal, CreateProposal, ReadProposal,
         ProposalCommit, Commit, AbandonEdit, ReadPayment, AbandonMove, vars
  <1> QED
    BY <1>1, <1>2

LEMMA ApprovalNext ==
  ASSUME ApprovalInv, [Next]_vars
  PROVE  ApprovalInv'
  <1>1. TypeOK /\ TypeOK'
    BY TypeNext DEF ApprovalInv
  <1>2. CASE payment' = payment
    BY <1>1, <1>2 DEF ApprovalInv, FirstApprovalsIndependent, FourEyes
  <1>3. CASE \E p \in Payments : /\ payment'[p].status = "DRAFT"
                                /\ payment' = [payment EXCEPT ![p] = payment'[p]]
    BY <1>1, <1>3 DEF ApprovalInv, FirstApprovalsIndependent, FourEyes, TypeOK
  <1>4. ASSUME NEW r \in Requests, NEW row, PaymentWrite(r, row)
        PROVE  ApprovalInv'
    <2> DEFINE p == move[r].item
    <2>1. p \in Payments /\ payment' = [payment EXCEPT ![p] = row]
      BY <1>4 DEF PaymentWrite, Transition, SetPayment
    <2>2. row.status = "FIRST_APPROVED" => row.first \in Managers \ {row.creator}
      BY <1>4 DEF PaymentWrite
    <2>3. row.status \in {"AUTHORIZED", "PAID_EXTERNALLY"} =>
            /\ row.first \in Managers \ {row.creator}
            /\ row.second \in Managers \ {row.creator, row.first}
      <3>1. CASE row.status = "AUTHORIZED"
        BY <1>4, <2>1, <3>1 DEF PaymentWrite, LockedRow, ApprovalInv,
                                FirstApprovalsIndependent
      <3>2. CASE row.status = "PAID_EXTERNALLY"
        BY <1>4, <2>1, <3>2 DEF PaymentWrite, LockedRow, ApprovalInv, FourEyes
      <3> QED
        BY <3>1, <3>2
    <2>4. \A q \in Payments : payment'[q] = IF q = p THEN row ELSE payment[q]
      BY <1>1, <2>1 DEF TypeOK
    <2>5. FirstApprovalsIndependent'
      BY <2>2, <2>4 DEF ApprovalInv, FirstApprovalsIndependent
    <2>6. FourEyes'
      BY <2>3, <2>4 DEF ApprovalInv, FourEyes
    <2> QED
      BY <1>1, <2>5, <2>6 DEF ApprovalInv
  <1> QED
    BY <1>1, <1>2, <1>3, <1>4, PaymentSteps

LEMMA ApprovalInit == Init => ApprovalInv
  BY TypeInit DEF Init, ApprovalInv, FirstApprovalsIndependent, FourEyes, NoPayment

\* Three people stand behind every authorized payment, however many requests
\* race on its rows.
THEOREM FourEyesHolds == Spec => []FourEyes
  <1>1. Spec => []ApprovalInv
    BY ApprovalInit, ApprovalNext, PTL DEF Spec
  <1>2. ApprovalInv => FourEyes
    BY DEF ApprovalInv
  <1> QED
    BY <1>1, <1>2, PTL

\* No request undoes an authorization or changes a recorded payment.
THEOREM AuthorityIsFinal == Spec => AuthorityFinal
  <1> DEFINE Kept == \A p \in Payments :
         /\ payment[p].status = "AUTHORIZED" =>
              payment'[p].status \in {"AUTHORIZED", "PAID_EXTERNALLY"}
         /\ payment[p].status = "PAID_EXTERNALLY" => payment'[p] = payment[p]
  <1>1. ASSUME TypeOK, [Next]_vars
        PROVE  Kept
    <2>1. CASE payment' = payment
      BY <2>1
    <2>2. CASE \E p \in Payments : /\ payment[p].status = "absent"
                                  /\ payment'[p].status = "DRAFT"
                                  /\ payment' = [payment EXCEPT ![p] = payment'[p]]
      BY <1>1, <2>2 DEF TypeOK
    <2>3. ASSUME NEW r \in Requests, NEW row, PaymentWrite(r, row)
          PROVE  Kept
      BY <1>1, <2>3 DEF PaymentWrite, Transition, SetPayment, LockedRow, TypeOK
    <2> QED
      BY <1>1, <2>1, <2>2, <2>3, PaymentSteps
  <1>2. TypeOK /\ [Next]_vars => [Kept]_vars
    BY <1>1
  <1> HIDE DEF Kept
  <1>3. Spec => [][Kept]_vars
    BY <1>2, TypeCorrect, PTL DEF Spec
  <1> QED
    BY <1>3 DEF AuthorityFinal, Kept

-----------------------------------------------------------------------------
(* The money: the requests on one proposal come one after another.         *)

\* The number of units before and after payment p is written.
LEMMA UnitsWritten ==
  ASSUME NEW f \in [Payments -> PaymentRow], NEW g \in [Payments -> PaymentRow],
         NEW p \in Payments, \A q \in Payments \ {p} : g[q] = f[q],
         NEW s, NEW kinds
  PROVE  /\ Cardinality(UnitsIn(f, s, kinds)) =
              Cardinality(OthersIn(f, s, p, kinds)) + Share(f[p], s, kinds)
         /\ Cardinality(UnitsIn(g, s, kinds)) =
              Cardinality(OthersIn(f, s, p, kinds)) + Share(g[p], s, kinds)
         /\ Cardinality(OthersIn(f, s, p, kinds)) \in Nat
         /\ Share(f[p], s, kinds) \in Nat
         /\ Share(g[p], s, kinds) \in Nat
  <1>1. OthersIn(g, s, p, kinds) = OthersIn(f, s, p, kinds)
    BY DEF OthersIn, UnitsIn
  <1> QED
    BY <1>1, UnitsSplit

\* A payment that fits, or that binds no more than it did, keeps the cap.
LEMMA CapKept ==
  ASSUME TypeOK, CapRespected, NEW p \in Payments, NEW row \in PaymentRow,
         payment' = [payment EXCEPT ![p] = row], proposal' = proposal,
         row.settlement \in Proposals,
         row.status \in ActivePayment =>
           \/ Fits(row.settlement, p, row.amount)
           \/ /\ payment[p].status \in ActivePayment
              /\ payment[p].settlement = row.settlement
              /\ payment[p].amount = row.amount
  PROVE  CapRespected'
  <1> SUFFICES ASSUME NEW s \in Proposals, proposal[s].status = "ACCEPTED"
               PROVE  Cardinality(UnitsIn(payment', s, ActivePayment)) <= proposal[s].amount
    BY DEF CapRespected, Units, UnitsIn
  <1> DEFINE others == Cardinality(OthersIn(payment, s, p, ActivePayment))
             new == Share(row, s, ActivePayment)
  <1>1. /\ payment \in [Payments -> PaymentRow]
        /\ proposal[s].amount \in Nat
        /\ row.amount \in Nat
    BY AmountsFinite DEF TypeOK, ProposalRow, PaymentRow
  <1>2. /\ others \in Nat
        /\ Share(payment[p], s, ActivePayment) \in Nat
        /\ Cardinality(UnitsIn(payment, s, ActivePayment)) =
             others + Share(payment[p], s, ActivePayment)
        /\ Cardinality(UnitsIn(payment', s, ActivePayment)) = others + new
    <2>1. /\ payment' \in [Payments -> PaymentRow] /\ payment'[p] = row
          /\ \A q \in Payments \ {p} : payment'[q] = payment[q]
      BY <1>1
    <2> DEFINE table == payment'
    <2>2. /\ table \in [Payments -> PaymentRow] /\ table[p] = row
          /\ \A q \in Payments \ {p} : table[q] = payment[q]
      BY <2>1
    <2> HIDE DEF table
    <2>3. /\ others \in Nat
          /\ Share(payment[p], s, ActivePayment) \in Nat
          /\ Cardinality(UnitsIn(payment, s, ActivePayment)) =
               others + Share(payment[p], s, ActivePayment)
          /\ Cardinality(UnitsIn(table, s, ActivePayment)) =
               others + Share(table[p], s, ActivePayment)
      BY <1>1, <2>2, UnitsWritten
    <2> QED
      BY <2>2, <2>3 DEF table
  <1>4. others + Share(payment[p], s, ActivePayment) <= proposal[s].amount
    <2>1. Cardinality(UnitsIn(payment, s, ActivePayment)) <= proposal[s].amount
      BY DEF CapRespected, Units, UnitsIn
    <2> QED
      BY <1>2, <2>1
  <1>3. proposal[s].amount \in Nat
    BY <1>1
  <1> HIDE DEF others
  <1>5. CASE new = 0
    BY <1>2, <1>3, <1>4, <1>5
  <1>6. CASE new # 0
    <2>1. row.settlement = s /\ row.status \in ActivePayment /\ new = row.amount
      BY <1>6 DEF Share
    <2>2. CASE Fits(row.settlement, p, row.amount)
      <3>1. OtherUnits(s, p) = OthersIn(payment, s, p, ActivePayment)
        BY DEF OtherUnits, OthersIn, Units, UnitsIn
      <3>2. others + row.amount <= proposal[s].amount
        BY <2>1, <2>2, <3>1 DEF Fits, others
      <3> QED
        BY <1>2, <2>1, <3>2
    <2>3. CASE /\ payment[p].status \in ActivePayment
               /\ payment[p].settlement = row.settlement
               /\ payment[p].amount = row.amount
      <3>1. Share(payment[p], s, ActivePayment) = new
        BY <2>1, <2>3 DEF Share
      <3> QED
        BY <1>2, <1>4, <3>1
    <2> QED
      BY <2>1, <2>2, <2>3
  <1> QED
    BY <1>5, <1>6

\* A settlement without payments binds nothing.
LEMMA NothingBound ==
  ASSUME NEW s, \A p \in Payments : payment[p].status # "absent" =>
                                     payment[p].settlement # s
  PROVE  Cardinality(Units(s)) = 0
  <1>1. Units(s) = {}
    BY DEF Units, ActivePayment
  <1> QED
    BY <1>1, FS_EmptySet

LEMMA LedgerInit == Init => LedgerInv
  <1> SUFFICES ASSUME Init PROVE LedgerInv
    OBVIOUS
  <1>1. TypeOK
    BY TypeInit
  <1>2. EditsAreCurrent /\ ApprovedAsHashed /\ PaymentsHaveSettlements
    BY DEF Init, EditsAreCurrent, ApprovedAsHashed, PaymentsHaveSettlements,
           NoEdit, NoMove, NoProposal, NoPayment
  <1>3. PaymentsHaveAuthority /\ CapRespected
    BY DEF Init, PaymentsHaveAuthority, CapRespected, NoProposal, NoPayment
  <1> QED
    BY <1>1, <1>2, <1>3 DEF LedgerInv

\* A row without payments may change, as long as it is not accepted without the
\* hash of what was approved.
LEMMA ProposalChanges ==
  ASSUME LedgerInv, TypeOK', NEW s \in Proposals, NEW row \in ProposalRow,
         proposal[s].status # "ACCEPTED",
         proposal' = [proposal EXCEPT ![s] = row], payment' = payment, move' = move,
         row.status \in {"APPROVED", "ACCEPTED"} =>
           row.hashed = row.amount /\ row.reviewer \in Managers \ {row.creator}
  PROVE  ApprovedAsHashed' /\ PaymentsHaveSettlements' /\ PaymentsHaveAuthority'
         /\ CapRespected'
  <1>1. \A q \in Proposals : proposal'[q] = IF q = s THEN row ELSE proposal[q]
    BY DEF LedgerInv, TypeOK
  <1>2. \A p \in Payments : payment[p].status # "absent" =>
          payment[p].settlement # s /\ payment[p].settlement \in Proposals
    BY DEF LedgerInv, PaymentsHaveAuthority, PaymentsHaveSettlements
  <1>3. ApprovedAsHashed'
    BY <1>1 DEF LedgerInv, ApprovedAsHashed
  <1>4. PaymentsHaveSettlements'
    BY DEF LedgerInv, PaymentsHaveSettlements
  <1>5. PaymentsHaveAuthority'
    BY <1>1, <1>2 DEF LedgerInv, PaymentsHaveAuthority
  <1>6. CapRespected'
    <2> SUFFICES ASSUME NEW q \in Proposals, proposal'[q].status = "ACCEPTED"
                 PROVE  Cardinality(Units(q)) <= proposal'[q].amount
      BY DEF CapRespected, Units
    <2>1. CASE q = s
      <3>1. Cardinality(Units(s)) = 0
        BY <1>2, NothingBound
      <3>2. proposal'[s].amount \in Nat
        BY AmountsFinite DEF TypeOK, ProposalRow
      <3> QED
        BY <2>1, <3>1, <3>2
    <2>2. CASE q # s
      BY <1>1, <2>2 DEF LedgerInv, CapRespected
    <2> QED
      BY <2>1, <2>2
  <1> QED
    BY <1>3, <1>4, <1>5, <1>6

\* One lemma for each kind of step.
LEMMA OpenProposalKeeps ==
  ASSUME LedgerInv, TypeOK', OpenProposal
  PROVE  LedgerInv'
  <1>1. PICK s \in Proposals, u \in Users, a \in Amounts : CreateProposal(s, u, a)
    BY DEF OpenProposal
  <1> DEFINE row == [NoProposal EXCEPT !.status = "DRAFT", !.amount = a, !.creator = u]
  <1>2. row \in ProposalRow /\ row.status = "DRAFT"
    BY DEF NoProposal, ProposalRow
  <1>3. proposal' = [proposal EXCEPT ![s] = row] /\ proposal[s].status = "absent"
        /\ payment' = payment /\ edit' = edit /\ move' = move
    BY <1>1 DEF CreateProposal
  <1> HIDE DEF row
  <1>4. EditsAreCurrent'
    BY <1>3 DEF LedgerInv, EditsAreCurrent, TypeOK
  <1>5. ApprovedAsHashed' /\ PaymentsHaveSettlements' /\ PaymentsHaveAuthority'
        /\ CapRespected'
    BY <1>2, <1>3, ProposalChanges
  <1> QED
    BY <1>4, <1>5 DEF LedgerInv

LEMMA CommitKeeps ==
  ASSUME LedgerInv, TypeOK', NEW r \in Requests, NEW new, ProposalCommit(r, new)
  PROVE  LedgerInv'
  <1> DEFINE s == edit[r].item
  <1>1. s \in Proposals /\ edit[r].seen = proposal[s] /\ proposal[s] \in ProposalRow
    BY DEF ProposalCommit, LedgerInv, EditsAreCurrent, TypeOK
  <1>2. new \in ProposalRow /\ new.creator = proposal[s].creator
        /\ proposal[s].status # "ACCEPTED"
    BY <1>1 DEF ProposalCommit
  <1>3. proposal' = [proposal EXCEPT ![s] = new]
    BY <1>1, <1>2, FlushedCurrent DEF ProposalCommit, Commit
  <1>4. new.status \in {"APPROVED", "ACCEPTED"} =>
          new.hashed = new.amount /\ new.reviewer \in Managers \ {new.creator}
    BY <1>1 DEF ProposalCommit, LedgerInv, ApprovedAsHashed, ProposalRow
  <1>5. edit' = [edit EXCEPT ![r] = NoEdit] /\ payment' = payment /\ move' = move
    BY DEF ProposalCommit, Commit
  <1>6. EditsAreCurrent'
    BY <1>3, <1>5 DEF LedgerInv, EditsAreCurrent, TypeOK, NoEdit
  <1>7. ApprovedAsHashed' /\ PaymentsHaveSettlements' /\ PaymentsHaveAuthority'
        /\ CapRespected'
    BY <1>1, <1>2, <1>3, <1>4, <1>5, ProposalChanges
  <1> QED
    BY <1>6, <1>7 DEF LedgerInv

LEMMA OpenPaymentKeeps ==
  ASSUME LedgerInv, TypeOK', OpenPayment
  PROVE  LedgerInv'
  <1>1. PICK p \in Payments, s \in Proposals, u \in Users, a \in Amounts :
          CreatePayment(p, s, u, a)
    BY DEF OpenPayment
  <1> DEFINE row == [NoPayment EXCEPT !.status = "DRAFT", !.settlement = s,
                                      !.amount = a, !.creator = u]
  <1>2. row \in PaymentRow /\ row.status = "DRAFT" /\ row.settlement = s
        /\ row.amount = a
    BY DEF NoPayment, PaymentRow
  <1>3. payment' = [payment EXCEPT ![p] = row] /\ proposal' = proposal
        /\ edit' = edit /\ move' = move /\ proposal[s].status = "ACCEPTED"
        /\ Fits(s, p, a)
    BY <1>1 DEF CreatePayment, SetPayment
  <1> HIDE DEF row
  <1>4. \A q \in Payments : payment'[q] = IF q = p THEN row ELSE payment[q]
    BY <1>3 DEF LedgerInv, TypeOK
  <1>5. EditsAreCurrent' /\ ApprovedAsHashed'
    BY <1>3 DEF LedgerInv, EditsAreCurrent, ApprovedAsHashed
  <1>6. PaymentsHaveSettlements'
    BY <1>2, <1>3, <1>4 DEF LedgerInv, PaymentsHaveSettlements, TypeOK
  <1>7. PaymentsHaveAuthority'
    BY <1>2, <1>3, <1>4 DEF LedgerInv, PaymentsHaveAuthority, ApprovedAsHashed
  <1>8. CapRespected'
    BY <1>2, <1>3, CapKept DEF LedgerInv
  <1> QED
    BY <1>5, <1>6, <1>7, <1>8 DEF LedgerInv

LEMMA WriteKeeps ==
  ASSUME LedgerInv, TypeOK', NEW r \in Requests, NEW row, PaymentWrite(r, row)
  PROVE  LedgerInv'
  <1> DEFINE p == move[r].item
  <1>1. p \in Payments /\ row \in PaymentRow /\ LockedRow(r) = payment[p]
        /\ payment[p].status # "absent" /\ row.status # "absent"
        /\ row.settlement = payment[p].settlement /\ row.amount = payment[p].amount
    BY DEF PaymentWrite, LockedRow
  <1>2. payment' = [payment EXCEPT ![p] = row] /\ proposal' = proposal
        /\ edit' = edit /\ move' = [move EXCEPT ![r] = NoMove]
    BY DEF PaymentWrite, Transition, SetPayment
  <1>3. \A q \in Payments : payment'[q] = IF q = p THEN row ELSE payment[q]
    BY <1>2 DEF LedgerInv, TypeOK
  <1>4. EditsAreCurrent' /\ ApprovedAsHashed'
    BY <1>2 DEF LedgerInv, EditsAreCurrent, ApprovedAsHashed
  <1>5. PaymentsHaveSettlements'
    BY <1>1, <1>2, <1>3 DEF LedgerInv, PaymentsHaveSettlements, TypeOK, NoMove
  <1>6. PaymentsHaveAuthority'
    BY <1>1, <1>2, <1>3 DEF LedgerInv, PaymentsHaveAuthority
  <1>7. row.settlement \in Proposals
    BY <1>1 DEF LedgerInv, PaymentsHaveSettlements
  <1>8. row.status \in ActivePayment =>
          payment[p].status \in ActivePayment \/ Fits(row.settlement, p, row.amount)
    BY <1>1 DEF PaymentWrite, Capacity
  <1>9. CapRespected'
    BY <1>1, <1>2, <1>7, <1>8, CapKept DEF LedgerInv
  <1> QED
    BY <1>4, <1>5, <1>6, <1>9 DEF LedgerInv

LEMMA LedgerNext ==
  ASSUME ~Overlap, LedgerInv, [Next]_vars
  PROVE  LedgerInv'
  <1>1. TypeOK /\ TypeOK'
    BY TypeNext DEF LedgerInv
  <1>2. ASSUME proposal' = proposal, payment' = payment, edit' = edit,
               \A r \in Requests : move'[r].item # None =>
                 \/ move'[r].item = move[r].item
                 \/ payment[move'[r].item].status # "absent"
        PROVE  LedgerInv'
    BY <1>1, <1>2 DEF LedgerInv, EditsAreCurrent, ApprovedAsHashed,
         PaymentsHaveSettlements, PaymentsHaveAuthority, CapRespected, Units
  <1>3. ASSUME proposal' = proposal, payment' = payment, move' = move,
               EditsAreCurrent'
        PROVE  LedgerInv'
    BY <1>1, <1>3 DEF LedgerInv, ApprovedAsHashed, PaymentsHaveSettlements,
         PaymentsHaveAuthority, CapRespected, Units
  <1>4. ASSUME NEW r \in Requests, NEW s \in Proposals, ReadProposal(r, s)
        PROVE  LedgerInv'
    <2>1. EditsAreCurrent'
      BY <1>1, <1>4 DEF ReadProposal, LedgerInv, EditsAreCurrent, TypeOK
    <2> QED
      BY <1>3, <1>4, <2>1 DEF ReadProposal
  <1>5. ASSUME NEW r \in Requests, AbandonEdit(r)
        PROVE  LedgerInv'
    <2>1. EditsAreCurrent'
      BY <1>1, <1>5 DEF AbandonEdit, LedgerInv, EditsAreCurrent, TypeOK, NoEdit
    <2> QED
      BY <1>3, <1>5, <2>1 DEF AbandonEdit
  <1>6. ASSUME NEW r \in Requests, NEW p \in Payments, ReadPayment(r, p)
        PROVE  LedgerInv'
    BY <1>1, <1>2, <1>6 DEF ReadPayment, TypeOK
  <1>7. ASSUME NEW r \in Requests, AbandonMove(r)
        PROVE  LedgerInv'
    BY <1>1, <1>2, <1>7 DEF AbandonMove, TypeOK, NoMove
  <1>8. CASE UNCHANGED vars
    BY <1>2, <1>8 DEF vars
  <1> QED
    BY <1>1, <1>4, <1>5, <1>6, <1>7, <1>8, StepKinds, OpenProposalKeeps, CommitKeeps,
       OpenPaymentKeeps, WriteKeeps

\* The conjuncts of LedgerInv hold together when requests on one proposal come
\* one after another.
THEOREM LedgerHolds == ~Overlap => (Spec => []LedgerInv)
  <1> SUFFICES ASSUME ~Overlap PROVE Spec => []LedgerInv
    OBVIOUS
  <1>1. LedgerInv /\ [Next]_vars => LedgerInv'
    BY LedgerNext
  <1> QED
    BY <1>1, LedgerInit, PTL DEF Spec

\* A01: payments never exceed the accepted amount.
THEOREM CapHolds == ~Overlap => (Spec => []CapRespected)
  <1>1. LedgerInv => CapRespected
    BY DEF LedgerInv
  <1> QED
    BY <1>1, LedgerHolds, PTL

\* Every payment rests on an accepted, approved and unchanged settlement.
THEOREM AuthorityHolds == ~Overlap => (Spec => []PaymentsHaveAuthority)
  <1>1. LedgerInv => PaymentsHaveAuthority
    BY DEF LedgerInv
  <1> QED
    BY <1>1, LedgerHolds, PTL

-----------------------------------------------------------------------------
(* Refinement: the ledger is the escrow of PaymentEscrow.                  *)

Firm == {"AUTHORIZED", "PAID_EXTERNALLY"}

Limit(s) == IF proposal[s].status = "ACCEPTED" THEN proposal[s].amount ELSE 0
Bound(s) == Cardinality(UnitsIn(payment, s, ActivePayment))
Secure(s) == Cardinality(UnitsIn(payment, s, Firm))

\* The mapped variables, by the operators above.
LEMMA Mapping ==
  /\ Limits = [s \in Proposals |-> Limit(s)]
  /\ Bounds = [s \in Proposals |-> Bound(s)]
  /\ Firms = [s \in Proposals |-> Secure(s)]
  <1>1. \A s : Units(s) = UnitsIn(payment, s, ActivePayment)
    BY DEF Units, UnitsIn
  <1>2. \A s : FirmUnits(s) = UnitsIn(payment, s, Firm)
    BY DEF Units, FirmUnits, UnitsIn, Firm, ActivePayment
  <1> QED
    BY <1>1, <1>2 DEF Limit, Bound, Secure, Limits, Bounds, Firms

\* The same after a step.
LEMMA MappingNext ==
  /\ Limits' = [s \in Proposals |-> Limit(s)']
  /\ Bounds' = [s \in Proposals |-> Bound(s)']
  /\ Firms' = [s \in Proposals |-> Secure(s)']
  <1>1. \A s : Units(s)' = UnitsIn(payment', s, ActivePayment)
    BY DEF Units, UnitsIn
  <1>2. \A s : FirmUnits(s)' = UnitsIn(payment', s, Firm)
    BY DEF Units, FirmUnits, UnitsIn, Firm, ActivePayment
  <1> QED
    BY <1>1, <1>2 DEF Limit, Bound, Secure, Limits, Bounds, Firms

\* What is firm is bound.
LEMMA FirmIsBound ==
  ASSUME NEW f, NEW s
  PROVE  /\ Cardinality(UnitsIn(f, s, Firm)) \in Nat
         /\ Cardinality(UnitsIn(f, s, ActivePayment)) \in Nat
         /\ Cardinality(UnitsIn(f, s, Firm)) <= Cardinality(UnitsIn(f, s, ActivePayment))
  <1>1. UnitsIn(f, s, Firm) \in SUBSET UnitsIn(f, s, ActivePayment)
    BY DEF UnitsIn, Firm, ActivePayment
  <1>2. IsFiniteSet(UnitsIn(f, s, ActivePayment))
    BY UnitsFinite
  <1>3. Cardinality(UnitsIn(f, s, Firm)) <= Cardinality(UnitsIn(f, s, ActivePayment))
    BY <1>1, <1>2, FS_Subset
  <1> QED
    BY <1>3, UnitsFinite

\* What a write of payment p, of settlement s alone, does to the totals.
LEMMA TotalsWritten ==
  ASSUME TypeOK, TypeOK', NEW p \in Payments, NEW s \in Proposals,
         \A q \in Payments \ {p} : payment'[q] = payment[q],
         payment'[p].settlement = s,
         payment[p].status = "absent" \/ payment[p].settlement = s
  PROVE  /\ \A t \in Proposals \ {s} : Bound(t)' = Bound(t) /\ Secure(t)' = Secure(t)
         /\ Bound(s) \in Nat /\ Bound(s)' \in Nat /\ Secure(s) \in Nat /\ Secure(s)' \in Nat
         /\ Secure(s) <= Bound(s) /\ Secure(s)' <= Bound(s)'
         /\ Bound(s)' = Cardinality(OthersIn(payment, s, p, ActivePayment))
                          + Share(payment'[p], s, ActivePayment)
         /\ Bound(s) = Cardinality(OthersIn(payment, s, p, ActivePayment))
                          + Share(payment[p], s, ActivePayment)
         /\ Secure(s)' = Cardinality(OthersIn(payment, s, p, Firm)) + Share(payment'[p], s, Firm)
         /\ Secure(s) = Cardinality(OthersIn(payment, s, p, Firm)) + Share(payment[p], s, Firm)
         /\ Cardinality(OthersIn(payment, s, p, ActivePayment)) \in Nat
         /\ Cardinality(OthersIn(payment, s, p, Firm)) \in Nat
  <1> DEFINE table == payment'
  <1>1. /\ payment \in [Payments -> PaymentRow] /\ table \in [Payments -> PaymentRow]
        /\ \A q \in Payments \ {p} : table[q] = payment[q]
        /\ table[p].settlement = s
    BY DEF TypeOK
  <1> HIDE DEF table
  <1>2. ASSUME NEW t, NEW kinds
        PROVE  /\ Cardinality(UnitsIn(payment, t, kinds)) =
                    Cardinality(OthersIn(payment, t, p, kinds)) + Share(payment[p], t, kinds)
               /\ Cardinality(UnitsIn(table, t, kinds)) =
                    Cardinality(OthersIn(payment, t, p, kinds)) + Share(table[p], t, kinds)
               /\ Cardinality(OthersIn(payment, t, p, kinds)) \in Nat
    BY <1>1, UnitsWritten
  <1>3. ASSUME NEW t \in Proposals \ {s}, NEW kinds \in {ActivePayment, Firm}
        PROVE  Share(payment[p], t, kinds) = 0 /\ Share(table[p], t, kinds) = 0
    BY <1>1, <1>3 DEF Share, ActivePayment, Firm
  <1>4. ASSUME NEW t \in Proposals \ {s}, NEW kinds \in {ActivePayment, Firm}
        PROVE  Cardinality(UnitsIn(table, t, kinds)) = Cardinality(UnitsIn(payment, t, kinds))
    BY <1>2, <1>3
  <1>5. \A t \in Proposals \ {s} : Bound(t)' = Bound(t) /\ Secure(t)' = Secure(t)
    BY <1>4 DEF Bound, Secure, table
  <1>6. /\ Bound(s) \in Nat /\ Bound(s)' \in Nat /\ Secure(s) \in Nat /\ Secure(s)' \in Nat
        /\ Secure(s) <= Bound(s) /\ Secure(s)' <= Bound(s)'
    BY FirmIsBound DEF Bound, Secure
  <1> QED
    BY <1>2, <1>5, <1>6 DEF Bound, Secure, table

LEMMA EscrowInit == Init => Escrow!Init
  <1> SUFFICES ASSUME Init PROVE Escrow!Init
    OBVIOUS
  <1>1. ASSUME NEW s \in Proposals
        PROVE  Limit(s) = 0 /\ Bound(s) = 0 /\ Secure(s) = 0
    <2>1. Units(s) = {} /\ FirmUnits(s) = {}
      BY DEF Init, NoPayment, Units, FirmUnits, ActivePayment
    <2>2. UnitsIn(payment, s, ActivePayment) = {} /\ UnitsIn(payment, s, Firm) = {}
      BY DEF Init, NoPayment, UnitsIn, Firm, ActivePayment
    <2>3. Limit(s) = 0
      BY DEF Init, NoProposal, Limit
    <2> QED
      BY <2>2, <2>3, FS_EmptySet DEF Bound, Secure
  <1> QED
    BY <1>1, Mapping DEF Escrow!Init

\* The steps of the escrow, by the totals of the settlements.
LEMMA EscrowStep ==
  ASSUME NEW s \in Proposals, NEW n \in Nat \ {0},
         \A t \in Proposals \ {s} :
            Limit(t)' = Limit(t) /\ Bound(t)' = Bound(t) /\ Secure(t)' = Secure(t),
         Limit(s) \in Nat, Bound(s) \in Nat, Secure(s) \in Nat,
         \/ /\ Limit(s)' = Limit(s) /\ Secure(s)' = Secure(s)
            /\ Bound(s)' = Bound(s) + n /\ Bound(s)' <= Limit(s)
         \/ /\ Limit(s)' = Limit(s) /\ Secure(s)' = Secure(s)
            /\ Bound(s) = Bound(s)' + n /\ Bound(s)' \in Nat /\ Secure(s)' <= Bound(s)'
         \/ /\ Limit(s)' = Limit(s) /\ Bound(s)' = Bound(s)
            /\ Secure(s)' = Secure(s) + n /\ Secure(s)' <= Bound(s)'
         \/ /\ Bound(s)' = Bound(s) /\ Secure(s)' = Secure(s)
            /\ Limit(s) = 0 /\ Limit(s)' = n /\ n \in Amounts
         \/ Limit(s)' = Limit(s) /\ Bound(s)' = Bound(s) /\ Secure(s)' = Secure(s)
  PROVE  [Escrow!Next]_Escrow!vars
  <1>1. /\ Limits[s] = Limit(s) /\ Bounds[s] = Bound(s) /\ Firms[s] = Secure(s)
    BY Mapping
  <1>2. ASSUME Limit(s)' = Limit(s) PROVE Limits' = Limits
    BY <1>2, Mapping, MappingNext
  <1>3. ASSUME Bound(s)' = Bound(s) PROVE Bounds' = Bounds
    BY <1>3, Mapping, MappingNext
  <1>4. ASSUME Secure(s)' = Secure(s) PROVE Firms' = Firms
    BY <1>4, Mapping, MappingNext
  <1>5. Limits' = [Limits EXCEPT ![s] = Limit(s)']
    BY Mapping, MappingNext
  <1>6. Bounds' = [Bounds EXCEPT ![s] = Bound(s)']
    BY Mapping, MappingNext
  <1>7. Firms' = [Firms EXCEPT ![s] = Secure(s)']
    BY Mapping, MappingNext
  <1>8. CASE /\ Limit(s)' = Limit(s) /\ Secure(s)' = Secure(s)
             /\ Bound(s)' = Bound(s) + n /\ Bound(s)' <= Limit(s)
    <2>1. n \in 1..(Limits[s] - Bounds[s])
      BY <1>1, <1>8
    <2>2. Bounds' = [Bounds EXCEPT ![s] = Bounds[s] + n]
      BY <1>1, <1>6, <1>8
    <2>3. Escrow!Bind(s)
      BY <1>2, <1>4, <1>8, <2>1, <2>2 DEF Escrow!Bind
    <2> QED
      BY <2>3 DEF Escrow!Next
  <1>9. CASE /\ Limit(s)' = Limit(s) /\ Secure(s)' = Secure(s)
             /\ Bound(s) = Bound(s)' + n /\ Bound(s)' \in Nat /\ Secure(s)' <= Bound(s)'
    <2>1. n \in 1..(Bounds[s] - Firms[s])
      BY <1>1, <1>9
    <2>2. Bounds' = [Bounds EXCEPT ![s] = Bounds[s] - n]
      <3>1. Bound(s)' = Bounds[s] - n
        BY <1>1, <1>9
      <3> QED
        BY <1>6, <3>1
    <2>3. Escrow!Release(s)
      BY <1>2, <1>4, <1>9, <2>1, <2>2 DEF Escrow!Release
    <2> QED
      BY <2>3 DEF Escrow!Next
  <1>10. CASE /\ Limit(s)' = Limit(s) /\ Bound(s)' = Bound(s)
              /\ Secure(s)' = Secure(s) + n /\ Secure(s)' <= Bound(s)'
    <2>1. n \in 1..(Bounds[s] - Firms[s])
      BY <1>1, <1>10
    <2>2. Firms' = [Firms EXCEPT ![s] = Firms[s] + n]
      BY <1>1, <1>7, <1>10
    <2>3. Escrow!Authorize(s)
      BY <1>2, <1>3, <1>10, <2>1, <2>2 DEF Escrow!Authorize
    <2> QED
      BY <2>3 DEF Escrow!Next
  <1>11. CASE /\ Bound(s)' = Bound(s) /\ Secure(s)' = Secure(s)
              /\ Limit(s) = 0 /\ Limit(s)' = n /\ n \in Amounts
    <2>1. Limits[s] = 0 /\ Limits' = [Limits EXCEPT ![s] = n]
      BY <1>1, <1>5, <1>11
    <2>2. Escrow!Open(s)
      BY <1>3, <1>4, <1>11, <2>1 DEF Escrow!Open
    <2> QED
      BY <2>2 DEF Escrow!Next
  <1>12. CASE Limit(s)' = Limit(s) /\ Bound(s)' = Bound(s) /\ Secure(s)' = Secure(s)
    BY <1>2, <1>3, <1>4, <1>12 DEF Escrow!vars
  <1> QED
    BY <1>8, <1>9, <1>10, <1>11, <1>12

\* A payment binds, is authorized or releases, or nothing of the escrow changes.
LEMMA WriteIsEscrowStep ==
  ASSUME LedgerInv, LedgerInv', NEW p \in Payments, NEW s \in Proposals,
         \A q \in Payments \ {p} : payment'[q] = payment[q], proposal' = proposal,
         payment'[p].settlement = s,
         \/ payment[p].status = "absent"
         \/ payment[p].settlement = s /\ payment'[p].amount = payment[p].amount,
         payment[p].status \in Firm => payment'[p].status \in Firm,
         payment'[p].status \in Firm => payment[p].status \in ActivePayment,
         proposal[s].status = "ACCEPTED"
  PROVE  [Escrow!Next]_Escrow!vars
  <1> DEFINE n == payment'[p].amount
  <1>1. TypeOK /\ TypeOK'
    BY DEF LedgerInv
  <1>2. n \in Nat \ {0}
    BY <1>1, LedgerAssumption DEF TypeOK, PaymentRow, Amounts
  <1>3. /\ \A t \in Proposals : Limit(t)' = Limit(t)
        /\ Limit(s) \in Nat
    BY <1>1, AmountsFinite DEF Limit, TypeOK, ProposalRow
  <1>4. Bound(s)' <= Limit(s)
    <2>1. Cardinality(Units(s))' <= proposal'[s].amount
      BY DEF LedgerInv, CapRespected
    <2>2. Cardinality(Units(s))' = Bound(s)'
      BY DEF Units, Bound, UnitsIn
    <2> QED
      BY <2>1, <2>2 DEF Limit
  <1> DEFINE b == Cardinality(OthersIn(payment, s, p, ActivePayment))
             f == Cardinality(OthersIn(payment, s, p, Firm))
  <1>5. /\ \A t \in Proposals \ {s} : Bound(t)' = Bound(t) /\ Secure(t)' = Secure(t)
        /\ Bound(s) \in Nat /\ Bound(s)' \in Nat /\ Secure(s) \in Nat /\ Secure(s)' \in Nat
        /\ Secure(s) <= Bound(s) /\ Secure(s)' <= Bound(s)'
        /\ Bound(s)' = b + Share(payment'[p], s, ActivePayment)
        /\ Bound(s) = b + Share(payment[p], s, ActivePayment)
        /\ Secure(s)' = f + Share(payment'[p], s, Firm)
        /\ Secure(s) = f + Share(payment[p], s, Firm)
        /\ b \in Nat /\ f \in Nat
    BY <1>1, TotalsWritten
  <1> HIDE DEF b, f
  <1>6. /\ Share(payment'[p], s, ActivePayment) =
             (IF payment'[p].status \in ActivePayment THEN n ELSE 0)
        /\ Share(payment'[p], s, Firm) = IF payment'[p].status \in Firm THEN n ELSE 0
        /\ Share(payment[p], s, ActivePayment) =
             (IF payment[p].status \in ActivePayment THEN n ELSE 0)
        /\ Share(payment[p], s, Firm) = IF payment[p].status \in Firm THEN n ELSE 0
    BY DEF Share, ActivePayment, Firm
  <1>7. Firm \subseteq ActivePayment
    BY DEF Firm, ActivePayment
  <1> DEFINE was == payment[p].status
             is == payment'[p].status
  <1> HIDE DEF n
  <1>8. CASE was \notin ActivePayment /\ is \in ActivePayment
    <2>1. is \notin Firm /\ was \notin Firm
      BY <1>7, <1>8
    <2>2. Bound(s)' = Bound(s) + n /\ Secure(s)' = Secure(s)
      BY <1>2, <1>5, <1>6, <1>8, <2>1
    <2> QED
      BY <1>2, <1>3, <1>4, <1>5, <2>2, EscrowStep
  <1>9. CASE was \in ActivePayment /\ is \notin ActivePayment
    <2>1. is \notin Firm /\ was \notin Firm
      BY <1>7, <1>9
    <2>2. Bound(s) = Bound(s)' + n /\ Secure(s)' = Secure(s)
      BY <1>2, <1>5, <1>6, <1>9, <2>1
    <2> QED
      BY <1>2, <1>3, <1>5, <2>2, EscrowStep
  <1>10. CASE was \in ActivePayment /\ is \in Firm /\ was \notin Firm
    <2>1. is \in ActivePayment
      BY <1>7, <1>10
    <2>2. Bound(s)' = Bound(s) /\ Secure(s)' = Secure(s) + n
      BY <1>2, <1>5, <1>6, <1>10, <2>1
    <2> QED
      BY <1>2, <1>3, <1>5, <2>2, EscrowStep
  <1>11. CASE /\ was \in ActivePayment <=> is \in ActivePayment
              /\ was \in Firm <=> is \in Firm
    <2>1. Bound(s)' = Bound(s) /\ Secure(s)' = Secure(s)
      BY <1>5, <1>6, <1>11
    <2> QED
      BY <1>2, <1>3, <1>5, <2>1, EscrowStep
  <1> QED
    BY <1>7, <1>8, <1>9, <1>10, <1>11

\* A step that leaves the payments alone and accepts at most one proposal.
LEMMA ProposalIsEscrowStep ==
  ASSUME TypeOK, TypeOK', payment' = payment, NEW s \in Proposals,
         proposal[s].status # "ACCEPTED",
         \A t \in Proposals \ {s} : proposal'[t] = proposal[t]
  PROVE  [Escrow!Next]_Escrow!vars
  <1>1. \A t \in Proposals : Bound(t)' = Bound(t) /\ Secure(t)' = Secure(t)
    BY DEF Bound, Secure
  <1>2. \A t \in Proposals \ {s} : Limit(t)' = Limit(t)
    BY DEF Limit
  <1>3. Bound(s) \in Nat /\ Secure(s) \in Nat
    BY FirmIsBound DEF Bound, Secure
  <1>4. Limit(s) = 0 /\ 1 \in Nat \ {0}
    BY DEF Limit
  <1>5. CASE proposal'[s].status = "ACCEPTED"
    <2> DEFINE n == proposal'[s].amount
    <2>1. n \in Amounts /\ n \in Nat \ {0} /\ Limit(s)' = n
      BY <1>5, LedgerAssumption DEF TypeOK, ProposalRow, Amounts, Limit
    <2> HIDE DEF n
    <2> QED
      BY <1>1, <1>2, <1>3, <1>4, <2>1, EscrowStep
  <1>6. CASE proposal'[s].status # "ACCEPTED"
    <2>1. Limit(s)' = 0
      BY <1>6 DEF Limit
    <2> QED
      BY <1>1, <1>2, <1>3, <1>4, <2>1, EscrowStep
  <1> QED
    BY <1>5, <1>6

LEMMA EscrowNext ==
  ASSUME ~Overlap, LedgerInv, LedgerInv', [Next]_vars
  PROVE  [Escrow!Next]_Escrow!vars
  <1>1. TypeOK /\ TypeOK'
    BY DEF LedgerInv
  <1>2. CASE proposal' = proposal /\ payment' = payment
    <2>1. \A t : Limit(t)' = Limit(t) /\ Bound(t)' = Bound(t) /\ Secure(t)' = Secure(t)
      BY <1>2 DEF Limit, Bound, Secure
    <2> QED
      BY <2>1, Mapping, MappingNext DEF Escrow!vars
  <1>3. CASE OpenProposal
    <2>1. PICK s \in Proposals, u \in Users, a \in Amounts : CreateProposal(s, u, a)
      BY <1>3 DEF OpenProposal
    <2>2. /\ payment' = payment /\ proposal[s].status # "ACCEPTED"
          /\ \A t \in Proposals \ {s} : proposal'[t] = proposal[t]
      BY <1>1, <2>1 DEF CreateProposal, TypeOK
    <2> QED
      BY <1>1, <2>2, ProposalIsEscrowStep
  <1>4. ASSUME NEW r \in Requests, NEW new, ProposalCommit(r, new)
        PROVE  [Escrow!Next]_Escrow!vars
    <2> DEFINE s == edit[r].item
    <2>1. s \in Proposals /\ edit[r].seen = proposal[s]
      BY <1>4 DEF ProposalCommit, LedgerInv, EditsAreCurrent, TypeOK
    <2>2. /\ payment' = payment /\ proposal[s].status # "ACCEPTED"
          /\ \A t \in Proposals \ {s} : proposal'[t] = proposal[t]
      BY <1>1, <1>4, <2>1 DEF ProposalCommit, Commit, TypeOK
    <2> QED
      BY <1>1, <2>1, <2>2, ProposalIsEscrowStep
  <1>5. CASE OpenPayment
    <2>1. PICK p \in Payments, s \in Proposals, u \in Users, a \in Amounts :
            CreatePayment(p, s, u, a)
      BY <1>5 DEF OpenPayment
    <2>2. /\ \A q \in Payments \ {p} : payment'[q] = payment[q]
          /\ proposal' = proposal /\ payment'[p].settlement = s
          /\ payment[p].status = "absent" /\ payment'[p].status = "DRAFT"
          /\ proposal[s].status = "ACCEPTED"
      BY <1>1, <2>1 DEF CreatePayment, SetPayment, NoPayment, TypeOK, PaymentRow
    <2>3. payment[p].status \notin Firm /\ payment'[p].status \notin Firm
      BY <2>2 DEF Firm
    <2> QED
      BY <2>2, <2>3, WriteIsEscrowStep
  <1>6. ASSUME NEW r \in Requests, NEW row, PaymentWrite(r, row)
        PROVE  [Escrow!Next]_Escrow!vars
    <2> DEFINE p == move[r].item
               s == payment[p].settlement
    <2>1. p \in Payments
      BY <1>1, <1>6 DEF PaymentWrite, TypeOK
    <2>2. s \in Proposals /\ proposal[s].status = "ACCEPTED"
      BY <1>6, <2>1 DEF LedgerInv, PaymentsHaveSettlements, PaymentWrite, LockedRow
    <2>3. /\ \A q \in Payments \ {p} : payment'[q] = payment[q]
          /\ proposal' = proposal /\ payment'[p] = row
          /\ row.settlement = s /\ row.amount = payment[p].amount
      BY <1>1, <1>6, <2>1 DEF PaymentWrite, Transition, SetPayment, TypeOK, LockedRow
    <2>4. /\ payment[p].status \in Firm => row.status \in Firm
          /\ row.status \in Firm => payment[p].status \in ActivePayment
      BY <1>6 DEF PaymentWrite, LockedRow, Firm, ActivePayment
    <2> QED
      BY <2>1, <2>2, <2>3, <2>4, WriteIsEscrowStep
  <1> QED
    BY <1>1, <1>2, <1>3, <1>4, <1>5, <1>6, StepKinds
       DEF ReadProposal, AbandonEdit, ReadPayment, AbandonMove, vars

\* The ledger is the escrow of PaymentEscrow: a settlement is opened once, its
\* payments never bind more than its limit, and what is authorized stays bound.
THEOREM EscrowIsKept == ~Overlap => (Spec => EscrowSpec)
  <1> SUFFICES ASSUME ~Overlap PROVE Spec => EscrowSpec
    OBVIOUS
  <1>1. Init => Escrow!Init
    BY EscrowInit
  <1>2. LedgerInv /\ LedgerInv' /\ [Next]_vars => [Escrow!Next]_Escrow!vars
    BY EscrowNext
  <1>3. Spec => []LedgerInv
    BY LedgerInit, LedgerNext, PTL DEF Spec
  <1> QED
    BY <1>1, <1>2, <1>3, PTL DEF Spec, EscrowSpec, Escrow!Spec

=============================================================================
