-------------------------- MODULE ReadRouteProofs ---------------------------
(***************************************************************************)
(* The recovery read route has one owner at a time, a durable owner fits   *)
(* its version and rests on three Admins, and the route keeps to the       *)
(* ladder of ReadLadder, for any Admins, cutovers, pairs and downloads.    *)
(*                                                                         *)
(* Three layers, each on the one before: the rows (RouteInv, with the      *)
(* types); the chain of approvals (ChainInv), over steps that carry what   *)
(* their handler has verified (ChainStep); the receipts of the switches    *)
(* (HistoryInv), which are the past that the ladder speaks of.             *)
(***************************************************************************)
EXTENDS ReadRoute, FiniteSetTheorems, SequenceTheorems, TLAPS

USE DEF Cutover, Promotion, Renewal

Statuses == {"none", "prepared", "activated", "rolled_back", "expired", "invalidated"}

\* The leases and the route are well formed: the part of TypeOK that the
\* authority of the route rests on.
RowsOK ==
  /\ route \in [owner : Leases \cup {Local}, version : Nat]
  /\ lease \in [Leases -> [status : Statuses, prep : Admins \cup {Nobody},
                           act : Admins \cup {Nobody}, version : Nat]]

\* A step of one of the kinds that the handlers are made of.
Prepares == \E l \in Leases, a \in Admins, v \in Nat :
              /\ Prepare(l, a, v)
              /\ \/ UNCHANGED route
                 \/ /\ route.owner = Local
                    /\ route' = [route EXCEPT !.version = 1]

Switches == \E l \in Leases, a \in Admins :
              /\ route.owner = Local
              /\ l[1] # "temporary_cutover" => lease[l].version = route.version
              /\ SwitchTo(l, a)

GivesUp == \E l \in Leases, s \in {"expired", "invalidated"} :
             lease[l].status = "prepared" /\ GiveUp(l, s)

Restores == \E l \in Leases, s \in {"rolled_back", "expired"} : Restore(l, s)

RouteStep == Prepares \/ Switches \/ GivesUp \/ Restores \/ UNCHANGED <<route, lease>>

RouteInv == RowsOK /\ OneAuthority /\ ActiveLeaseFits

\* The leases of the three kinds.
LEMMA LeasesOfKinds ==
  /\ \A c \in Cutovers : Cutover(c) \in Leases /\ Cutover(c)[1] = "temporary_cutover"
  /\ \A p \in Pairs : /\ Promotion(p) \in Leases
                      /\ Renewal(p) \in Leases
BY DEF Leases

\* A chain of checks that ends well passed each of them.
LEMMA AllChecksPass ==
  ASSUME NEW x, NEW y
  PROVE  AndThen(x, y) = "ok" => x = "ok" /\ y = "ok"
BY DEF AndThen

LEMMA RequiredHolds ==
  ASSUME NEW h \in BOOLEAN
  PROVE  Require(h) = "ok" => h
BY DEF Require

\* A renewal is switched on from the local source only, because the health of
\* its promotion's window is verified again.
LEMMA RenewalNeedsCleanRoute ==
  ASSUME NEW p \in Pairs, RenewalLeasePreflight(p) = "ok"
  PROVE  Clean
<1>1. RenewalPreflight(p) = "ok"
  BY AllChecksPass DEF RenewalLeasePreflight
<1>2. HealthPreflight(p) = "ok"
  BY <1>1, AllChecksPass DEF RenewalPreflight
<1>3. QED
  BY <1>2, AllChecksPass DEF HealthPreflight, Require, Clean

\* The kinds of steps preserve that there is one owner, and that it fits.
LEMMA RouteStepKeepsInv == RouteInv /\ RouteStep => RouteInv'
<1> SUFFICES ASSUME RouteInv, RouteStep PROVE RouteInv'
  OBVIOUS
<1> USE LocalAssumption DEF RouteInv, RowsOK, OneAuthority, ActiveLeaseFits, Statuses
<1>1. CASE Prepares
  <2>1. PICK l \in Leases, a \in Admins, v \in Nat :
          /\ Prepare(l, a, v)
          /\ \/ UNCHANGED route
             \/ route.owner = Local /\ route' = [route EXCEPT !.version = 1]
    BY <1>1 DEF Prepares
  <2>2. lease[l].status = "none" /\ lease' = [lease EXCEPT ![l] =
          [status |-> "prepared", prep |-> a, act |-> Nobody, version |-> v]]
    BY <2>1 DEF Prepare
  <2>3. RowsOK' /\ route'.owner = route.owner
    BY <2>1, <2>2
  <2>4. l # route.owner
    BY <2>2
  <2>5. OneAuthority'
    BY <2>2, <2>3
  <2>6. ActiveLeaseFits'
    BY <2>1, <2>2, <2>3, <2>4
  <2> QED BY <2>3, <2>5, <2>6
<1>2. CASE Switches
  <2>1. PICK l \in Leases, a \in Admins :
          /\ route.owner = Local
          /\ l[1] # "temporary_cutover" => lease[l].version = route.version
          /\ SwitchTo(l, a)
    BY <1>2 DEF Switches
  <2>2. /\ lease' = [lease EXCEPT ![l].status = "activated", ![l].act = a]
        /\ route' = [owner |-> l, version |-> route.version + 1]
    BY <2>1 DEF SwitchTo
  <2>3. RowsOK'
    <3>1. route' \in [owner : Leases \cup {Local}, version : Nat]
      BY <2>2
    <3>2. [lease[l] EXCEPT !.status = "activated", !.act = a]
            \in [status : Statuses, prep : Admins \cup {Nobody},
                 act : Admins \cup {Nobody}, version : Nat]
      OBVIOUS
    <3>3. lease' = [lease EXCEPT ![l] = [lease[l] EXCEPT !.status = "activated", !.act = a]]
      BY <2>2
    <3> QED BY <3>1, <3>2, <3>3
  <2>4. OneAuthority'
    BY <2>1, <2>2
  <2>5. ActiveLeaseFits'
    BY <2>1, <2>2
  <2> QED BY <2>3, <2>4, <2>5
<1>3. CASE GivesUp
  <2>1. PICK l \in Leases, s \in {"expired", "invalidated"} :
          lease[l].status = "prepared" /\ GiveUp(l, s)
    BY <1>3 DEF GivesUp
  <2>2. lease' = [lease EXCEPT ![l].status = s] /\ route' = route
    BY <2>1 DEF GiveUp, SetStatus
  <2> QED BY <2>1, <2>2
<1>4. CASE Restores
  <2>1. PICK l \in Leases, s \in {"rolled_back", "expired"} : Restore(l, s)
    BY <1>4 DEF Restores
  <2>2. /\ route.owner = l
        /\ lease' = [lease EXCEPT ![l].status = s]
        /\ route' = [owner |-> Local, version |-> route.version + 1]
    BY <2>1 DEF Restore, SetStatus
  <2> QED BY <2>1, <2>2
<1>5. CASE UNCHANGED <<route, lease>>
  BY <1>5
<1> QED BY <1>1, <1>2, <1>3, <1>4, <1>5 DEF RouteStep

\* Every step of the handlers is of one of the kinds.
LEMMA StepsAreRouteSteps == RouteInv /\ [Next]_vars => RouteStep
<1> SUFFICES ASSUME RouteInv, [Next]_vars PROVE RouteStep
  OBVIOUS
<1> USE LeasesOfKinds
<1>1. ASSUME NEW a \in Admins, CutoverStep(a) PROVE RouteStep
  <2>1. PICK c \in Cutovers : PrepareCutover(c, a) \/ ActivateCutover(c, a) \/ RollbackCutover(c)
    BY <1>1 DEF CutoverStep
  <2>2. CASE PrepareCutover(c, a)
    <3>1. Prepare(Cutover(c), a, 0) /\ route.owner = Local
          /\ route' = IF route.version = 0 THEN [route EXCEPT !.version = 1] ELSE route
      BY <2>2 DEF PrepareCutover
    <3> QED BY <3>1 DEF RouteStep, Prepares
  <2>3. CASE ActivateCutover(c, a)
    <3>1. CASE GiveUp(Cutover(c), "expired") \/ GiveUp(Cutover(c), "invalidated")
      BY <2>3, <3>1 DEF ActivateCutover, RouteStep, GivesUp
    <3>2. CASE SwitchTo(Cutover(c), a)
      BY <2>3, <3>2 DEF ActivateCutover, RouteStep, Switches
    <3> QED BY <2>3, <3>1, <3>2 DEF ActivateCutover
  <2>4. CASE RollbackCutover(c)
    BY <2>4 DEF RollbackCutover, RouteStep, Restores
  <2> QED BY <2>1, <2>2, <2>3, <2>4
<1>2. ASSUME NEW a \in Admins, NEW p \in Pairs, QualificationStep(p, a) PROVE RouteStep
  BY <1>2 DEF QualificationStep, RequestQualification, Qualify, RejectQualification,
              Ask, Settle, Reject, RouteStep
<1>3. ASSUME NEW a \in Admins, NEW p \in Pairs, PromotionStep(p, a) PROVE RouteStep
  <2>1. CASE RequestPromotion(p, a) \/ ApprovePromotion(p, a) \/ RejectPromotion(p)
    BY <2>1 DEF RequestPromotion, ApprovePromotion, RejectPromotion, Ask, Settle, Reject, RouteStep
  <2>2. CASE PreparePromotion(p, a)
    <3>1. Prepare(Promotion(p), a, route.version) /\ UNCHANGED route /\ route.version \in Nat
      BY <2>2 DEF PreparePromotion, RouteInv, RowsOK
    <3> QED BY <3>1 DEF RouteStep, Prepares
  <2>3. CASE ActivatePromotion(p, a)
    <3>1. CASE GiveUp(Promotion(p), "expired") \/ GiveUp(Promotion(p), "invalidated")
      BY <2>3, <3>1 DEF ActivatePromotion, RouteStep, GivesUp
    <3>2. CASE /\ AndThen(PromotionLeasePreflight(p),
                          Require(lease[Promotion(p)].version = route.version)) = "ok"
               /\ SwitchTo(Promotion(p), a)
      <4>1. Require(lease[Promotion(p)].version = route.version) = "ok"
        BY <3>2, AllChecksPass
      <4>2. lease[Promotion(p)].version = route.version
        BY <4>1 DEF Require
      <4>3. route.owner = Local
        BY <2>3 DEF ActivatePromotion, Clean
      <4> QED BY <3>2, <4>2, <4>3 DEF RouteStep, Switches
    <3> QED BY <2>3, <3>1, <3>2 DEF ActivatePromotion
  <2>4. CASE RollbackPromotion(p) \/ ReconcilePromotion(p)
    BY <2>4 DEF RollbackPromotion, ReconcilePromotion, RouteStep, Restores
  <2> QED BY <1>3, <2>1, <2>2, <2>3, <2>4 DEF PromotionStep
<1>4. ASSUME NEW a \in Admins, NEW p \in Pairs, HealthStep(p, a) PROVE RouteStep
  BY <1>4 DEF HealthStep, RequestHealth, QualifyHealth, RejectHealth, Ask, Settle, Reject, RouteStep
<1>5. ASSUME NEW a \in Admins, NEW p \in Pairs, RenewalStep(p, a) PROVE RouteStep
  <2>1. CASE RequestRenewal(p, a) \/ ApproveRenewal(p, a) \/ RejectRenewal(p)
    BY <2>1 DEF RequestRenewal, ApproveRenewal, RejectRenewal, Ask, Settle, Reject, RouteStep
  <2>2. CASE PrepareRenewal(p, a)
    <3>1. Prepare(Renewal(p), a, route.version) /\ UNCHANGED route /\ route.version \in Nat
      BY <2>2 DEF PrepareRenewal, RouteInv, RowsOK
    <3> QED BY <3>1 DEF RouteStep, Prepares
  <2>3. CASE ActivateRenewal(p, a)
    <3>1. CASE GiveUp(Renewal(p), "expired") \/ GiveUp(Renewal(p), "invalidated")
      BY <2>3, <3>1 DEF ActivateRenewal, RouteStep, GivesUp
    <3>2. CASE /\ AndThen(RenewalLeasePreflight(p),
                          Require(lease[Renewal(p)].version = route.version)) = "ok"
               /\ SwitchTo(Renewal(p), a)
      <4>1. /\ RenewalLeasePreflight(p) = "ok"
            /\ Require(lease[Renewal(p)].version = route.version) = "ok"
        BY <3>2, AllChecksPass
      <4>2. lease[Renewal(p)].version = route.version
        BY <4>1 DEF Require
      <4>3. route.owner = Local
        BY <4>1, RenewalNeedsCleanRoute DEF Clean
      <4> QED BY <3>2, <4>2, <4>3 DEF RouteStep, Switches
    <3> QED BY <2>3, <3>1, <3>2 DEF ActivateRenewal
  <2>4. CASE RollbackRenewal(p) \/ ReconcileRenewal(p)
    BY <2>4 DEF RollbackRenewal, ReconcileRenewal, RouteStep, Restores
  <2> QED BY <1>5, <2>1, <2>2, <2>3, <2>4 DEF RenewalStep
<1>6. ASSUME NEW r \in Readers, Download(r) PROVE RouteStep
  BY <1>6 DEF Download, Begin, ReadRouteRow, ReadLease, ReadReplica, LogRead, RouteStep
<1>7. CASE (\E w \in Leases \cup (Decisions \X Pairs) : Lapse(w))
             \/ (\E to \in {"altered", "down"} : Fault(to)) \/ Repair \/ UNCHANGED vars
  BY <1>7 DEF Lapse, Fault, Repair, vars, RouteStep
<1> QED BY <1>1, <1>2, <1>3, <1>4, <1>5, <1>6, <1>7 DEF Next

LEMMA InitRouteInv == Init => RouteInv
BY LocalAssumption DEF Init, RouteInv, RowsOK, OneAuthority, ActiveLeaseFits, NoLease, Statuses

LEMMA RouteInvInvariant == Spec => []RouteInv
<1>1. RouteInv /\ [Next]_vars => RouteInv'
  BY RouteStepKeepsInv, StepsAreRouteSteps
<1> QED BY InitRouteInv, <1>1, PTL DEF Spec

\* The lease that the route names is in force and no other is, whatever the
\* requests, their order and the storage do (the lease tables and the route row).
THEOREM OneAuthorityAlways == Spec => []OneAuthority
BY RouteInvInvariant, PTL DEF RouteInv

\* A durable owner of the route fits the version it was prepared for, so that no
\* download finds it inconsistent (_validate_active_durable_read).
THEOREM ActiveLeaseFitsAlways == Spec => []ActiveLeaseFits
BY RouteInvInvariant, PTL DEF RouteInv
-----------------------------------------------------------------------------
(* Downloads: one that goes on to the replica holds the owner of the route. *)

ReadRow == [pc : {"idle", "begun", "routed", "leased", "answered", "logged"},
            began : Nat, owner : Leases \cup {Local}, outcome : Outcomes, counts : BOOLEAN]

\* A download past the route read, and not yet answered, has a lease.
ReadsOK ==
  /\ read \in [Readers -> ReadRow]
  /\ replica \in {"intact", "altered", "down"}
  /\ moves \in Seq([lease : Leases, phase : {"activated", "rolled_back", "expired"}])
  /\ \A r \in Readers : read[r].pc \in {"routed", "leased"} => read[r].owner # Local

\* A switch appends a receipt of its lease.
LEMMA MovesStayReceipts ==
  ASSUME ReadsOK, RouteStep, [Next]_vars
  PROVE  moves' = moves \/ \E l \in Leases, phase \in {"activated", "rolled_back", "expired"} :
                              Moved(l, phase)
<1> USE LeasesOfKinds
<1>1. ASSUME NEW a \in Admins, NEW c \in Cutovers,
             PrepareCutover(c, a) \/ ActivateCutover(c, a) \/ RollbackCutover(c)
      PROVE  moves' = moves \/ \E l \in Leases, phase \in {"activated", "rolled_back", "expired"} :
                                  Moved(l, phase)
  BY <1>1 DEF PrepareCutover, ActivateCutover, RollbackCutover, Prepare, GiveUp, SwitchTo, Restore
<1>2. ASSUME NEW a \in Admins, NEW p \in Pairs,
             \/ PreparePromotion(p, a) \/ ActivatePromotion(p, a)
             \/ RollbackPromotion(p) \/ ReconcilePromotion(p)
             \/ PrepareRenewal(p, a) \/ ActivateRenewal(p, a)
             \/ RollbackRenewal(p) \/ ReconcileRenewal(p)
      PROVE  moves' = moves \/ \E l \in Leases, phase \in {"activated", "rolled_back", "expired"} :
                                  Moved(l, phase)
  <2>1. CASE PreparePromotion(p, a) \/ PrepareRenewal(p, a)
    BY <2>1 DEF PreparePromotion, PrepareRenewal, Prepare
  <2>2. CASE ActivatePromotion(p, a)
    BY <2>2 DEF ActivatePromotion, GiveUp, SwitchTo
  <2>3. CASE ActivateRenewal(p, a)
    BY <2>3 DEF ActivateRenewal, GiveUp, SwitchTo
  <2>4. CASE RollbackPromotion(p) \/ ReconcilePromotion(p)
    BY <2>4 DEF RollbackPromotion, ReconcilePromotion, Restore
  <2>5. CASE RollbackRenewal(p) \/ ReconcileRenewal(p)
    BY <2>5 DEF RollbackRenewal, ReconcileRenewal, Restore
  <2> QED BY <1>2, <2>1, <2>2, <2>3, <2>4, <2>5
<1>3. ASSUME NEW a \in Admins, NEW p \in Pairs,
             \/ QualificationStep(p, a) \/ HealthStep(p, a)
             \/ RequestPromotion(p, a) \/ ApprovePromotion(p, a) \/ RejectPromotion(p)
             \/ RequestRenewal(p, a) \/ ApproveRenewal(p, a) \/ RejectRenewal(p)
      PROVE  moves' = moves
  BY <1>3 DEF QualificationStep, RequestQualification, Qualify, RejectQualification,
              HealthStep, RequestHealth, QualifyHealth, RejectHealth,
              RequestPromotion, ApprovePromotion, RejectPromotion,
              RequestRenewal, ApproveRenewal, RejectRenewal, Ask, Settle, Reject
<1>4. ASSUME NEW r \in Readers, Download(r) PROVE moves' = moves
  BY <1>4 DEF Download, Begin, ReadRouteRow, ReadLease, ReadReplica, LogRead
<1>5. CASE (\E w \in Leases \cup (Decisions \X Pairs) : Lapse(w))
             \/ (\E to \in {"altered", "down"} : Fault(to)) \/ Repair \/ UNCHANGED vars
  BY <1>5 DEF Lapse, Fault, Repair, vars
<1> QED BY <1>1, <1>2, <1>3, <1>4, <1>5 DEF Next, CutoverStep, PromotionStep, RenewalStep

\* The requests of Admins, time and storage leave the downloads alone, and
\* only the storage itself changes the replica.
LEMMA OnlyDownloadsRead ==
  ASSUME [Next]_vars
  PROVE  /\ read' = read \/ \E r \in Readers : Download(r)
         /\ replica' = replica \/ replica' \in {"intact", "altered", "down"}
<1>1. ASSUME NEW a \in Admins, CutoverStep(a) PROVE read' = read /\ replica' = replica
  BY <1>1 DEF CutoverStep, PrepareCutover, ActivateCutover, RollbackCutover, Prepare, Restore
<1>2. ASSUME NEW a \in Admins, NEW p \in Pairs, QualificationStep(p, a) \/ HealthStep(p, a)
      PROVE  read' = read /\ replica' = replica
  BY <1>2 DEF QualificationStep, RequestQualification, Qualify, RejectQualification,
              HealthStep, RequestHealth, QualifyHealth, RejectHealth, Ask, Settle, Reject
<1>3. ASSUME NEW a \in Admins, NEW p \in Pairs, PromotionStep(p, a)
      PROVE  read' = read /\ replica' = replica
  BY <1>3 DEF PromotionStep, RequestPromotion, ApprovePromotion, RejectPromotion,
              PreparePromotion, ActivatePromotion, RollbackPromotion, ReconcilePromotion,
              Prepare, Restore, Ask, Settle, Reject
<1>4. ASSUME NEW a \in Admins, NEW p \in Pairs, RenewalStep(p, a)
      PROVE  read' = read /\ replica' = replica
  BY <1>4 DEF RenewalStep, RequestRenewal, ApproveRenewal, RejectRenewal,
              PrepareRenewal, ActivateRenewal, RollbackRenewal, ReconcileRenewal,
              Prepare, Restore, Ask, Settle, Reject
<1>5. CASE (\E w \in Leases \cup (Decisions \X Pairs) : Lapse(w))
             \/ (\E to \in {"altered", "down"} : Fault(to)) \/ Repair \/ UNCHANGED vars
  BY <1>5 DEF Lapse, Fault, Repair, vars
<1>6. ASSUME NEW r \in Readers, Download(r) PROVE replica' = replica
  BY <1>6 DEF Download, Begin, ReadRouteRow, ReadLease, ReadReplica, LogRead
<1> QED BY <1>1, <1>2, <1>3, <1>4, <1>5, <1>6 DEF Next

LEMMA ReadsStayOK == RouteInv /\ ReadsOK /\ [Next]_vars => ReadsOK'
<1> SUFFICES ASSUME RouteInv, ReadsOK, [Next]_vars PROVE ReadsOK'
  OBVIOUS
<1> USE LocalAssumption
<1>1. (moves \in Seq([lease : Leases, phase : {"activated", "rolled_back", "expired"}]))'
  <2>1. RouteStep
    BY StepsAreRouteSteps
  <2>2. CASE moves' = moves
    BY <2>2 DEF ReadsOK
  <2>3. ASSUME NEW l \in Leases, NEW phase \in {"activated", "rolled_back", "expired"},
               Moved(l, phase)
        PROVE  (moves \in Seq([lease : Leases, phase : {"activated", "rolled_back", "expired"}]))'
    BY <2>3 DEF Moved, ReadsOK
  <2> QED BY <2>1, <2>2, <2>3, MovesStayReceipts
<1>0. replica' \in {"intact", "altered", "down"}
  BY OnlyDownloadsRead DEF ReadsOK
<1>2. CASE read' = read
  BY <1>0, <1>1, <1>2 DEF ReadsOK
<1>3. ASSUME NEW r \in Readers, Download(r) PROVE ReadsOK'
  <2>1. read[r] \in ReadRow
    BY DEF ReadsOK
  <2>2. ASSUME NEW row \in ReadRow, read' = [read EXCEPT ![r] = row],
               row.pc \in {"routed", "leased"} => row.owner # Local
        PROVE  ReadsOK'
    BY <1>0, <1>1, <2>2 DEF ReadsOK
  <2>3. CASE Begin(r)
    <3> DEFINE row == [read[r] EXCEPT !.pc = "begun", !.began = Len(moves)]
    <3>0. Len(moves) \in Nat
      BY DEF ReadsOK
    <3>1. row \in ReadRow /\ row.pc = "begun"
      BY <2>1, <3>0 DEF ReadRow
    <3>2. read' = [read EXCEPT ![r] = row]
      BY <2>3 DEF Begin
    <3> HIDE DEF row
    <3> QED BY <2>2, <3>1, <3>2
  <2>4. CASE ReadRouteRow(r)
    <3> DEFINE row == [read[r] EXCEPT !.owner = route.owner,
                         !.pc = IF route.owner = Local THEN "answered" ELSE "routed",
                         !.outcome = IF route.owner = Local THEN "local" ELSE "none"]
    <3>1. row \in ReadRow /\ (row.pc \in {"routed", "leased"} => row.owner # Local)
      BY <2>1 DEF ReadRow, RouteInv, RowsOK, Outcomes
    <3>2. read' = [read EXCEPT ![r] = row]
      BY <2>4 DEF ReadRouteRow
    <3> HIDE DEF row
    <3> QED BY <2>2, <3>1, <3>2
  <2>5. ASSUME NEW outcome \in Outcomes, Answer(r, outcome) PROVE ReadsOK'
    <3> DEFINE row == [read[r] EXCEPT !.pc = "answered", !.outcome = outcome]
    <3>1. row \in ReadRow /\ row.pc = "answered"
      BY <2>1 DEF ReadRow
    <3>2. read' = [read EXCEPT ![r] = row]
      BY <2>5 DEF Answer
    <3> HIDE DEF row
    <3> QED BY <2>2, <3>1, <3>2
  <2>6. CASE ReadLease(r)
    <3>1. CASE read' = [read EXCEPT ![r].pc = "leased"]
      <4> DEFINE row == [read[r] EXCEPT !.pc = "leased"]
      <4>1. row \in ReadRow /\ row.owner # Local
        BY <2>1, <2>6 DEF ReadRow, ReadLease, ReadsOK
      <4>2. read' = [read EXCEPT ![r] = row]
        BY <3>1
      <4> HIDE DEF row
      <4> QED BY <2>2, <4>1, <4>2
    <3>2. CASE Answer(r, "integrity_or_lineage") \/ Answer(r, "route_expired")
      BY <2>5, <3>2 DEF Outcomes
    <3> QED BY <2>6, <3>1, <3>2 DEF ReadLease
  <2>7. CASE ReadReplica(r)
    <3>1. \E outcome \in Outcomes : Answer(r, outcome)
      <4>1. CASE Candidate = "ok"
        BY <2>7, <4>1 DEF ReadReplica, Outcomes
      <4>2. CASE Candidate = "conflict"
        BY <2>7, <4>2 DEF ReadReplica, Outcomes
      <4>3. CASE Candidate = "unavailable"
        BY <2>7, <4>3 DEF ReadReplica, Outcomes
      <4> QED BY <4>1, <4>2, <4>3 DEF Candidate, ReadsOK
    <3> QED BY <3>1, <2>5
  <2>8. CASE LogRead(r)
    <3>1. PICK sameSecond \in BOOLEAN :
            read' = [read EXCEPT ![r].pc = "logged",
                       ![r].counts = /\ read[r].owner # Local
                                     /\ \/ read[r].began >= ActivatedAt(read[r].owner)
                                        \/ sameSecond]
      BY <2>8 DEF LogRead
    <3> DEFINE counts == /\ read[r].owner # Local
                         /\ \/ read[r].began >= ActivatedAt(read[r].owner)
                            \/ sameSecond
               row == [read[r] EXCEPT !.pc = "logged", !.counts = counts]
    <3>2. counts \in BOOLEAN
      OBVIOUS
    <3>3. read' = [read EXCEPT ![r] = row]
      BY <3>1
    <3> HIDE DEF counts
    <3>4. row \in ReadRow /\ row.pc = "logged"
      BY <2>1, <3>2 DEF ReadRow
    <3> HIDE DEF row
    <3> QED BY <2>2, <3>3, <3>4
  <2> QED BY <1>3, <2>3, <2>4, <2>6, <2>7, <2>8 DEF Download
<1> QED BY <1>2, <1>3, OnlyDownloadsRead

\* A download that passes the lease read holds the lease that owns the route.
LEMMA LeasedReadsAreLicensed ==
  ASSUME RouteInv, ReadsOK, [Next]_vars, NEW r \in Readers,
         read[r].pc = "routed", read'[r].pc = "leased"
  PROVE  route.owner = read[r].owner /\ route.owner \notin late
<1>1. read' # read
  OBVIOUS
<1>2. PICK q \in Readers : Download(q)
  BY <1>1, OnlyDownloadsRead
<1>3. q = r
  BY <1>2 DEF Download, Begin, ReadRouteRow, ReadLease, ReadReplica, LogRead, Answer, ReadsOK
<1>4. ReadLease(r)
  BY <1>2, <1>3 DEF Download, Begin, ReadRouteRow, ReadReplica, LogRead, Answer, ReadsOK, ReadRow
<1>5. lease[read[r].owner].status = "activated" /\ read[r].owner \notin late
  BY <1>4 DEF ReadLease, Answer, ReadsOK, ReadRow
<1>6. read[r].owner \in Leases
  BY DEF ReadsOK, ReadRow
<1> QED BY <1>5, <1>6 DEF RouteInv, OneAuthority

LEMMA InitReadsOK == Init => ReadsOK
BY DEF Init, ReadsOK, ReadRow, NoRead, Outcomes

\* No download serves the replica under a lease that has ended, although it reads
\* route and lease without a lock (resolve_recovery_document_read).
THEOREM ReplicaReadsAlwaysLicensed == Spec => ReplicaReadsAreLicensed
<1>1. RouteInv /\ ReadsOK /\ [Next]_vars => ReadsOK'
  BY ReadsStayOK
<1>2. Spec => []ReadsOK
  BY InitReadsOK, RouteInvInvariant, <1>1, PTL DEF Spec
<1>3. RouteInv /\ ReadsOK /\ [Next]_vars
        => [\A r \in Readers :
              (read[r].pc = "routed" /\ read'[r].pc = "leased")
                => route.owner = read[r].owner /\ route.owner \notin late]_vars
  BY LeasedReadsAreLicensed
<1> QED BY <1>2, <1>3, RouteInvInvariant, PTL DEF Spec, ReplicaReadsAreLicensed
-----------------------------------------------------------------------------
(* Types: the decisions, the clock and the storage.                         *)

RecordRow == [status : {"none", "pending", "approved", "degraded",
                        "rejected", "expired", "invalidated"},
              req : Admins \cup {Nobody}, by : Admins \cup {Nobody},
              version : Nat, seen : SUBSET Readers]

DecisionsOK ==
  /\ record \in [Decisions -> [Pairs -> RecordRow]]
  /\ late \subseteq Leases \cup (Decisions \X Pairs)
  /\ faults \in 0..MaxFaults

\* What a step may do to the decisions: one is asked for or settled, or none.
DecisionStep ==
  \/ \E d \in Decisions, p \in Pairs, a \in Admins, seen \in SUBSET Readers : Ask(d, p, a, seen)
  \/ \E d \in Decisions, p \in Pairs, a \in Admins \cup {Nobody},
        status \in {"approved", "degraded", "rejected", "expired", "invalidated"} :
       Settle(d, p, status, a)
  \/ record' = record

LEMMA EvidenceIsOfReaders == \A p \in Pairs : Evidence(p) \in SUBSET Readers
BY DEF Evidence

LEMMA StepsDecide == [Next]_vars => DecisionStep
<1> SUFFICES ASSUME [Next]_vars PROVE DecisionStep
  OBVIOUS
<1>0. {"qualification", "promotion", "health", "renewal"} = Decisions
  BY DEF Decisions
<1>1. ASSUME NEW a \in Admins, CutoverStep(a) PROVE DecisionStep
  BY <1>1 DEF CutoverStep, PrepareCutover, ActivateCutover, RollbackCutover, Prepare, Restore,
              DecisionStep
<1>2. ASSUME NEW a \in Admins, NEW p \in Pairs, QualificationStep(p, a) PROVE DecisionStep
  <2>1. CASE RequestQualification(p, a)
    BY <1>0, <2>1 DEF RequestQualification, DecisionStep
  <2>2. CASE Qualify(p, a)
    BY <1>0, <2>2 DEF Qualify, DecisionStep
  <2>3. CASE RejectQualification(p)
    BY <1>0, <2>3 DEF RejectQualification, Reject, DecisionStep
  <2> QED BY <1>2, <2>1, <2>2, <2>3 DEF QualificationStep
<1>3. ASSUME NEW a \in Admins, NEW p \in Pairs, PromotionStep(p, a) PROVE DecisionStep
  <2>1. CASE RequestPromotion(p, a)
    BY <1>0, <2>1 DEF RequestPromotion, DecisionStep
  <2>2. CASE ApprovePromotion(p, a)
    BY <1>0, <2>2 DEF ApprovePromotion, DecisionStep
  <2>3. CASE RejectPromotion(p)
    BY <1>0, <2>3 DEF RejectPromotion, Reject, DecisionStep
  <2>4. CASE \/ PreparePromotion(p, a) \/ ActivatePromotion(p, a)
             \/ RollbackPromotion(p) \/ ReconcilePromotion(p)
    BY <2>4 DEF PreparePromotion, ActivatePromotion, RollbackPromotion, ReconcilePromotion,
                Prepare, Restore, DecisionStep
  <2> QED BY <1>3, <2>1, <2>2, <2>3, <2>4 DEF PromotionStep
<1>4. ASSUME NEW a \in Admins, NEW p \in Pairs, HealthStep(p, a) PROVE DecisionStep
  <2>1. CASE RequestHealth(p, a)
    BY <1>0, <2>1, EvidenceIsOfReaders DEF RequestHealth, DecisionStep
  <2>2. CASE QualifyHealth(p, a)
    BY <1>0, <2>2 DEF QualifyHealth, DecisionStep
  <2>3. CASE RejectHealth(p)
    BY <1>0, <2>3 DEF RejectHealth, Reject, DecisionStep
  <2> QED BY <1>4, <2>1, <2>2, <2>3 DEF HealthStep
<1>5. ASSUME NEW a \in Admins, NEW p \in Pairs, RenewalStep(p, a) PROVE DecisionStep
  <2>1. CASE RequestRenewal(p, a)
    BY <1>0, <2>1, EvidenceIsOfReaders DEF RequestRenewal, DecisionStep
  <2>2. CASE ApproveRenewal(p, a)
    BY <1>0, <2>2 DEF ApproveRenewal, DecisionStep
  <2>3. CASE RejectRenewal(p)
    BY <1>0, <2>3 DEF RejectRenewal, Reject, DecisionStep
  <2>4. CASE \/ PrepareRenewal(p, a) \/ ActivateRenewal(p, a)
             \/ RollbackRenewal(p) \/ ReconcileRenewal(p)
    BY <2>4 DEF PrepareRenewal, ActivateRenewal, RollbackRenewal, ReconcileRenewal,
                Prepare, Restore, DecisionStep
  <2> QED BY <1>5, <2>1, <2>2, <2>3, <2>4 DEF RenewalStep
<1>6. ASSUME NEW r \in Readers, Download(r) PROVE DecisionStep
  BY <1>6 DEF Download, Begin, ReadRouteRow, ReadLease, ReadReplica, LogRead, DecisionStep
<1>7. CASE (\E w \in Leases \cup (Decisions \X Pairs) : Lapse(w))
             \/ (\E to \in {"altered", "down"} : Fault(to)) \/ Repair \/ UNCHANGED vars
  BY <1>7 DEF Lapse, Fault, Repair, vars, DecisionStep
<1> QED BY <1>1, <1>2, <1>3, <1>4, <1>5, <1>6, <1>7 DEF Next

\* Only time makes a window late, and only the storage fails.
LEMMA ClockAndStorage ==
  ASSUME [Next]_vars
  PROVE  /\ late' = late \/ \E w \in Leases \cup (Decisions \X Pairs) : late' = late \cup {w}
         /\ faults' = faults \/ (faults < MaxFaults /\ faults' = faults + 1)
<1>1. ASSUME NEW a \in Admins, CutoverStep(a) PROVE late' = late /\ faults' = faults
  BY <1>1 DEF CutoverStep, PrepareCutover, ActivateCutover, RollbackCutover, Prepare, Restore
<1>2. ASSUME NEW a \in Admins, NEW p \in Pairs, QualificationStep(p, a) \/ HealthStep(p, a)
      PROVE  late' = late /\ faults' = faults
  BY <1>2 DEF QualificationStep, RequestQualification, Qualify, RejectQualification,
              HealthStep, RequestHealth, QualifyHealth, RejectHealth, Ask, Settle, Reject
<1>3. ASSUME NEW a \in Admins, NEW p \in Pairs, PromotionStep(p, a)
      PROVE  late' = late /\ faults' = faults
  BY <1>3 DEF PromotionStep, RequestPromotion, ApprovePromotion, RejectPromotion,
              PreparePromotion, ActivatePromotion, RollbackPromotion, ReconcilePromotion,
              Prepare, Restore, Ask, Settle, Reject
<1>4. ASSUME NEW a \in Admins, NEW p \in Pairs, RenewalStep(p, a)
      PROVE  late' = late /\ faults' = faults
  BY <1>4 DEF RenewalStep, RequestRenewal, ApproveRenewal, RejectRenewal,
              PrepareRenewal, ActivateRenewal, RollbackRenewal, ReconcileRenewal,
              Prepare, Restore, Ask, Settle, Reject
<1>5. ASSUME NEW r \in Readers, Download(r) PROVE late' = late /\ faults' = faults
  BY <1>5 DEF Download, Begin, ReadRouteRow, ReadLease, ReadReplica, LogRead
<1>6. CASE (\E w \in Leases \cup (Decisions \X Pairs) : Lapse(w))
             \/ (\E to \in {"altered", "down"} : Fault(to)) \/ Repair \/ UNCHANGED vars
  BY <1>6 DEF Lapse, Fault, Repair, vars
<1> QED BY <1>1, <1>2, <1>3, <1>4, <1>5, <1>6 DEF Next

LEMMA DecisionsStayOK == RouteInv /\ DecisionsOK /\ [Next]_vars => DecisionsOK'
<1> SUFFICES ASSUME RouteInv, DecisionsOK, [Next]_vars PROVE DecisionsOK'
  OBVIOUS
<1>1. (late \subseteq Leases \cup (Decisions \X Pairs))' /\ (faults \in 0..MaxFaults)'
  BY ClockAndStorage, BoundsAssumption DEF DecisionsOK
<1>2. (record \in [Decisions -> [Pairs -> RecordRow]])'
  <2>1. ASSUME NEW d \in Decisions, NEW p \in Pairs, NEW row \in RecordRow,
               record' = [record EXCEPT ![d][p] = row]
        PROVE  record' \in [Decisions -> [Pairs -> RecordRow]]
    BY <2>1 DEF DecisionsOK
  <2>2. ASSUME NEW d \in Decisions, NEW p \in Pairs, NEW a \in Admins,
               NEW seen \in SUBSET Readers, Ask(d, p, a, seen)
        PROVE  record' \in [Decisions -> [Pairs -> RecordRow]]
    <3> DEFINE row == [status |-> "pending", req |-> a, by |-> Nobody,
                       version |-> route.version, seen |-> seen]
    <3>1. row \in RecordRow
      BY DEF RecordRow, RouteInv, RowsOK
    <3>2. record' = [record EXCEPT ![d][p] = row]
      BY <2>2 DEF Ask
    <3> HIDE DEF row
    <3> QED BY <2>1, <3>1, <3>2
  <2>3. ASSUME NEW d \in Decisions, NEW p \in Pairs, NEW a \in Admins \cup {Nobody},
               NEW status \in {"approved", "degraded", "rejected", "expired", "invalidated"},
               Settle(d, p, status, a)
        PROVE  record' \in [Decisions -> [Pairs -> RecordRow]]
    <3> DEFINE row == [record[d][p] EXCEPT !.status = status, !.by = a]
    <3>0. record[d][p] \in RecordRow
      BY DEF DecisionsOK
    <3>1. row \in RecordRow
      BY <3>0 DEF RecordRow
    <3>2. record' = [record EXCEPT ![d][p] = row]
      BY <2>3, <3>0 DEF Settle, DecisionsOK
    <3> HIDE DEF row
    <3> QED BY <2>1, <3>1, <3>2
  <2> QED BY StepsDecide, <2>2, <2>3 DEF DecisionStep, DecisionsOK
<1> QED BY <1>1, <1>2 DEF DecisionsOK

LEMMA InitDecisionsOK == Init => DecisionsOK
BY BoundsAssumption DEF Init, DecisionsOK, RecordRow, NoRecord

\* Every row stays well formed (the tables' constraints on status and version).
THEOREM TypesAlwaysOK == Spec => []TypeOK
<1>1. RouteInv /\ DecisionsOK /\ [Next]_vars => DecisionsOK'
  BY DecisionsStayOK
<1>2. Spec => []DecisionsOK
  BY InitDecisionsOK, RouteInvInvariant, <1>1, PTL DEF Spec
<1>3. RouteInv /\ ReadsOK /\ [Next]_vars => ReadsOK'
  BY ReadsStayOK
<1>4. Spec => []ReadsOK
  BY InitReadsOK, RouteInvInvariant, <1>3, PTL DEF Spec
<1>5. RouteInv /\ ReadsOK /\ DecisionsOK => TypeOK
  BY DEF TypeOK, RouteInv, RowsOK, Statuses, ReadsOK, ReadRow, DecisionsOK, RecordRow
<1> QED BY <1>2, <1>4, <1>5, RouteInvInvariant, PTL

\* The route, its leases and the rows beside them agree at every moment (the
\* handlers' own tests are all that keeps them so).
THEOREM RouteAuthority == Spec => []AuthorityInv
BY TypesAlwaysOK, OneAuthorityAlways, ActiveLeaseFitsAlways, PTL DEF AuthorityInv
-----------------------------------------------------------------------------
(* The chain: what each handler has verified when it writes.                *)

\* What the switch to a durable lease rests on.
Verified(l) ==
  \A p \in Pairs :
    /\ l = Promotion(p) =>
         /\ record["promotion"][p].status = "approved"
         /\ record["qualification"][p].status = "approved"
         /\ record["qualification"][p].version = route.version
         /\ lease[l].version = route.version
         /\ \A c \in p : lease[Cutover(c)].status = "rolled_back"
    /\ l = Renewal(p) =>
         /\ record["renewal"][p].status = "approved"
         /\ record["health"][p].status = "approved"
         /\ record["health"][p].seen = Evidence(p)
         /\ \E r \in Evidence(p) : read[r].outcome = "verified"
         /\ lease[Promotion(p)].act # Nobody
         /\ route.version = lease[Promotion(p)].version + 2

\* What an approval of a decision rests on.
Granted(d, p, a) ==
  /\ a \in Admins
  /\ d = "qualification" =>
       \A c \in p : lease[Cutover(c)].status = "rolled_back" /\ lease[Cutover(c)].act # a
  /\ d = "promotion" =>
       /\ record["qualification"][p].status = "approved"
       /\ a # record["qualification"][p].by
       /\ \A c \in p : lease[Cutover(c)].act # a
  /\ d = "health" =>
       /\ lease[Promotion(p)].act \notin {Nobody, a}
       /\ HealthState(record["health"][p].seen) = "healthy"
  /\ d = "renewal" =>
       /\ record["health"][p].status = "approved"
       /\ a \notin {record["health"][p].by, lease[Promotion(p)].act}

Logged == {r \in Readers : read[r].pc = "logged"}

PreparesLease ==
  \E l \in Leases, a \in Admins, v \in Nat :
    /\ Prepare(l, a, v)
    /\ \/ route.version > 0 /\ UNCHANGED route
       \/ route.version = 0 /\ route.owner = Local /\ route' = [route EXCEPT !.version = 1]

SwitchesRoute ==
  \E l \in Leases, a \in Admins :
    /\ lease[l].status = "prepared" /\ route.owner = Local /\ Verified(l)
    /\ SwitchTo(l, a)
    /\ UNCHANGED <<record, read>>

GivesLeaseUp ==
  \E l \in Leases, s \in {"expired", "invalidated"} :
    lease[l].status = "prepared" /\ GiveUp(l, s) /\ UNCHANGED <<record, read>>

RestoresRoute == \E l \in Leases, s \in {"rolled_back", "expired"} : Restore(l, s)

AsksFor ==
  \E d \in Decisions, p \in Pairs, a \in Admins, seen \in SUBSET Logged :
    record[d][p].status = "none" /\ Ask(d, p, a, seen)

Settles ==
  \E d \in Decisions, p \in Pairs, a \in Admins \cup {Nobody},
     status \in {"approved", "degraded", "rejected", "expired", "invalidated"} :
    (status = "approved" => Granted(d, p, a)) /\ Settle(d, p, status, a)

\* Downloads, time and storage: an audit row that is written stays.
Elsewhere == /\ UNCHANGED <<route, lease, record, moves>>
             /\ \A r \in Logged : read'[r] = read[r]

ChainStep == \/ PreparesLease \/ SwitchesRoute \/ GivesLeaseUp \/ RestoresRoute
             \/ AsksFor \/ Settles \/ Elsewhere

LEMMA LoggedEvidence == \A p \in Pairs : Evidence(p) \in SUBSET Logged
BY DEF Evidence, Logged

\* What each preflight has verified when it ends well.
LEMMA QualifiedPair ==
  ASSUME NEW p \in Pairs, QualificationPreflight(p) = "ok"
  PROVE  /\ Clean
         /\ \A c \in p : lease[Cutover(c)].status = "rolled_back"
BY DEF QualificationPreflight, Require

LEMMA PromotablePair ==
  ASSUME NEW p \in Pairs, PromotionPreflight(p) = "ok"
  PROVE  /\ Clean
         /\ record["qualification"][p].status = "approved"
         /\ record["qualification"][p].version = route.version
         /\ \A c \in p : lease[Cutover(c)].status = "rolled_back"
<1>1. /\ record["qualification"][p].status = "approved"
      /\ QualificationPreflight(p) = "ok"
      /\ route.version = record["qualification"][p].version
  BY AllChecksPass DEF PromotionPreflight, Require
<1> QED BY <1>1, QualifiedPair

LEMMA PromotableLease ==
  ASSUME NEW p \in Pairs, PromotionLeasePreflight(p) = "ok"
  PROVE  /\ record["promotion"][p].status = "approved"
         /\ PromotionPreflight(p) = "ok"
BY AllChecksPass DEF PromotionLeasePreflight, Require

LEMMA HealthyPair ==
  ASSUME NEW p \in Pairs, HealthPreflight(p) = "ok"
  PROVE  /\ Clean
         /\ lease[Promotion(p)].act # Nobody
         /\ route.version = lease[Promotion(p)].version + 2
         /\ \E r \in Evidence(p) : read[r].outcome = "verified"
<1>1. /\ Clean
      /\ lease[Promotion(p)].act # Nobody
      /\ route.version = lease[Promotion(p)].version + 2
  BY AllChecksPass DEF HealthPreflight, Require
<1>2. AndThen(Candidate, Require(\E r \in Evidence(p) : read[r].outcome = "verified")) = "ok"
  BY AllChecksPass DEF HealthPreflight
<1>3. Require(\E r \in Evidence(p) : read[r].outcome = "verified") = "ok"
  BY <1>2, AllChecksPass
<1> QED BY <1>1, <1>3 DEF Require

LEMMA RenewablePair ==
  ASSUME NEW p \in Pairs, RenewalPreflight(p) = "ok"
  PROVE  /\ record["health"][p].status = "approved"
         /\ HealthPreflight(p) = "ok"
         /\ record["health"][p].seen = Evidence(p)
<1>1. /\ Require(record["health"][p].status = "approved") = "ok"
      /\ HealthPreflight(p) = "ok"
      /\ Require(Matches("health", p)) = "ok"
  BY AllChecksPass DEF RenewalPreflight
<1> QED BY <1>1 DEF Require, Matches

LEMMA RenewableLease ==
  ASSUME NEW p \in Pairs, RenewalLeasePreflight(p) = "ok"
  PROVE  /\ record["renewal"][p].status = "approved"
         /\ RenewalPreflight(p) = "ok"
<1>1. /\ Require(record["renewal"][p].status = "approved" /\ <<"renewal", p>> \notin late) = "ok"
      /\ RenewalPreflight(p) = "ok"
  BY AllChecksPass DEF RenewalLeasePreflight
<1> QED BY <1>1 DEF Require

\* A cutover, a promotion and a renewal are different leases.
LEMMA KindsDiffer ==
  \A p, q \in Pairs, c \in Cutovers :
    /\ Cutover(c) # Promotion(p) /\ Cutover(c) # Renewal(p) /\ Promotion(p) # Renewal(q)
    /\ Promotion(p) = Promotion(q) => p = q
    /\ Renewal(p) = Renewal(q) => p = q
OBVIOUS

\* Every step of the handlers is of one of the kinds.
LEMMA CutoversAreChainSteps ==
  ASSUME RouteInv, NEW a \in Admins, CutoverStep(a)
  PROVE  ChainStep
<1> USE LeasesOfKinds
<1>1. PICK c \in Cutovers : PrepareCutover(c, a) \/ ActivateCutover(c, a) \/ RollbackCutover(c)
  BY DEF CutoverStep
<1>2. CASE PrepareCutover(c, a)
  <2>1. /\ Prepare(Cutover(c), a, 0)
        /\ route.owner = Local
        /\ route' = IF route.version = 0 THEN [route EXCEPT !.version = 1] ELSE route
    BY <1>2 DEF PrepareCutover
  <2>2. route.version \in Nat
    BY DEF RouteInv, RowsOK
  <2>3. PreparesLease
    BY <2>1, <2>2 DEF PreparesLease
  <2> QED BY <2>3 DEF ChainStep
<1>3. CASE ActivateCutover(c, a)
  <2>1. /\ lease[Cutover(c)].status = "prepared" /\ route.owner = Local
        /\ UNCHANGED <<record, read>>
        /\ \/ GiveUp(Cutover(c), "expired")
           \/ GiveUp(Cutover(c), "invalidated")
           \/ SwitchTo(Cutover(c), a)
    BY <1>3 DEF ActivateCutover
  <2>2. Verified(Cutover(c))
    BY KindsDiffer DEF Verified
  <2>3. CASE GiveUp(Cutover(c), "expired") \/ GiveUp(Cutover(c), "invalidated")
    BY <2>1, <2>3 DEF ChainStep, GivesLeaseUp
  <2>4. CASE SwitchTo(Cutover(c), a)
    BY <2>1, <2>2, <2>4 DEF ChainStep, SwitchesRoute
  <2> QED BY <2>1, <2>3, <2>4
<1>4. CASE RollbackCutover(c)
  BY <1>4 DEF RollbackCutover, ChainStep, RestoresRoute
<1> QED BY <1>1, <1>2, <1>3, <1>4

\* A request that closes a decision without granting it.
LEMMA RefusalIsChainStep ==
  ASSUME NEW d \in Decisions, NEW p \in Pairs, NEW a \in Admins \cup {Nobody},
         NEW status \in {"degraded", "rejected", "expired", "invalidated"},
         Settle(d, p, status, a)
  PROVE  ChainStep
<1>1. (status = "approved" => Granted(d, p, a)) /\ Settle(d, p, status, a)
  OBVIOUS
<1>2. status \in {"approved", "degraded", "rejected", "expired", "invalidated"}
  OBVIOUS
<1> QED BY <1>1, <1>2 DEF ChainStep, Settles

LEMMA GrantIsChainStep ==
  ASSUME NEW d \in Decisions, NEW p \in Pairs, NEW a \in Admins,
         Settle(d, p, "approved", a), Granted(d, p, a)
  PROVE  ChainStep
BY DEF ChainStep, Settles

LEMMA QualificationsAreChainSteps ==
  ASSUME NEW a \in Admins, NEW p \in Pairs, QualificationStep(p, a)
  PROVE  ChainStep
<1>0. "qualification" \in Decisions
  BY DEF Decisions
<1>1. CASE RequestQualification(p, a)
  <2>1. CASE record["qualification"][p].status = "none" /\ Ask("qualification", p, a, {})
    BY <1>0, <2>1 DEF ChainStep, AsksFor
  <2> QED BY <1>0, <1>1, <2>1, RefusalIsChainStep DEF RequestQualification
<1>2. CASE Qualify(p, a)
  <2>1. CASE QualificationPreflight(p) = "ok" /\ Settle("qualification", p, "approved", a)
    <3>1. \A c \in p : lease[Cutover(c)].act # a
      BY <1>2 DEF Qualify
    <3>2. Granted("qualification", p, a)
      BY <2>1, <3>1, QualifiedPair DEF Granted
    <3> QED BY <1>0, <2>1, <3>2, GrantIsChainStep
  <2>2. CASE Settle("qualification", p, "invalidated", Nobody)
    BY <1>0, <2>2, RefusalIsChainStep
  <2> QED BY <1>2, <2>1, <2>2 DEF Qualify
<1>3. CASE RejectQualification(p)
  BY <1>0, <1>3, RefusalIsChainStep DEF RejectQualification, Reject
<1> QED BY <1>1, <1>2, <1>3 DEF QualificationStep

LEMMA PromotionsAreChainSteps ==
  ASSUME RouteInv, NEW a \in Admins, NEW p \in Pairs, PromotionStep(p, a)
  PROVE  ChainStep
<1> USE LeasesOfKinds
<1>0. "promotion" \in Decisions
  BY DEF Decisions
<1>1. CASE RequestPromotion(p, a)
  BY <1>0, <1>1 DEF RequestPromotion, ChainStep, AsksFor
<1>2. CASE ApprovePromotion(p, a)
  <2>1. CASE PromotionPreflight(p) = "ok" /\ <<"promotion", p>> \notin late
               /\ Settle("promotion", p, "approved", a)
    <3>1. a # record["qualification"][p].by /\ \A c \in p : lease[Cutover(c)].act # a
      BY <1>2, <2>1 DEF ApprovePromotion
    <3>2. Granted("promotion", p, a)
      BY <2>1, <3>1, PromotablePair DEF Granted
    <3> QED BY <1>0, <2>1, <3>2, GrantIsChainStep
  <2>2. CASE \/ Settle("promotion", p, "expired", Nobody)
             \/ Settle("promotion", p, "invalidated", Nobody)
    BY <1>0, <2>2, RefusalIsChainStep
  <2> QED BY <1>2, <2>1, <2>2 DEF ApprovePromotion
<1>3. CASE RejectPromotion(p)
  BY <1>0, <1>3, RefusalIsChainStep DEF RejectPromotion, Reject
<1>4. CASE PreparePromotion(p, a)
  <2>1. /\ Prepare(Promotion(p), a, route.version) /\ UNCHANGED route
        /\ route.version \in Nat /\ route.version > 0
    BY <1>4, PromotableLease, PromotablePair DEF PreparePromotion, Clean, RouteInv, RowsOK
  <2> QED BY <2>1 DEF ChainStep, PreparesLease
<1>5. CASE ActivatePromotion(p, a)
  <2>1. lease[Promotion(p)].status = "prepared" /\ route.owner = Local /\ UNCHANGED <<record, read>>
    BY <1>5 DEF ActivatePromotion, Clean
  <2>2. CASE GiveUp(Promotion(p), "expired") \/ GiveUp(Promotion(p), "invalidated")
    BY <2>1, <2>2 DEF ChainStep, GivesLeaseUp
  <2>3. CASE /\ AndThen(PromotionLeasePreflight(p),
                        Require(lease[Promotion(p)].version = route.version)) = "ok"
             /\ SwitchTo(Promotion(p), a)
    <3>1. /\ PromotionLeasePreflight(p) = "ok"
          /\ Require(lease[Promotion(p)].version = route.version) = "ok"
      BY <2>3, AllChecksPass
    <3>2. lease[Promotion(p)].version = route.version
      BY <3>1 DEF Require
    <3>3. Verified(Promotion(p))
      BY <3>1, <3>2, PromotableLease, PromotablePair, KindsDiffer DEF Verified
    <3> QED BY <2>1, <2>3, <3>3 DEF ChainStep, SwitchesRoute
  <2> QED BY <1>5, <2>2, <2>3 DEF ActivatePromotion
<1>6. CASE RollbackPromotion(p) \/ ReconcilePromotion(p)
  BY <1>6 DEF RollbackPromotion, ReconcilePromotion, ChainStep, RestoresRoute
<1> QED BY <1>1, <1>2, <1>3, <1>4, <1>5, <1>6 DEF PromotionStep

LEMMA HealthStepsAreChainSteps ==
  ASSUME NEW a \in Admins, NEW p \in Pairs, HealthStep(p, a)
  PROVE  ChainStep
<1>0. "health" \in Decisions
  BY DEF Decisions
<1>1. CASE RequestHealth(p, a)
  <2>1. CASE record["health"][p].status = "none" /\ Ask("health", p, a, Evidence(p))
    BY <1>0, <2>1, LoggedEvidence DEF ChainStep, AsksFor
  <2> QED BY <1>0, <1>1, <2>1, RefusalIsChainStep DEF RequestHealth
<1>2. CASE QualifyHealth(p, a)
  <2>1. CASE /\ AndThen(HealthPreflight(p), Require(Matches("health", p))) = "ok"
             /\ HealthState(record["health"][p].seen) = "healthy"
             /\ Settle("health", p, "approved", a)
    <3>1. lease[Promotion(p)].act # a
      BY <1>2 DEF QualifyHealth
    <3>2. lease[Promotion(p)].act # Nobody
      BY <2>1, AllChecksPass, HealthyPair
    <3>3. Granted("health", p, a)
      BY <2>1, <3>1, <3>2 DEF Granted
    <3> QED BY <1>0, <2>1, <3>3, GrantIsChainStep
  <2>2. CASE Settle("health", p, "invalidated", Nobody) \/ Settle("health", p, "degraded", a)
    BY <1>0, <2>2, RefusalIsChainStep
  <2> QED BY <1>2, <2>1, <2>2 DEF QualifyHealth
<1>3. CASE RejectHealth(p)
  BY <1>0, <1>3, RefusalIsChainStep DEF RejectHealth, Reject
<1> QED BY <1>1, <1>2, <1>3 DEF HealthStep

LEMMA RenewalsAreChainSteps ==
  ASSUME RouteInv, NEW a \in Admins, NEW p \in Pairs, RenewalStep(p, a)
  PROVE  ChainStep
<1> USE LeasesOfKinds
<1>0. "renewal" \in Decisions
  BY DEF Decisions
<1>1. CASE RequestRenewal(p, a)
  BY <1>0, <1>1, LoggedEvidence DEF RequestRenewal, ChainStep, AsksFor
<1>2. CASE ApproveRenewal(p, a)
  <2>1. CASE /\ AndThen(RenewalPreflight(p), Require(Matches("renewal", p))) = "ok"
             /\ <<"renewal", p>> \notin late /\ Settle("renewal", p, "approved", a)
    <3>1. a \notin {record["health"][p].by, lease[Promotion(p)].act}
      BY <1>2, <2>1 DEF ApproveRenewal
    <3>2. record["health"][p].status = "approved"
      BY <2>1, AllChecksPass, RenewablePair
    <3>3. Granted("renewal", p, a)
      BY <3>1, <3>2 DEF Granted
    <3> QED BY <1>0, <2>1, <3>3, GrantIsChainStep
  <2>2. CASE Settle("renewal", p, "expired", Nobody) \/ Settle("renewal", p, "invalidated", Nobody)
    BY <1>0, <2>2, RefusalIsChainStep
  <2> QED BY <1>2, <2>1, <2>2 DEF ApproveRenewal
<1>3. CASE RejectRenewal(p)
  BY <1>0, <1>3, RefusalIsChainStep DEF RejectRenewal, Reject
<1>4. CASE PrepareRenewal(p, a)
  <2>1. /\ Prepare(Renewal(p), a, route.version) /\ UNCHANGED route
        /\ route.version \in Nat /\ route.version > 0
    BY <1>4, RenewalNeedsCleanRoute DEF PrepareRenewal, Clean, RouteInv, RowsOK
  <2> QED BY <2>1 DEF ChainStep, PreparesLease
<1>5. CASE ActivateRenewal(p, a)
  <2>1. lease[Renewal(p)].status = "prepared" /\ UNCHANGED <<record, read>>
    BY <1>5 DEF ActivateRenewal
  <2>2. CASE GiveUp(Renewal(p), "expired") \/ GiveUp(Renewal(p), "invalidated")
    BY <2>1, <2>2 DEF ChainStep, GivesLeaseUp
  <2>3. CASE /\ AndThen(RenewalLeasePreflight(p),
                        Require(lease[Renewal(p)].version = route.version)) = "ok"
             /\ SwitchTo(Renewal(p), a)
    <3>1. RenewalLeasePreflight(p) = "ok"
      BY <2>3, AllChecksPass
    <3>2. route.owner = Local
      BY <3>1, RenewalNeedsCleanRoute DEF Clean
    <3>3. Verified(Renewal(p))
      BY <3>1, RenewableLease, RenewablePair, HealthyPair, KindsDiffer DEF Verified
    <3> QED BY <2>1, <2>3, <3>2, <3>3 DEF ChainStep, SwitchesRoute
  <2> QED BY <1>5, <2>2, <2>3 DEF ActivateRenewal
<1>6. CASE RollbackRenewal(p) \/ ReconcileRenewal(p)
  BY <1>6 DEF RollbackRenewal, ReconcileRenewal, ChainStep, RestoresRoute
<1> QED BY <1>1, <1>2, <1>3, <1>4, <1>5, <1>6 DEF RenewalStep

LEMMA StepsAreChainSteps ==
  ASSUME RouteInv, ReadsOK, [Next]_vars
  PROVE  ChainStep
<1>1. ASSUME NEW r \in Readers, Download(r) PROVE ChainStep
  <2>1. UNCHANGED <<route, lease, record, moves>>
    BY <1>1 DEF Download, Begin, ReadRouteRow, ReadLease, ReadReplica, LogRead
  <2>2. read[r].pc # "logged" /\ \A q \in Readers \ {r} : read'[q] = read[q]
    BY <1>1 DEF Download, Begin, ReadRouteRow, ReadLease, ReadReplica, LogRead, Answer, ReadsOK
  <2> QED BY <2>1, <2>2 DEF ChainStep, Elsewhere, Logged
<1>2. CASE (\E w \in Leases \cup (Decisions \X Pairs) : Lapse(w))
             \/ (\E to \in {"altered", "down"} : Fault(to)) \/ Repair \/ UNCHANGED vars
  BY <1>2 DEF Lapse, Fault, Repair, vars, ChainStep, Elsewhere
<1> QED BY <1>1, <1>2, CutoversAreChainSteps, QualificationsAreChainSteps,
           PromotionsAreChainSteps, HealthStepsAreChainSteps, RenewalsAreChainSteps DEF Next

\* What a lease row says of its own life.
LifeInv ==
  \A l \in Leases :
    /\ lease[l].status \in {"activated", "rolled_back"} => lease[l].act # Nobody
    /\ lease[l].status \in {"none", "prepared"} => lease[l].act = Nobody

\* The approvals of a chain rest on one another, and on different Admins.
QualifiedOK(p) ==
  record["qualification"][p].status = "approved" =>
    /\ record["qualification"][p].by \in Admins
    /\ \A c \in p : /\ lease[Cutover(c)].status = "rolled_back"
                    /\ lease[Cutover(c)].act # record["qualification"][p].by

PromotedOK(p) ==
  /\ record["promotion"][p].status = "approved" =>
       /\ record["qualification"][p].status = "approved"
       /\ record["promotion"][p].by \in Admins \ {record["qualification"][p].by}
       /\ \A c \in p : lease[Cutover(c)].act # record["promotion"][p].by
  /\ lease[Promotion(p)].act # Nobody => record["promotion"][p].status = "approved"

HealthyOK(p) ==
  /\ record["health"][p].seen \subseteq Logged
  /\ record["health"][p].status = "approved" =>
       /\ lease[Promotion(p)].act # Nobody
       /\ record["health"][p].by \in Admins \ {lease[Promotion(p)].act}
       /\ HealthState(record["health"][p].seen) = "healthy"

RenewedOK(p) ==
  /\ record["renewal"][p].status = "approved" =>
       /\ record["health"][p].status = "approved"
       /\ record["renewal"][p].by \in Admins \ {record["health"][p].by, lease[Promotion(p)].act}
  /\ lease[Renewal(p)].act # Nobody => record["renewal"][p].status = "approved"

ChainInv ==
  /\ LifeInv
  /\ \A p \in Pairs : QualifiedOK(p) /\ PromotedOK(p) /\ HealthyOK(p) /\ RenewedOK(p)

\* What a step leaves as it was: who activated a lease, for which version, that
\* it was rolled back, and the audit rows.
LEMMA RowsLast ==
  ASSUME RouteInv, ReadsOK, LifeInv, ChainStep
  PROVE  /\ LifeInv'
         /\ \A l \in Leases :
              /\ lease[l].act # Nobody => /\ lease'[l].act = lease[l].act
                                          /\ lease'[l].version = lease[l].version
              /\ lease[l].status \in {"rolled_back", "expired"}
                   => lease'[l].status = lease[l].status
         /\ \A r \in Logged : read'[r] = read[r]
         /\ Logged \subseteq Logged'
<1> USE DEF RouteInv, RowsOK, LifeInv
<1>0. Nobody \notin Admins
  BY PeopleAssumption
<1>1. CASE PreparesLease
  <2>1. PICK l \in Leases, a \in Admins, v \in Nat : Prepare(l, a, v)
    BY <1>1 DEF PreparesLease
  <2> QED BY <2>1 DEF Prepare, Logged
<1>2. CASE SwitchesRoute
  <2>1. PICK l \in Leases, a \in Admins :
          lease[l].status = "prepared" /\ SwitchTo(l, a) /\ read' = read
    BY <1>2 DEF SwitchesRoute
  <2>2. lease' = [lease EXCEPT ![l].status = "activated", ![l].act = a]
    BY <2>1 DEF SwitchTo
  <2> QED BY <1>0, <2>1, <2>2 DEF Logged
<1>3. CASE GivesLeaseUp
  <2>1. PICK l \in Leases, s \in {"expired", "invalidated"} :
          lease[l].status = "prepared" /\ GiveUp(l, s) /\ read' = read
    BY <1>3 DEF GivesLeaseUp
  <2> QED BY <2>1 DEF GiveUp, SetStatus, Logged
<1>4. CASE RestoresRoute
  <2>1. PICK l \in Leases, s \in {"rolled_back", "expired"} : Restore(l, s)
    BY <1>4 DEF RestoresRoute
  <2> QED BY <2>1 DEF Restore, SetStatus, Logged
<1>5. CASE AsksFor
  BY <1>5 DEF AsksFor, Ask, Logged
<1>6. CASE Settles
  BY <1>6 DEF Settles, Settle, Logged
<1>7. CASE Elsewhere
  BY <1>7 DEF Elsewhere, Logged
<1> QED BY <1>1, <1>2, <1>3, <1>4, <1>5, <1>6, <1>7 DEF ChainStep

\* Only a verified switch makes an Admin the activator of a lease.
LEMMA OnlySwitchesActivate ==
  ASSUME RouteInv, ChainStep, NEW l \in Leases, lease'[l].act # lease[l].act
  PROVE  (Verified(l) /\ lease[l].status = "prepared") \/ lease'[l].act = Nobody
<1> USE DEF RouteInv, RowsOK
<1>1. CASE PreparesLease
  BY <1>1 DEF PreparesLease, Prepare
<1>2. CASE SwitchesRoute
  <2>1. PICK k \in Leases, a \in Admins :
          lease[k].status = "prepared" /\ Verified(k) /\ SwitchTo(k, a)
    BY <1>2 DEF SwitchesRoute
  <2>2. lease' = [lease EXCEPT ![k].status = "activated", ![k].act = a]
    BY <2>1 DEF SwitchTo
  <2>3. k = l
    BY <2>2
  <2> QED BY <2>1, <2>3
<1>3. CASE GivesLeaseUp
  BY <1>3 DEF GivesLeaseUp, GiveUp, SetStatus
<1>4. CASE RestoresRoute
  BY <1>4 DEF RestoresRoute, Restore, SetStatus
<1>5. CASE AsksFor \/ Settles \/ Elsewhere
  BY <1>5 DEF AsksFor, Ask, Settles, Settle, Elsewhere
<1> QED BY <1>1, <1>2, <1>3, <1>4, <1>5 DEF ChainStep

\* An approval lasts, and a new one has been granted.
LEMMA ApprovalsLast ==
  ASSUME RouteInv, DecisionsOK, ChainStep, NEW d \in Decisions, NEW p \in Pairs
  PROVE  /\ record[d][p].status = "approved" => record'[d][p] = record[d][p]
         /\ (record[d][p].status # "approved" /\ record'[d][p].status = "approved") =>
              /\ Granted(d, p, record'[d][p].by)
              /\ record'[d][p].version = record[d][p].version
              /\ record'[d][p].seen = record[d][p].seen
              /\ lease' = lease
              /\ \A e \in Decisions : e # d => record'[e][p] = record[e][p]
         /\ record'[d][p].seen = record[d][p].seen \/ record'[d][p].seen \subseteq Logged
<1> USE DEF DecisionsOK, RecordRow
<1>1. CASE AsksFor
  <2>1. PICK e \in Decisions, q \in Pairs, a \in Admins, seen \in SUBSET Logged :
          record[e][q].status = "none" /\ Ask(e, q, a, seen)
    BY <1>1 DEF AsksFor
  <2>2. record' = [record EXCEPT ![e][q] = [status |-> "pending", req |-> a, by |-> Nobody,
                                            version |-> route.version, seen |-> seen]]
    BY <2>1 DEF Ask
  <2> QED BY <2>1, <2>2
<1>2. CASE Settles
  <2>1. PICK e \in Decisions, q \in Pairs, a \in Admins \cup {Nobody},
             status \in {"approved", "degraded", "rejected", "expired", "invalidated"} :
          (status = "approved" => Granted(e, q, a)) /\ Settle(e, q, status, a)
    BY <1>2 DEF Settles
  <2>2. /\ record[e][q].status = "pending"
        /\ record' = [record EXCEPT ![e][q].status = status, ![e][q].by = a]
        /\ lease' = lease
    BY <2>1 DEF Settle
  <2> QED BY <2>1, <2>2
<1>3. CASE record' = record
  BY <1>3
<1> QED BY <1>1, <1>2, <1>3 DEF ChainStep, PreparesLease, Prepare, SwitchesRoute, GivesLeaseUp,
                                RestoresRoute, Restore, Elsewhere

LEMMA ChainInvKept ==
  ASSUME RouteInv, ReadsOK, DecisionsOK, ChainInv, ChainStep
  PROVE  ChainInv'
<1>0. /\ "qualification" \in Decisions /\ "promotion" \in Decisions
      /\ "health" \in Decisions /\ "renewal" \in Decisions
  BY DEF Decisions
<1>1. /\ LifeInv'
      /\ \A l \in Leases :
           /\ lease[l].act # Nobody => lease'[l].act = lease[l].act
           /\ lease[l].status = "rolled_back" => lease'[l].status = "rolled_back"
      /\ \A r \in Logged : read'[r] = read[r]
      /\ Logged \subseteq Logged'
  BY RowsLast DEF ChainInv
<1> SUFFICES ASSUME NEW p \in Pairs
             PROVE  QualifiedOK(p)' /\ PromotedOK(p)' /\ HealthyOK(p)' /\ RenewedOK(p)'
  BY <1>1 DEF ChainInv
<1>2. QualifiedOK(p) /\ PromotedOK(p) /\ HealthyOK(p) /\ RenewedOK(p) /\ LifeInv
  BY DEF ChainInv
<1>3. /\ \A c \in p : Cutover(c) \in Leases
      /\ Promotion(p) \in Leases /\ Renewal(p) \in Leases
  BY PairsAssumption DEF Leases
<1>4. ASSUME NEW c \in p, lease[Cutover(c)].status = "rolled_back"
      PROVE  /\ lease'[Cutover(c)].status = "rolled_back"
             /\ lease'[Cutover(c)].act = lease[Cutover(c)].act
  BY <1>1, <1>2, <1>3, <1>4 DEF LifeInv
<1>5. QualifiedOK(p)'
  <2>1. CASE record["qualification"][p].status = "approved"
    BY <1>0, <1>2, <1>4, <2>1, ApprovalsLast DEF QualifiedOK
  <2>2. CASE record["qualification"][p].status # "approved"
    <3>1. SUFFICES ASSUME record'["qualification"][p].status = "approved" PROVE QualifiedOK(p)'
      BY DEF QualifiedOK
    <3>2. Granted("qualification", p, record'["qualification"][p].by)
      BY <1>0, <2>2, <3>1, ApprovalsLast
    <3> QED BY <1>4, <3>2 DEF Granted, QualifiedOK
  <2> QED BY <2>1, <2>2
<1>6. PromotedOK(p)'
  <2>1. ASSUME record'["promotion"][p].status = "approved"
        PROVE  /\ record'["qualification"][p].status = "approved"
               /\ record'["promotion"][p].by \in Admins \ {record'["qualification"][p].by}
               /\ \A c \in p : lease'[Cutover(c)].act # record'["promotion"][p].by
    <3>1. CASE record["promotion"][p].status = "approved"
      <4>1. /\ record'["promotion"][p] = record["promotion"][p]
            /\ record'["qualification"][p] = record["qualification"][p]
        BY <1>0, <1>2, <3>1, ApprovalsLast DEF PromotedOK
      <4> QED BY <1>2, <1>4, <3>1, <4>1 DEF PromotedOK, QualifiedOK
    <3>2. CASE record["promotion"][p].status # "approved"
      <4>1. /\ Granted("promotion", p, record'["promotion"][p].by)
            /\ record'["qualification"][p] = record["qualification"][p]
            /\ lease' = lease
        BY <1>0, <2>1, <3>2, ApprovalsLast
      <4> QED BY <4>1 DEF Granted
    <3> QED BY <3>1, <3>2
  <2>2. ASSUME lease'[Promotion(p)].act # Nobody
        PROVE  record'["promotion"][p].status = "approved"
    <3>1. record["promotion"][p].status = "approved"
      BY <1>2, <1>3, <2>2, OnlySwitchesActivate DEF PromotedOK, Verified
    <3> QED BY <1>0, <3>1, ApprovalsLast
  <2> QED BY <2>1, <2>2 DEF PromotedOK
<1>7. HealthyOK(p)'
  <2>1. record'["health"][p].seen \subseteq Logged
    BY <1>0, <1>2, ApprovalsLast DEF HealthyOK
  <2>2. ASSUME record'["health"][p].status = "approved"
        PROVE  /\ lease'[Promotion(p)].act # Nobody
               /\ record'["health"][p].by \in Admins \ {lease'[Promotion(p)].act}
               /\ HealthState(record["health"][p].seen) = "healthy"
               /\ record'["health"][p].seen = record["health"][p].seen
    <3>1. CASE record["health"][p].status = "approved"
      BY <1>0, <1>1, <1>2, <1>3, <3>1, ApprovalsLast DEF HealthyOK
    <3>2. CASE record["health"][p].status # "approved"
      <4>1. /\ Granted("health", p, record'["health"][p].by)
            /\ record'["health"][p].seen = record["health"][p].seen
            /\ lease' = lease
        BY <1>0, <2>2, <3>2, ApprovalsLast
      <4> QED BY <4>1 DEF Granted
    <3> QED BY <3>1, <3>2
  <2>3. ASSUME record'["health"][p].status = "approved"
        PROVE  HealthState(record["health"][p].seen)' = "healthy"
    <3> DEFINE seen == record["health"][p].seen
    <3>1. /\ seen \in SUBSET Logged /\ HealthState(seen) = "healthy"
          /\ record'["health"][p].seen = seen
      BY <1>2, <2>2, <2>3 DEF HealthyOK
    <3>2. \A r \in seen : read'[r] = read[r]
      BY <1>1, <3>1
    <3> QED BY <3>1, <3>2 DEF HealthState
  <2> QED BY <1>1, <2>1, <2>2, <2>3 DEF HealthyOK
<1>8. RenewedOK(p)'
  <2>1. ASSUME record'["renewal"][p].status = "approved"
        PROVE  /\ record'["health"][p].status = "approved"
               /\ record'["renewal"][p].by
                    \in Admins \ {record'["health"][p].by, lease'[Promotion(p)].act}
    <3>1. CASE record["renewal"][p].status = "approved"
      <4>1. /\ record'["renewal"][p] = record["renewal"][p]
            /\ record'["health"][p] = record["health"][p]
            /\ lease'[Promotion(p)].act = lease[Promotion(p)].act
        BY <1>0, <1>1, <1>2, <1>3, <3>1, ApprovalsLast DEF RenewedOK, HealthyOK
      <4> QED BY <1>2, <3>1, <4>1 DEF RenewedOK
    <3>2. CASE record["renewal"][p].status # "approved"
      <4>1. /\ Granted("renewal", p, record'["renewal"][p].by)
            /\ record'["health"][p] = record["health"][p]
            /\ lease' = lease
        BY <1>0, <2>1, <3>2, ApprovalsLast
      <4> QED BY <4>1 DEF Granted
    <3> QED BY <3>1, <3>2
  <2>2. ASSUME lease'[Renewal(p)].act # Nobody
        PROVE  record'["renewal"][p].status = "approved"
    <3>1. record["renewal"][p].status = "approved"
      BY <1>2, <1>3, <2>2, OnlySwitchesActivate DEF RenewedOK, Verified
    <3> QED BY <1>0, <3>1, ApprovalsLast
  <2> QED BY <2>1, <2>2 DEF RenewedOK
<1> QED BY <1>5, <1>6, <1>7, <1>8

LEMMA InitChainInv == Init => ChainInv
BY DEF Init, ChainInv, LifeInv, QualifiedOK, PromotedOK, HealthyOK, RenewedOK, NoLease, NoRecord,
       Decisions, Leases

LEMMA ChainInvInvariant == Spec => [](RouteInv /\ ReadsOK /\ DecisionsOK /\ ChainInv)
<1> DEFINE Inv == RouteInv /\ ReadsOK /\ DecisionsOK /\ ChainInv
<1>1. Init => Inv
  BY InitRouteInv, InitReadsOK, InitDecisionsOK, InitChainInv
<1>2. Inv /\ [Next]_vars => Inv'
  BY RouteStepKeepsInv, StepsAreRouteSteps, ReadsStayOK, DecisionsStayOK, StepsAreChainSteps,
     ChainInvKept
<1> QED BY <1>1, <1>2, PTL DEF Spec

\* Three different members make a finite set one of three.
LEMMA ThreeMembers ==
  ASSUME NEW S, IsFiniteSet(S), NEW x \in S, NEW y \in S, NEW z \in S,
         x # y, x # z, y # z
  PROVE  Cardinality(S) >= 3
<1>1. IsFiniteSet({x}) /\ Cardinality({x}) = 1 /\ y \notin {x}
  BY FS_Singleton
<1>2. IsFiniteSet({x} \cup {y}) /\ Cardinality({x} \cup {y}) = Cardinality({x}) + 1
  BY <1>1, FS_AddElement
<1> DEFINE two == {x} \cup {y}
<1>3. z \notin two /\ two \cup {z} \in SUBSET S
  OBVIOUS
<1> HIDE DEF two
<1>4. IsFiniteSet(two \cup {z}) /\ Cardinality(two \cup {z}) = Cardinality(two) + 1
  <2>1. IsFiniteSet(two)
    BY <1>2 DEF two
  <2> QED BY <1>3, <2>1, FS_AddElement
<1>5. Cardinality(two \cup {z}) <= Cardinality(S) /\ Cardinality(S) \in Nat
  BY <1>3, FS_Subset, FS_CardinalityType
<1> QED BY <1>1, <1>2, <1>4, <1>5 DEF two

\* At least three Admins stand behind a durable route (the tests of the handlers
\* that exclude those who acted before, each with its own list of people).
THEOREM ThreeHandsAlways == Spec => []ThreeHands
<1>1. RouteInv /\ DecisionsOK /\ ChainInv => ThreeHands
  <2> SUFFICES ASSUME RouteInv, DecisionsOK, ChainInv,
                      route.owner # Local, route.owner[1] # "temporary_cutover"
               PROVE  Cardinality(Hands(route.owner)) >= 3
    BY DEF ThreeHands
  <2>1. /\ route.owner \in Leases /\ lease[route.owner].act # Nobody
    BY DEF RouteInv, RowsOK, OneAuthority, ChainInv, LifeInv
  <2>2. PICK p \in Pairs : route.owner = Promotion(p) \/ route.owner = Renewal(p)
    BY <2>1 DEF Leases
  <2>3. QualifiedOK(p) /\ PromotedOK(p) /\ HealthyOK(p) /\ RenewedOK(p) /\ LifeInv
    BY DEF ChainInv
  <2>4. PICK c, d \in p : c # d /\ p = {c, d}
    BY PairsAssumption
  <2>5. CASE route.owner = Promotion(p)
    <3> DEFINE x == lease[Cutover(c)].act
               y == record["qualification"][p].by
               z == record["promotion"][p].by
    <3>1. Hands(route.owner) = {lease[Cutover(e)].act : e \in p} \cup {y, z}
      BY <2>5 DEF Hands
    <3>2. {lease[Cutover(e)].act : e \in p} = {x, lease[Cutover(d)].act}
      BY <2>4
    <3>3. x # y /\ x # z /\ y # z
      BY <2>1, <2>3, <2>5 DEF QualifiedOK, PromotedOK
    <3>4. IsFiniteSet(Hands(route.owner))
      <4>1. Hands(route.owner) = {x, lease[Cutover(d)].act} \cup {y, z}
        BY <3>1, <3>2
      <4>2. /\ IsFiniteSet({x}) /\ IsFiniteSet({lease[Cutover(d)].act})
            /\ IsFiniteSet({y}) /\ IsFiniteSet({z})
        BY FS_Singleton
      <4>3. IsFiniteSet({x} \cup {lease[Cutover(d)].act}) /\ IsFiniteSet({y} \cup {z})
        BY <4>2, FS_Union
      <4>4. IsFiniteSet(({x} \cup {lease[Cutover(d)].act}) \cup ({y} \cup {z}))
        BY <4>3, FS_Union
      <4>5. ({x} \cup {lease[Cutover(d)].act}) \cup ({y} \cup {z})
              = {x, lease[Cutover(d)].act} \cup {y, z}
        OBVIOUS
      <4> QED BY <4>1, <4>4, <4>5
    <3>5. x \in Hands(route.owner) /\ y \in Hands(route.owner) /\ z \in Hands(route.owner)
      BY <3>1, <3>2
    <3> HIDE DEF x, y, z
    <3> QED BY <3>3, <3>4, <3>5, ThreeMembers
  <2>6. CASE route.owner = Renewal(p)
    <3> DEFINE x == lease[Promotion(p)].act
               y == record["health"][p].by
               z == record["renewal"][p].by
    <3>1. Hands(route.owner) = {x, y, z}
      BY <2>6 DEF Hands
    <3>2. x # y /\ x # z /\ y # z
      BY <2>1, <2>3, <2>6 DEF HealthyOK, RenewedOK
    <3>3. IsFiniteSet({x, y, z})
      <4>1. IsFiniteSet({x}) /\ IsFiniteSet({y}) /\ IsFiniteSet({z})
        BY FS_Singleton
      <4>2. IsFiniteSet(({x} \cup {y}) \cup {z})
        BY <4>1, FS_Union
      <4> QED BY <4>2, ({x} \cup {y}) \cup {z} = {x, y, z}
    <3> HIDE DEF x, y, z
    <3> QED BY <3>1, <3>2, <3>3, ThreeMembers
  <2> QED BY <2>2, <2>5, <2>6
<1> QED BY <1>1, ChainInvInvariant, PTL

\* A renewal is switched on only on evidence that is healthy to the last audit
\* row (the assessment is compared with the rows again at every later step).
THEOREM RenewalsFollowHealth == Spec => RenewalAfterHealthyWindow
<1>1. ASSUME RouteInv, ReadsOK, DecisionsOK, ChainInv, [Next]_vars, NEW p \in Pairs,
             lease[Renewal(p)].status = "prepared", lease'[Renewal(p)].status = "activated"
      PROVE  /\ HealthState(Evidence(p)) = "healthy"
             /\ \E r \in Evidence(p) : read[r].outcome = "verified"
  <2>1. ChainStep /\ LifeInv' /\ LifeInv
    BY <1>1, StepsAreChainSteps, RowsLast DEF ChainInv
  <2>2. Renewal(p) \in Leases
    BY LeasesOfKinds
  <2>3. lease[Renewal(p)].act = Nobody /\ lease'[Renewal(p)].act # Nobody
    BY <1>1, <2>1, <2>2 DEF LifeInv
  <2>4. Verified(Renewal(p))
    BY <1>1, <2>1, <2>2, <2>3, OnlySwitchesActivate
  <2>5. /\ record["health"][p].status = "approved"
        /\ record["health"][p].seen = Evidence(p)
        /\ \E r \in Evidence(p) : read[r].outcome = "verified"
    BY <2>4 DEF Verified
  <2> QED BY <1>1, <2>5 DEF ChainInv, HealthyOK
<1>2. RouteInv /\ ReadsOK /\ DecisionsOK /\ ChainInv /\ [Next]_vars
        => [\A p \in Pairs :
              (lease[Renewal(p)].status = "prepared" /\ lease'[Renewal(p)].status = "activated")
                => /\ HealthState(Evidence(p)) = "healthy"
                   /\ \E r \in Evidence(p) : read[r].outcome = "verified"]_vars
  BY <1>1
<1> QED BY <1>2, ChainInvInvariant, PTL DEF Spec, RenewalAfterHealthyWindow
-----------------------------------------------------------------------------
(* The receipts tell the history of the route: windows that open and close  *)
(* in turn, each closed by the end of the lease that opened it.             *)

\* The version of the route counts its receipts.
VersionCounts ==
  /\ route.version = 0 => moves = <<>> /\ \A l \in Leases : lease[l].status = "none"
  /\ route.version > 0 => Len(moves) = route.version - 1

Windows ==
  /\ \A i \in 1..Len(moves) :
       /\ i % 2 = 1 <=> moves[i].phase = "activated"
       /\ i % 2 = 0 => /\ moves[i].lease = moves[i - 1].lease
                       /\ lease[moves[i].lease].status = moves[i].phase
  /\ Len(moves) % 2 = 1 => route.owner = moves[Len(moves)].lease
  /\ Len(moves) % 2 = 0 => route.owner = Local

\* What the rows say of the past is in the receipts.
Recorded ==
  /\ \A l \in Leases : lease[l].status = "rolled_back" =>
       \E i \in 1..Len(moves) : i % 2 = 0 /\ moves[i].lease = l
  /\ \A p \in Pairs : lease[Promotion(p)].act # Nobody =>
       /\ lease[Promotion(p)].version \in 1..Len(moves)
       /\ moves[lease[Promotion(p)].version] = [lease |-> Promotion(p), phase |-> "activated"]

\* The promotions among the receipts are where their qualifications were asked for.
Unmoved ==
  \A p \in Pairs, i \in 1..Len(moves) :
    moves[i] = [lease |-> Promotion(p), phase |-> "activated"] =>
      /\ record["qualification"][p].status = "approved"
      /\ record["qualification"][p].version = i

HistoryInv == VersionCounts /\ Windows /\ Recorded /\ Unmoved

Receipt == [lease : Leases, phase : {"activated", "rolled_back", "expired"}]

\* A receipt more leaves the receipts before it as they were.
LEMMA OneMoreReceipt ==
  ASSUME moves \in Seq(Receipt), NEW m \in Receipt, moves' = Append(moves, m)
  PROVE  /\ Len(moves') = Len(moves) + 1
         /\ moves'[Len(moves) + 1] = m
         /\ \A i \in 1..Len(moves) : moves'[i] = moves[i]
         /\ \A i \in 1..Len(moves') : i \in 1..Len(moves) \/ i = Len(moves) + 1
         /\ Len(moves) \in Nat
BY AppendProperties DEF Receipt

\* The receipts of windows are of leases that have ended.
LEMMA ClosedWindows ==
  ASSUME moves \in Seq(Receipt), Windows, NEW i \in 1..Len(moves), i % 2 = 0
  PROVE  /\ moves[i].lease \in Leases
         /\ lease[moves[i].lease].status \in {"rolled_back", "expired"}
<1>1. moves[i] \in Receipt
  BY ElementOfSeq
<1> QED BY <1>1 DEF Windows, Receipt

LEMMA PreparationKeepsHistory ==
  ASSUME RouteInv, moves \in Seq(Receipt), ChainInv, HistoryInv, PreparesLease
  PROVE  HistoryInv'
<1>1. PICK l \in Leases, a \in Admins, v \in Nat :
        /\ Prepare(l, a, v)
        /\ \/ route.version > 0 /\ UNCHANGED route
           \/ route.version = 0 /\ route.owner = Local /\ route' = [route EXCEPT !.version = 1]
  BY DEF PreparesLease
<1>2. /\ lease[l].status = "none" /\ UNCHANGED <<record, moves>>
      /\ lease' = [lease EXCEPT ![l] = [status |-> "prepared", prep |-> a, act |-> Nobody,
                                        version |-> v]]
  BY <1>1 DEF Prepare
<1>3. route'.owner = route.owner /\ route' \in [owner : Leases \cup {Local}, version : Nat]
  BY <1>1 DEF RouteInv, RowsOK
<1>4. VersionCounts'
  <2>1. CASE route.version > 0 /\ UNCHANGED route
    BY <1>2, <2>1 DEF HistoryInv, VersionCounts
  <2>2. CASE route.version = 0 /\ route' = [route EXCEPT !.version = 1]
    <3>1. moves = <<>> /\ route'.version = 1
      BY <2>2 DEF HistoryInv, VersionCounts, RouteInv, RowsOK
    <3> QED BY <1>2, <3>1 DEF VersionCounts
  <2> QED BY <1>1, <2>1, <2>2
<1>5. Windows'
  <2>1. ASSUME NEW i \in 1..Len(moves), i % 2 = 0
        PROVE  lease'[moves[i].lease] = lease[moves[i].lease]
    BY <1>2, <2>1, ClosedWindows DEF HistoryInv, RouteInv, RowsOK
  <2> QED BY <1>2, <1>3, <2>1 DEF HistoryInv, Windows
<1>6. Recorded'
  <2>1. \A k \in Leases : lease'[k].status = "rolled_back" => lease[k].status = "rolled_back"
    BY <1>2 DEF RouteInv, RowsOK
  <2>2. \A p \in Pairs : lease'[Promotion(p)].act # Nobody
                           => lease'[Promotion(p)] = lease[Promotion(p)]
    BY <1>2, LeasesOfKinds DEF RouteInv, RowsOK
  <2> QED BY <1>2, <2>1, <2>2 DEF HistoryInv, Recorded
<1>7. Unmoved'
  BY <1>2 DEF HistoryInv, Unmoved
<1> QED BY <1>4, <1>5, <1>6, <1>7 DEF HistoryInv

LEMMA SwitchKeepsHistory ==
  ASSUME RouteInv, moves \in Seq(Receipt), ChainInv, HistoryInv, SwitchesRoute
  PROVE  HistoryInv'
<1>1. PICK l \in Leases, a \in Admins :
        /\ lease[l].status = "prepared" /\ route.owner = Local /\ Verified(l)
        /\ SwitchTo(l, a) /\ UNCHANGED record
  BY DEF SwitchesRoute
<1> DEFINE m == [lease |-> l, phase |-> "activated"]
<1>2. /\ lease' = [lease EXCEPT ![l].status = "activated", ![l].act = a]
      /\ route' = [owner |-> l, version |-> route.version + 1]
      /\ moves' = Append(moves, m)
  BY <1>1 DEF SwitchTo, Moved
<1>3. m \in Receipt
  BY DEF Receipt
<1>4. /\ Len(moves') = Len(moves) + 1 /\ Len(moves) \in Nat
      /\ moves'[Len(moves) + 1] = m
      /\ \A i \in 1..Len(moves) : moves'[i] = moves[i]
      /\ \A i \in 1..Len(moves') : i \in 1..Len(moves) \/ i = Len(moves) + 1
  BY <1>2, <1>3, OneMoreReceipt
<1>5. route.version > 0 /\ Len(moves) = route.version - 1 /\ route.version \in Nat
  BY <1>1 DEF HistoryInv, VersionCounts, RouteInv, RowsOK
<1>6. Len(moves) % 2 = 0
  <2>1. CASE Len(moves) % 2 = 1
    <3>1. Len(moves) \in 1..Len(moves)
      BY <1>4, <2>1
    <3>2. moves[Len(moves)] \in Receipt
      BY <3>1, ElementOfSeq
    <3>3. moves[Len(moves)].lease \in Leases
      BY <3>2 DEF Receipt
    <3>4. route.owner = moves[Len(moves)].lease
      BY <2>1 DEF HistoryInv, Windows
    <3> QED BY <1>1, <3>3, <3>4, LocalAssumption
  <2> QED BY <1>4, <2>1
<1>7. VersionCounts'
  BY <1>2, <1>4, <1>5 DEF VersionCounts
<1>8. Windows'
  <2>1. ASSUME NEW i \in 1..Len(moves), i % 2 = 0
        PROVE  lease'[moves[i].lease] = lease[moves[i].lease]
    BY <1>1, <1>2, <2>1, ClosedWindows DEF HistoryInv, RouteInv, RowsOK
  <2>2. ASSUME NEW i \in 1..Len(moves')
        PROVE  /\ i % 2 = 1 <=> moves'[i].phase = "activated"
               /\ i % 2 = 0 => /\ moves'[i].lease = moves'[i - 1].lease
                               /\ lease'[moves'[i].lease].status = moves'[i].phase
    <3>1. CASE i \in 1..Len(moves)
      <4>1. i % 2 = 0 => i - 1 \in 1..Len(moves)
        BY <1>4, <3>1
      <4> QED BY <1>4, <2>1, <3>1, <4>1 DEF HistoryInv, Windows
    <3>2. CASE i = Len(moves) + 1
      <4>1. i % 2 = 1
        BY <1>4, <1>6, <3>2
      <4>2. moves'[i].phase = "activated"
        BY <1>4, <3>2
      <4> QED BY <4>1, <4>2
    <3> QED BY <1>4, <3>1, <3>2
  <2>3. Len(moves') % 2 = 1
    BY <1>4, <1>6
  <2>4. moves'[Len(moves')].lease = l /\ route'.owner = l
    BY <1>2, <1>4
  <2> QED BY <2>2, <2>3, <2>4 DEF Windows
<1>9. Recorded'
  <2>1. \A k \in Leases : lease'[k].status = "rolled_back" => lease[k].status = "rolled_back"
    BY <1>2 DEF RouteInv, RowsOK
  <2>2. ASSUME NEW k \in Leases, lease'[k].status = "rolled_back"
        PROVE  \E i \in 1..Len(moves') : i % 2 = 0 /\ moves'[i].lease = k
    <3>1. PICK i \in 1..Len(moves) : i % 2 = 0 /\ moves[i].lease = k
      BY <2>1, <2>2 DEF HistoryInv, Recorded
    <3>2. i \in 1..Len(moves') /\ moves'[i].lease = k
      BY <1>4, <3>1
    <3> QED BY <3>1, <3>2
  <2>3. ASSUME NEW p \in Pairs, lease'[Promotion(p)].act # Nobody
        PROVE  /\ lease'[Promotion(p)].version \in 1..Len(moves')
               /\ moves'[lease'[Promotion(p)].version]
                    = [lease |-> Promotion(p), phase |-> "activated"]
    <3>0. Promotion(p) \in Leases
      BY LeasesOfKinds
    <3>1. CASE l = Promotion(p)
      <4>0. lease[l].version = route.version
        BY <1>1, <3>1 DEF Verified
      <4>1. lease'[Promotion(p)].version = Len(moves) + 1
        BY <1>2, <1>5, <3>0, <3>1, <4>0 DEF RouteInv, RowsOK
      <4> QED BY <1>4, <3>1, <4>1
    <3>2. CASE l # Promotion(p)
      <4>1. lease'[Promotion(p)] = lease[Promotion(p)]
        BY <1>2, <3>0, <3>2 DEF RouteInv, RowsOK
      <4>2. /\ lease[Promotion(p)].version \in 1..Len(moves)
            /\ moves[lease[Promotion(p)].version] = [lease |-> Promotion(p), phase |-> "activated"]
        BY <2>3, <4>1 DEF HistoryInv, Recorded
      <4> QED BY <1>4, <4>1, <4>2
    <3> QED BY <3>1, <3>2
  <2> QED BY <2>2, <2>3 DEF Recorded
<1>10. Unmoved'
  <2> SUFFICES ASSUME NEW p \in Pairs, NEW i \in 1..Len(moves'),
                      moves'[i] = [lease |-> Promotion(p), phase |-> "activated"]
               PROVE  /\ record["qualification"][p].status = "approved"
                      /\ record["qualification"][p].version = i
    BY <1>1 DEF Unmoved
  <2>1. CASE i \in 1..Len(moves)
    BY <1>4, <2>1 DEF HistoryInv, Unmoved
  <2>2. CASE i = Len(moves) + 1
    <3>1. l = Promotion(p)
      BY <1>4, <2>2
    <3> QED BY <1>1, <1>5, <2>2, <3>1 DEF Verified
  <2> QED BY <1>4, <2>1, <2>2
<1> QED BY <1>7, <1>8, <1>9, <1>10 DEF HistoryInv

LEMMA RestoreKeepsHistory ==
  ASSUME RouteInv, moves \in Seq(Receipt), ChainInv, HistoryInv, RestoresRoute
  PROVE  HistoryInv'
<1>1. PICK l \in Leases, s \in {"rolled_back", "expired"} : Restore(l, s)
  BY DEF RestoresRoute
<1> DEFINE m == [lease |-> l, phase |-> s]
<1>2. /\ lease[l].status = "activated" /\ route.owner = l
      /\ lease' = [lease EXCEPT ![l].status = s]
      /\ route' = [owner |-> Local, version |-> route.version + 1]
      /\ moves' = Append(moves, m) /\ UNCHANGED record
  BY <1>1 DEF Restore, SetStatus, Moved
<1>3. m \in Receipt
  BY DEF Receipt
<1>4. /\ Len(moves') = Len(moves) + 1 /\ Len(moves) \in Nat
      /\ moves'[Len(moves) + 1] = m
      /\ \A i \in 1..Len(moves) : moves'[i] = moves[i]
      /\ \A i \in 1..Len(moves') : i \in 1..Len(moves) \/ i = Len(moves) + 1
  BY <1>2, <1>3, OneMoreReceipt
<1>5. route.version > 0 /\ Len(moves) = route.version - 1 /\ route.version \in Nat
  BY <1>2 DEF HistoryInv, VersionCounts, RouteInv, RowsOK
<1>6. Len(moves) % 2 = 1 /\ moves[Len(moves)].lease = l
  BY <1>2, <1>4, LocalAssumption DEF HistoryInv, Windows
<1>7. VersionCounts'
  BY <1>2, <1>4, <1>5 DEF VersionCounts
<1>8. Windows'
  <2>1. ASSUME NEW i \in 1..Len(moves), i % 2 = 0
        PROVE  lease'[moves[i].lease] = lease[moves[i].lease]
    BY <1>2, <2>1, ClosedWindows DEF HistoryInv, RouteInv, RowsOK
  <2>2. ASSUME NEW i \in 1..Len(moves')
        PROVE  /\ i % 2 = 1 <=> moves'[i].phase = "activated"
               /\ i % 2 = 0 => /\ moves'[i].lease = moves'[i - 1].lease
                               /\ lease'[moves'[i].lease].status = moves'[i].phase
    <3>1. CASE i \in 1..Len(moves)
      <4>1. i % 2 = 0 => i - 1 \in 1..Len(moves)
        BY <1>4, <3>1
      <4> QED BY <1>4, <2>1, <3>1, <4>1 DEF HistoryInv, Windows
    <3>2. CASE i = Len(moves) + 1
      <4>1. i % 2 = 0 /\ i - 1 = Len(moves) /\ Len(moves) \in 1..Len(moves)
        BY <1>4, <1>6, <3>2
      <4>2. moves'[i] = m /\ moves'[i - 1].lease = l
        BY <1>4, <1>6, <3>2, <4>1
      <4>3. lease'[l].status = s
        BY <1>2 DEF RouteInv, RowsOK
      <4> QED BY <4>1, <4>2, <4>3
    <3> QED BY <1>4, <3>1, <3>2
  <2>3. Len(moves') % 2 = 0
    BY <1>4, <1>6
  <2>4. route'.owner = Local
    BY <1>2
  <2> QED BY <2>2, <2>3, <2>4 DEF Windows
<1>9. Recorded'
  <2>1. ASSUME NEW k \in Leases, lease'[k].status = "rolled_back"
        PROVE  \E i \in 1..Len(moves') : i % 2 = 0 /\ moves'[i].lease = k
    <3>1. CASE k = l
      <4>1. (Len(moves) + 1) % 2 = 0 /\ Len(moves) + 1 \in 1..Len(moves')
        BY <1>4, <1>6
      <4> QED BY <1>4, <3>1, <4>1
    <3>2. CASE k # l
      <4>1. lease[k].status = "rolled_back"
        BY <1>2, <2>1, <3>2 DEF RouteInv, RowsOK
      <4>2. PICK i \in 1..Len(moves) : i % 2 = 0 /\ moves[i].lease = k
        BY <4>1 DEF HistoryInv, Recorded
      <4>3. i \in 1..Len(moves') /\ moves'[i].lease = k
        BY <1>4, <4>2
      <4> QED BY <4>2, <4>3
    <3> QED BY <3>1, <3>2
  <2>2. ASSUME NEW p \in Pairs, lease'[Promotion(p)].act # Nobody
        PROVE  /\ lease'[Promotion(p)].version \in 1..Len(moves')
               /\ moves'[lease'[Promotion(p)].version]
                    = [lease |-> Promotion(p), phase |-> "activated"]
    <3>1. /\ lease'[Promotion(p)].act = lease[Promotion(p)].act
          /\ lease'[Promotion(p)].version = lease[Promotion(p)].version
      BY <1>2, LeasesOfKinds DEF RouteInv, RowsOK
    <3>2. /\ lease[Promotion(p)].version \in 1..Len(moves)
          /\ moves[lease[Promotion(p)].version] = [lease |-> Promotion(p), phase |-> "activated"]
      BY <2>2, <3>1 DEF HistoryInv, Recorded
    <3> QED BY <1>4, <3>1, <3>2
  <2> QED BY <2>1, <2>2 DEF Recorded
<1>10. Unmoved'
  <2> SUFFICES ASSUME NEW p \in Pairs, NEW i \in 1..Len(moves'),
                      moves'[i] = [lease |-> Promotion(p), phase |-> "activated"]
               PROVE  /\ record["qualification"][p].status = "approved"
                      /\ record["qualification"][p].version = i
    BY <1>2 DEF Unmoved
  <2>1. i # Len(moves) + 1
    BY <1>4
  <2> QED BY <1>4, <2>1 DEF HistoryInv, Unmoved
<1> QED BY <1>7, <1>8, <1>9, <1>10 DEF HistoryInv

LEMMA HistoryKept ==
  ASSUME RouteInv, ReadsOK, DecisionsOK, ChainInv, HistoryInv, ChainStep
  PROVE  HistoryInv'
<1>0. moves \in Seq(Receipt)
  BY DEF ReadsOK, Receipt
<1>1. CASE GivesLeaseUp
  <2>1. PICK l \in Leases, s \in {"expired", "invalidated"} :
          lease[l].status = "prepared" /\ GiveUp(l, s) /\ UNCHANGED record
    BY <1>1 DEF GivesLeaseUp
  <2>2. /\ lease' = [lease EXCEPT ![l].status = s] /\ UNCHANGED <<route, moves, record>>
    BY <2>1 DEF GiveUp, SetStatus
  <2>3. ASSUME NEW i \in 1..Len(moves), i % 2 = 0
        PROVE  lease'[moves[i].lease] = lease[moves[i].lease]
    BY <1>0, <2>1, <2>2, <2>3, ClosedWindows DEF HistoryInv, RouteInv, RowsOK
  <2>4. VersionCounts'
    BY <2>1, <2>2 DEF HistoryInv, VersionCounts, RouteInv, RowsOK
  <2>5. Windows'
    BY <2>2, <2>3 DEF HistoryInv, Windows
  <2>6. Recorded'
    <3>1. \A k \in Leases : /\ lease'[k].status = "rolled_back" => lease[k].status = "rolled_back"
                            /\ lease'[k].act = lease[k].act
                            /\ lease'[k].version = lease[k].version
      BY <2>2 DEF RouteInv, RowsOK
    <3> QED BY <2>2, <3>1, LeasesOfKinds DEF HistoryInv, Recorded
  <2>7. Unmoved'
    BY <2>2 DEF HistoryInv, Unmoved
  <2> QED BY <2>4, <2>5, <2>6, <2>7 DEF HistoryInv
<1>2. CASE AsksFor \/ Settles \/ Elsewhere
  <2>1. UNCHANGED <<route, lease, moves>>
    BY <1>2 DEF AsksFor, Ask, Settles, Settle, Elsewhere
  <2>2. \A p \in Pairs : record["qualification"][p].status = "approved"
                           => record'["qualification"][p] = record["qualification"][p]
    BY ApprovalsLast DEF Decisions
  <2>3. VersionCounts' /\ Windows' /\ Recorded'
    BY <2>1 DEF HistoryInv, VersionCounts, Windows, Recorded
  <2>4. Unmoved'
    BY <2>1, <2>2 DEF HistoryInv, Unmoved
  <2> QED BY <2>3, <2>4 DEF HistoryInv
<1> QED BY <1>0, <1>1, <1>2, PreparationKeepsHistory, SwitchKeepsHistory, RestoreKeepsHistory
        DEF ChainStep

LEMMA InitHistory == Init => HistoryInv
<1> SUFFICES ASSUME Init PROVE HistoryInv
  OBVIOUS
<1>1. moves = <<>> /\ Len(moves) = 0 /\ route = [owner |-> Local, version |-> 0]
  BY DEF Init
<1>2. \A l \in Leases : lease[l].status = "none" /\ lease[l].act = Nobody
  BY DEF Init, NoLease
<1>3. VersionCounts
  BY <1>1, <1>2 DEF VersionCounts
<1>4. Windows
  BY <1>1 DEF Windows
<1>5. Recorded
  BY <1>2, LeasesOfKinds DEF Recorded
<1>6. Unmoved
  BY <1>1 DEF Unmoved
<1> QED BY <1>3, <1>4, <1>5, <1>6 DEF HistoryInv

LEMMA HistoryInvariant ==
  Spec => [](RouteInv /\ ReadsOK /\ DecisionsOK /\ ChainInv /\ HistoryInv)
<1>1. RouteInv /\ ReadsOK /\ DecisionsOK /\ ChainInv /\ HistoryInv /\ [Next]_vars => HistoryInv'
  BY StepsAreChainSteps, HistoryKept
<1> QED BY InitHistory, <1>1, ChainInvInvariant, PTL DEF Spec

\* Nothing moves the route between the request to qualify two cutovers and the
\* promotion that rests on them (promotion preflight against the pinned version).
THEOREM PromotionsOnUnmovedRoute == Spec => []PromotionOnUnmovedRoute
<1>1. HistoryInv => PromotionOnUnmovedRoute
  BY DEF HistoryInv, Unmoved, PromotionOnUnmovedRoute
<1> QED BY <1>1, HistoryInvariant, PTL
-----------------------------------------------------------------------------
(* The ladder: the windows that have closed are the past of ReadLadder.     *)

LEMMA Halves ==
  /\ \A n \in Nat : n \div 2 \in Nat /\ 2 * (n \div 2) <= n
  /\ \A n \in Nat : n % 2 = 0 => 2 * (n \div 2) = n /\ (n + 1) \div 2 = n \div 2
  /\ \A n \in Nat : n % 2 = 1 => (n + 1) \div 2 = (n \div 2) + 1 /\ 2 * ((n \div 2) + 1) = n + 1
  /\ \A i \in Nat : (2 * i) % 2 = 0
<1>1. \A n \in Nat : n \div 2 \in Nat /\ 2 * (n \div 2) <= n
  OBVIOUS
<1>2. \A n \in Nat : n % 2 = 0 => 2 * (n \div 2) = n /\ (n + 1) \div 2 = n \div 2
  OBVIOUS
<1>3. \A n \in Nat : n % 2 = 1 => (n + 1) \div 2 = (n \div 2) + 1 /\ 2 * ((n \div 2) + 1) = n + 1
  OBVIOUS
<1>4. \A i \in Nat : (2 * i) % 2 = 0
  OBVIOUS
<1> QED BY <1>1, <1>2, <1>3, <1>4

\* The end of a window is an even receipt.
LEMMA Even ==
  ASSUME NEW n \in Nat, NEW i \in 1..(n \div 2)
  PROVE  2 * i \in 1..n /\ (2 * i) % 2 = 0
<1>1. n \div 2 \in Nat /\ 2 * (n \div 2) <= n
  BY Halves
<1>2. i \in Nat /\ 1 <= i /\ i <= n \div 2
  BY <1>1
<1>3. 2 * i \in Nat /\ 1 <= 2 * i /\ 2 * i <= n
  BY <1>1, <1>2
<1> QED BY <1>2, <1>3, Halves

LEMMA PastOfLeases ==
  ASSUME moves \in Seq(Receipt)
  PROVE  /\ Past \in Seq(Leases) /\ Len(Past) = Len(moves) \div 2
         /\ \A i \in 1..(Len(moves) \div 2) : Past[i] = moves[2 * i].lease
<1>1. Len(moves) \in Nat /\ Len(moves) \div 2 \in Nat
  BY Halves, LenProperties
<1>2. ASSUME NEW i \in 1..(Len(moves) \div 2) PROVE moves[2 * i].lease \in Leases
  <2>1. moves[2 * i] \in Receipt
    BY <1>1, Even, ElementOfSeq
  <2> QED BY <2>1 DEF Receipt
<1>3. Past \in [1..(Len(moves) \div 2) -> Leases]
  BY <1>2 DEF Past
<1>4. Past \in Seq(Leases) /\ Len(Past) = Len(moves) \div 2
  BY <1>1, <1>3, IsASeq, LenProperties
<1> QED BY <1>4 DEF Past

\* What has ended is spent, and only that.
LEMMA SpentLeases ==
  ASSUME moves \in Seq(Receipt), HistoryInv
  PROVE  /\ \A l \in Ladder!Spent : lease[l].status \in {"rolled_back", "expired"}
         /\ \A l \in Leases : lease[l].status = "rolled_back" => l \in Ladder!Spent
<1> DEFINE half == Len(moves) \div 2
<1>0. Len(moves) \in Nat /\ half \in Nat
  BY Halves, LenProperties
<1>1. /\ Len(Past) = half
      /\ \A i \in 1..half : Past[i] = moves[2 * i].lease
  BY PastOfLeases
<1>2. ASSUME NEW i \in 1..half PROVE lease[Past[i]].status \in {"rolled_back", "expired"}
  <2>1. 2 * i \in 1..Len(moves) /\ (2 * i) % 2 = 0
    BY <1>0, Even
  <2> QED BY <1>1, <2>1, ClosedWindows DEF HistoryInv
<1>3. ASSUME NEW l \in Leases, lease[l].status = "rolled_back"
      PROVE  \E i \in 1..half : Past[i] = l
  <2>1. PICK j \in 1..Len(moves) : j % 2 = 0 /\ moves[j].lease = l
    BY <1>3 DEF HistoryInv, Recorded
  <2>2. j \div 2 \in 1..half /\ 2 * (j \div 2) = j
    BY <1>0, <2>1
  <2> QED BY <1>1, <2>1, <2>2
<1> HIDE DEF half
<1> QED BY <1>1, <1>2, <1>3 DEF Ladder!Spent

LEMMA SwitchesOpen ==
  ASSUME RouteInv, moves \in Seq(Receipt), ChainInv, HistoryInv, SwitchesRoute
  PROVE  Ladder!Next
<1> DEFINE half == Len(moves) \div 2
<1>1. PICK l \in Leases, a \in Admins :
        /\ lease[l].status = "prepared" /\ route.owner = Local /\ Verified(l)
        /\ SwitchTo(l, a)
  BY DEF SwitchesRoute
<1> DEFINE m == [lease |-> l, phase |-> "activated"]
<1>2. /\ route' = [owner |-> l, version |-> route.version + 1]
      /\ moves' = Append(moves, m)
  BY <1>1 DEF SwitchTo, Moved
<1>3. m \in Receipt
  BY DEF Receipt
<1>4. /\ Len(moves') = Len(moves) + 1 /\ Len(moves) \in Nat
      /\ \A i \in 1..Len(moves) : moves'[i] = moves[i]
  BY <1>2, <1>3, OneMoreReceipt
<1>5. route.version \in Nat /\ route.version > 0 /\ Len(moves) = route.version - 1
  BY <1>1 DEF HistoryInv, VersionCounts, RouteInv, RowsOK
<1>6. Len(moves) % 2 = 0
  <2>1. CASE Len(moves) % 2 = 1
    <3>1. Len(moves) \in 1..Len(moves)
      BY <1>4, <2>1
    <3>2. moves[Len(moves)] \in Receipt
      BY <3>1, ElementOfSeq
    <3>3. moves[Len(moves)].lease \in Leases
      BY <3>2 DEF Receipt
    <3>4. route.owner = moves[Len(moves)].lease
      BY <2>1 DEF HistoryInv, Windows
    <3> QED BY <1>1, <3>3, <3>4, LocalAssumption
  <2> QED BY <1>4, <2>1
<1>7. Past' = Past
  <2>1. Len(moves') \div 2 = half
    BY <1>4, <1>6, Halves
  <2>2. \A i \in 1..half : moves'[2 * i].lease = moves[2 * i].lease
    BY <1>4, Even
  <2> HIDE DEF half
  <2>3. Past' = [i \in 1..half |-> moves'[2 * i].lease]
    BY <2>1 DEF Past
  <2>4. Past = [i \in 1..half |-> moves[2 * i].lease]
    BY DEF Past, half
  <2> QED BY <2>2, <2>3, <2>4
<1>8. l \notin Ladder!Spent
  BY <1>1, SpentLeases
<1>9. Ladder!Stands(l)
  <2>1. ASSUME NEW p \in Pairs, l = Promotion(p)
        PROVE  {"temporary_cutover"} \X l[2] \subseteq Ladder!Spent
    <3>1. l[2] = p /\ \A c \in p : lease[Cutover(c)].status = "rolled_back"
      BY <1>1, <2>1 DEF Verified
    <3>2. \A c \in p : Cutover(c) \in Leases
      BY PairsAssumption DEF Leases
    <3>3. \A c \in p : Cutover(c) \in Ladder!Spent
      BY <3>1, <3>2, SpentLeases
    <3> QED BY <3>1, <3>3
  <2>2. ASSUME NEW p \in Pairs, l = Renewal(p)
        PROVE  Past # <<>> /\ Past[Len(Past)] = <<"durable_promotion", l[2]>>
    <3> DEFINE v == lease[Promotion(p)].version
    <3>1. lease[Promotion(p)].act # Nobody /\ route.version = v + 2
      BY <1>1, <2>2 DEF Verified
    <3>2. v \in 1..Len(moves) /\ moves[v] = [lease |-> Promotion(p), phase |-> "activated"]
      BY <3>1 DEF HistoryInv, Recorded
    <3> HIDE DEF v
    <3>3. Len(moves) = v + 1 /\ v \in Nat
      BY <1>5, <3>1, <3>2
    <3>4. Len(moves) \in 1..Len(moves) /\ Len(moves) - 1 = v
      BY <1>4, <3>3
    <3>5. moves[Len(moves)].lease = moves[Len(moves) - 1].lease
      BY <1>6, <3>4 DEF HistoryInv, Windows
    <3>6. moves[Len(moves)].lease = Promotion(p)
      BY <3>2, <3>4, <3>5
    <3>7. half \in 1..half /\ 2 * half = Len(moves)
      <4>1. 2 * half = Len(moves) /\ half \in Nat
        BY <1>4, <1>6, Halves
      <4>2. half > 0
        BY <3>3, <4>1
      <4> QED BY <4>1, <4>2
    <3>8. Len(Past) = half /\ Past[half] = moves[2 * half].lease
      BY <3>7, PastOfLeases
    <3> HIDE DEF half
    <3>9. Past # <<>>
      BY <3>7, <3>8
    <3> QED BY <2>2, <3>6, <3>7, <3>8, <3>9
  <2>3. CASE \E c \in Cutovers : l = Cutover(c)
    BY <2>3 DEF Ladder!Stands
  <2>4. CASE \E p \in Pairs : l = Promotion(p)
    BY <2>1, <2>4 DEF Ladder!Stands
  <2>5. CASE \E p \in Pairs : l = Renewal(p)
    BY <2>2, <2>5 DEF Ladder!Stands
  <2> QED BY <2>3, <2>4, <2>5 DEF Leases
<1>10. Ladder!Open(l)
  BY <1>1, <1>2, <1>7, <1>8, <1>9 DEF Ladder!Open
<1> QED BY <1>10 DEF Ladder!Next, Ladder!Leases, Leases

LEMMA RestoresClose ==
  ASSUME RouteInv, moves \in Seq(Receipt), HistoryInv, RestoresRoute
  PROVE  Ladder!Next
<1> DEFINE half == Len(moves) \div 2
<1>1. PICK l \in Leases, s \in {"rolled_back", "expired"} : Restore(l, s)
  BY DEF RestoresRoute
<1> DEFINE m == [lease |-> l, phase |-> s]
<1>2. /\ route.owner = l
      /\ route' = [owner |-> Local, version |-> route.version + 1]
      /\ moves' = Append(moves, m)
  BY <1>1 DEF Restore, Moved
<1>3. m \in Receipt
  BY DEF Receipt
<1>4. /\ Len(moves') = Len(moves) + 1 /\ Len(moves) \in Nat
      /\ moves'[Len(moves) + 1] = m
      /\ \A i \in 1..Len(moves) : moves'[i] = moves[i]
  BY <1>2, <1>3, OneMoreReceipt
<1>5. Len(moves) % 2 = 1
  BY <1>2, <1>4, LocalAssumption DEF HistoryInv, Windows
<1>6. Len(moves') \div 2 = half + 1 /\ 2 * (half + 1) = Len(moves) + 1 /\ half \in Nat
  BY <1>4, <1>5, Halves
<1>7. Past' = Append(Past, route.owner)
  <2>1. /\ Past \in Seq(Leases) /\ Len(Past) = half
        /\ \A i \in 1..half : Past[i] = moves[2 * i].lease
    BY PastOfLeases
  <2>2. Past' = [i \in 1..(half + 1) |-> moves'[2 * i].lease]
    BY <1>6 DEF Past
  <2>3. \A i \in 1..half : moves'[2 * i].lease = moves[2 * i].lease
    BY <1>4, Even
  <2>4. moves'[2 * (half + 1)].lease = l
    BY <1>4, <1>6
  <2> HIDE DEF half
  <2>5. /\ Append(Past, l) \in Seq(Leases) /\ Len(Append(Past, l)) = half + 1
        /\ \A i \in 1..half : Append(Past, l)[i] = Past[i]
        /\ Append(Past, l)[half + 1] = l
    BY <2>1, AppendProperties
  <2>6. \A i \in 1..(half + 1) : moves'[2 * i].lease = Append(Past, l)[i]
    <3>1. TAKE i \in 1..(half + 1)
    <3>2. CASE i = half + 1
      BY <2>4, <2>5, <3>2
    <3>3. CASE i # half + 1
      <4>1. i \in 1..half
        BY <1>6, <3>3 DEF half
      <4> QED BY <2>1, <2>3, <2>5, <4>1
    <3> QED BY <3>2, <3>3
  <2>7. Past' \in [1..(half + 1) -> Leases]
    <3>1. \A i \in 1..(half + 1) : Append(Past, l)[i] \in Leases
      BY <2>5, ElementOfSeq
    <3> QED BY <2>2, <2>6, <3>1
  <2>8. Past' \in Seq(Leases) /\ Len(Past') = half + 1
    BY <1>6, <2>7, IsASeq, LenProperties DEF half
  <2>9. \A i \in 1..(half + 1) : Past'[i] = Append(Past, l)[i]
    BY <2>2, <2>6
  <2> QED BY <1>2, <2>5, <2>8, <2>9, SeqEqual
<1>8. Ladder!Close
  BY <1>2, <1>7, LocalAssumption DEF Ladder!Close
<1> QED BY <1>8 DEF Ladder!Next

\* The route keeps to the ladder: one owner at a time, no lease twice, a promotion
\* on two finished cutovers, a renewal directly on its promotion (the handlers
\* that switch the route, none of which sees the receipts).
THEOREM LadderIsKept == Spec => LadderSpec
<1>1. Init => Ladder!Init
  <2> SUFFICES ASSUME Init PROVE Ladder!Init
    OBVIOUS
  <2>1. moves = <<>> /\ moves \in Seq(Receipt) /\ Len(moves) = 0 /\ route.owner = Local
    BY DEF Init
  <2>2. Past \in Seq(Leases) /\ Len(Past) = 0 \div 2
    BY <2>1, PastOfLeases
  <2>3. Past = <<>>
    BY <2>2, EmptySeq
  <2> QED BY <2>1, <2>3 DEF Ladder!Init
<1>2. RouteInv /\ ReadsOK /\ DecisionsOK /\ ChainInv /\ HistoryInv /\ [Next]_vars
        => [Ladder!Next]_(Ladder!vars)
  <2> SUFFICES ASSUME RouteInv, ReadsOK, DecisionsOK, ChainInv, HistoryInv, [Next]_vars
               PROVE  Ladder!Next \/ UNCHANGED <<route.owner, Past>>
    BY DEF Ladder!vars
  <2>1. ChainStep /\ moves \in Seq(Receipt)
    BY StepsAreChainSteps DEF ReadsOK, Receipt
  <2>2. ASSUME moves' = moves PROVE Past' = Past
    BY <2>2 DEF Past
  <2>3. CASE PreparesLease
    <3>1. moves' = moves /\ route'.owner = route.owner
      BY <2>3 DEF PreparesLease, Prepare, RouteInv, RowsOK
    <3> QED BY <2>2, <3>1
  <2>4. CASE GivesLeaseUp
    BY <2>2, <2>4 DEF GivesLeaseUp, GiveUp
  <2>5. CASE AsksFor \/ Settles \/ Elsewhere
    BY <2>2, <2>5 DEF AsksFor, Ask, Settles, Settle, Elsewhere
  <2> QED BY <2>1, <2>3, <2>4, <2>5, SwitchesOpen, RestoresClose DEF ChainStep
<1> QED BY <1>1, <1>2, HistoryInvariant, PTL DEF Spec, LadderSpec, Ladder!Spec
=============================================================================
