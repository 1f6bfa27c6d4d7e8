----------------------------- MODULE ReadRoute ------------------------------
(***************************************************************************)
(* The recovery read route of one document (recovery_*.py of documents/):  *)
(* temporary cutovers, their qualification, the durable promotion, the     *)
(* health of its window, and its renewal, with the downloads that follow   *)
(* the route meanwhile.                                                    *)
(*                                                                         *)
(* A route row names the one lease that serves reads, or the local source; *)
(* every switch adds one to its version. Each lease and each decision is a *)
(* row of its own, approved by an Admin other than those before; a row is  *)
(* bound to the route version of the moment it was asked for. Requests of  *)
(* Admins are single transactions that lock their row and then the route.  *)
(* A download reads the route, then the lease, then the replica, and locks *)
(* nothing; its audit row is the evidence of the window's health.          *)
(***************************************************************************)
EXTENDS Naturals, Sequences, FiniteSets

CONSTANTS Admins,           \* Admins of the organization
          Cutovers,         \* approved cutover authorizations, each for one lease
          Pairs,            \* the pairs of cutovers somebody asks to qualify
          Readers,          \* downloads of the document
          CutoverApprover,  \* the Admin who approved the cutover authorizations
          Duty,             \* who in this organization performs which duty
          MaxFaults,        \* bound on the failures of the recovery storage
          MaxLapses,        \* bound on the windows that pass unused
          FirstRead,        \* bound: moves of the route before the first download
          Local, Nobody

Duties == {"prepare", "activate", "renew", "request", "qualify", "approve"}

ASSUME PairsAssumption == /\ Pairs \subseteq SUBSET Cutovers
                          /\ \A p \in Pairs : \E c, d \in p : c # d /\ p = {c, d}
ASSUME PeopleAssumption == /\ CutoverApprover \in Admins
                           /\ Duty \in [Duties -> SUBSET Admins]
                           /\ Nobody \notin Admins
ASSUME BoundsAssumption == {MaxFaults, MaxLapses, FirstRead} \subseteq Nat

Cutover(c) == <<"temporary_cutover", c>>
Promotion(p) == <<"durable_promotion", p>>
Renewal(p) == <<"durable_renewal", p>>
Leases == ({"temporary_cutover"} \X Cutovers)
              \cup ({"durable_promotion", "durable_renewal"} \X Pairs)

ASSUME LocalAssumption == Local \notin Leases

\* The decisions before and after a promotion, in their order.
Decisions == {"qualification", "promotion", "health", "renewal"}

VARIABLES route,     \* the route row: who serves reads, and its version (0: no row yet)
          lease,     \* the lease rows
          record,    \* the decision rows, one per kind and pair
          moves,     \* the receipts of the switches, oldest first
          late,      \* windows that have passed, of leases and of decisions
          replica,   \* the object in the recovery bucket
          faults,    \* failures of the storage so far
          read       \* the downloads

vars == <<route, lease, record, moves, late, replica, faults, read>>

NoLease == [status |-> "none", prep |-> Nobody, act |-> Nobody, version |-> 0]
NoRecord == [status |-> "none", req |-> Nobody, by |-> Nobody, version |-> 0, seen |-> {}]
NoRead == [pc |-> "idle", began |-> 0, owner |-> Local, outcome |-> "none", counts |-> FALSE]

Outcomes == {"none", "local", "verified", "integrity_or_lineage", "route_expired",
             "storage_unavailable"}

TypeOK ==
  /\ route \in [owner : Leases \cup {Local}, version : Nat]
  /\ lease \in [Leases -> [status : {"none", "prepared", "activated", "rolled_back",
                                     "expired", "invalidated"},
                           prep : Admins \cup {Nobody}, act : Admins \cup {Nobody},
                           version : Nat]]
  /\ record \in [Decisions -> [Pairs -> [status : {"none", "pending", "approved", "degraded",
                                                   "rejected", "expired", "invalidated"},
                                         req : Admins \cup {Nobody}, by : Admins \cup {Nobody},
                                         version : Nat, seen : SUBSET Readers]]]
  /\ moves \in Seq([lease : Leases, phase : {"activated", "rolled_back", "expired"}])
  /\ late \subseteq Leases \cup (Decisions \X Pairs)
  /\ replica \in {"intact", "altered", "down"}
  /\ faults \in 0..MaxFaults
  /\ read \in [Readers -> [pc : {"idle", "begun", "routed", "leased", "answered", "logged"},
                           began : Nat, owner : Leases \cup {Local}, outcome : Outcomes,
                           counts : BOOLEAN]]

Init ==
  /\ route = [owner |-> Local, version |-> 0]
  /\ lease = [l \in Leases |-> NoLease]
  /\ record = [d \in Decisions |-> [p \in Pairs |-> NoRecord]]
  /\ moves = <<>>
  /\ late = {}
  /\ replica = "intact"
  /\ faults = 0
  /\ read = [r \in Readers |-> NoRead]
-----------------------------------------------------------------------------
(* Preflights: what a handler verifies afresh, "ok", "conflict" or          *)
(* "unavailable", in the order of its checks.                               *)

Require(holds) == IF holds THEN "ok" ELSE "conflict"
AndThen(first, second) == IF first = "ok" THEN second ELSE first

\* The bytes of the replica against the pinned hash.
Candidate == CASE replica = "intact" -> "ok"
               [] replica = "altered" -> "conflict"
               [] replica = "down" -> "unavailable"

Clean == route.version > 0 /\ route.owner = Local

\* Mutant: a cutover that only expired counts as a finished cycle.
MutQualificationPreflight(p) ==
  Require(Clean /\ \A c \in p : lease[Cutover(c)].status \in {"rolled_back", "expired"})

\* Both cycles of a pair ended in a rollback, on a route that is local now.
QualificationPreflight(p) ==
  Require(Clean /\ \A c \in p : lease[Cutover(c)].status = "rolled_back")

\* Mutant: the route may have moved since the qualification.
MutPromotionPreflight(p) ==
  AndThen(Require(/\ record["qualification"][p].status = "approved"
                  /\ QualificationPreflight(p) = "ok"),
          Candidate)

PromotionPreflight(p) ==
  LET q == record["qualification"][p]
  IN  AndThen(Require(/\ q.status = "approved"
                      /\ QualificationPreflight(p) = "ok"
                      /\ route.version = q.version),
              Candidate)

PromotionLeasePreflight(p) ==
  LET a == record["promotion"][p]
  IN  AndThen(Require(a.status = "approved" /\ <<"promotion", p>> \notin late),
              AndThen(PromotionPreflight(p), Require(route.version = a.version)))

\* The audit rows that a health assessment of the window finds.
Evidence(p) == {r \in Readers : /\ read[r].pc = "logged"
                                /\ read[r].owner = Promotion(p)
                                /\ read[r].counts}

HealthState(seen) ==
  IF \E r \in seen : read[r].outcome = "integrity_or_lineage" THEN "failed"
  ELSE IF \E r \in seen : read[r].outcome = "storage_unavailable" THEN "degraded"
  ELSE "healthy"

\* The window ended where the route stands now, and a read was verified in it.
HealthPreflight(p) ==
  LET l == lease[Promotion(p)]
  IN  AndThen(Require(/\ l.status \in {"rolled_back", "expired"}
                      /\ l.act # Nobody
                      /\ Clean
                      /\ route.version = l.version + 2),
              AndThen(Candidate,
                      Require(\E r \in Evidence(p) : read[r].outcome = "verified")))

\* A decision still rests on the evidence and the route it was asked for.
Matches(d, p) == /\ record[d][p].version = route.version
                 /\ record[d][p].seen = Evidence(p)

\* Mutant: the evidence of the health assessment is not compared again.
MutRenewalPreflight(p) ==
  AndThen(Require(record["health"][p].status = "approved"), HealthPreflight(p))

RenewalPreflight(p) ==
  AndThen(Require(record["health"][p].status = "approved"),
          AndThen(HealthPreflight(p), Require(Matches("health", p))))

RenewalLeasePreflight(p) ==
  AndThen(Require(record["renewal"][p].status = "approved" /\ <<"renewal", p>> \notin late),
          AndThen(RenewalPreflight(p), Require(Matches("renewal", p))))
-----------------------------------------------------------------------------
(* Rows.                                                                    *)

SetStatus(l, status) == lease' = [lease EXCEPT ![l].status = status]

Prepare(l, a, version) ==
  /\ a \in Duty["prepare"]
  /\ lease[l].status = "none"
  /\ lease' = [lease EXCEPT ![l] = [status |-> "prepared", prep |-> a, act |-> Nobody,
                                    version |-> version]]
  /\ UNCHANGED <<record, moves, late, replica, faults, read>>

Moved(l, phase) == moves' = Append(moves, [lease |-> l, phase |-> phase])

\* The switch to the replica: the lease and the route in one transaction.
SwitchTo(l, a) ==
  /\ lease' = [lease EXCEPT ![l].status = "activated", ![l].act = a]
  /\ route' = [owner |-> l, version |-> route.version + 1]
  /\ Moved(l, "activated")

\* A prepared lease that will not be activated any more; the route stays.
GiveUp(l, status) == SetStatus(l, status) /\ UNCHANGED <<route, moves>>

\* The switch back to the local source.
Restore(l, status) ==
  /\ lease[l].status = "activated"
  /\ route.owner = l
  /\ SetStatus(l, status)
  /\ route' = [owner |-> Local, version |-> route.version + 1]
  /\ Moved(l, status)
  /\ UNCHANGED <<record, late, replica, faults, read>>

Ask(d, p, a, seen) ==
  /\ a \in Duty["request"]
  /\ record' = [record EXCEPT ![d][p] = [status |-> "pending", req |-> a, by |-> Nobody,
                                         version |-> route.version, seen |-> seen]]
  /\ UNCHANGED <<route, lease, moves, late, replica, faults, read>>

Settle(d, p, status, a) ==
  /\ record[d][p].status = "pending"
  /\ record' = [record EXCEPT ![d][p].status = status, ![d][p].by = a]
  /\ UNCHANGED <<route, lease, moves, late, replica, faults, read>>

Reject(d, p) == Settle(d, p, "rejected", Nobody)
-----------------------------------------------------------------------------
(* Temporary cutovers.                                                      *)

\* The first preparation creates the route row.
PrepareCutover(c, a) ==
  /\ Candidate = "ok"
  /\ route.owner = Local
  /\ Prepare(Cutover(c), a, 0)
  /\ route' = IF route.version = 0 THEN [route EXCEPT !.version = 1] ELSE route

\* Mutant: a cutover is activated over the owner of the route.
MutActivateCutover(c, a) ==
  LET l == Cutover(c)
  IN  /\ a \in Duty["activate"] \ {lease[l].prep, CutoverApprover}
      /\ lease[l].status = "prepared"
      /\ l \notin late /\ Candidate = "ok" /\ SwitchTo(l, a)
      /\ UNCHANGED <<record, late, replica, faults, read>>

ActivateCutover(c, a) ==
  LET l == Cutover(c)
  IN  /\ a \in Duty["activate"] \ {lease[l].prep, CutoverApprover}
      /\ lease[l].status = "prepared"
      /\ route.owner = Local
      /\ \/ l \in late /\ GiveUp(l, "expired")
         \/ l \notin late /\ Candidate = "conflict" /\ GiveUp(l, "invalidated")
         \/ l \notin late /\ Candidate = "ok" /\ SwitchTo(l, a)
      /\ UNCHANGED <<record, late, replica, faults, read>>

RollbackCutover(c) == Restore(Cutover(c), "rolled_back")

RequestQualification(p, a) ==
  /\ QualificationPreflight(p) = "ok"
  /\ \/ /\ record["qualification"][p].status = "none"
        /\ Ask("qualification", p, a, {})
     \/ /\ record["qualification"][p].version # route.version
        /\ Settle("qualification", p, "invalidated", Nobody)

Qualify(p, a) ==
  LET q == record["qualification"][p]
      holds == QualificationPreflight(p) = "ok" /\ q.version = route.version
  IN  /\ a \in Duty["qualify"] \ ({q.req} \cup {lease[Cutover(c)].act : c \in p})
      /\ IF holds THEN Settle("qualification", p, "approved", a)
                  ELSE Settle("qualification", p, "invalidated", Nobody)

RejectQualification(p) == Reject("qualification", p)
-----------------------------------------------------------------------------
(* The durable promotion.                                                   *)

RequestPromotion(p, a) ==
  /\ PromotionPreflight(p) = "ok"
  /\ record["promotion"][p].status = "none"
  /\ Ask("promotion", p, a, {})

\* Mutant: who qualified the cutovers may approve the promotion.
MutApprovePromotion(p, a) ==
  LET r == record["promotion"][p]
  IN  IF <<"promotion", p>> \in late
      THEN a \in Duty["approve"] /\ Settle("promotion", p, "expired", Nobody)
      ELSE /\ a \in Duty["approve"] \ ({r.req} \cup {lease[Cutover(c)].act : c \in p})
           /\ IF PromotionPreflight(p) = "ok" /\ r.version = route.version
              THEN Settle("promotion", p, "approved", a)
              ELSE Settle("promotion", p, "invalidated", Nobody)

\* An unavailable replica invalidates the request like a conflict does.
ApprovePromotion(p, a) ==
  LET r == record["promotion"][p]
  IN  IF <<"promotion", p>> \in late
      THEN a \in Duty["approve"] /\ Settle("promotion", p, "expired", Nobody)
      ELSE /\ a \in Duty["approve"] \ ({r.req, record["qualification"][p].by}
                                           \cup {lease[Cutover(c)].act : c \in p})
           /\ IF PromotionPreflight(p) = "ok" /\ r.version = route.version
              THEN Settle("promotion", p, "approved", a)
              ELSE Settle("promotion", p, "invalidated", Nobody)

RejectPromotion(p) == Reject("promotion", p)

PreparePromotion(p, a) ==
  /\ PromotionLeasePreflight(p) = "ok"
  /\ Prepare(Promotion(p), a, route.version)
  /\ UNCHANGED route

\* While another lease owns the route, nothing changes.
ActivatePromotion(p, a) ==
  LET l == Promotion(p)
      verdict == AndThen(PromotionLeasePreflight(p), Require(lease[l].version = route.version))
  IN  /\ a \in Duty["activate"] \ {lease[l].prep, record["promotion"][p].by}
      /\ lease[l].status = "prepared"
      /\ Clean
      /\ \/ <<"promotion", p>> \in late /\ GiveUp(l, "expired")
         \/ <<"promotion", p>> \notin late /\ verdict = "conflict" /\ GiveUp(l, "invalidated")
         \/ verdict = "ok" /\ SwitchTo(l, a)
      /\ UNCHANGED <<record, late, replica, faults, read>>

RollbackPromotion(p) == Restore(Promotion(p), "rolled_back")

ReconcilePromotion(p) == Promotion(p) \in late /\ Restore(Promotion(p), "expired")
-----------------------------------------------------------------------------
(* The health of a promotion's window.                                      *)

RequestHealth(p, a) ==
  /\ HealthPreflight(p) = "ok"
  /\ \/ record["health"][p].status = "none" /\ Ask("health", p, a, Evidence(p))
     \/ ~Matches("health", p) /\ Settle("health", p, "invalidated", Nobody)

QualifyHealth(p, a) ==
  LET verdict == AndThen(HealthPreflight(p), Require(Matches("health", p)))
  IN  /\ a \in Duty["qualify"] \ {record["health"][p].req, lease[Promotion(p)].act}
      /\ \/ verdict = "conflict" /\ Settle("health", p, "invalidated", Nobody)
         \/ /\ verdict = "ok"
            /\ Settle("health", p,
                      IF HealthState(record["health"][p].seen) = "healthy"
                      THEN "approved" ELSE "degraded", a)

RejectHealth(p) == Reject("health", p)
-----------------------------------------------------------------------------
(* The renewal.                                                             *)

RequestRenewal(p, a) ==
  /\ RenewalPreflight(p) = "ok"
  /\ record["renewal"][p].status = "none"
  /\ Ask("renewal", p, a, Evidence(p))

ApproveRenewal(p, a) ==
  LET r == record["renewal"][p]
      verdict == AndThen(RenewalPreflight(p), Require(Matches("renewal", p)))
  IN  IF <<"renewal", p>> \in late
      THEN a \in Duty["approve"] /\ Settle("renewal", p, "expired", Nobody)
      ELSE /\ a \in Duty["approve"] \ {r.req, record["health"][p].by, lease[Promotion(p)].act}
           /\ \/ verdict = "conflict" /\ Settle("renewal", p, "invalidated", Nobody)
              \/ verdict = "ok" /\ Settle("renewal", p, "approved", a)

RejectRenewal(p) == Reject("renewal", p)

PrepareRenewal(p, a) ==
  /\ RenewalLeasePreflight(p) = "ok"
  /\ Prepare(Renewal(p), a, route.version)
  /\ UNCHANGED route

\* A renewal gives up whoever owns the route.
ActivateRenewal(p, a) ==
  LET l == Renewal(p)
      verdict == AndThen(RenewalLeasePreflight(p), Require(lease[l].version = route.version))
  IN  /\ a \in Duty["renew"] \ {lease[l].prep, record["renewal"][p].by,
                                lease[Promotion(p)].act}
      /\ lease[l].status = "prepared"
      /\ \/ <<"renewal", p>> \in late /\ GiveUp(l, "expired")
         \/ <<"renewal", p>> \notin late /\ verdict = "conflict" /\ GiveUp(l, "invalidated")
         \/ verdict = "ok" /\ SwitchTo(l, a)
      /\ UNCHANGED <<record, late, replica, faults, read>>

RollbackRenewal(p) == Restore(Renewal(p), "rolled_back")

ReconcileRenewal(p) == Renewal(p) \in late /\ Restore(Renewal(p), "expired")
-----------------------------------------------------------------------------
(* Downloads.                                                               *)

\* The transaction starts: its time is the time of the audit row.
Begin(r) ==
  /\ read[r].pc = "idle" /\ Len(moves) >= FirstRead
  /\ read' = [read EXCEPT ![r].pc = "begun", ![r].began = Len(moves)]
  /\ UNCHANGED <<route, lease, record, moves, late, replica, faults>>

Answer(r, outcome) == read' = [read EXCEPT ![r].pc = "answered", ![r].outcome = outcome]

\* The only read of the route; a local route is served from the file store.
ReadRouteRow(r) ==
  /\ read[r].pc = "begun"
  /\ read' = [read EXCEPT ![r].owner = route.owner,
                          ![r].pc = IF route.owner = Local THEN "answered" ELSE "routed",
                          ![r].outcome = IF route.owner = Local THEN "local" ELSE "none"]
  /\ UNCHANGED <<route, lease, record, moves, late, replica, faults>>

\* Mutant: only the window of the lease is looked at.
MutReadLease(r) ==
  /\ read[r].pc = "routed"
  /\ IF read[r].owner \in late THEN Answer(r, "route_expired")
                               ELSE read' = [read EXCEPT ![r].pc = "leased"]
  /\ UNCHANGED <<route, lease, record, moves, late, replica, faults>>

\* A lease that ended meanwhile looks inconsistent with the route read before.
ReadLease(r) ==
  LET l == read[r].owner
  IN  /\ read[r].pc = "routed"
      /\ \/ lease[l].status # "activated" /\ Answer(r, "integrity_or_lineage")
         \/ lease[l].status = "activated" /\ l \in late /\ Answer(r, "route_expired")
         \/ /\ lease[l].status = "activated"
            /\ l \notin late
            /\ read' = [read EXCEPT ![r].pc = "leased"]
      /\ UNCHANGED <<route, lease, record, moves, late, replica, faults>>

ReadReplica(r) ==
  /\ read[r].pc = "leased"
  /\ Answer(r, CASE Candidate = "ok" -> "verified"
                 [] Candidate = "conflict" -> "integrity_or_lineage"
                 [] Candidate = "unavailable" -> "storage_unavailable")
  /\ UNCHANGED <<route, lease, record, moves, late, replica, faults>>

\* The receipt of a lease's activation.
ActivatedAt(l) == CHOOSE i \in 1..Len(moves) :
                     moves[i].lease = l /\ moves[i].phase = "activated"

\* The audit row is committed. It falls in the window if the transaction began
\* after the switch, or in the same second.
LogRead(r) ==
  LET l == read[r].owner
  IN  /\ read[r].pc = "answered"
      /\ \E sameSecond \in BOOLEAN :
           read' = [read EXCEPT ![r].pc = "logged",
                      ![r].counts = l # Local /\ (read[r].began >= ActivatedAt(l) \/ sameSecond)]
      /\ UNCHANGED <<route, lease, record, moves, late, replica, faults>>
-----------------------------------------------------------------------------
(* Time and storage.                                                        *)

\* A window passes that something still waits for.
Lapse(w) ==
  /\ w \notin late /\ Cardinality(late) < MaxLapses
  /\ \/ w \in Leases /\ lease[w].status \in {"prepared", "activated"}
     \/ /\ w \in {"promotion", "renewal"} \X Pairs
        /\ record[w[1]][w[2]].status \in {"pending", "approved"}
  /\ late' = late \cup {w}
  /\ UNCHANGED <<route, lease, record, moves, replica, faults, read>>

Fault(to) ==
  /\ replica = "intact" /\ faults < MaxFaults
  /\ replica' = to
  /\ faults' = faults + 1
  /\ UNCHANGED <<route, lease, record, moves, late, read>>

Repair ==
  /\ replica # "intact"
  /\ replica' = "intact"
  /\ UNCHANGED <<route, lease, record, moves, late, faults, read>>

CutoverStep(a) == \E c \in Cutovers : PrepareCutover(c, a) \/ ActivateCutover(c, a)
                                          \/ RollbackCutover(c)
QualificationStep(p, a) == RequestQualification(p, a) \/ Qualify(p, a) \/ RejectQualification(p)
PromotionStep(p, a) == \/ RequestPromotion(p, a) \/ ApprovePromotion(p, a) \/ RejectPromotion(p)
                       \/ PreparePromotion(p, a) \/ ActivatePromotion(p, a)
                       \/ RollbackPromotion(p) \/ ReconcilePromotion(p)
HealthStep(p, a) == RequestHealth(p, a) \/ QualifyHealth(p, a) \/ RejectHealth(p)
RenewalStep(p, a) == \/ RequestRenewal(p, a) \/ ApproveRenewal(p, a) \/ RejectRenewal(p)
                     \/ PrepareRenewal(p, a) \/ ActivateRenewal(p, a)
                     \/ RollbackRenewal(p) \/ ReconcileRenewal(p)
Download(r) == Begin(r) \/ ReadRouteRow(r) \/ ReadLease(r) \/ ReadReplica(r) \/ LogRead(r)

Next ==
  \/ \E a \in Admins : \/ CutoverStep(a)
                       \/ \E p \in Pairs : \/ QualificationStep(p, a) \/ PromotionStep(p, a)
                                           \/ HealthStep(p, a) \/ RenewalStep(p, a)
  \/ \E r \in Readers : Download(r)
  \/ \E w \in Leases \cup (Decisions \X Pairs) : Lapse(w)
  \/ \E to \in {"altered", "down"} : Fault(to)
  \/ Repair

Spec == Init /\ [][Next]_vars
-----------------------------------------------------------------------------
(* Properties.                                                              *)

\* The lease tables and the route row agree at every moment: the lease that the
\* route names is activated, and no other lease of any kind is. The tables have
\* no common constraint; each handler looks at the route and at its own lease.
OneAuthority ==
  {l \in Leases : lease[l].status = "activated"} = {route.owner} \ {Local}

\* A durable promotion or renewal is in force at exactly one version after the
\* one it was prepared for, so a download never finds its route inconsistent
\* (the version test of _validate_active_durable_read always holds).
ActiveLeaseFits ==
  (route.owner # Local /\ route.owner[1] # "temporary_cutover")
     => route.version = lease[route.owner].version + 1

\* What holds of the route at every moment: well-formed rows, one lease in force,
\* and one that fits the version it was prepared for.
AuthorityInv == TypeOK /\ OneAuthority /\ ActiveLeaseFits

\* Nothing has moved the route between the request to qualify two cutovers and
\* the switch of the promotion that rests on them: the switch is the next move.
PromotionOnUnmovedRoute ==
  \A p \in Pairs, i \in 1..Len(moves) :
    moves[i] = [lease |-> Promotion(p), phase |-> "activated"]
       => record["qualification"][p].version = i

\* A renewal is switched on only when all that is known by then of the window
\* before it is healthy, audit rows that came after its assessment included.
RenewalAfterHealthyWindow ==
  [][\A p \in Pairs :
       (lease[Renewal(p)].status = "prepared" /\ lease'[Renewal(p)].status = "activated")
         => /\ HealthState(Evidence(p)) = "healthy"
            /\ \E r \in Evidence(p) : read[r].outcome = "verified"]_vars

\* A download that goes on to the replica holds the lease that owns the route at
\* that moment, within its window, although it does not read the route again.
ReplicaReadsAreLicensed ==
  [][\A r \in Readers :
       (read[r].pc = "routed" /\ read'[r].pc = "leased")
         => route.owner = read[r].owner /\ route.owner \notin late]_vars

\* The Admins whose decisions a durable owner of the route rests on.
Hands(l) ==
  LET p == l[2]
  IN  IF l[1] = "durable_promotion"
      THEN {lease[Cutover(c)].act : c \in p}
             \cup {record["qualification"][p].by, record["promotion"][p].by}
      ELSE {lease[Promotion(p)].act, record["health"][p].by, record["renewal"][p].by}

\* At least three Admins stand behind a durable route, however they share the
\* steps of the chain between them.
ThreeHands ==
  (route.owner # Local /\ route.owner[1] # "temporary_cutover")
     => Cardinality(Hands(route.owner)) >= 3

\* The leases that have ended, for the promise of ReadLadder: every second receipt
\* is the end of the window that the one before it opened.
Past == [i \in 1..(Len(moves) \div 2) |-> moves[2 * i].lease]

Ladder == INSTANCE ReadLadder WITH owner <- route.owner, past <- Past

\* The route keeps to the ladder: one owner at a time, no lease twice, a promotion
\* on two finished cutovers, a renewal directly on its promotion.
LadderSpec == Ladder!Spec

\* What ADR-175 says of a failed window: verified reads and at least one integrity
\* or lineage failure. Storage that never failed gives no such failure.
WindowsFailOnFaults ==
  faults = 0 => \A p \in Pairs : HealthState(Evidence(p)) = "healthy"

\* What ADR-173 says of an outage of the recovery storage at the approval: the
\* request stays, and only drift invalidates it.
OutageIsRetryable ==
  [][\A p \in Pairs :
       (/\ record["promotion"][p].status = "pending"
        /\ record'["promotion"][p].status = "invalidated")
          => replica = "altered" \/ route.version # record["promotion"][p].version]_vars
=============================================================================
