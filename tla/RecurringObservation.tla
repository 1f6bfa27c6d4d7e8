------------------------ MODULE RecurringObservation ------------------------
(***************************************************************************)
(* Recurring observation of external evidence.  An administrator gives an  *)
(* evidence family a schedule; each cadence makes one tick due.  A         *)
(* scheduler process turns due ticks into dispatches, service workers turn *)
(* dispatches into observations of the remote item, an operator may        *)
(* observe a tick by hand, and a projector hands changes to reviewers.     *)
(*                                                                         *)
(* The family's binding row is the lock: whoever holds it decides and      *)
(* commits.  What was read before the lock was taken may be old, and the   *)
(* session keeps returning it.  The clock counts cadences.                 *)
(***************************************************************************)
EXTENDS Naturals, Sequences, FiniteSets, SequencesExt

CONSTANTS
    Families,       \* family bindings, numbered in the order of their ids
    Providers,      \* the providers a family may have
    Workers,        \* observation workers of the one service executor
    Humans,
    Results,        \* what a provider read may find
    Events,         \* what else may happen, see below
    CandidateLimit, \* candidate_limit of the scheduler and of the workers
    MaxTick,        \* bound: clock
    MaxRevision,    \* bound: schedules of one family
    MaxVersion,     \* bound: documents of one family
    None

ASSUME ObservationAssumption ==
    /\ Families \subseteq Nat /\ IsFiniteSet(Families)
    /\ Providers \subseteq {"sharepoint", "sftp"}
    /\ Results \subseteq {"unchanged", "changed", "missing"}
    /\ Events \subseteq {"replace", "disable", "admit", "upload", "refresh",
                         "baseline", "delete", "outage"}
    /\ CandidateLimit \in Nat \ {0}
    /\ {MaxTick, MaxRevision} \subseteq Nat /\ MaxVersion \in Nat \ {0}
    /\ None \notin Families

VARIABLES
    clock,
    provider,   \* [Families -> the provider of the family], never changed
    schedules,  \* [Families -> sequence of schedule revisions]
    versions,   \* [Families -> sequence of documents of the family]
    deleted,    \* the families whose current document was deleted
    observed,   \* due-tick observations, in the order of their commits
    dispatched, \* due-tick dispatches
    consumed,   \* consumptions of dispatches
    handoffs,   \* observations handed to reviewers
    scheduler,  \* the iteration of the scheduler process
    worker,     \* [Workers -> the iteration of an observation worker]
    human       \* [Humans -> the execution an operator has under way]

vars == <<clock, provider, schedules, versions, deleted, observed, dispatched, consumed,
          handoffs, scheduler, worker, human>>

family == <<provider, versions, deleted>>
rows == <<observed, dispatched, consumed, handoffs>>
processes == <<scheduler, worker, human>>

Revisions == 1..MaxRevision
Ticks == 0..MaxTick
Schedule == [effective : Ticks, status : {"active", "disabled"}]

\* kind: the lineage a version has.  origin: for a refreshed version, the
\* schedule revision whose observation it came from.  baseline: the recurring
\* baseline transition was established.
Version ==
    [kind : {"initial", "admitted", "uploaded", "refreshed"},
     origin : 0..MaxRevision, baseline : BOOLEAN]

Dispatch == [family : Families, rev : Revisions, due : Ticks, version : 1..MaxVersion]
Observation ==
    [family : Families, rev : Revisions, due : Ticks, version : 1..MaxVersion,
     actor : {"human", "service"}, result : Results]
Consumption == [dispatch : Dispatch, observation : Observation,
                status : {"executed", "linked_existing"}]

\* live: the schedule was active when the process loaded it.
Iteration == [queue : Seq(Families \X Revisions), live : BOOLEAN]
WorkerState == [queue : Seq(Dispatch), holding : Dispatch \cup {None}, live : BOOLEAN]
HumanState == [family : Families \cup {None}, rev : 0..MaxRevision]

Waiting == [queue |-> <<>>, live |-> FALSE]
Idle == [queue |-> <<>>, holding |-> None, live |-> FALSE]
NoRequest == [family |-> None, rev |-> 0]

TypeOK ==
    /\ clock \in Ticks
    /\ provider \in [Families -> Providers]
    /\ schedules \in [Families -> Seq(Schedule)]
    /\ versions \in [Families -> Seq(Version)]
    /\ \A f \in Families : /\ Len(schedules[f]) <= MaxRevision
                           /\ Len(versions[f]) \in 1..MaxVersion
    /\ deleted \subseteq Families
    /\ observed \in Seq(Observation)
    /\ dispatched \subseteq Dispatch
    /\ consumed \subseteq Consumption
    /\ handoffs \subseteq Range(observed)
    /\ scheduler \in Iteration
    /\ worker \in [Workers -> WorkerState]
    /\ human \in [Humans -> HumanState]

Init ==
    /\ clock = 0
    /\ provider \in [Families -> Providers]
    /\ schedules = [f \in Families |-> <<>>]
    /\ versions = [f \in Families |->
                     <<[kind |-> "initial", origin |-> 0, baseline |-> FALSE]>>]
    /\ deleted = {}
    /\ observed = <<>>
    /\ dispatched = {} /\ consumed = {} /\ handoffs = {}
    /\ scheduler = Waiting
    /\ worker = [w \in Workers |-> Idle]
    /\ human = [h \in Humans |-> NoRequest]

-----------------------------------------------------------------------------
\* Schedules.

Active(f, r) == r \in DOMAIN schedules[f] /\ schedules[f][r].status = "active"
Scheduled(f) == \E r \in DOMAIN schedules[f] : Active(f, r)
Current(f) == Len(versions[f])

\* The binding lock is refused unless the family has one current document.
Bound(f) == f \notin deleted

NewSchedule(e) == [effective |-> e, status |-> "active"]

Disabled(s) == [s EXCEPT !.status = "disabled"]

\* Without an effective time a schedule takes effect at once.
Authorize(f, e) ==
    /\ Bound(f)
    /\ ~Scheduled(f)
    /\ Len(schedules[f]) < MaxRevision
    /\ e \in {clock, clock + 1} \cap Ticks
    /\ schedules' = [schedules EXCEPT ![f] = Append(@, NewSchedule(e))]
    /\ UNCHANGED <<clock, family, rows, processes>>

Disable(f) ==
    /\ "disable" \in Events
    /\ Bound(f)
    /\ \E r \in DOMAIN schedules[f] :
          /\ Active(f, r)
          /\ schedules' = [schedules EXCEPT ![f][r] = Disabled(@)]
    /\ UNCHANGED <<clock, family, rows, processes>>

\* Mutant: a replacement leaves the revision it replaces active.
MutReplaced(s, r, e) == Append(s, NewSchedule(e))
Replaced(s, r, e) == Append([s EXCEPT ![r] = Disabled(@)], NewSchedule(e))

Replace(f, e) ==
    /\ "replace" \in Events
    /\ Bound(f)
    /\ Len(schedules[f]) < MaxRevision
    /\ e \in {clock, clock + 1} \cap Ticks
    /\ \E r \in DOMAIN schedules[f] :
          /\ Active(f, r)
          /\ schedules' = [schedules EXCEPT ![f] = Replaced(@, r, e)]
    /\ UNCHANGED <<clock, family, rows, processes>>

-----------------------------------------------------------------------------
\* The family's documents.

\* The source state a version is compared with.  An uploaded version has no
\* lineage; a refreshed one has one only for SFTP, once a person established
\* it, and while the schedule it came from is active.
Baseline(f, v) ==
    LET d == versions[f][v] IN
    \/ d.kind \in {"initial", "admitted"}
    \/ d.kind = "refreshed" /\ provider[f] = "sftp" /\ d.baseline /\ Active(f, d.origin)

NewVersion(f, kind, r) ==
    /\ Bound(f)
    /\ Current(f) < MaxVersion
    /\ versions' = [versions EXCEPT ![f] =
                      Append(@, [kind |-> kind, origin |-> r, baseline |-> FALSE])]
    /\ UNCHANGED <<clock, provider, schedules, deleted, rows, processes>>

\* A later version found by checkpointed change detection is admitted.
AdmitVersion(f) == "admit" \in Events /\ provider[f] # "sftp" /\ NewVersion(f, "admitted", 0)

\* A person uploads a replacement of the current document.
UploadVersion(f) == "upload" \in Events /\ NewVersion(f, "uploaded", 0)

\* A reviewer approved the change and the refreshed bytes were admitted.
Refresh(o) ==
    /\ "refresh" \in Events
    /\ o \in handoffs
    /\ o.result = "changed"
    /\ o.version = Current(o.family)
    /\ Baseline(o.family, o.version)
    /\ NewVersion(o.family, "refreshed", o.rev)

EstablishBaseline(f) ==
    LET v == Current(f) IN
    /\ "baseline" \in Events
    /\ Bound(f)
    /\ provider[f] = "sftp"
    /\ versions[f][v].kind = "refreshed"
    /\ ~versions[f][v].baseline
    /\ Active(f, versions[f][v].origin)
    /\ versions' = [versions EXCEPT ![f][v].baseline = TRUE]
    /\ UNCHANGED <<clock, provider, schedules, deleted, rows, processes>>

DeleteDocument(f) ==
    /\ "delete" \in Events
    /\ f \notin deleted
    /\ deleted' = deleted \cup {f}
    /\ UNCHANGED <<clock, provider, schedules, versions, rows, processes>>

-----------------------------------------------------------------------------
\* Due ticks and what is recorded of them.

DuesOf(f, r) == {o.due : o \in {x \in Range(observed) : x.family = f /\ x.rev = r}}
Latest(S) == CHOOSE t \in S : \A u \in S : u <= t

NextDue(f, r) == IF DuesOf(f, r) = {} THEN schedules[f][r].effective
                 ELSE Latest(DuesOf(f, r)) + 1

At(d, o) == o.family = d.family /\ o.rev = d.rev /\ o.due = d.due
Observed(d) == \E o \in Range(observed) : At(d, o)
ObservationAt(d) == CHOOSE o \in Range(observed) : At(d, o)

\* Every reader of an observation derives the source state again.
Intact(o) == Baseline(o.family, o.version)

\* Mutant: the document version is not compared.
MutMatch(d, o) == At(d, o)
Match(d, o) == At(d, o) /\ o.version = d.version

\* A revision has one receipt, and a second once it was disabled.  They are
\* counted afresh, whereas the status is the one that was loaded.
Receipts(f, r) == IF Active(f, r) THEN 1 ELSE 2
\* Mutant: the receipts are not counted.
MutLifecycleHolds(f, r, live) == TRUE
LifecycleHolds(f, r, live) == Receipts(f, r) = IF live THEN 1 ELSE 2

\* Under the binding lock: the loaded schedule, the current document and its
\* source state allow the next tick to be observed.
MayObserve(f, r, live) ==
    /\ Bound(f)
    /\ LifecycleHolds(f, r, live)
    /\ live
    /\ Baseline(f, Current(f))
    /\ NextDue(f, r) <= clock

Record(f, r, who, found) ==
    [family |-> f, rev |-> r, due |-> NextDue(f, r), version |-> Current(f),
     actor |-> who, result |-> found]

-----------------------------------------------------------------------------
\* An operator executes the next tick of a schedule.  A request for a disabled
\* revision is refused at once and is left out.

HumanRead(h, f, r) ==
    /\ human[h] = NoRequest
    /\ Active(f, r)
    /\ human' = [human EXCEPT ![h] = [family |-> f, rev |-> r]]
    /\ UNCHANGED <<clock, schedules, family, rows, scheduler, worker>>

HumanExecute(h, found) ==
    LET f == human[h].family
        r == human[h].rev
    IN
    /\ human[h] # NoRequest
    /\ human' = [human EXCEPT ![h] = NoRequest]
    /\ \/ /\ MayObserve(f, r, TRUE)
          /\ observed' = Append(observed, Record(f, r, "human", found))
       \/ /\ ~MayObserve(f, r, TRUE) \/ "outage" \in Events
          /\ UNCHANGED observed
    /\ UNCHANGED <<clock, schedules, family, dispatched, consumed, handoffs,
                   scheduler, worker>>

-----------------------------------------------------------------------------
\* The scheduler process.  next_due_at is the effective time and is never
\* advanced, so it orders the candidates for good.

Effective(c) == schedules[c[1]][c[2]].effective
Candidates == {c \in Families \X Revisions : Active(c[1], c[2]) /\ Effective(c) <= clock}
Earlier(c, d) ==
    \/ Effective(c) < Effective(d)
    \/ Effective(c) = Effective(d) /\ c[1] < d[1]
SortedCandidates ==
    {q \in SetToSeqs(Candidates) : \A i, j \in DOMAIN q : i < j => Earlier(q[i], q[j])}
FirstOf(s) == SubSeq(s, 1, IF Len(s) < CandidateLimit THEN Len(s) ELSE CandidateLimit)

\* The head of the queue is loaded when its turn comes, before its lock.
Iterate(q) == [queue |-> q, live |-> q # <<>> /\ Active(q[1][1], q[1][2])]

Scan ==
    /\ scheduler.queue = <<>>
    /\ Candidates # {}
    /\ \E q \in SortedCandidates : scheduler' = Iterate(FirstOf(q))
    /\ UNCHANGED <<clock, schedules, family, rows, worker, human>>

\* One candidate under its binding lock.  Its locks are kept until the
\* iteration ends, which changes nothing for the candidates after it.  An
\* exception ends the process, and its supervisor starts it anew.
Visit ==
    LET f == scheduler.queue[1][1]
        r == scheduler.queue[1][2]
        d == [family |-> f, rev |-> r, due |-> NextDue(f, r), version |-> Current(f)]
        refused == ~Bound(f) \/ ~LifecycleHolds(f, r, scheduler.live)
        skipped == \/ ~scheduler.live
                   \/ d.due > clock
                   \/ \E x \in dispatched : At(d, x)
    IN
    /\ scheduler.queue # <<>>
    /\ \/ /\ refused
          /\ scheduler' = Waiting
          /\ UNCHANGED dispatched
       \/ /\ ~refused /\ skipped
          /\ scheduler' = Iterate(Tail(scheduler.queue))
          /\ UNCHANGED dispatched
       \/ /\ ~refused /\ ~skipped
          /\ scheduler' = Waiting
          /\ dispatched' = dispatched \cup {d}
    /\ UNCHANGED <<clock, schedules, family, observed, consumed, handoffs, worker, human>>

-----------------------------------------------------------------------------
\* Observation workers.

Consumed(d) == \E c \in consumed : c.dispatch = d
Outstanding == {d \in dispatched : ~Consumed(d)}

\* Oldest due time first; the time of dispatch and the ids break ties.
Orders(S) == {q \in SetToSeqs(S) : \A i, j \in DOMAIN q : i < j => q[i].due <= q[j].due}

Poll(w) ==
    /\ worker[w] = Idle
    /\ Outstanding # {}
    /\ \E q \in Orders(Outstanding) :
          worker' = [worker EXCEPT ![w].queue = FirstOf(q)]
    /\ UNCHANGED <<clock, schedules, family, rows, scheduler, human>>

\* Mutant: a conflict ends the iteration.
MutGoOn(w) == worker' = [worker EXCEPT ![w] = Idle]
GoOn(w) == worker' = [worker EXCEPT ![w] = [Idle EXCEPT !.queue = Tail(worker[w].queue)]]

Consume(w, d, o, s) ==
    /\ consumed' = consumed \cup {[dispatch |-> d, observation |-> o, status |-> s]}
    /\ worker' = [worker EXCEPT ![w] = Idle]

\* The tick of a dispatch was observed already: link it, or refuse.
Link(w, d) ==
    LET o == ObservationAt(d) IN
    \/ Match(d, o) /\ Intact(o) /\ Consume(w, d, o, "linked_existing")
    \/ ~(Match(d, o) /\ Intact(o)) /\ GoOn(w) /\ UNCHANGED consumed

\* Lock the next dispatch, look for its consumption and its observation, and
\* load the schedule.
Open(w) ==
    LET d == Head(worker[w].queue) IN
    /\ worker[w].queue # <<>>
    /\ worker[w].holding = None
    /\ \A v \in Workers : worker[v].holding # d
    /\ \/ /\ Consumed(d)
          /\ IF Intact(ObservationAt(d)) THEN worker' = [worker EXCEPT ![w] = Idle]
             ELSE GoOn(w)
          /\ UNCHANGED consumed
       \/ ~Consumed(d) /\ Observed(d) /\ Link(w, d)
       \/ /\ ~Consumed(d) /\ ~Observed(d)
          /\ worker' = [worker EXCEPT ![w].holding = d, ![w].live = Active(d.family, d.rev)]
          /\ UNCHANGED consumed
    /\ UNCHANGED <<clock, schedules, family, observed, dispatched, handoffs, scheduler, human>>

\* The dispatch still says what the schedule and the family say.
MayExecute(w) ==
    LET d == worker[w].holding IN
    /\ d # None
    /\ MayObserve(d.family, d.rev, worker[w].live)
    /\ d.due = NextDue(d.family, d.rev)
    /\ d.version = Current(d.family)

Execute(w, found) ==
    LET d == worker[w].holding
        o == Record(d.family, d.rev, "service", found)
    IN
    /\ MayExecute(w)
    /\ observed' = Append(observed, o)
    /\ Consume(w, d, o, "executed")
    /\ UNCHANGED <<clock, schedules, family, dispatched, handoffs, scheduler, human>>

\* A conflict, or a provider that did not answer: an operator may have
\* observed the tick meanwhile.
Conflict(w) ==
    LET d == worker[w].holding IN
    /\ d # None
    /\ ~MayExecute(w) \/ "outage" \in Events
    /\ \/ Observed(d) /\ Link(w, d)
       \/ ~Observed(d) /\ GoOn(w) /\ UNCHANGED consumed
    /\ UNCHANGED <<clock, schedules, family, observed, dispatched, handoffs, scheduler, human>>

-----------------------------------------------------------------------------
\* The projector hands the oldest change to reviewers.  It has no handler: an
\* observation that is not intact ends the process, which starts anew.

\* Mutant: a missing item is not handed over.
MutReviewable(o) == o.result = "changed"
Reviewable(o) == o.result \in {"changed", "missing"}

Unprojected == {n \in DOMAIN observed : Reviewable(observed[n]) /\ observed[n] \notin handoffs}

Project ==
    /\ \E n \in Unprojected :
          /\ \A m \in Unprojected : n <= m
          /\ Intact(observed[n])
          /\ handoffs' = handoffs \cup {observed[n]}
    /\ UNCHANGED <<clock, schedules, family, observed, dispatched, consumed, processes>>

TickClock ==
    /\ clock < MaxTick
    /\ clock' = clock + 1
    /\ UNCHANGED <<schedules, family, rows, processes>>

Lifecycle ==
    \E f \in Families :
        \/ \E e \in Ticks : Authorize(f, e) \/ Replace(f, e)
        \/ Disable(f)

Evidence ==
    \/ \E f \in Families : AdmitVersion(f) \/ UploadVersion(f)
                           \/ EstablishBaseline(f) \/ DeleteDocument(f)
    \/ \E o \in handoffs : Refresh(o)

Operator(h) ==
    \/ \E f \in Families, r \in Revisions : HumanRead(h, f, r)
    \/ \E found \in Results : HumanExecute(h, found)

Service(w) == Poll(w) \/ Open(w) \/ (\E found \in Results : Execute(w, found)) \/ Conflict(w)

Next ==
    \/ TickClock \/ Lifecycle \/ Evidence
    \/ \E h \in Humans : Operator(h)
    \/ Scan \/ Visit
    \/ \E w \in Workers : Service(w)
    \/ Project

Spec == Init /\ [][Next]_vars

\* Time passes and the processes run, restarted when they die.  A provider
\* that is asked again and again answers some time.
Fairness ==
    /\ WF_vars(TickClock)
    /\ WF_vars(Scan) /\ WF_vars(Visit) /\ WF_vars(Project)
    /\ \A w \in Workers :
          /\ WF_vars(Service(w))
          /\ SF_vars(\E found \in Results : Execute(w, found))

FairSpec == Spec /\ Fairness

-----------------------------------------------------------------------------
\* Properties.

Tick(o) == <<o.family, o.rev, o.due>>

\* The observations of a schedule revision are its ticks from the first on,
\* none skipped and none twice, whoever made them: an operator, a worker or
\* both at once.
TicksInSequence ==
    \A i \in DOMAIN observed :
        LET o == observed[i] IN
        /\ \A t \in schedules[o.family][o.rev].effective .. o.due :
              \E j \in 1..i : Tick(observed[j]) = <<o.family, o.rev, t>>
        /\ \A j \in 1..(i - 1) : Tick(observed[j]) # Tick(o)

\* A consumption binds a dispatch to the one observation of its tick, made on
\* the document version the dispatch was issued for, and says whether the
\* worker made it or found it.
ConsumptionsMatch ==
    \A c \in consumed :
        /\ c.dispatch \in dispatched
        /\ c.observation \in Range(observed)
        /\ Tick(c.observation) = Tick(c.dispatch)
        /\ c.observation.version = c.dispatch.version
        /\ c.status = "executed" => c.observation.actor = "service"
        /\ \A x \in consumed : x.dispatch = c.dispatch => x = c

\* A family has at most one active revision, and whatever was observed or
\* dispatched names a revision that is there.
OneActive ==
    \A f \in Families : \A r, s \in DOMAIN schedules[f] : Active(f, r) /\ Active(f, s) => r = s
RevisionsKnown ==
    \A o \in Range(observed) \cup dispatched : o.rev \in DOMAIN schedules[o.family]

\* A tick is dispatched once, and no other worker holds or consumed what a
\* worker holds; what any process queued is there when its turn comes.
DispatchesOnce ==
    /\ IsFiniteSet(dispatched)
    /\ \A d, e \in dispatched : At(d, e) => d = e
    /\ \A w \in Workers :
          /\ Range(worker[w].queue) \subseteq dispatched
          /\ worker[w].holding # None =>
               /\ worker[w].queue # <<>>
               /\ worker[w].holding \in dispatched /\ ~Consumed(worker[w].holding)
               /\ \A v \in Workers \ {w} : worker[v].holding # worker[w].holding
RequestsKnown ==
    /\ \A c \in Range(scheduler.queue) : c[2] \in DOMAIN schedules[c[1]]
    /\ \A h \in Humans :
          \/ human[h] = NoRequest
          \/ human[h].family \in Families /\ human[h].rev \in DOMAIN schedules[human[h].family]

\* The observed ticks of a revision are as many as the way from its effective
\* time to its next tick is long.
Done(f, r) == Cardinality({o \in Range(observed) : o.family = f /\ o.rev = r})
TicksCounted ==
    \A f \in Families : \A r \in DOMAIN schedules[f] :
        LET e == schedules[f][r].effective IN DuesOf(f, r) = e .. (e + Done(f, r) - 1)

\* What holds of the ticks at every moment: observed in sequence, and bound to
\* their dispatches one to one.
TickInv == /\ TypeOK /\ TicksInSequence /\ ConsumptionsMatch /\ TicksCounted
           /\ OneActive /\ RevisionsKnown /\ DispatchesOnce /\ RequestsKnown

\* An observation is committed only for the revision that is active and the
\* document that is current at its commit: a disable, a replacement or a new
\* version that was committed while the request waited for the lock wins.
ObservesUnderAuthority ==
    [][observed' # observed =>
         LET o == observed'[Len(observed')] IN
         /\ Active(o.family, o.rev)
         /\ o.version = Current(o.family)
         /\ o.family \notin deleted
         /\ o.due <= clock]_vars

\* The ledger of ticks a schedule promises.
OpenRevision(f) == IF Scheduled(f) THEN CHOOSE r \in DOMAIN schedules[f] : Active(f, r) ELSE 0
Ledger == INSTANCE TickLedger WITH
    open <- [f \in Families |-> OpenRevision(f)],
    revisions <- [f \in Families |-> Len(schedules[f])],
    done <- [f \in Families |-> [r \in Revisions |-> Done(f, r)]],
    settled <- {<<c.dispatch.family, c.dispatch.rev,
                  c.dispatch.due - schedules[c.dispatch.family][c.dispatch.rev].effective + 1>>
                 : c \in consumed}
LedgerSpec == Ledger!Spec

\* A due tick of an active schedule is observed, unless the schedule ends.
EveryTickObserved ==
    \A f \in Families, r \in Revisions, t \in Ticks :
        (Active(f, r) /\ NextDue(f, r) = t /\ t <= clock)
            ~> (~Active(f, r) \/ t \in DuesOf(f, r))

\* A due tick of an active schedule whose family has a current document is
\* dispatched or observed.
EveryTickDispatched ==
    \A f \in Families, r \in Revisions, t \in Ticks :
        (Active(f, r) /\ NextDue(f, r) = t /\ t <= clock)
            ~> \/ ~Active(f, r) \/ ~Bound(f) \/ t \in DuesOf(f, r)
               \/ \E d \in dispatched : d.family = f /\ d.rev = r /\ d.due = t

\* A dispatch that agrees with its schedule and its family is consumed, unless
\* it stops to agree.
Fresh(d) == /\ Active(d.family, d.rev) /\ Bound(d.family)
            /\ d.version = Current(d.family) /\ Baseline(d.family, d.version)
EveryFreshDispatchConsumed ==
    \A f \in Families, r \in Revisions, t \in Ticks, v \in 1..MaxVersion :
        LET d == [family |-> f, rev |-> r, due |-> t, version |-> v] IN
        (d \in dispatched /\ Fresh(d)) ~> (Consumed(d) \/ ~Fresh(d))

\* A change or a loss that was observed is handed to a reviewer.
EveryChangeReviewed ==
    \A n \in 1..(Cardinality(Families) * MaxRevision * (MaxTick + 1)) :
        (n \in DOMAIN observed /\ observed[n].result \in {"changed", "missing"})
            ~> (n \in DOMAIN observed /\ observed[n] \in handoffs)

\* A recurring baseline that was established holds for every later tick of the
\* family, for as long as its document is current.
EstablishedBaselineHolds ==
    \A f \in Families :
        versions[f][Current(f)].baseline /\ Scheduled(f) => Baseline(f, Current(f))

=============================================================================
