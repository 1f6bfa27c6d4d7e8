----------------------------- MODULE Chronology -----------------------------
(***************************************************************************)
(* The timeline of one occurrence on one claim, rebuilt from the reviewed  *)
(* values of two sources, the chief engineer's report and the engine log,  *)
(* each giving one extraction and one time (bound: one report of it each).  *)
(* Sources that agree support one event, sources that differ support two   *)
(* events and a conflict, and a report that denies the occurrence is in    *)
(* conflict with the log's event.  People correct values, replace and      *)
(* delete documents, and dispose of conflicts.                             *)
(*                                                                         *)
(* All of this but an admission holds the claim's row lock from its first  *)
(* read to its commit and is one step.  A disposition reads the conflict   *)
(* in the router, before it waits for the lock; the select under the lock  *)
(* tests is_active in the database and returns the object as it was read.  *)
(***************************************************************************)
EXTENDS Naturals, Sequences, FiniteSets, SequencesExt

CONSTANTS
    Chief, Log,     \* the two sources
    Reports,        \* [sources -> the times it may report, in minutes]
    Tolerance,      \* CLUSTER_TOLERANCE_MINUTES
    Denied,         \* the chief engineer's report says it did not happen
    Nil,            \* no value, no conflict, nobody
    Users, Statuses,
    StaleReads,     \* a conflict may change between its read and the lock
    Admissions,     \* external versions are admitted
    MaxDocs,        \* bound: [sources -> versions of its document]
    MaxEvents,      \* bound: event rows
    MaxConflicts,   \* bound: conflict rows
    MaxState        \* bound: state_version of a conflict

ASSUME ChronologyAssumption ==
    /\ Chief # Log
    /\ Reports \in [{Chief, Log} -> SUBSET Nat] /\ Tolerance \in Nat
    /\ {Denied, Nil} \cap (Reports[Chief] \cup Reports[Log]) = {} /\ Denied # Nil
    /\ {StaleReads, Admissions} \subseteq BOOLEAN
    /\ MaxDocs \in [{Chief, Log} -> Nat \ {0}]
    /\ {MaxEvents, MaxConflicts, MaxState} \subseteq Nat \ {0}
    /\ "open" \notin Statuses
    /\ Nil \notin Users /\ Nil \notin {Chief, Log} \X Nat

VARIABLES
    doc,        \* [Docs -> a document version and the reviewed value in it]
    chron,      \* the events, and the conflicts by their key
    user        \* [Users -> the conflict read before the lock, as it was]

timelineVars == <<doc, chron, user>>

Times == Reports[Chief] \cup Reports[Log]
Docs == UNION {{s} \X (1..MaxDocs[s]) : s \in {Chief, Log}}
Events == 1..MaxEvents

Doc == [state : {"absent", "current", "superseded", "deleted"},
        value : Times \cup {Denied, Nil}]

\* The signature of an event is its evidence and its value, its lineage the
\* evidence alone.
Event == [evidence : (SUBSET Docs) \ {{}}, value : Times, active : BOOLEAN]

\* Two events of different times, or the report that denies an event.
Keys == [report : {Nil}, events : Events \X Events]
        \cup [report : Docs, events : {<<i>> : i \in Events}]
State == (Times \X Times) \cup {<<Denied, Nil>>}

\* last: the latest row of evidence_conflict_decisions.
NoDecision == [state |-> <<Denied, Nil>>, version |-> 0, status |-> "open", by |-> Nil]
ConflictDecision == [state : State, version : 0..MaxState, status : Statuses \cup {"open"},
                     by : Users \cup {Nil}]
Conflict == [state : State, version : 1..MaxState, status : Statuses \cup {"open"},
             active : BOOLEAN, last : ConflictDecision]

NothingRead == [key |-> Nil, view |-> Nil]

TimelineTypeOK ==
    /\ doc \in [Docs -> Doc]
    /\ DOMAIN chron = {"event", "conflict"}
    /\ chron.event \in Seq(Event) /\ Len(chron.event) <= MaxEvents
    /\ DOMAIN chron.conflict \subseteq Keys
    /\ \A k \in DOMAIN chron.conflict : chron.conflict[k] \in Conflict
    /\ user \in [Users -> {NothingRead} \cup [key : Keys, view : Conflict]]

TimelineInit ==
    /\ doc = [d \in Docs |-> [state |-> "absent", value |-> Nil]]
    /\ chron = [event |-> <<>>, conflict |-> <<>>]
    /\ user = [u \in Users |-> NothingRead]

(***************************************************************************)
(* Rebuild                                                                 *)
(***************************************************************************)

\* Mutant: the reviewed values of every version count.
M_Reviewed(D) == {d \in Docs : D[d].value # Nil}

ReviewedDocs(D) == {d \in Docs : D[d].state = "current" /\ D[d].value # Nil}
Timed(D) == {d \in ReviewedDocs(D) : D[d].value # Denied}

Near(s, t) == s <= t + Tolerance /\ t <= s + Tolerance

\* Sources that agree, as large as can be (with two sources the greedy
\* clustering of the code comes to this); the log has priority.
Clusters(D) ==
    {C \in (SUBSET Timed(D)) \ {{}} :
        /\ \A d, e \in C : Near(D[d].value, D[e].value)
        /\ \A e \in Timed(D) \ C : \E d \in C : ~Near(D[d].value, D[e].value)}
Primary(C) == CHOOSE d \in C : d[1] = Log \/ \A e \in C : e[1] # Log
Candidates(D) == {[evidence |-> C, value |-> D[Primary(C)].value] : C \in Clusters(D)}

\* Mutant: a corrected value is always a new event.
M_Match(rows, c) ==
    {i \in DOMAIN rows : rows[i].evidence = c.evidence /\ rows[i].value = c.value}

\* The row of a candidate: the one with its signature, else the active one of
\* its lineage (if there is just one), else none.
Match(rows, c) ==
    LET same == {i \in DOMAIN rows : rows[i].evidence = c.evidence}
        signed == {i \in same : rows[i].value = c.value}
        line == {i \in same : rows[i].active}
    IN  IF signed # {} THEN signed ELSE IF Cardinality(line) = 1 THEN line ELSE {}

\* The event rows that were there, active if a candidate supports them.
\* Mutant: rows that no candidate supports stay as they are.
M_Kept(rows, cands) ==
    [i \in DOMAIN rows |->
        IF \E c \in cands : i \in Match(rows, c)
        THEN [rows[i] EXCEPT !.active = TRUE,
                             !.value = (CHOOSE c \in cands : i \in Match(rows, c)).value]
        ELSE rows[i]]
Kept(rows, cands) ==
    [i \in DOMAIN rows |->
        IF \E c \in cands : i \in Match(rows, c)
        THEN [rows[i] EXCEPT !.active = TRUE,
                             !.value = (CHOOSE c \in cands : i \in Match(rows, c)).value]
        ELSE [rows[i] EXCEPT !.active = FALSE]]

\* The candidates without a row get new ones, in the order of their time.
Fresh(rows, cands) == {c \in cands : Match(rows, c) = {}}
Nth(S, n) == CHOOSE c \in S : Cardinality({b \in S : b.value < c.value}) = n - 1
NewRows(S) ==
    [n \in 1..Cardinality(S) |->
        [evidence |-> Nth(S, n).evidence, value |-> Nth(S, n).value, active |-> TRUE]]

Upserted(rows, cands) == Kept(rows, cands) \o NewRows(Fresh(rows, cands))

Live(rows) == {i \in DOMAIN rows : rows[i].active}

TimeConflicts(rows) ==
    {[key |-> [report |-> Nil, events |-> p],
      state |-> <<rows[p[1]].value, rows[p[2]].value>>] :
        p \in {q \in Live(rows) \X Live(rows) :
                  rows[q[1]].value + Tolerance < rows[q[2]].value}}
Denials(D, rows) ==
    {[key |-> [report |-> d, events |-> <<i>>], state |-> <<Denied, Nil>>] :
        d \in {e \in ReviewedDocs(D) : D[e].value = Denied}, i \in Live(rows)}
Found(D, rows) == TimeConflicts(rows) \cup Denials(D, rows)

NewConflict(state) == [state |-> state, version |-> 1, status |-> "open",
                       active |-> TRUE, last |-> NoDecision]

\* Mutant: a conflict that comes back is taken for one that never left.
M_Refreshed(row, state) ==
    IF row.state # state
    THEN [row EXCEPT !.state = state, !.version = @ + 1, !.status = "open", !.active = TRUE]
    ELSE [row EXCEPT !.active = TRUE]

\* Mutant: every rebuild reopens.
M_Reopened(row, state) ==
    [row EXCEPT !.state = state, !.version = @ + 1, !.status = "open", !.active = TRUE]

\* A conflict found again: reopened when it had gone or its state has changed.
Refreshed(row, state) ==
    IF ~row.active \/ row.state # state
    THEN [row EXCEPT !.state = state, !.version = @ + 1, !.status = "open", !.active = TRUE]
    ELSE row

Settled(rows, found) ==
    [k \in DOMAIN rows \cup {f.key : f \in found} |->
        IF k \in {f.key : f \in found}
        THEN LET state == (CHOOSE f \in found : f.key = k).state
             IN  IF k \in DOMAIN rows THEN Refreshed(rows[k], state) ELSE NewConflict(state)
        ELSE [rows[k] EXCEPT !.active = FALSE]]

Rebuilt(D, c) ==
    LET rows == Upserted(c.event, Candidates(D))
    IN  [event |-> rows, conflict |-> Settled(c.conflict, Found(D, rows))]

Bounded(c) == /\ Len(c.event) <= MaxEvents
              /\ Cardinality(DOMAIN c.conflict) <= MaxConflicts
              /\ \A k \in DOMAIN c.conflict : c.conflict[k].version <= MaxState

\* Nobody but u has read a conflict and waits for the lock.
Quiet(u) == StaleReads \/ \A w \in Users \ {u} : user[w] = NothingRead

\* POST /chronology/rebuild.
Rebuild ==
    /\ Quiet(Nil)
    /\ Bounded(Rebuilt(doc, chron))
    /\ chron' = Rebuilt(doc, chron)
    /\ UNCHANGED <<doc, user>>

(***************************************************************************)
(* Documents                                                               *)
(***************************************************************************)

\* The events that rest on a document, the conflicts of these events and those
\* the document is evidence of are no longer active.
Retired(c, d) ==
    LET hit == {i \in Live(c.event) : d \in c.event[i].evidence}
    IN  [event |-> [i \in DOMAIN c.event |->
                      [c.event[i] EXCEPT !.active = @ /\ i \notin hit]],
         conflict |-> [k \in DOMAIN c.conflict |->
                         [c.conflict[k] EXCEPT
                            !.active = @ /\ k.report # d /\ ToSet(k.events) \cap hit = {}]]]

\* The value of the current version is approved, edited or rejected.
ReviewValue(d, v) ==
    /\ doc[d].state = "current" /\ doc[d].value # v
    /\ v \in Reports[d[1]] \cup {Nil} \cup (IF d[1] = Chief THEN {Denied} ELSE {})
    /\ doc' = [doc EXCEPT ![d].value = v]
    /\ UNCHANGED <<chron, user>>

Upload(s) ==
    /\ doc[<<s, 1>>].state = "absent"
    /\ doc' = [doc EXCEPT ![<<s, 1>>].state = "current"]
    /\ UNCHANGED <<chron, user>>

Superseding(d) ==
    /\ d[2] < MaxDocs[d[1]] /\ doc[d].state = "current"
    /\ doc' = [doc EXCEPT ![d].state = "superseded", ![<<d[1], d[2] + 1>>].state = "current"]

\* The replacing upload retires what rested on the old version.
Replace(d) ==
    /\ Quiet(Nil) /\ Superseding(d)
    /\ chron' = Retired(chron, d)
    /\ UNCHANGED user

\* An admission of an external version does not: it never looks at the timeline.
Admit(d) ==
    /\ Admissions
    /\ Superseding(d)
    /\ UNCHANGED <<chron, user>>

Delete(d) ==
    /\ Quiet(Nil) /\ doc[d].state = "current"
    /\ doc' = [doc EXCEPT ![d].state = "deleted"]
    /\ chron' = Retired(chron, d)
    /\ UNCHANGED user

(***************************************************************************)
(* Dispositions                                                            *)
(***************************************************************************)

\* The router's read of the conflict; the state that the client expects is the
\* state that is read here, or the request is refused.
ReadConflict(u, k) ==
    /\ user[u] = NothingRead
    /\ k \in DOMAIN chron.conflict /\ chron.conflict[k].active
    /\ user' = [user EXCEPT ![u] = [key |-> k, view |-> chron.conflict[k]]]
    /\ UNCHANGED <<doc, chron>>

Made(u, view, status) ==
    [state |-> view.state, version |-> view.version, status |-> status, by |-> u]

\* The row's status is written when it differs from what was read.
Disposed(row, view, u, status) ==
    [row EXCEPT !.status = IF view.status = status THEN @ ELSE status,
                !.last = Made(u, view, status)]

\* POST /conflicts/{id}/resolve under the lock.
Resolve(u, status, confirm) ==
    LET k == user[u].key view == user[u].view IN
    /\ k # Nil /\ Quiet(u)
    /\ chron.conflict[k].active
    /\ ~(chron.conflict[k].last = Made(u, view, status) /\ view.status = status)
    /\ view.status = "open" \/ confirm
    /\ chron' = [chron EXCEPT !.conflict[k] = Disposed(@, view, u, status)]
    /\ user' = [user EXCEPT ![u] = NothingRead]
    /\ UNCHANGED doc

\* Refused, failed, or an exact replay: nothing is written.
RefuseResolution(u) ==
    /\ user[u] # NothingRead
    /\ user' = [user EXCEPT ![u] = NothingRead]
    /\ UNCHANGED <<doc, chron>>

TimelineNext ==
    \/ Rebuild
    \/ \E s \in {Chief, Log} : Upload(s)
    \/ \E d \in Docs : Replace(d) \/ Admit(d) \/ Delete(d)
    \/ \E d \in Docs, v \in Times \cup {Denied, Nil} : ReviewValue(d, v)
    \/ \E u \in Users, k \in DOMAIN chron.conflict : ReadConflict(u, k)
    \/ \E u \in Users, s \in Statuses, confirm \in BOOLEAN : Resolve(u, s, confirm)
    \/ \E u \in Users : RefuseResolution(u)

TimelineSpec == TimelineInit /\ [][TimelineNext]_timelineVars

-----------------------------------------------------------------------------
(* Properties *)

\* A conflict that is shown is about the timeline that is shown: its events are
\* active, its state is their times, and these are too far apart to be one.
ConflictsAreLive ==
    \A k \in DOMAIN chron.conflict :
        LET c == chron.conflict[k] IN
        c.active =>
            /\ ToSet(k.events) \subseteq Live(chron.event)
            /\ k.report = Nil =>
                 /\ c.state = [n \in 1..2 |-> chron.event[k.events[n]].value]
                 /\ ~Near(c.state[1], c.state[2])

\* No reviewed value supports two active events at once, through corrections
\* that join and part the sources, retirements and reactivated rows.
OneEventPerEvidence ==
    \A i, j \in Live(chron.event) :
        i # j => chron.event[i].evidence \cap chron.event[j].evidence = {}

\* No two event rows have the same signature: the rows that a rebuild keeps,
\* moves and makes never meet.
SignaturesUnique ==
    \A i, j \in DOMAIN chron.event :
        /\ chron.event[i].evidence = chron.event[j].evidence
        /\ chron.event[i].value = chron.event[j].value
        => i = j

\* The versions of a document follow each other, the last one in force or not.
VersionsInOrder ==
    \A s \in {Chief, Log} : \A n \in 1..MaxDocs[s] :
        doc[<<s, n>>].state # "absent" =>
            \A m \in 1..(n - 1) : doc[<<s, m>>].state = "superseded"

\* A conflict that was read is there, and as it was read unless it may change.
RequestsKnown ==
    \A u \in Users : user[u] # NothingRead =>
        /\ user[u].key \in DOMAIN chron.conflict
        /\ StaleReads \/ chron.conflict[user[u].key] = user[u].view

\* What holds of the timeline at every moment: an event per evidence, and
\* conflicts that are about events on display.
TimelineInv == /\ TimelineTypeOK /\ OneEventPerEvidence /\ ConflictsAreLive
               /\ SignaturesUnique /\ VersionsInOrder /\ RequestsKnown

\* What is on the timeline comes from documents that are in force: an upload, a
\* deletion and a rebuild see to it.  Only an admission puts a new version in
\* force and leaves the timeline to the next rebuild.
Resting ==
    \A i \in Live(chron.event) : \A d \in chron.event[i].evidence : doc[d].state = "current"
EventsRestOnCurrentEvidence ==
    [][(Resting \/ Rebuild) /\ ~(\E d \in Docs : Admit(d)) => Resting']_timelineVars

\* A rebuild is idempotent: with nothing reviewed in between, a second one
\* keeps every event, every conflict and every disposition.
RebuildIdempotent == LET r == Rebuilt(doc, chron) IN Rebuilt(doc, r) = r

\* A correction of a value keeps the identity of the event, and with it the
\* decisions on its conflicts: no rebuild makes a row for evidence that an
\* active event had already.
CorrectionKeepsIdentity ==
    [][\A i \in DOMAIN chron'.event \ DOMAIN chron.event :
         \A j \in Live(chron.event) :
            chron.event[j].evidence # chron'.event[i].evidence]_timelineVars

\* A human disposition is never replaced without a confirmation.
NoSilentResolution ==
    [][\A u \in Users, s \in Statuses :
         Resolve(u, s, FALSE) => chron.conflict[user[u].key].status = "open"]_timelineVars

\* The register of conflicts that the timeline presents, with the dispositions
\* that are about the version that stands.
Disposition(c) ==
    IF c.status = "open" THEN Nil
    ELSE IF c.last.state = c.state /\ c.last.version = c.version /\ c.last.status = c.status
    THEN c.status ELSE Denied
Resolutions == INSTANCE ConflictRegister WITH
    None <- Nil,
    shown <- {k \in DOMAIN chron.conflict : chron.conflict[k].active},
    about <- [k \in DOMAIN chron.conflict |-> chron.conflict[k].state],
    version <- [k \in DOMAIN chron.conflict |-> chron.conflict[k].version],
    disposition <- [k \in DOMAIN chron.conflict |-> Disposition(chron.conflict[k])]
ResolutionsSpec == Resolutions!Spec

=============================================================================
