-------------------------- MODULE WebhookDelivery --------------------------
(***************************************************************************)
(* Outbound governance webhooks: workers turn content-free events into     *)
(* delivery rows, claim due rows and post them, signed with the key        *)
(* version the row was queued under.  Administrators enable, disable and   *)
(* rotate the destination and retry rows by hand.                          *)
(*                                                                         *)
(* A row is leased by its status alone: nothing takes an attempt back from *)
(* a worker that died.  Requests read a row and write it without a lock.   *)
(***************************************************************************)
EXTENDS Naturals, FiniteSets

CONSTANTS
    Events,         \* revisions of governance events, each in its own state
    Workers,
    Admins,
    Salts,
    MaxAttempts,    \* governance_webhook_max_attempts
    MaxVersion,     \* bound: rotations
    MaxRetries,     \* bound: manual retries of one row
    SlowRequests,   \* TRUE: a request may be overtaken between read and write
    Deaths,         \* [Workers -> the points at which a worker may die]
    None

ASSUME WebhookAssumption ==
    /\ MaxAttempts \in Nat \ {0}
    /\ MaxVersion \in Nat \ {0}
    /\ MaxRetries \in Nat
    /\ SlowRequests \in BOOLEAN
    /\ Deaths \in [Workers -> SUBSET
                    {"syncing", "polling", "claimed", "sending", "answered"}]
    /\ None \notin Salts \cup Events

VARIABLES
    occurred,   \* the events of the read model
    row,        \* [Events -> row of governance_webhook_deliveries]
    dest,       \* the row of governance_webhook_destinations
    issued,     \* [versions -> salts of the secrets shown to an administrator]
    received,   \* the deliveries the receiver has accepted, by idempotency key
    worker,     \* [Workers -> what a worker is doing]
    admin       \* [Admins -> the request an administrator has under way]

vars == <<occurred, row, dest, issued, received, worker, admin>>

Versions == 1..MaxVersion

\* grace: previous_secret_valid_until has not passed.
Dest ==
    [enabled : BOOLEAN, version : Versions, salt : Salts,
     oldVersion : 0..MaxVersion, oldSalt : Salts \cup {None}, grace : BOOLEAN]

NoRow == [status |-> "absent", attempts |-> 0, retries |-> 0, due |-> FALSE,
          version |-> 0, error |-> "none"]

\* due: next_attempt_at has come; error: the part of last_error_code that a
\* property is about.
Row == {NoRow} \cup
    [status : {"queued", "attempting", "failed", "delivered", "dead_letter"},
     attempts : 0..MaxAttempts, retries : 0..MaxRetries, due : BOOLEAN,
     version : Versions, error : {"none", "key", "other"}]

WorkerState == [pc : {"idle", "syncing", "polling", "claimed", "sending", "answered"},
                item : Events \cup {None}, version : 0..MaxVersion,
                answer : {"none", "accepted", "refused"}]

AdminState == [op : {"none", "rotate", "retry"}, item : Events \cup {None},
               dest : Dest, row : Row]

Idle == [pc |-> "idle", item |-> None, version |-> 0, answer |-> "none"]
Request(op, k) == [op |-> op, item |-> k, dest |-> dest,
                   row |-> IF k = None THEN NoRow ELSE row[k]]

TypeOK ==
    /\ occurred \subseteq Events
    /\ row \in [Events -> Row]
    /\ dest \in Dest
    /\ issued \in [Versions -> SUBSET Salts]
    /\ received \subseteq Events
    /\ worker \in [Workers -> WorkerState]
    /\ admin \in [Admins -> AdminState]

\* A destination has just been created and its secret has been shown.
Init ==
    /\ occurred = {}
    /\ row = [k \in Events |-> NoRow]
    /\ \E s \in Salts :
         /\ dest = [enabled |-> TRUE, version |-> 1, salt |-> s,
                    oldVersion |-> 0, oldSalt |-> None, grace |-> FALSE]
         /\ issued = [v \in Versions |-> IF v = 1 THEN {s} ELSE {}]
    /\ received = {}
    /\ worker = [w \in Workers |-> Idle]
    /\ admin = [a \in Admins |-> Request("none", None)]

Occur(k) ==
    /\ occurred' = occurred \cup {k}
    /\ k \notin occurred
    /\ UNCHANGED <<row, dest, issued, received, worker, admin>>

Elapse(k) ==
    /\ row[k].status \in {"queued", "failed"} /\ ~row[k].due
    /\ row' = [row EXCEPT ![k].due = TRUE]
    /\ UNCHANGED <<occurred, dest, issued, received, worker, admin>>

GraceEnds ==
    /\ dest.grace
    /\ dest' = [dest EXCEPT !.grace = FALSE]
    /\ UNCHANGED <<occurred, row, issued, received, worker, admin>>

Queued(version) == [NoRow EXCEPT !.status = "queued", !.due = TRUE,
                                 !.version = version]

-----------------------------------------------------------------------------
(* The worker.                                                             *)

\* sync_content_free_ai_events loads the enabled destinations ...
SyncLoad(w) ==
    /\ worker[w].pc = "idle"
    /\ worker' = [worker EXCEPT ![w] = IF dest.enabled
                    THEN [Idle EXCEPT !.pc = "syncing", !.version = dest.version]
                    ELSE [Idle EXCEPT !.pc = "polling"]]
    /\ UNCHANGED <<occurred, row, dest, issued, received, admin>>

\* ... and adds the rows that are missing; the unique source revision skips
\* those that another worker has added meanwhile.
SyncCommit(w) ==
    /\ worker[w].pc = "syncing"
    /\ row' = [k \in Events |->
                 IF k \in occurred /\ row[k].status = "absent"
                 THEN Queued(worker[w].version) ELSE row[k]]
    /\ worker' = [worker EXCEPT ![w] = [Idle EXCEPT !.pc = "polling"]]
    /\ UNCHANGED <<occurred, dest, issued, received, admin>>

Claimable(k) ==
    /\ row[k].status \in {"queued", "failed"}
    /\ row[k].due
    /\ row[k].attempts < MaxAttempts
    /\ dest.enabled

Claim(w, k) ==
    /\ worker[w].pc = "polling"
    /\ Claimable(k)
    /\ row' = [row EXCEPT ![k].status = "attempting", ![k].attempts = @ + 1]
    /\ worker' = [worker EXCEPT ![w].pc = "claimed", ![w].item = k]
    /\ UNCHANGED <<occurred, dest, issued, received, admin>>

NothingDue(w) ==
    /\ worker[w].pc = "polling"
    /\ ~\E k \in Events : Claimable(k)
    /\ worker' = [worker EXCEPT ![w] = Idle]
    /\ UNCHANGED <<occurred, row, dest, issued, received, admin>>

\* Mutant: the last attempt leaves the row failed.
FailedForever(k) ==
    [row EXCEPT ![k].status = "failed", ![k].due = FALSE, ![k].error = "other"]

\* _fail: the row is written by its key, with the attempts the worker counted.
Failed(k) ==
    [row EXCEPT ![k].status = IF row[k].attempts >= MaxAttempts
                              THEN "dead_letter" ELSE "failed",
                ![k].due = row[k].attempts >= MaxAttempts,
                ![k].error = "other"]

\* process_delivery reads the destination again.
StopDisabled(w) ==
    /\ worker[w].pc = "claimed"
    /\ ~dest.enabled
    /\ row' = Failed(worker[w].item)
    /\ worker' = [worker EXCEPT ![w] = Idle]
    /\ UNCHANGED <<occurred, dest, issued, received, admin>>

\* _secret_for_delivery
KeyOf(version) ==
    CASE version = dest.version -> dest.salt
      [] version = dest.oldVersion /\ version # dest.version /\ dest.grace -> dest.oldSalt
      [] OTHER -> None

\* No key, an address that is not public, or a payload that fails its hash.
StopForGood(w) ==
    LET k == worker[w].item IN
    /\ worker[w].pc = "claimed"
    /\ dest.enabled
    /\ \E error \in {"key", "other"} :
         /\ (error = "key") <=> (KeyOf(row[k].version) = None)
         /\ row' = [row EXCEPT ![k].status = "dead_letter", ![k].error = error]
    /\ worker' = [worker EXCEPT ![w] = Idle]
    /\ UNCHANGED <<occurred, dest, issued, received, admin>>

Sign(w) ==
    /\ worker[w].pc = "claimed"
    /\ dest.enabled
    /\ KeyOf(row[worker[w].item].version) # None
    /\ worker' = [worker EXCEPT ![w].pc = "sending"]
    /\ UNCHANGED <<occurred, row, dest, issued, received, admin>>

\* Mutant: a request that timed out counts as delivered.
PostBlind(w) ==
    /\ worker[w].pc = "sending"
    /\ received' \in {received, received \cup {worker[w].item}}
    /\ worker' = [worker EXCEPT ![w].pc = "answered", ![w].answer = "accepted"]
    /\ UNCHANGED <<occurred, row, dest, issued, admin>>

\* The receiver accepts a request with a 2xx answer; an answer that comes after
\* the timeout is lost, and the request counts as refused.
Post(w) ==
    /\ worker[w].pc = "sending"
    /\ \/ /\ received' = received \cup {worker[w].item}
          /\ \E answer \in {"accepted", "refused"} :
               worker' = [worker EXCEPT ![w].pc = "answered", ![w].answer = answer]
       \/ /\ worker' = [worker EXCEPT ![w].pc = "answered", ![w].answer = "refused"]
          /\ UNCHANGED received
    /\ UNCHANGED <<occurred, row, dest, issued, admin>>

Settle(w) ==
    LET k == worker[w].item IN
    /\ worker[w].pc = "answered"
    /\ row' = IF worker[w].answer = "accepted"
              THEN [row EXCEPT ![k].status = "delivered", ![k].error = "none"]
              ELSE Failed(k)
    /\ worker' = [worker EXCEPT ![w] = Idle]
    /\ UNCHANGED <<occurred, dest, issued, received, admin>>

\* The container starts the worker again.
Die(w) ==
    /\ worker[w].pc \in Deaths[w]
    /\ worker' = [worker EXCEPT ![w] = Idle]
    /\ UNCHANGED <<occurred, row, dest, issued, received, admin>>

-----------------------------------------------------------------------------
(* Administrators.                                                         *)

\* enqueue_test_delivery, also for a disabled destination.
EnqueueTest(k) ==
    /\ k \notin occurred
    /\ occurred' = occurred \cup {k}
    /\ row' = [row EXCEPT ![k] = Queued(dest.version)]
    /\ UNCHANGED <<dest, issued, received, worker, admin>>

Enable(enabled) ==
    /\ dest.enabled # enabled
    /\ dest' = [dest EXCEPT !.enabled = enabled]
    /\ UNCHANGED <<occurred, row, issued, received, worker, admin>>

LoadRotate(a) ==
    /\ admin[a].op = "none"
    /\ admin' = [admin EXCEPT ![a] = Request("rotate", None)]
    /\ UNCHANGED <<occurred, row, dest, issued, received, worker>>

LoadRetry(a, k) ==
    /\ admin[a].op = "none"
    /\ row[k].status \in {"failed", "dead_letter"}
    /\ dest.enabled
    /\ admin' = [admin EXCEPT ![a] = Request("retry", k)]
    /\ UNCHANGED <<occurred, row, dest, issued, received, worker>>

Keys(r) == <<r.version, r.salt>>

\* A quick request commits before anything it read has changed.
Timely(a) ==
    SlowRequests \/ /\ Keys(admin[a].dest) = Keys(dest)
                    /\ admin[a].item # None => admin[a].row = row[admin[a].item]

\* Mutant: the new secret keeps the version of the old one.
RotateInPlace(a, s) ==
    LET seen == admin[a].dest IN
    /\ admin[a].op = "rotate"
    /\ Timely(a)
    /\ \A v \in Versions : s \notin issued[v]
    /\ dest' = [dest EXCEPT !.salt = s, !.oldVersion = seen.version,
                            !.oldSalt = seen.salt, !.grace = TRUE]
    /\ issued' = [issued EXCEPT ![seen.version] = @ \cup {s}]
    /\ admin' = [admin EXCEPT ![a] = Request("none", None)]
    /\ UNCHANGED <<occurred, row, received, worker>>

\* rotate_destination_secret: a fresh salt, the next version, and the old key
\* for a transition window.
Rotate(a, s) ==
    LET seen == admin[a].dest IN
    /\ admin[a].op = "rotate"
    /\ Timely(a)
    /\ seen.version < MaxVersion
    /\ \A v \in Versions : s \notin issued[v]
    /\ dest' = [dest EXCEPT !.salt = s, !.version = seen.version + 1,
                            !.oldVersion = seen.version, !.oldSalt = seen.salt,
                            !.grace = TRUE]
    /\ issued' = [issued EXCEPT ![seen.version + 1] = @ \cup {s}]
    /\ admin' = [admin EXCEPT ![a] = Request("none", None)]
    /\ UNCHANGED <<occurred, row, received, worker>>

\* manual_retry_delivery: a fresh budget under the current key.
Retry(a) ==
    LET k == admin[a].item IN
    /\ admin[a].op = "retry"
    /\ Timely(a)
    /\ row[k].retries < MaxRetries
    /\ row' = [row EXCEPT ![k] = [status |-> "queued", attempts |-> 0,
                                  retries |-> @.retries + 1, due |-> TRUE,
                                  version |-> admin[a].dest.version,
                                  error |-> "none"]]
    /\ admin' = [admin EXCEPT ![a] = Request("none", None)]
    /\ UNCHANGED <<occurred, dest, issued, received, worker>>

Abandon(a) ==
    /\ admin[a].op # "none"
    /\ admin' = [admin EXCEPT ![a] = Request("none", None)]
    /\ UNCHANGED <<occurred, row, dest, issued, received, worker>>

-----------------------------------------------------------------------------
Step(w) ==
    \/ SyncLoad(w) \/ SyncCommit(w) \/ NothingDue(w)
    \/ \E k \in Events : Claim(w, k)
    \/ StopDisabled(w) \/ StopForGood(w) \/ Sign(w) \/ Post(w) \/ Settle(w)

AdminStep(a) ==
    \/ LoadRotate(a) \/ Abandon(a) \/ Retry(a)
    \/ \E k \in Events : LoadRetry(a, k)
    \/ \E s \in Salts : Rotate(a, s)

Next ==
    \/ \E k \in Events : Occur(k) \/ EnqueueTest(k) \/ Elapse(k)
    \/ GraceEnds
    \/ \E w \in Workers : Step(w) \/ Die(w)
    \/ \E enabled \in BOOLEAN : Enable(enabled)
    \/ \E a \in Admins : AdminStep(a)

Spec == Init /\ [][Next]_vars

\* Time passes and the workers, restarted by their container, go on.
Fairness ==
    /\ \A k \in Events : WF_vars(Elapse(k))
    /\ \A w \in Workers : WF_vars(Step(w))

FairSpec == Spec /\ Fairness

-----------------------------------------------------------------------------
(* Properties.                                                             *)

Live(k) == row[k].status \in {"queued", "failed", "attempting"}
Ended(k) == row[k].status \in {"delivered", "dead_letter"}

\* Exactly one worker holds a row that is being attempted, and a row that waits
\* has an attempt left that a worker may claim.
AttemptsHaveWorkers ==
    \A k \in Events :
        /\ Cardinality({w \in Workers : worker[w].item = k}) =
             IF row[k].status = "attempting" THEN 1 ELSE 0
        /\ row[k].status \in {"queued", "failed"} => row[k].attempts < MaxAttempts

\* A secret that an administrator was shown for a version is the one that
\* requests of this version are signed with.
IssuedSecretsVerify ==
    \A v \in Versions :
        KeyOf(v) # None => issued[v] = {KeyOf(v)}

\* What holds of every row at every moment: who attempts it, how often, and with
\* which of the keys that administrators were shown.
DeliveryInv == TypeOK /\ AttemptsHaveWorkers /\ IssuedSecretsVerify

\* PHASE_12I: a rotation keeps the old key "so already-queued deliveries can
\* complete safely": no row loses its key within a transition window.
KeysSurviveRotation ==
    [][\A k \in Events : row'[k].error = "key" /\ row[k].error # "key" => ~dest.grace]_vars

\* PHASE_12I: "explicit human retry for failed/dead-letter rows", never for one
\* that is being sent or has been delivered.
RetriesOnlyFailed ==
    [][\A k \in Events : row'[k].retries # row[k].retries =>
         row[k].status \in {"failed", "dead_letter"}]_vars

\* ADR 081: failures "eventually dead-letter": when the destination stays
\* enabled, every queued row is delivered or dead-lettered.
EveryDeliveryEnds == \A k \in Events : <>[](dest.enabled) => (Live(k) ~> Ended(k))

\* To the receiver the ledger is an at-least-once channel.
Phase(status) ==
    CASE status \in {"queued", "failed", "attempting"} -> "open"
      [] status = "absent" -> "none"
      [] OTHER -> status
Channel == INSTANCE DeliveryChannel
             WITH phase <- [k \in Events |-> Phase(row[k].status)]
ChannelSpec == Channel!Spec

=============================================================================
