-------------------------- MODULE ProcessingQueue --------------------------
(***************************************************************************)
(* The document-processing job queue: the rows of document_processing_jobs *)
(* and the columns of documents that job handlers read and write, the      *)
(* worker processes that recover, claim, run and finish jobs under a       *)
(* fenced lease, and the requests that put jobs in the queue.              *)
(*                                                                         *)
(* Every action is one database transaction, or the part of one between    *)
(* two points at which another transaction can interfere.  A worker reads  *)
(* its lease before a flush (Fence) and writes its rows afterwards (Write):*)
(* the two are separate statements and the read takes no row lock.         *)
(***************************************************************************)
EXTENDS Integers, FiniteSets

CONSTANTS
    Workers,        \* worker processes, each one Session at a time
    Clients,        \* API requests that can be in progress at a time
    Docs,           \* documents
    MaxJobs,        \* bound: rows of the job table; ids follow created_at
    MaxAttempts,    \* max_attempts of every job
    StaleAfter,     \* processing_stale_after_seconds, in clock ticks
    RetryDelay,     \* backoff after attempt n, in clock ticks
    PauseInFlush,   \* TRUE: a tick may pass between a fence and its write
    NoWorker, NoDoc

ASSUME QueueAssumption ==
    /\ MaxJobs \in Nat
    /\ MaxAttempts \in Nat \ {0}
    /\ StaleAfter \in Nat
    /\ RetryDelay \in [1..MaxAttempts -> Nat \ {0}]
    /\ PauseInFlush \in BOOLEAN
    /\ NoWorker \notin Workers
    /\ NoDoc \notin Docs

VARIABLES
    job,        \* [Jobs -> row of document_processing_jobs]
    doc,        \* [Docs -> row of documents, and where its bytes are]
    worker,     \* [Workers -> what the worker's Session holds in memory]
    client      \* [Clients -> the enqueue request in progress]

vars == <<job, doc, worker, client>>

Jobs == 1..MaxJobs
Types == {"TEXT", "RESCAN", "AI"}
Active == {"PENDING", "RUNNING"}
Terminal == {"COMPLETED", "FAILED"}
Blocked == {"INFECTED", "SCAN_ERROR"}
Verdicts == {"CLEAN"} \cup Blocked
Places == {"active", "quarantine"}
Processing == {"absent", "UPLOADED", "PROCESSING", "PROCESSED", "FAILED"}

JobRow == [type : Types, doc : Docs \cup {NoDoc},
           status : {"absent"} \cup Active \cup Terminal,
           attempts : 0..MaxAttempts, lockedBy : Workers \cup {NoWorker},
           age : 0..(StaleAfter + 1),   \* ticks since locked_at, saturating
           wait : Nat]                  \* ticks until available_at

DocRow == [processing : Processing, malware : {"LEGACY"} \cup Verdicts,
           deleted : BOOLEAN, released : BOOLEAN, extracted : BOOLEAN,
           bytes : Places \cup {"gone"},  \* storage_key, or a quarantine key
           key : {"none"} \cup Places]    \* quarantine_key of its last record

Plans == {"none", "mark", "finish", "fail", "skip", "no_authority",
          "quarantined"} \cup Verdicts

SessionState == [pc : {"recover", "claim", "begin", "scan", "run", "fence",
                       "write", "commit"},
                 held : 0..MaxJobs, token : 0..MaxAttempts,
                 plan : Plans, seen : Processing,
                 key : {"none"} \cup Places]

Request == [pc : {"idle", "check", "insert"}, doc : Docs \cup {NoDoc},
            type : Types]

TypeOK ==
    /\ job \in [Jobs -> JobRow]
    /\ doc \in [Docs -> DocRow]
    /\ worker \in [Workers -> SessionState]
    /\ client \in [Clients -> Request]

NewSession == [pc |-> "recover", held |-> 0, token |-> 0, plan |-> "none",
               seen |-> "absent", key |-> "none"]
NoRequest == [pc |-> "idle", doc |-> NoDoc, type |-> "TEXT"]

\* Rows older than the queue (migration 0003) and the malware columns (0018)
\* are UPLOADED without a job, and legacy_unscanned.
NewDoc(status) ==
    [processing |-> status, malware |-> "LEGACY", deleted |-> FALSE,
     released |-> TRUE, extracted |-> FALSE, bytes |-> "active", key |-> "none"]

Init ==
    /\ job = [j \in Jobs |-> [type |-> "TEXT", doc |-> NoDoc,
                              status |-> "absent", attempts |-> 0,
                              lockedBy |-> NoWorker, age |-> 0, wait |-> 0]]
    /\ doc \in [Docs -> {NewDoc("absent"), NewDoc("UPLOADED")}]
    /\ worker = [w \in Workers |-> NewSession]
    /\ client = [c \in Clients |-> NoRequest]

-----------------------------------------------------------------------------
(* Rows.                                                                   *)

SetJob(j, row) == job' = [job EXCEPT ![j] = row]
SetDoc(d, row) == doc' = [doc EXCEPT ![d] = row]
SetSession(w, session) == worker' = [worker EXCEPT ![w] = session]
SetRequest(c, request) == client' = [client EXCEPT ![c] = request]

\* get_document_for_tenant: what a request can still see.
Visible(d) == doc[d].processing # "absent" /\ ~doc[d].deleted

ActiveJobs(d, t) ==
    {j \in Jobs : job[j].doc = d /\ job[j].type = t /\ job[j].status \in Active}

Siblings(j) ==
    {k \in Jobs \ {j} : job[k].doc = job[j].doc /\ job[k].status \in Active}

\* A new row takes the next id.
NextSlot(j) == /\ job[j].status = "absent"
               /\ \A k \in Jobs : k < j => job[k].status # "absent"

NewJob(d, t) == [type |-> t, doc |-> d, status |-> "PENDING", attempts |-> 0,
                 lockedBy |-> NoWorker, age |-> 0, wait |-> 0]

\* status, locked_at and locked_by are assigned together.
Unlock(row, s) == [row EXCEPT !.status = s, !.lockedBy = NoWorker, !.age = 0]

\* Mutant: gives a job one recovery too many.
ExhaustedLate(row) == row.attempts > MaxAttempts

Exhausted(row) == row.attempts >= MaxAttempts

\* A session between its verdict's first flush and its COMMIT has updated,
\* and so locked, the job and the document.
LocksJob(w, j) == worker[w].pc = "commit" /\ worker[w].held = j
LocksDoc(w, d) == /\ worker[w].pc = "commit"
                  /\ \E j \in Jobs : worker[w].held = j /\ job[j].doc = d
JobLocked(j) == \E w \in Workers : LocksJob(w, j)
DocLocked(d) == \E w \in Workers : LocksDoc(w, d)

-----------------------------------------------------------------------------
(* Stale-lease recovery.                                                   *)

Stale(j) == /\ job[j].status = "RUNNING"
            /\ job[j].age > StaleAfter
            /\ ~JobLocked(j)                      \* SKIP LOCKED

Recovered(row) ==
    IF Exhausted(row)
    THEN Unlock(row, "FAILED")
    ELSE [Unlock(row, "PENDING") EXCEPT !.wait = RetryDelay[row.attempts]]

\* Recover the jobs in S.  lead[d] is the first text job of d in S, the only
\* one that can find the document still PROCESSING.
RecoverAll(S, lead) ==
    /\ \A d \in Docs : LET T == {j \in S : job[j].doc = d /\ job[j].type = "TEXT"}
                       IN  IF T = {} THEN lead[d] = 0 ELSE lead[d] \in T
    /\ job' = [j \in Jobs |-> IF j \in S THEN Recovered(job[j]) ELSE job[j]]
    /\ \A d \in Docs : lead[d] # 0 /\ doc[d].processing = "PROCESSING"
                       => ~DocLocked(d)
    /\ doc' = [d \in Docs |->
                 IF lead[d] # 0 /\ doc[d].processing = "PROCESSING"
                 THEN [doc[d] EXCEPT !.processing =
                         IF Exhausted(job[lead[d]]) THEN "FAILED" ELSE "UPLOADED"]
                 ELSE doc[d]]

-----------------------------------------------------------------------------
(* Requests.                                                               *)

\* An upload is scanned clean, released from quarantine by a clean retry, or
\* stays legacy_unscanned with scanning off; its extraction job is inserted in
\* the same transaction.
Upload(d, m) ==
    /\ doc[d].processing = "absent"
    /\ SetDoc(d, [doc[d] EXCEPT !.processing = "UPLOADED", !.malware = m])
    /\ \E j \in Jobs : NextSlot(j) /\ SetJob(j, NewJob(d, "TEXT"))
    /\ UNCHANGED <<worker, client>>

\* POST .../processing/retry: first recover at most one stale text job of d.
RetryRecover(c, d) ==
    /\ client[c].pc = "idle"
    /\ Visible(d)
    /\ doc[d].released
    /\ LET T == {j \in Jobs : Stale(j) /\ job[j].doc = d /\ job[j].type = "TEXT"}
       IN  IF T = {}
           THEN UNCHANGED <<job, doc>>
           ELSE \E j \in T : RecoverAll({j}, [e \in Docs |-> IF e = d THEN j ELSE 0])
    /\ SetRequest(c, [pc |-> "check", doc |-> d, type |-> "TEXT"])
    /\ UNCHANGED worker

\* POST .../rescan-legacy for a document still legacy_unscanned.
RequestRescan(c, d) ==
    /\ client[c].pc = "idle"
    /\ Visible(d)
    /\ doc[d].malware = "LEGACY"
    /\ SetRequest(c, [pc |-> "check", doc |-> d, type |-> "RESCAN"])
    /\ UNCHANGED <<job, doc, worker>>

\* POST .../intelligence/...: the text extraction must exist.
RequestIntelligence(c, d) ==
    /\ client[c].pc = "idle"
    /\ Visible(d)
    /\ doc[d].extracted
    /\ SetRequest(c, [pc |-> "check", doc |-> d, type |-> "AI"])
    /\ UNCHANGED <<job, doc, worker>>

\* enqueue_processing_job looks for a live job of the type ...
EnqueueCheck(c) ==
    LET r == client[c] IN
    /\ r.pc = "check"
    /\ IF \/ r.type # "RESCAN" /\ ~doc[r.doc].released
          \/ ActiveJobs(r.doc, r.type) # {}
       THEN SetRequest(c, NoRequest)
       ELSE SetRequest(c, [r EXCEPT !.pc = "insert"])
    /\ UNCHANGED <<job, doc, worker>>

\* ... and inserts its own if it saw none; no constraint repeats the check.
EnqueueInsert(c) ==
    LET r == client[c] IN
    /\ r.pc = "insert"
    /\ \E j \in Jobs : NextSlot(j) /\ SetJob(j, NewJob(r.doc, r.type))
    /\ SetRequest(c, NoRequest)
    /\ UNCHANGED <<doc, worker>>

\* A soft delete; quarantined evidence is refused.
Delete(d) ==
    /\ Visible(d)
    /\ doc[d].malware \notin Blocked
    /\ ~DocLocked(d)
    /\ SetDoc(d, [doc[d] EXCEPT !.deleted = TRUE])
    /\ UNCHANGED <<job, worker, client>>

\* Revocation of an external-evidence processing release is final and leaves
\* the document's queued and running jobs alone.
RevokeRelease(d) ==
    /\ Visible(d)
    /\ doc[d].released
    /\ SetDoc(d, [doc[d] EXCEPT !.released = FALSE])
    /\ UNCHANGED <<job, worker, client>>

\* POST .../quarantine/.../retry: a legacy document whose scan had failed is
\* scanned again where its quarantine record says the bytes are.
RetryQuarantine(d) ==
    /\ doc[d].malware = "SCAN_ERROR"
    /\ doc[d].key = doc[d].bytes              \* else the file is missing
    /\ ~DocLocked(d)
    /\ \/ SetDoc(d, [doc[d] EXCEPT !.malware = "INFECTED"])
       \/ SetDoc(d, [doc[d] EXCEPT !.malware = "CLEAN", !.bytes = "active",
                                   !.key = "none"])
    /\ UNCHANGED <<job, worker, client>>

\* A purge deletes the file named by the record, if it is there.
PurgeQuarantine(d) ==
    /\ doc[d].malware \in Blocked
    /\ doc[d].key # "none"
    /\ SetDoc(d, [doc[d] EXCEPT !.bytes = IF @ = doc[d].key THEN "gone" ELSE @,
                                !.key = "none"])
    /\ UNCHANGED <<job, worker, client>>

-----------------------------------------------------------------------------
(* Workers.                                                                *)

Held(w) == job[worker[w].held]
HeldDoc(w) == doc[Held(w).doc]

Proceed(w, next) == SetSession(w, [worker[w] EXCEPT !.pc = next])

\* The session decides what it will write and remembers the processing status
\* it loaded: an assignment of the same value emits no UPDATE.
Decided(w, p) == [worker[w] EXCEPT !.pc = "fence", !.plan = p,
                                   !.seen = HeldDoc(w).processing]
Decide(w, p) == SetSession(w, Decided(w, p))

\* run_once first recovers every expired lease ...
WorkerRecover(w) ==
    /\ worker[w].pc = "recover"
    /\ Proceed(w, "claim")
    /\ LET S == {j \in Jobs : Stale(j)}
       IN  IF S = {} THEN UNCHANGED <<job, doc>>
           ELSE \E lead \in [Docs -> S \cup {0}] : RecoverAll(S, lead)
    /\ UNCHANGED client

Claimable == {j \in Jobs : /\ job[j].status = "PENDING"
                           /\ job[j].wait = 0
                           /\ job[j].attempts < MaxAttempts}

\* Rescans before everything else, then by age of the row.
Before(j, k) == \/ job[j].type = "RESCAN" /\ job[k].type # "RESCAN"
                \/ (job[j].type = "RESCAN") = (job[k].type = "RESCAN") /\ j <= k

\* Mutant: only the first claim of a job takes a new attempt number.
ClaimSameAttempt(w) ==
    /\ worker[w].pc = "claim"
    /\ \E j \in Claimable :
         LET n == IF job[j].attempts = 0 THEN 1 ELSE job[j].attempts IN
         /\ SetJob(j, [job[j] EXCEPT !.status = "RUNNING", !.lockedBy = w,
                                     !.age = 0, !.attempts = n])
         /\ SetSession(w, [NewSession EXCEPT !.pc = "begin", !.held = j,
                                             !.token = n])
    /\ UNCHANGED <<doc, client>>

\* ... then claims one job: the new attempt number makes the lease unique.
Claim(w) ==
    /\ worker[w].pc = "claim"
    /\ \E j \in Claimable :
         /\ \A k \in Claimable : Before(j, k)
         /\ SetJob(j, [job[j] EXCEPT !.status = "RUNNING", !.lockedBy = w,
                                     !.age = 0, !.attempts = @ + 1])
         /\ SetSession(w, [NewSession EXCEPT !.pc = "begin", !.held = j,
                                             !.token = job[j].attempts + 1])
    /\ UNCHANGED <<doc, client>>

NothingToClaim(w) ==
    /\ worker[w].pc = "claim"
    /\ Claimable = {}
    /\ SetSession(w, NewSession)
    /\ UNCHANGED <<job, doc, client>>

Starts(w, t) == worker[w].pc = "begin" /\ Held(w).type = t

\* process_job: the release comes before the malware status, and a rescan is
\* held up by neither.
RefuseNoAuthority(w) ==
    /\ worker[w].pc = "begin"
    /\ Held(w).type # "RESCAN"
    /\ ~HeldDoc(w).released
    /\ Decide(w, "no_authority")
    /\ UNCHANGED <<job, doc, client>>

RefuseQuarantined(w) ==
    /\ worker[w].pc = "begin"
    /\ Held(w).type # "RESCAN"
    /\ HeldDoc(w).released
    /\ HeldDoc(w).malware \in Blocked
    /\ Decide(w, "quarantined")
    /\ UNCHANGED <<job, doc, client>>

Admitted(w) == \/ Held(w).type = "RESCAN"
               \/ HeldDoc(w).released /\ HeldDoc(w).malware \notin Blocked

\* Every handler first refuses a deleted document.
StartDeleted(w) ==
    /\ worker[w].pc = "begin"
    /\ Admitted(w)
    /\ HeldDoc(w).deleted
    /\ Decide(w, "fail")
    /\ UNCHANGED <<job, doc, client>>

StartText(w) ==
    /\ Starts(w, "TEXT") /\ Admitted(w) /\ ~HeldDoc(w).deleted
    /\ Decide(w, "mark")
    /\ UNCHANGED <<job, doc, client>>

StartIntelligence(w) ==
    /\ Starts(w, "AI") /\ Admitted(w) /\ ~HeldDoc(w).deleted
    /\ Proceed(w, "run")
    /\ UNCHANGED <<job, doc, client>>

\* Mutant: a rescan of a document that already has a verdict scans it again.
RescanAgain(w) ==
    /\ Starts(w, "RESCAN") /\ ~HeldDoc(w).deleted
    /\ Proceed(w, "scan")
    /\ UNCHANGED <<job, doc, client>>

StartRescan(w) ==
    /\ Starts(w, "RESCAN") /\ ~HeldDoc(w).deleted
    /\ IF HeldDoc(w).malware = "LEGACY" THEN Proceed(w, "scan")
                                        ELSE Decide(w, "skip")
    /\ UNCHANGED <<job, doc, client>>

\* rescan_legacy_document scans the bytes and, unless they are clean, moves
\* them under a quarantine key before anything is committed.  A move that
\* fails leaves storage_key as the quarantine key.
Scan(w) ==
    /\ worker[w].pc = "scan"
    /\ \E v \in Verdicts, place \in Places :
         /\ HeldDoc(w).bytes # "active" => v = "SCAN_ERROR"       \* file missing
         /\ place = "quarantine" => v \in Blocked /\ HeldDoc(w).bytes = "active"
         /\ SetSession(w, [Decided(w, v) EXCEPT !.key = place])
         /\ IF place = "quarantine"
            THEN SetDoc(Held(w).doc, [HeldDoc(w) EXCEPT !.bytes = place])
            ELSE UNCHANGED doc
    /\ UNCHANGED <<job, client>>

\* Scanning switched off raises before the bytes are touched.
ScanRefused(w) ==
    /\ worker[w].pc = "scan"
    /\ HeldDoc(w).bytes = "active"
    /\ Decide(w, "fail")
    /\ UNCHANGED <<job, doc, client>>

\* Text extraction or an AI run, outside any transaction on the job row.
RunSucceeds(w) ==
    /\ worker[w].pc = "run"
    /\ Held(w).type = "TEXT" => HeldDoc(w).bytes = "active"
    /\ SetSession(w, [worker[w] EXCEPT !.pc = "fence", !.plan = "finish"])
    /\ UNCHANGED <<job, doc, client>>

RunFails(w) ==
    /\ worker[w].pc = "run"
    /\ Decide(w, "fail")
    /\ UNCHANGED <<job, doc, client>>

\* Mutant: any running lease on the job passes the fence.
OwnsAnyLease(w) == Held(w).status = "RUNNING"

\* before_flush: compare the durable lease with the session's fingerprint.
OwnsLease(w) == /\ Held(w).status = "RUNNING"
                /\ Held(w).attempts = worker[w].token
                /\ Held(w).lockedBy = w

FencePasses(w) == /\ worker[w].pc = "fence"
                  /\ OwnsLease(w)
                  /\ Proceed(w, "write")
                  /\ UNCHANGED <<job, doc, client>>

\* ProcessingLeaseLost: also the failure path's own flush is refused.
FenceFails(w) == /\ worker[w].pc = "fence"
                 /\ ~OwnsLease(w)
                 /\ SetSession(w, NewSession)
                 /\ UNCHANGED <<job, doc, client>>

SetProcessing(w, s) ==
    IF Held(w).type = "TEXT" /\ worker[w].seen # s
    THEN SetDoc(Held(w).doc, [HeldDoc(w) EXCEPT !.processing = s])
    ELSE UNCHANGED doc

\* The UPDATEs wait for rows another session has locked.
CanWrite(w, p) == /\ worker[w].pc = "write"
                  /\ worker[w].plan \in p
                  /\ ~JobLocked(worker[w].held)
                  /\ Held(w).type = "TEXT" => ~DocLocked(Held(w).doc)

EndJob(w, s) ==
    /\ SetJob(worker[w].held, Unlock(Held(w), s))
    /\ SetSession(w, NewSession)
    /\ UNCHANGED client

\* _process_text_job's first commit.
WriteMark(w) ==
    /\ CanWrite(w, {"mark"})
    /\ SetProcessing(w, "PROCESSING")
    /\ SetSession(w, [worker[w] EXCEPT !.pc = "run", !.seen = "PROCESSING"])
    /\ UNCHANGED <<job, client>>

\* The output of the run and the terminal status, in one transaction.
WriteFinish(w) ==
    /\ CanWrite(w, {"finish"})
    /\ IF Held(w).type = "TEXT"
       THEN SetDoc(Held(w).doc, [HeldDoc(w) EXCEPT !.processing = "PROCESSED",
                                                   !.extracted = TRUE])
       ELSE UNCHANGED doc
    /\ EndJob(w, "COMPLETED")

\* _fail_job: back to the queue at once, or failed for good.
WriteFail(w) ==
    /\ CanWrite(w, {"fail"})
    /\ IF worker[w].token >= MaxAttempts
       THEN SetProcessing(w, "FAILED") /\ EndJob(w, "FAILED")
       ELSE SetProcessing(w, "UPLOADED") /\ EndJob(w, "PENDING")

\* A rescan of a document that already has a verdict.
WriteSkip(w) ==
    /\ CanWrite(w, {"skip"})
    /\ EndJob(w, "COMPLETED")
    /\ UNCHANGED doc

WriteBlocked(w) ==
    /\ CanWrite(w, {"no_authority", "quarantined"})
    /\ EndJob(w, "FAILED")
    /\ IF worker[w].plan = "no_authority"
       THEN SetProcessing(w, "UPLOADED") ELSE UNCHANGED doc

WriteClean(w) ==
    /\ CanWrite(w, {"CLEAN"})
    /\ ~DocLocked(Held(w).doc)
    /\ SetDoc(Held(w).doc, [HeldDoc(w) EXCEPT !.malware = "CLEAN"])
    /\ EndJob(w, "COMPLETED")

\* A blocking verdict looks for the document's other live jobs.  The query
\* autoflushes the terminal status of this one; failing the others then needs
\* a second flush, whose fence reads that status and raises: the session
\* rolls back and takes the failure path.
WriteVerdict(w) ==
    /\ CanWrite(w, Blocked)
    /\ ~DocLocked(Held(w).doc)
    /\ IF Siblings(worker[w].held) = {} THEN Proceed(w, "commit")
                                        ELSE Decide(w, "fail")
    /\ UNCHANGED <<job, doc, client>>

CommitVerdict(w) ==
    /\ worker[w].pc = "commit"
    /\ SetDoc(Held(w).doc, [HeldDoc(w) EXCEPT !.malware = worker[w].plan,
                                               !.key = worker[w].key])
    /\ EndJob(w, "COMPLETED")

\* The process dies: its Session and open transaction are gone.
Crash(w) ==
    /\ worker[w].held # 0
    /\ SetSession(w, NewSession)
    /\ UNCHANGED <<job, doc, client>>

-----------------------------------------------------------------------------
Ticked(row) == [row EXCEPT
    !.age = IF row.status = "RUNNING" /\ @ <= StaleAfter THEN @ + 1 ELSE @,
    !.wait = IF @ > 0 THEN @ - 1 ELSE 0]

\* Without PauseInFlush a tick is longer than any write takes.
Tick ==
    /\ PauseInFlush \/ \A w \in Workers : worker[w].pc \notin {"write", "commit"}
    /\ job' = [j \in Jobs |-> Ticked(job[j])]
    /\ UNCHANGED <<doc, worker, client>>

WorkerStep(w) ==
    \/ WorkerRecover(w) \/ Claim(w) \/ NothingToClaim(w)
    \/ RefuseNoAuthority(w) \/ RefuseQuarantined(w) \/ StartDeleted(w)
    \/ StartText(w) \/ StartIntelligence(w) \/ StartRescan(w)
    \/ Scan(w) \/ ScanRefused(w) \/ RunSucceeds(w) \/ RunFails(w)
    \/ FencePasses(w) \/ FenceFails(w)
    \/ WriteMark(w) \/ WriteFinish(w) \/ WriteFail(w) \/ WriteSkip(w)
    \/ WriteBlocked(w) \/ WriteClean(w) \/ WriteVerdict(w) \/ CommitVerdict(w)

ClientStep(c) ==
    \/ \E d \in Docs : RetryRecover(c, d) \/ RequestRescan(c, d)
                       \/ RequestIntelligence(c, d)
    \/ EnqueueCheck(c) \/ EnqueueInsert(c)

DocStep(d) == \/ \E m \in {"CLEAN", "LEGACY"} : Upload(d, m)
              \/ Delete(d) \/ RevokeRelease(d)
              \/ RetryQuarantine(d) \/ PurgeQuarantine(d)

Next == \/ \E w \in Workers : WorkerStep(w) \/ Crash(w)
        \/ \E c \in Clients : ClientStep(c)
        \/ \E d \in Docs : DocStep(d)
        \/ Tick

Spec == Init /\ [][Next]_vars

\* Time passes, the database ends every open transaction, and the workers in
\* Reliable keep running; the others may stop for good, holding any lease.
\* Nothing makes a client send another request.
Fairness(Reliable) ==
    /\ WF_vars(Tick)
    /\ \A w \in Workers : WF_vars(worker[w].pc \in {"write", "commit"}
                                  /\ (WorkerStep(w) \/ Crash(w)))
    /\ \A w \in Reliable : WF_vars(WorkerStep(w))

-----------------------------------------------------------------------------
(* Properties.                                                             *)

\* A claim is exclusive: two live sessions never run the same attempt of the
\* same job, whoever crashed, was recovered or claimed again in between.
ExclusiveAttempts ==
    \A v, w \in Workers :
        v # w /\ worker[v].held # 0 /\ worker[v].held = worker[w].held
        => worker[v].token # worker[w].token

\* The budget is bounded and never strands a job: a row that waits in the
\* queue can still be claimed, and a running row has a recoverable owner.
NoStrandedJob ==
    \A j \in Jobs :
        /\ job[j].status = "PENDING" => job[j].attempts < MaxAttempts
        /\ job[j].status = "RUNNING" => job[j].lockedBy # NoWorker

\* Once a lease was recovered and claimed again, the old worker is past the
\* point where it could write over its successor.
SuccessorAuthoritative ==
    \A w \in Workers :
        worker[w].pc \in {"write", "commit"} =>
            /\ Held(w).attempts = worker[w].token
            /\ Held(w).status \notin {"absent", "COMPLETED"}

\* A completed job is never reopened.  A failed one changes only when the
\* session that recovery gave up on finishes its last write after all.
TerminalStable ==
    [][\A j \in Jobs :
         /\ job[j].status = "COMPLETED" => job'[j].status = "COMPLETED"
         /\ job[j].status = "FAILED" /\ job'[j].status # "FAILED" =>
              /\ job'[j].status = "COMPLETED"
              /\ job[j].attempts = MaxAttempts]_vars

-----------------------------------------------------------------------------
(* The inductive invariants behind these properties.                       *)

RowsHaveDocs ==
    /\ \A j \in Jobs : job[j].status # "absent" => job[j].doc \in Docs
    /\ \A c \in Clients : client[c].pc # "idle" => client[c].doc \in Docs

\* A session that holds a job holds an attempt that was made of it.
SessionsHoldAttempts ==
    \A w \in Workers :
        /\ worker[w].held = 0 <=> worker[w].pc \in {"recover", "claim"}
        /\ worker[w].held # 0 => /\ Held(w).status # "absent"
                                 /\ worker[w].token \in 1..Held(w).attempts

\* Only a blocking verdict stays uncommitted between two flushes.
OnlyVerdictsWait ==
    \A w \in Workers : worker[w].pc = "commit" => worker[w].plan \in Blocked

LeasesHaveOwners ==
    \A j \in Jobs : /\ job[j].status = "RUNNING" <=> job[j].lockedBy # NoWorker
                    /\ job[j].status = "RUNNING" => job[j].attempts > 0
                    /\ job[j].status = "absent" => job[j].attempts = 0

LeaseInv == /\ TypeOK
            /\ RowsHaveDocs
            /\ SessionsHoldAttempts
            /\ OnlyVerdictsWait
            /\ LeasesHaveOwners
            /\ ExclusiveAttempts

\* While a session writes, its job is still under its own lease, or was
\* recovered in this very tick: back in the queue but not yet available, or
\* failed because the budget is spent.
WritersAreCurrent ==
    \A w \in Workers :
        worker[w].pc \in {"write", "commit"} =>
            /\ Held(w).attempts = worker[w].token
            /\ \/ OwnsLease(w)
               \/ Held(w).status = "PENDING" /\ Held(w).wait > 0
               \/ Held(w).status = "FAILED" /\ Held(w).attempts = MaxAttempts

\* The inductive invariant of the queue when no tick passes inside a write.
QueueInv == LeaseInv /\ NoStrandedJob /\ WritersAreCurrent

\* The queue keeps the promise of AttemptLedger.
Ledger == INSTANCE AttemptLedger
            WITH status <- [j \in Jobs |-> job[j].status],
                 attempts <- [j \in Jobs |-> job[j].attempts]
LedgerSpec == Ledger!Spec

\* With one worker process an infected or clean verdict is final: a second
\* rescan of the document, queued while the first was running, leaves it alone.
VerdictIsFinal ==
    [][\A d \in Docs :
         doc[d].malware \in {"INFECTED", "CLEAN"} =>
             doc'[d].malware = doc[d].malware]_vars

\* Every job that enters the queue is eventually completed or failed.
EveryJobEnds ==
    \A j \in Jobs : job[j].status \in Active ~> job[j].status \in Terminal

\* A03: a lease that recovery changed aborts the stale session, so every write
\* of a session is made under the lease it holds.
LateWritesAreFenced ==
    [][\A w \in Workers :
         worker[w].pc = "write" /\ <<job, doc>>' # <<job, doc>>
         /\ worker'[w] # worker[w] => OwnsLease(w)]_vars

\* A malware verdict blocks the document and fails its other live jobs
\* (test_infected_legacy_document_is_quarantined_and_processing_blocked): the
\* session that reached the verdict goes on to commit it.
VerdictBlocksJobs ==
    [][\A w \in Workers :
         /\ worker[w].pc = "write" /\ worker[w].plan \in Blocked
         /\ worker'[w] # worker[w] /\ worker'[w].held # 0
         => worker'[w].pc = "commit"]_vars

\* ADR-032: the quarantine record of a blocked document owns the retained byte
\* location, so that an operator can retry or purge it.
QuarantineKeepsBytes ==
    \A d \in Docs : doc[d].malware \in Blocked /\ doc[d].key # "none"
                    => doc[d].key = doc[d].bytes

=============================================================================
