---------------------------- MODULE IntakeQueue ----------------------------
(***************************************************************************)
(* Claim intake: a notification file is uploaded, a worker extracts claim  *)
(* candidates from it, a person approves it (which creates a claim and     *)
(* moves the file to it) or rejects it.                                    *)
(*                                                                         *)
(* Jobs are leased like document jobs, but nothing fences the writes of a  *)
(* worker: an outcome is an UPDATE by primary key, whatever has happened   *)
(* to the row since the worker loaded it.  Approval locks the draft;       *)
(* rejection and manual retry read it without a lock.                      *)
(***************************************************************************)
EXTENDS Naturals, FiniteSets

CONSTANTS
    Drafts,         \* uploads of one file
    Workers,
    Clients,
    Claims,
    MaxAttempts,    \* processing_max_attempts
    SlowWorkers,    \* TRUE: a run may outlast its lease
    SlowRequests,   \* TRUE: a request may be overtaken between read and write
    ApiCrashes,     \* TRUE: an API process may die during an approval
    None

ASSUME IntakeAssumption ==
    /\ MaxAttempts \in Nat \ {0}
    /\ {SlowWorkers, SlowRequests, ApiCrashes} \subseteq BOOLEAN
    /\ None \notin Drafts \cup Claims
    /\ Claims \cap {"none", "quarantine", "intake"} = {}

VARIABLES
    draft,      \* [Drafts -> row of claim_intake_drafts]
    job,        \* [Drafts -> row of claim_intake_processing_jobs]
    file,       \* [Drafts -> where the uploaded bytes are]
    source,     \* [Claims -> the draft a claim was created from]
    worker,     \* [Workers -> what a worker is doing]
    client      \* [Clients -> the request a client has under way]

vars == <<draft, job, file, source, worker, client>>

\* Storage keys: the key of a claim's document is the claim itself.
Places == {"none", "quarantine", "intake"} \cup Claims

DraftRow ==
    [status : {"absent", "processing", "pending_review", "approved", "rejected",
               "failed", "infected", "scan_error"},
     key : Places, claim : Claims \cup {None}]

\* ready: available_at has come; expired: locked_at is older than the stale
\* threshold; terminal: last_error is one that no retry can cure.
JobRow ==
    [status : {"absent", "pending", "running", "completed", "failed"},
     attempts : 0..MaxAttempts, ready : BOOLEAN, expired : BOOLEAN,
     terminal : BOOLEAN]

WorkerState == [pc : {"idle", "claimed", "extracting", "extracted", "checking"},
                item : Drafts \cup {None}]

ClientState == [op : {"none", "upload", "approve", "reject", "retry"},
                item : Drafts \cup {None}, claim : Claims \cup {None},
                seenDraft : DraftRow, seenJob : JobRow]

NoDraft == [status |-> "absent", key |-> "none", claim |-> None]
NoJob == [status |-> "absent", attempts |-> 0, ready |-> FALSE,
          expired |-> FALSE, terminal |-> FALSE]
Idle == [pc |-> "idle", item |-> None]
NoRequest == [op |-> "none", item |-> None, claim |-> None,
              seenDraft |-> NoDraft, seenJob |-> NoJob]

TypeOK ==
    /\ draft \in [Drafts -> DraftRow]
    /\ job \in [Drafts -> JobRow]
    /\ file \in [Drafts -> Places]
    /\ source \in [Claims -> Drafts \cup {None}]
    /\ worker \in [Workers -> WorkerState]
    /\ client \in [Clients -> ClientState]

Init ==
    /\ draft = [d \in Drafts |-> NoDraft]
    /\ job = [d \in Drafts |-> NoJob]
    /\ file = [d \in Drafts |-> "none"]
    /\ source = [k \in Claims |-> None]
    /\ worker = [w \in Workers |-> Idle]
    /\ client = [c \in Clients |-> NoRequest]

\* An approval holds the row lock of its draft until it commits or rolls back.
Locked(d) == \E c \in Clients : client[c].op = "approve" /\ client[c].item = d

-----------------------------------------------------------------------------
(* Upload.                                                                 *)

\* The bytes are stored and no draft of the same file is found.
UploadStart(c, d) ==
    /\ client[c].op = "none"
    /\ file[d] = "none"
    /\ \A e \in Drafts : draft[e].status = "absent"
    /\ file' = [file EXCEPT ![d] = "quarantine"]
    /\ client' = [client EXCEPT ![c] = [NoRequest EXCEPT !.op = "upload", !.item = d]]
    /\ UNCHANGED <<draft, job, source, worker>>

\* A draft held back by the scanner stays in quarantine and has no job.
UploadHeld(c, status) ==
    LET d == client[c].item IN
    /\ client[c].op = "upload"
    /\ \A e \in Drafts : draft[e].status = "absent"
    /\ draft' = [draft EXCEPT ![d] = [NoDraft EXCEPT !.status = status,
                                                     !.key = "quarantine"]]
    /\ client' = [client EXCEPT ![c] = NoRequest]
    /\ UNCHANGED <<job, file, source, worker>>

\* The file is moved to the intake area and the draft is queued; if another
\* upload of the file has committed, the bytes are deleted instead.
UploadClean(c) ==
    LET d == client[c].item IN
    /\ client[c].op = "upload"
    /\ IF \A e \in Drafts : draft[e].status = "absent"
       THEN /\ file' = [file EXCEPT ![d] = "intake"]
            /\ draft' = [draft EXCEPT ![d] = [NoDraft EXCEPT !.status = "processing",
                                                             !.key = "intake"]]
            /\ job' = [job EXCEPT ![d] = [NoJob EXCEPT !.status = "pending",
                                                       !.ready = TRUE]]
       ELSE /\ file' = [file EXCEPT ![d] = "none"]
            /\ UNCHANGED <<draft, job>>
    /\ client' = [client EXCEPT ![c] = NoRequest]
    /\ UNCHANGED <<source, worker>>

-----------------------------------------------------------------------------
(* The worker.                                                             *)

\* A retry is scheduled some seconds ahead.
BackoffEnds(d) ==
    /\ job[d].status = "pending" /\ ~job[d].ready
    /\ job' = [job EXCEPT ![d].ready = TRUE]
    /\ UNCHANGED <<draft, file, source, worker, client>>

LeaseExpires(d) ==
    /\ job[d].status = "running" /\ ~job[d].expired
    /\ SlowWorkers \/ \A w \in Workers : worker[w].item # d
    /\ job' = [job EXCEPT ![d].expired = TRUE]
    /\ UNCHANGED <<draft, file, source, worker, client>>

\* recover_stale_intake_jobs.
Recover(w, d) ==
    /\ worker[w].pc = "idle"
    /\ job[d].status = "running" /\ job[d].expired
    /\ \/ /\ draft[d].status # "processing"
          /\ job' = [job EXCEPT ![d].status = "failed", ![d].terminal = FALSE]
          /\ UNCHANGED draft
       \/ /\ draft[d].status = "processing"
          /\ job[d].attempts >= MaxAttempts
          /\ job' = [job EXCEPT ![d].status = "failed", ![d].terminal = FALSE]
          /\ draft' = [draft EXCEPT ![d].status = "failed"]
       \/ /\ draft[d].status = "processing"
          /\ job[d].attempts < MaxAttempts
          /\ job' = [job EXCEPT ![d].status = "pending", ![d].ready = TRUE]
          /\ UNCHANGED draft
    /\ UNCHANGED <<file, source, worker, client>>

\* claim_next_intake_job.
Claim(w, d) ==
    /\ worker[w].pc = "idle"
    /\ job[d].status = "pending" /\ job[d].ready
    /\ job[d].attempts < MaxAttempts
    /\ job' = [job EXCEPT ![d].status = "running", ![d].expired = FALSE,
                          ![d].attempts = @ + 1]
    /\ worker' = [worker EXCEPT ![w] = [pc |-> "claimed", item |-> d]]
    /\ UNCHANGED <<draft, file, source, client>>

\* process_intake_job loads the draft.
Start(w) ==
    /\ worker[w].pc = "claimed"
    /\ IF draft[worker[w].item].status = "processing"
       THEN /\ worker' = [worker EXCEPT ![w].pc = "extracting"]
            /\ UNCHANGED job
       ELSE /\ worker' = [worker EXCEPT ![w].pc = "checking"]
            /\ job' = [job EXCEPT ![worker[w].item].status = "failed",
                                  ![worker[w].item].terminal = FALSE]
    /\ UNCHANGED <<draft, file, source, client>>

\* The file is read where the draft says it is.
Extract(w) ==
    LET d == worker[w].item IN
    /\ worker[w].pc = "extracting"
    /\ file[d] = draft[d].key
    /\ worker' = [worker EXCEPT ![w].pc = "extracted"]
    /\ UNCHANGED <<draft, job, file, source, client>>

\* The candidates are written and the draft goes to review.
Succeed(w) ==
    LET d == worker[w].item IN
    /\ worker[w].pc = "extracted"
    /\ ~Locked(d)
    /\ draft' = [draft EXCEPT ![d].status = "pending_review"]
    /\ job' = [job EXCEPT ![d].status = "completed", ![d].terminal = FALSE]
    /\ worker' = [worker EXCEPT ![w].pc = "checking"]
    /\ UNCHANGED <<file, source, client>>

\* The except block: draft and job are read again, and failed unseen.
Fail(w, terminal) ==
    LET d == worker[w].item IN
    /\ worker[w].pc \in {"extracting", "extracted"}
    /\ ~Locked(d)
    /\ draft' = [draft EXCEPT ![d].status = "failed"]
    /\ job' = [job EXCEPT ![d].status = "failed", ![d].terminal = terminal]
    /\ worker' = [worker EXCEPT ![w].pc = "checking"]
    /\ UNCHANGED <<file, source, client>>

\* Mutant: the last attempt is requeued as well.
RetryableForever(d) ==
    /\ job[d].status = "failed" /\ ~job[d].terminal
    /\ draft[d].status = "failed"

\* The wrapper's second transaction gives a transient failure back to the queue.
Retryable(d) ==
    /\ job[d].status = "failed" /\ ~job[d].terminal
    /\ job[d].attempts < MaxAttempts
    /\ draft[d].status = "failed"

Requeue(w) ==
    LET d == worker[w].item IN
    /\ worker[w].pc = "checking"
    /\ Retryable(d)
    /\ draft' = [draft EXCEPT ![d].status = "processing"]
    /\ job' = [job EXCEPT ![d].status = "pending", ![d].ready = FALSE]
    /\ worker' = [worker EXCEPT ![w] = Idle]
    /\ UNCHANGED <<file, source, client>>

Finish(w) ==
    /\ worker[w].pc = "checking"
    /\ ~Retryable(worker[w].item)
    /\ worker' = [worker EXCEPT ![w] = Idle]
    /\ UNCHANGED <<draft, job, file, source, client>>

\* A worker process dies and is started again.
Die(w) ==
    /\ worker[w].pc # "idle"
    /\ worker' = [worker EXCEPT ![w] = Idle]
    /\ UNCHANGED <<draft, job, file, source, client>>

-----------------------------------------------------------------------------
(* Review.                                                                 *)

\* Mutant: an approved draft can be approved again.
ApproveAgain(c, d, k) ==
    /\ client[c].op = "none"
    /\ ~Locked(d)
    /\ draft[d].status \in {"pending_review", "approved"}
    /\ source[k] = None
    /\ \A q \in Clients : client[q].claim # k
    /\ file[d] = draft[d].key
    /\ file' = [file EXCEPT ![d] = k]
    /\ client' = [client EXCEPT ![c] = [NoRequest EXCEPT !.op = "approve",
                                                         !.item = d, !.claim = k]]
    /\ UNCHANGED <<draft, job, source, worker>>

\* approve_intake_draft up to its last flush: the row is locked and checked, a
\* claim is made and the file is moved to it.
ApproveStart(c, d, k) ==
    /\ client[c].op = "none"
    /\ ~Locked(d)
    /\ draft[d].status = "pending_review"
    /\ source[k] = None
    /\ \A q \in Clients : client[q].claim # k
    /\ file[d] = draft[d].key
    /\ file' = [file EXCEPT ![d] = k]
    /\ client' = [client EXCEPT ![c] = [NoRequest EXCEPT !.op = "approve",
                                                         !.item = d, !.claim = k]]
    /\ UNCHANGED <<draft, job, source, worker>>

\* Mutant: an error after the commit moves the file back.
ApproveUndone(c) ==
    LET d == client[c].item
        k == client[c].claim IN
    /\ client[c].op = "approve"
    /\ draft' = [draft EXCEPT ![d] = [status |-> "approved", key |-> k, claim |-> k]]
    /\ source' = [source EXCEPT ![k] = d]
    /\ file' \in {file, [file EXCEPT ![d] = draft[d].key]}
    /\ client' = [client EXCEPT ![c] = NoRequest]
    /\ UNCHANGED <<job, worker>>

ApproveCommit(c) ==
    LET d == client[c].item
        k == client[c].claim IN
    /\ client[c].op = "approve"
    /\ draft' = [draft EXCEPT ![d] = [status |-> "approved", key |-> k, claim |-> k]]
    /\ source' = [source EXCEPT ![k] = d]
    /\ client' = [client EXCEPT ![c] = NoRequest]
    /\ UNCHANGED <<job, file, worker>>

\* The except block rolls back and moves the file back.
ApproveFails(c) ==
    LET d == client[c].item IN
    /\ client[c].op = "approve"
    /\ file' = [file EXCEPT ![d] = draft[d].key]
    /\ client' = [client EXCEPT ![c] = NoRequest]
    /\ UNCHANGED <<draft, job, source, worker>>

\* The transaction is rolled back by the database, nobody moves the file.
ApproverDies(c) ==
    /\ ApiCrashes
    /\ client[c].op = "approve"
    /\ client' = [client EXCEPT ![c] = NoRequest]
    /\ UNCHANGED <<draft, job, file, source, worker>>

\* Rejection and retry load the rows without a lock ...
Load(c, d, op) ==
    /\ client[c].op = "none"
    /\ client' = [client EXCEPT ![c] = [NoRequest EXCEPT
                    !.op = op, !.item = d, !.seenDraft = draft[d],
                    !.seenJob = job[d]]]
    /\ UNCHANGED <<draft, job, file, source, worker>>

\* Mutant: any decided or undecided draft can be rejected.
LoadRejectAny(c, d) ==
    draft[d].status \in {"pending_review", "approved"} /\ Load(c, d, "reject")

LoadReject(c, d) == draft[d].status = "pending_review" /\ Load(c, d, "reject")

LoadRetry(c, d) == draft[d].status = "failed" /\ Load(c, d, "retry")

\* ... and write the columns that they change.
Timely(c) ==
    /\ ~Locked(client[c].item)
    /\ SlowRequests \/ /\ client[c].seenDraft = draft[client[c].item]
                       /\ client[c].seenJob = job[client[c].item]

Reject(c) ==
    LET d == client[c].item IN
    /\ client[c].op = "reject"
    /\ Timely(c)
    /\ draft' = [draft EXCEPT ![d].status = "rejected"]
    /\ client' = [client EXCEPT ![c] = NoRequest]
    /\ UNCHANGED <<job, file, source, worker>>

\* retry_failed_intake_draft gives the draft a new budget.
Retry(c) ==
    LET d == client[c].item
        seen == client[c].seenJob IN
    /\ client[c].op = "retry"
    /\ Timely(c)
    /\ draft' = [draft EXCEPT ![d].status = "processing"]
    /\ job' = [job EXCEPT
         ![d].status = IF seen.status = "pending" THEN @ ELSE "pending",
         ![d].attempts = IF seen.attempts = 0 THEN @ ELSE 0,
         ![d].ready = TRUE, ![d].terminal = FALSE]
    /\ client' = [client EXCEPT ![c] = NoRequest]
    /\ UNCHANGED <<file, source, worker>>

\* A request that is refused or dies.  An upload leaves its bytes in quarantine,
\* also when the row of a held draft meets the unique hash of another one.
Abandon(c) ==
    /\ client[c].op \in {"upload", "reject", "retry"}
    /\ client' = [client EXCEPT ![c] = NoRequest]
    /\ UNCHANGED <<draft, job, file, source, worker>>

-----------------------------------------------------------------------------
Poll(w) == \E d \in Drafts : Recover(w, d) \/ Claim(w, d)

Run(w) ==
    \/ Start(w) \/ Extract(w) \/ Succeed(w)
    \/ \E terminal \in BOOLEAN : Fail(w, terminal)
    \/ Requeue(w) \/ Finish(w)

ClientStep(c) ==
    \/ \E d \in Drafts : UploadStart(c, d) \/ LoadReject(c, d) \/ LoadRetry(c, d)
    \/ \E status \in {"infected", "scan_error"} : UploadHeld(c, status)
    \/ UploadClean(c)
    \/ \E d \in Drafts, k \in Claims : ApproveStart(c, d, k)
    \/ ApproveCommit(c) \/ ApproveFails(c) \/ ApproverDies(c)
    \/ Reject(c) \/ Retry(c) \/ Abandon(c)

Next ==
    \/ \E d \in Drafts : BackoffEnds(d) \/ LeaseExpires(d)
    \/ \E w \in Workers : Poll(w) \/ Run(w) \/ Die(w)
    \/ \E c \in Clients : ClientStep(c)

Spec == Init /\ [][Next]_vars

\* Time passes, a worker goes on with its job unless it dies, and the workers
\* in Reliable are always started again and poll.
Fairness(Reliable) ==
    /\ \A d \in Drafts : WF_vars(BackoffEnds(d)) /\ WF_vars(LeaseExpires(d))
    /\ \A w \in Workers : WF_vars(Run(w))
    /\ \A w \in Reliable : WF_vars(Poll(w))

-----------------------------------------------------------------------------
(* Properties.                                                             *)

\* ADR-033: "Only the approval command creates one Claim": no two claims come
\* from one draft, whoever was working on it when it was approved.
OneClaimPerDraft ==
    \A j, k \in Claims : source[j] # None /\ source[j] = source[k] => j = k

\* The document of a claim keeps the bytes it was approved with.
ClaimsKeepSource == \A k \in Claims : source[k] # None => file[source[k]] = k

\* ADR-091: a failed attempt that can be retried goes back to the queue: while
\* it has not, some worker is about to do it.
RetryIsAutomatic ==
    \A d \in Drafts : Retryable(d) =>
        \E w \in Workers : worker[w].pc = "checking" /\ worker[w].item = d

\* A draft in processing has a job that a worker will take or finish,
\* or that recovery will find.
NoStrandedDraft ==
    \A d \in Drafts : draft[d].status = "processing" =>
        \/ job[d].status = "pending" /\ job[d].attempts < MaxAttempts
        \/ job[d].status = "running"

\* What holds of every draft at every moment: one claim at most comes of it, and
\* it is never stranded in processing.
DraftInv == TypeOK /\ OneClaimPerDraft /\ NoStrandedDraft

\* Whenever nobody approves it, the file of a live draft is where its row says.
FileFollowsDraft ==
    \A d \in Drafts : draft[d].status # "absent" /\ ~Locked(d) =>
        file[d] = draft[d].key

\* Every upload in processing ends in review, or is failed for a person to see.
EveryDraftSettles ==
    \A d \in Drafts : draft[d].status = "processing"
                        ~> draft[d].status \in {"pending_review", "failed",
                                                "approved", "rejected"}

\* What intake promises: a decision is made once and makes at most one claim.
Decision(status) ==
    CASE status \in {"approved", "rejected"} -> status
      [] status \in {"absent", "infected", "scan_error"} -> "none"
      [] OTHER -> "open"
Promise == INSTANCE IntakePromise
             WITH decision <- [d \in Drafts |-> Decision(draft[d].status)],
                  opened <- [d \in Drafts |-> {k \in Claims : source[k] = d}]
PromiseSpec == Promise!Spec

=============================================================================
