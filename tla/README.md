# Verification of the maritime claims platform

TLA+ models of the platform's API and workers (`apps/api/app`), the TLC
configurations that check them, and proofs for TLAPS. Paths below are relative
to `apps/api/app/` unless they start with `docs/`.

## 1. Inventory

The platform is a FastAPI application over PostgreSQL (READ COMMITTED, one
SQLAlchemy session per request), a file store, and polling worker processes.
Nothing is shared in memory: components meet only in database rows and files.
That makes the hard behaviours those of transactions: a row read without a lock
and written later, a file moved before a commit, a lease that outlives its
holder, a retry of something already done.

| Component | State it keeps | Operations | Talks to | Hard behaviour | What makes it correct |
|---|---|---|---|---|---|
| Processing queue and lease recovery (`modules/processing`) | rows of `document_processing_jobs`: status, attempts, lease, `available_at`; `documents.processing_status`, extraction | enqueue, claim, run (text, rescan, AI), fail/retry, fence, recover | documents, evidence security, intelligence, rules | two workers and a recovery on one row; fence is a read, the write comes later; crash between claim and commit | attempts are exclusive and bounded; no job is stranded; outcomes stay; every job ends |
| Document worker (`workers/document_worker.py`) | one session | recover, claim, run, sleep | queue, intake | dies anywhere, holding a lease; no restart policy | its death only delays jobs |
| Evidence security (`documents/evidence_security.py`) | `malware_scan_status`, `quarantined_uploads`, the file | legacy rescan, retry, purge | queue, store | bytes move before the commit; duplicate rescans; retry against purge | a verdict is final; quarantine knows where its bytes are; blocked documents are not processed |
| Documents (`modules/documents`) | documents, versions, deletion | upload, version, delete, metadata, download | store, queue | deletion and revocation under a running job | evidence under quarantine is not deleted |
| Processing release (`external_document_sources/processing_release_service.py`) | releases of external evidence | release, revoke | queue | revocation under a running job | a job that starts later is refused |
| Intake (`modules/intake`) | drafts, `claim_intake_processing_jobs`, the file | create, claim, process, retry, approve, reject | worker, claims, documents | the same leases without a fence; approval moves the file before the commit | one claim per draft; a draft under review is not rewritten by a stale worker |
| Governance webhooks | outbox deliveries, destinations, key versions | sync, claim, deliver, fail, manual retry, rotate, disable | its worker, the receiver | a worker that dies while `attempting`; answer lost after delivery | every event is delivered or dead-lettered; retried under the same id |
| Settlements (`modules/settlements`) | proposals and payment authorizations | draft, edit, submit, review, disposition; create, submit, approve twice, reject, record paid | adjustments | proposals change without a lock, payments under one | payments fit the accepted amount; four eyes; what was approved is what is paid |
| Intelligence and review | AI runs, candidates with citations, decisions, facts | run, review, promote | queue, extraction | text is re-extracted under a running AI job | a verified citation names an existing segment |
| Chronology (`modules/chronology`) | events, conflicts and their versions | rebuild, review, replace, delete, dispose | documents, review | a conflict read before the lock; events of documents that are gone | one event per evidence; a disposition is about what stands |
| Rules, claim intelligence, packs, correspondence, financial, adjustments, assessments | derived rows | rebuild, approve | claims, documents | rebuilt from rows that change meanwhile | derived from the current evidence |
| External evidence: observation (`external_document_sources`) | schedules, dispatches, consumptions, observations, handoffs | dispatch, consume, observe, hand over | provider, documents, reviewers | scheduler, workers and operators on one family; rows read before the lock | each tick once and in sequence; every change reaches a reviewer |
| External evidence: refresh and admission | authorizations, anchors, executions, stored objects, family versions | approve, refresh, authorize, admit | provider, object store, documents | crash between object and commit; retries; lost answers | what is admitted is what was reviewed, over the version it was reviewed over |
| Recovery read route (`documents/recovery_*`) | route row, leases, decisions, receipts, audit rows | cut over, qualify, promote, assess, renew, roll back, download | object store, downloads | requests far apart; downloads without a lock; late audit rows | one owner of the route; no read under an ended lease |
| Recovery write side and retention, AI production controls, pilots | append-only records of administrative decisions | hundreds of near-identical steps | each other | order of approvals | a step has its predecessor's evidence |
| Auth, users, organizations | sessions, tokens, memberships | login, refresh, revoke, SSO, SCIM | all | token reuse, revocation | not studied here |

`PROJECT.json` lists every component with its status, and every hazard at its line.

## 2. Plan

One module per component, each with the abstract specification of what it
promises; the modules are parameterised by CONSTANTS with named assumptions, and
declare no RECURSIVE operator so that they can be proved about.

| Module | Abstract specification | Section | Proved |
|---|---|---|---|
| `ProcessingQueue` | `AttemptLedger` | 3 | safety, refinement |
| `SettlementLedger` | `PaymentEscrow` | 4 | safety, refinement |
| `IntakeQueue` | `IntakePromise` | 5 | safety, refinement |
| `WebhookDelivery` | `DeliveryChannel` | 6 | safety, refinement |
| `FactReview` | `CanonicalFact` | 7 | safety, refinement |
| `RecurringObservation` | `TickLedger` | 8 | safety, refinement |
| `Chronology` | `ConflictRegister` | 9 | safety, refinement |
| `EvidenceRefresh` | `GovernedRefresh` | 10 | safety, refinement |
| `ReadRoute` | `ReadLadder` | 11 | safety, refinement |

What could be added, in this order: the write side of the recovery chain on the
pattern of `ReadRoute`; a timeline of three sources; sessions and one-time tokens;
closure and retention of claims; and the composition of the worker's two queues
for the liveness of both.

Proofs are for any number of processes, rows and requests. Where a section names
a hypothesis (`~Overlap`, `~SlowWorkers`, ...), it excludes a behaviour that the
code allows: the run with the hypothesis false is then in section 12, with what
happens.

## 3. The processing queue

### Modules

| Module | Content |
|---|---|
| `ProcessingQueue` | the queue: state, one action per transaction part, properties, inductive invariants |
| `AttemptLedger` | what the queue promises about one job, leases and documents left out |
| `MCProcessingQueue` | constants, fairness instance and symmetry for TLC |
| `ProcessingQueueProofs` | invariants, proved for every value of the constants; the queue implements the ledger; outcomes are stable |

### State and actions against the code

`job` is the job table (ids follow `created_at`), with `age` the ticks since
`locked_at` and `wait` the ticks until `available_at`. `doc` holds the columns
handlers look at and where the file is: `bytes` is the actual place of the file,
`key` the place the document's last quarantine record names. `worker` is what a
worker's session has in memory: the job it holds, `token` (the attempt of its
lease fingerprint), what it decided to write (`plan`), and `seen`, the
processing status it loaded, because the ORM emits no UPDATE for a value that
did not change. `client` is an enqueue request between its SELECT and its INSERT.

| Code | Actions |
|---|---|
| `enqueue_processing_job` | `EnqueueCheck`, `EnqueueInsert` (two statements, nothing in between is locked) |
| retry, rescan and intelligence routes | `RetryRecover`, `RequestRescan`, `RequestIntelligence` |
| `recover_stale_processing_jobs` | `RecoverAll` inside `WorkerRecover` and `RetryRecover` |
| `claim_next_job` | `Claim` (rescans first, then by age), `NothingToClaim` |
| `process_job` | `RefuseNoAuthority`, `RefuseQuarantined`, `StartDeleted`, `StartText`, `StartRescan`, `StartIntelligence` |
| `rescan_legacy_document` | `Scan`, `ScanRefused`, then `WriteClean`, or `WriteVerdict` and `CommitVerdict` |
| the text and AI handlers | `WriteMark`, `RunSucceeds`, `RunFails`, `WriteFinish` |
| `_fail_job`, blocked jobs | `WriteFail`, `WriteSkip`, `WriteBlocked` |
| `_fence_processing_flush` | `FencePasses`, `FenceFails`; the write that follows is a step of its own, because the fence's SELECT takes no lock |
| upload, delete, revoke, retry and purge of quarantine | `Upload`, `Delete`, `RevokeRelease`, `RetryQuarantine`, `PurgeQuarantine` |
| a worker process dies | `Crash`; the wall clock is `Tick` |

A blocking verdict is the one transaction with two flushes: between them it has
locked its job and document (`pc = "commit"`), and `SKIP LOCKED` or a waiting
UPDATE of another session looks at `JobLocked` and `DocLocked`.

Modelled from their use and marked external: PostgreSQL row locks, the death of
a process, and the clock. Several quarantine records of one document are
abstracted to the last one. Not modelled: the text and the AI output, the
requirement refresh that follows a commit, and intake's half of the worker loop.

### Runs

| Run | Instance | Shows |
|---|---|---|
| `PQSafety` | 2 workers, 1 client, 1 document, 2 jobs, 2 attempts | the inductive `QueueInv`, whose parts are `LeaseInv` (types, `ExclusiveAttempts`, the leases), `NoStrandedJob` and `WritersAreCurrent`; and `SuccessorAuthoritative` |
| `PQLive` | 1 worker, 1 client, 1 document, 2 jobs, 2 attempts, fair | `EveryJobEnds`; `VerdictIsFinal`: duplicate rescans leave an infected or clean verdict alone; the refinement `LedgerSpec` |

Bounds. Documents interact with nothing but their own jobs, so one document is
enough. It may be older than the queue (uploaded, unscanned, without a job) or be
uploaded with its text job; two jobs then give every pair of types on it, two
rescans included. Two workers are the smallest number with a stale session and
its successor. Two attempts make both branches of every budget test happen. A
lease is stale after one whole tick (`StaleAfter`: 0) in `PQSafety` and after two
in `PQLive`; the backoffs are the code's `15 * 2^(n-1)` seconds in ticks, capped
at two. `MaxJobs` bounds the table; a request that finds it full waits.

A tick never passes between a fence and its write (`PauseInFlush = FALSE`). The
real ratio is fifteen seconds of backoff (and ten minutes of lease) to the
milliseconds of a flush; `LeaseInvariant` (below) shows what holds without that
assumption, and `SuccessorAuthoritative` needs it.

`VerdictIsFinal` is about one worker process, the number that is deployed: with
two, both rescans can have read `legacy_unscanned`, and TLC shows the later
commit overwriting the earlier verdict (section 12).

### Fairness

`Fairness(Reliable)`: time passes; the database ends every open transaction (by
its COMMIT or the death of its client); and the workers in `Reliable` keep
running. `document_worker.main` has no exception handler and the compose
service has no restart policy, so "one worker keeps running" is a promise of the
operator, and the only one made: it may die at any step, holding a lease, and
starts again. Weak fairness is enough because a polling worker
is never disabled for good. No client is assumed to do anything. Intake jobs are
served before ordinary document jobs in the real loop, so the liveness also
assumes that the intake queue runs empty from time to time.

### Proofs

`LeaseInvariant` needs no timing assumption. Its invariant `LeaseInv` adds to
exclusiveness what makes it inductive: a session that holds a job holds an
attempt that was really made of it (`SessionsHoldAttempts`), running rows are
exactly those with an owner (`LeasesHaveOwners`), rows name documents, and only a
blocking verdict waits between two flushes. Exclusiveness follows because every
claim uses a new attempt number and every token is at most the row's. TLC
evaluates `LeaseInv` as a conjunct of `QueueInv`.

`QueueInvariant` assumes `~PauseInFlush` and adds `WritersAreCurrent`: while a
session writes, its job is under its own lease, or was recovered in this very
tick and is therefore still backing off or exhausted. A claim needs a job
without backoff, so no successor can exist. `NoJobIsStranded` and
`SuccessorsAreSafe` follow from it.

`QueueKeepsLedger` maps the job table to `AttemptLedger` and shows each action
to be one of its steps or a stutter; the ledger's `LateSettle` is exactly the
write that the fence does not stop. `OutcomesAreStable` is the action property
`TerminalStable`.

`VerdictsAreFinal` proves `VerdictIsFinal` for at most one worker, the hypothesis
without which it is false, and for any number of clients, documents, jobs and
attempts; no timing is assumed. Its invariant `VerdictInv` adds to `LeaseInv` that
a session which scans a document, or is about to write a verdict on it, found it
without one and still does (`ScansLegacy`). Nobody else can give it one in
between: a retry is about a document that has a verdict, and an upload about one
that no job or request names yet (`DocsAppear`). A crash or a recovery forgets the
scan and keeps the verdicts.

Assumed: `QueueAssumption` only (positive attempt budget, positive backoff,
distinct null values). Model-checked only: liveness, which is out of the
prover's reach.

## 4. Settlements and payments

### Modules

| Module | Content |
|---|---|
| `SettlementLedger` | proposals, payments, and the requests that have read one of them |
| `PaymentEscrow` | what the ledger promises about money: opened once, bound within a fixed limit, never released once authorized |
| `MCSettlementLedger` | symmetry for TLC |
| `SettlementLedgerProofs` | approvals proved without, the cap with the assumption on overlap |

### State and actions against the code

A request is one transaction. `proposal` and `payment` are the tables; `edit` and
`move` hold the row a request has loaded with a plain SELECT.

| Code (`modules/settlements`) | Actions |
|---|---|
| `create_settlement` | `CreateProposal` |
| `get_settlement` without lock | `ReadProposal`: the guards of what follows look at the row as read |
| `update_settlement`, `submit_settlement`, `review_settlement`, `record_disposition` | `UpdateProposal`, `SubmitProposal`, `ApproveProposal`, `RejectProposal`, `RecordDisposition` |
| the UPDATE of their flush | `Flushed`: only columns that differ from the row as read are written |
| `create_payment` (locks the settlement first) | `CreatePayment` |
| `get_payment` | `ReadPayment` |
| `lock_payment_transition`, `lock_and_validate_payment_capacity` | `Locks`, `LockedRow` (read again under the lock), `Capacity` |
| `submit_payment`, `approve_payment`, `reject_payment`, `record_paid` | `SubmitPayment`, `FirstApprove`, `SecondApprove`, `RejectPayment`, `RecordPaid` |
| 404, 409, 422, a request that dies | `AbandonEdit`, `AbandonMove`: the transaction leaves nothing |

What a payment transition does after it has its locks is one step: the settlement
lock serializes every payment of a settlement. An edit commits whenever it gets
the row, at worst after any other transaction; READ COMMITTED does not notice.
A sum of amounts is the number of units that payments bind (`Units`), which TLC
can count and the prover can reason about with facts on finite sets. The hash of
an approval is the amount it covers. Left out: titles, terms and the other
columns that no guard reads, version and sequence numbers, notes and dates,
audit rows, and the adjustment, whose approved total is `NetAdjusted`.
`PaymentStatus.CANCELLED` is set by no code.

### Runs

| Run | Instance | Shows |
|---|---|---|
| `SLSerial` | 3 managers, 2 requests, 1 proposal, 2 payments, total 2, no overlap on a proposal | `CapRespected`, the inductive `LedgerInv` that it and `PaymentsHaveAuthority` follow from, `FourEyes`, and the refinement `EscrowSpec` |

Bounds. Three managers are the fewest that can authorize a payment, and leave
the creator and the first approver free to try. Two payments of up to two units
on a settlement of up to two compete for its capacity, and a rejected one can
come back. Two requests give a stale one and a current one. Proposals do not
interact.

`Overlap = FALSE` says that a request on a proposal is answered before the next
one on the same proposal is sent. Requests on payments, and on payments against a
proposal, still race. It is an assumption about the users, not something the code
enforces: without it the cap fails (section 12); `FourEyes` and `AuthorityFinal`
are proved for both values. No liveness is stated: people
drive every step.

### Proofs

`FourEyesHolds` and `AuthorityIsFinal` need no assumption on overlap. Every
payment action is a `PaymentWrite` (`MoveIsWrite`): it keeps settlement, amount
and creator, and what it does to status and approvers depends on the row read
under the lock only. `FourEyes` is not inductive alone; `ApprovalInv` adds that
a payment waiting for its second approval has an independent first one.

`LedgerHolds` assumes `~Overlap`. Then what a request has read is still so when
it commits (`EditsAreCurrent`), so a flush writes the whole row
(`FlushedCurrent`) and no proposal that has payments is ever written, because
none of the actions starts from `ACCEPTED`. For the cap, `UnitsSplit` says that a
settlement's units are those of one payment and those of the others,
`OthersUnchanged` that writing a payment leaves the others alone, and `CapKept`
that a payment which fits, or already counted, keeps the sum below the amount.
`CapHolds` and `AuthorityHolds` follow.

`EscrowIsKept` maps a settlement to the escrow's `Limits` (its accepted amount),
`Bounds` (the units its payments bind) and `Firms` (those that are authorized or
paid). Only an acceptance and a payment transition move them; the escrow's guard
that what is bound stays within the limit is the capacity test, and `CapRespected`
after the step shows it.

Assumed: `LedgerAssumption` (finitely many payments, a positive total, a null
value).

## 5. Claim intake

`IntakeQueue` models the upload of a notification file, the worker that drafts a
claim from it, and the people who approve, reject or retry the draft
(`modules/intake`, `modules/intake/maturity.py`). `IntakePromise` is what a
draft promises whatever happens inside: it ends approved with one claim, or
rejected, or failed, and an ended draft stays ended. `MCIntakeQueue` has the
constants.

| Code | Actions |
|---|---|
| upload: duplicate test, quarantine write, scan, promotion, commit | `UploadCheck` to `UploadCommit`, with the race of two uploads of one file |
| `claim_next_intake_job`, `recover_stale_intake_jobs` | `Poll` |
| `process_intake_job` and the wrapper that gives a failed attempt back | `Run`: two transactions, nothing fenced; a worker may `Die` between any two |
| `approve_intake_draft` | the file is moved, then the claim committed; a failure moves it back, an API crash does not |
| `reject`, manual retry | read without a lock, written later |

`SlowWorkers` and `SlowRequests` say whether a run may outlast its lease and
whether a request may be overtaken. `IQLive` excludes both: `IQClaim` and section
12 show what happens otherwise.

| Run | Shows |
|---|---|
| `IQLive` | two workers, two clients, two drafts of one file, API crashes: `DraftInv` (`OneClaimPerDraft`, `NoStrandedDraft` and the types), `ClaimsKeepSource`, the refinement `PromiseSpec`, and, fair, `EveryDraftSettles` |
| `IQClaim` | violated with a slow worker: `OneClaimPerDraft` (section 12) |

Bounds: two workers (one is kept running, the other may stop for good at any
step), two clients, two drafts of the same file (which race for its hash), two
attempts. Fairness is that of section 3: time, open transactions, and one
restarted worker; no client is assumed to do anything.

**Proofs** (`IntakeQueueProofs`). `DraftsAreSafe`, `SourcesAreKept` and
`PromiseIsKept` assume `~SlowWorkers` and `~SlowRequests`. `IntakeInv` is
inductive: a running worker's job is leased to it alone and its draft is still in
processing (`RunInv`), so no outcome is ever written over a decision; a draft is in
processing exactly while its job is queued or runs (`QueueInv`); what an upload, an
approval, a rejection and a retry have read is still so, and two of them never work
on one draft or one claim number (`RequestInv`); a claim and its draft name each
other and the file is the claim's (`SourceInv`). One claim per draft follows
because `draft.claim` is a single value. The refinement needs no more: each action
maps to a step of `IntakePromise` on the draft's `Decision`, or to a stutter.
Assumed besides: `IntakeAssumption`.

## 6. Governance webhooks

`WebhookDelivery` models the outbox (`modules/governance_webhooks`): events are
synced to delivery rows, workers claim, sign, post and settle them, and
administrators rotate the secret, disable the destination and retry rows.
`DeliveryChannel` is an at-least-once channel with dead letters. A row is leased
by its status alone; that a worker died is known to nobody.

| Run | Shows |
|---|---|
| `WHLive` | a secret shown for a version is the one its requests are signed with, also after a rotation (`IssuedSecretsVerify`), `AttemptsHaveWorkers` and the types, together `DeliveryInv`; the refinement `ChannelSpec`; and, fair, `EveryDeliveryEnds` |

`Deaths` says where each worker may die. In `WHLive` one of the two dies while it
holds no row (`DieBetweenAttempts`), as often as it likes, and is started again;
a death inside an attempt strands the row (section 12), and then the liveness
claim is about the rows of the others. `EveryDeliveryEnds` assumes an enabled
destination.

A receiver may accept a request whose answer is lost: `received` counts by
idempotency key, and the channel allows the second delivery, which the code's
documents announce. Bounds: one event (rows of one batch are settled one by one),
two workers, which compete for it, one administrator with one manual retry and
one rotation, two attempts. Fairness: time and the
workers' steps; the container restarts them.

**Proofs** (`WebhookDeliveryProofs`). All assume `~SlowRequests`. `WebhookInv` is
inductive: a worker with an item is the only one, its row is `attempting`, and an
accepted answer was received (`HoldInv`); a row is of an event that occurred and a
waiting one has an attempt left (`BudgetInv`); a retry was asked of a failed row
(`AdminInv`); each version was issued one secret, and the destination's two keys
are the last two (`KeyInv`). It holds wherever workers die, and so do
`HoldersAreExclusive` and `ChannelIsKept`. That no attempt is without a worker is
true only of deaths between attempts, which `DeliveriesAreSafe` assumes.

## 7. Review of extracted facts

`FactReview` models one field of a claim: AI candidates with their citation,
the reprocessing of the source text, single and grouped reviews, and the fact
with its revisions (`modules/review`, `modules/claims/facts.py`,
`modules/processing`, `modules/intelligence`). `CanonicalFact` is the register a
claim presents: the fact is always a value somebody accepted, its versions only
grow, and it vanishes only when no accepted decision is left.

The essential detail is SQLAlchemy's: the `SELECT ... FOR UPDATE` after the wait
returns the object the session has, with the attributes as read before. `review`
therefore keeps the candidate as read, and the UPDATE writes what differs from
it. `Overlap` says whether somebody may change the candidate in between.

| Run | Shows |
|---|---|
| `FRSafety` | one worker, no overlap on a candidate: `FactHasAuthority`, `FactInv` (`HistoryExplainsFact` and the types), `ApprovedFromCurrentSource`, and the refinement `RegisterSpec` |

Bounds: two candidates that compete for the field, the intake form beside them,
two requests, two generations of text, three versions of the fact (a second
source, its rejection and the restored first). No liveness: people drive every
review.

**Proofs** (the first part of `ClaimReviewProofs`). All assume `~Overlap`. The invariant is about the
claim as a value, `ClaimInv(claim)`, so that a grouped review is two decisions with
a claim between them (`half`). It says that the revisions up to the version are
there and the last one is the fact (`Versioned`); that the last revision from a
candidate that is still accepted has the value that was accepted (`Spoken`); and
that every accepted candidate has such a revision (`Recallable`): the two that a
rejection relies on when it falls back. `LatestIs` shows that the `CHOOSE` of the
newest version is defined. `ViewInv`, `RunInv` and `ExtractInv` say what requests
and workers hold. `HistoryIsWhole`, `FactsHaveAuthority` and `RegisterIsKept`
follow for any number of workers. `ApprovalsAreCurrent` also assumes one worker and
adds `CurrentInv`: a candidate that is not stale was made from the text the
document has, and the worker's own selection of candidates is still complete.

## 8. Recurring observation of external evidence

`RecurringObservation` models schedules and their revisions, the scheduler's
iteration, the service workers that consume dispatches, an operator who observes
by hand, and the projector that hands changes to reviewers
(`modules/external_document_sources`, due-tick and observation services).
`TickLedger` promises that the ticks of a schedule revision are counted in
sequence and each is settled once.

The binding row of a family is the lock of everything. What a session loaded
before it had the lock is old, and the model keeps it: `Scan` reads candidates,
`Visit` takes them one by one under the lock.

| Run | Shows |
|---|---|
| `ROSafety` | one family of either provider, a worker and an operator, every event: `TickInv` (`TicksInSequence`, `ConsumptionsMatch`, and the parts that make them inductive: `TicksCounted`, `OneActive`, `RevisionsKnown`, `DispatchesOnce`, `RequestsKnown`, the types), `ObservesUnderAuthority`, and the refinement `LedgerSpec` |
| `ROLive` | fair, two families whose schedules are disabled and whose provider fails now and then: `EveryTickObserved`, `EveryChangeReviewed` |

The events a run allows (`Events`) and the providers a family may come from
(`Providers`, one of which an initial state chooses) are named in its cfg. `ROLive` leaves out
those that are known to stop a tick or a change for good: admissions, refreshes,
deletions and a candidate limit below the number of families (section 12).
Fairness: clock, scheduler, projector and workers take
their steps (weak); a provider read that is tried again and again succeeds some
time (strong), since an outage only makes it fail at single attempts. Bounds:
one family for safety, since families share nothing but the scheduler's and the
worker's iterations, and two for liveness; two ticks, two revisions of the
schedule and two versions of the document where the run has events that make
them.

**Proofs** (`RecurringObservationProofs`). No hypothesis: every event, any number
of families, workers, operators, ticks and versions. `TickInv` is inductive. A
tick is observed only as `NextDue`, the latest one observed plus one;
`TicksCounted` says that the observed ticks of a revision are an interval from
its effective time, as long as there are observations, so that `NextDue` is one
past its end (`NextDueIs`) and an observation extends it by one: nothing skipped,
nothing twice. This holds without any lock of the dispatch: what a worker, an
operator or the scheduler read before the binding lock is compared again under it
(`MayObserve`). `OneActive` rests on the check of an authorization and on the
replacement that ends the old revision. A consumption is unique because a worker
holds what nobody else holds or has consumed (`DispatchesOnce`), and is about the
same version because `Match` compares it before a link and `MayExecute` before an
execution. For `LedgerIsKept` an observation is the ledger's `Observe`, or
`ObserveAndSettle` when a worker makes it; a link is `Settle`, an authorization
and a replacement are `OpenRevision`, a disable is `CloseRevision`.
`TicksAreInSequence` and `ObservationsHaveAuthority` state the properties of
`ROSafety`. Assumed: `ObservationAssumption`. Model-checked only: the liveness of
`ROLive`.

## 9. Chronology

`Chronology` models one occurrence reported by two sources, the rebuild that
clusters reviewed values into events and conflicts with a stable identity,
corrections, replacement, deletion and admission of documents, and the
disposition of conflicts (`modules/chronology`, the retirement in
`modules/documents/service.py`, admission in `external_document_sources`).
`ConflictRegister` promises that a disposition is about the version that stands.

| Run | Shows |
|---|---|
| `CHSafety` | a report and a log that may be replaced, one user, no stale read of a conflict: `TimelineInv` (`OneEventPerEvidence`; `ConflictsAreLive`: a conflict on display is about the events on display; `SignaturesUnique`, `VersionsInOrder` and `RequestsKnown`, which make it inductive; and the types), `RebuildIdempotent`, `CorrectionKeepsIdentity`, `EventsRestOnCurrentEvidence`, and the refinement `ResolutionsSpec` |

`EventsRestOnCurrentEvidence` says that no step but an admission leaves an event
of a superseded or deleted document on the timeline.

Bounds: two sources; times that are equal, near and far (`NearAndFar`), which make
clusters join, split and move; two versions of the log (`TwoLogs`); two events and
one conflict at a time, which is what two sources can produce; two states of the
conflict.

**Proofs** (the second part of `ClaimReviewProofs`, which extends `FactReview` and
`Chronology`: the timeline is rebuilt from what the first part is about, and no
name of one module is a name of the other). For two sources, as modelled, and any
number of versions, times, tolerance, users, dispositions and bounds. Assumed:
`ChronologyAssumption`. `TimelineInv` is inductive, also while conflicts
change between the read of a request and its lock. The argument is about the
rebuild. Two sources make at most two clusters, and these share no document
(`Clear`); the rows have distinct signatures and those on display rest on disjoint
evidence (`Sound`); so a candidate matches at most one row and a row is matched by
at most one candidate, and the rebuilt rows are `Sound` again (`UpsertedRows`).
`SignaturesUnique` is needed because a corrected value moves a row onto the
signature of its candidate, which a row that was retired earlier could have: the
code looks there first. A second rebuild finds every candidate in its row and
every conflict under its key in the same state, hence changes nothing
(`RebuildsAreIdempotent`); evidence on display always has a row, hence a
correction makes none (`IdentityIsKept`); every step but an admission retires or
rebuilds what rests on a document that it takes out of force (`EventsRest`).
With `~StaleReads` the timeline implements `ConflictRegister`
(`ResolutionsAreKept`) and no disposition is replaced without a confirmation
(`NoResolutionIsSilent`); section 12 has what happens without it.

## 10. Evidence refresh

`EvidenceRefresh` models what follows an observed change: the reviewer's
decision, the refresh handler with its recovery anchor (anchor, lock, provider
read, stored object, completion), the admission authorization and the admission
as the family's next version (copy, promote, commit). `GovernedRefresh` promises
the order of approvals and what a staged or admitted version refers to.

Faults: a process that dies at any step, a database connection that is lost
while its handler goes on, a commit whose answer is lost, a stray object under
the key; the item may change at any time, and uploads, later admissions,
deletion and disabled profiles take the ground from an approval.

| Run | Shows |
|---|---|
| `ERSafety` | SharePoint and SFTP, every fault and every event: `EvidenceInv` (`FollowsReviewed`, `RecordsStoredBytes`, `RowsAreHeldByHandlers` and the types), `AdmitsReviewedBytes`, `NoReadOnceStored`, and the refinement `GovernedSpec` |

The provider of the family is chosen in the initial state. `AdmitsReviewedBytes`
is about providers whose reads return a version token: an SFTP read does not, the
repository asks it for the byte count and a new digest only
(`docs/decisions/ADR-259-sftp-controlled-observation-refresh.md`), and the bytes of
a later version of the same size are then recorded. `NoReadOnceStored` (no second
provider read once bytes are stored) holds unless a handler lost its connection,
and with it the row that keeps others away. `RowsAreHeldByHandlers` is what the
absence of a deadlock rests on: a row is locked only by a handler between its
lock and its end, whatever fault ends it.

Bounds: one observed change, two refresh requests, two handlers (a stale one and
its successor), three contents and three versions of the item, three versions of
the document, one crash that leaves files. No liveness is stated: a refresh is
requested, and asked for again, by a person.

**Proofs** (`EvidenceRefreshProofs`). No hypothesis: every fault, every event, any
number of handoffs, requests and handlers. `RefreshInv` is inductive. The holder of
the rows works on the current version, and what it is about to do is not done
(`HolderInv`): with `lock = p` a commit may rely on what was checked before the
provider or the storage was waited for. What a handler has in hand stays true when
it loses the rows (`HandlerInv`): its content was read for its handoff and, once
stored, lies under the key, because an object under a key is never replaced; only
the commit, which fails without the rows, needs more. A handoff's record and the
object under its key were read for it, and such reads return the version that was
observed wherever there is a token (`HandoffInv`). A refreshed version has its
handoff's staged bytes, follows its version and is the only one (`VersionInv`).
`UndamagedInv`, that one handler at a time is past its lock, is what
`OneReadIsStored` needs and what a lost connection ends. `RefreshesAreGoverned`,
`AdmittedAsReviewed` and `GovernanceIsKept` follow; for the last, `HistoryGrows` and
`OneStage` turn writes of rows into the abstract steps.
Assumed: `RefreshAssumption`.

## 11. The recovery read route

`ReadRoute` models which source serves the downloads of one document
(`modules/documents/recovery_*`): temporary cutovers to the recovery replica,
the qualification of two finished ones, the durable promotion, the health
assessment of its window, and its renewal. `ReadLadder` promises one owner at a
time, no lease twice, and the rungs in order.

`route` is the route row, `lease` the lease rows, `record` the decision rows,
`moves` the receipts. A request of an Admin is one transaction that locks its own
row and then the route, so it is one step; a preparation without a lock on the
route linearizes at its snapshot, because versions only grow. A download is five
steps: it reads the route once (the session keeps that row), then the lease, then
the replica, and at last commits its audit row, which carries the time its
transaction began. `Evidence` is what a health assessment finds of these rows.
`approved` stands for the qualified status of assessments too.

| Run | Shows |
|---|---|
| `RDChain` | three cutovers, two downloads, one failure of the storage, one window that passes unused: `AuthorityInv` (`OneAuthority`, `ActiveLeaseFits` and the types), `ThreeHands`, `PromotionOnUnmovedRoute`, `ReplicaReadsAreLicensed`, `RenewalAfterHealthyWindow`, and the refinement `LadderSpec` |

Two of the cutovers form the pair that is qualified, the third one moves the route
under the promotion. Every duty is somebody's, and two Admins may approve
(`Assigned`), so that an approval by the person who prepared or qualified is
there to be refused. `MaxLapses` bounds the windows that pass unused, and
`FirstRead` lets downloads begin once the route has moved six times, that is after
three cutovers, so that they fall into the window of the durable promotion and its
renewal; the proof covers downloads at any time.
No fairness: Admins drive every request, and an expired route answers 409 until
one of them reconciles it.

**Proofs** (`ReadRouteProofs`). Every step of every handler is one of four kinds
of step on route and leases (`StepsAreRouteSteps`): prepare a fresh lease,
switch from the local source to a lease whose version is the route's, give up a
prepared lease, restore the local source from the owner. Each kind preserves
`RouteInv`, which is the row types, `OneAuthority` and `ActiveLeaseFits`
together: neither of the two is inductive without the types, and
`ActiveLeaseFits` needs `OneAuthority`, since only that tells that a preparation
does not rewrite the owner's row. For `ReplicaReadsAreLicensed`, `ReadsOK` says
that a download past the route read names a lease; an activated lease is then
the owner by `OneAuthority`. `TypesAlwaysOK` adds the decisions.

`ChainInv` is the second layer, for the properties about people and evidence: what
each handler has verified when it writes (`Verified`, `Granted`) stays so, because
approved decisions, the names of who activated a lease, ended leases and audit rows
last (`RowsLast`, `ApprovalsLast`). `ThreeHandsAlways` then counts three different
members of `Hands`, and `RenewalsFollowHealth` follows from the comparison of the
assessed rows with the rows that are there. `HistoryInv` is the third layer and
relates the receipts to the route: its version is one more than their number
(`VersionCounts`), every second one closes the window of the one before it
(`Windows`), a lease that was rolled back and a promotion that was switched on have
theirs (`Recorded`), and a promotion's stands at the version its qualification
pinned (`Unmoved`), so that nothing moved the route in between
(`PromotionsOnUnmovedRoute`). `LadderIsKept` maps the receipts
with an even number to the leases that have ended (`Past`): a switch leaves them
alone and a restoration adds the owner.
Assumed: `PairsAssumption`, `PeopleAssumption`, `BoundsAssumption` and
`LocalAssumption`.

Left out of this module: the reauthorized renewal and the read-ownership
transition, which repeat the renewal's stages on the same row.

## 12. Findings

Every property below states what a document, a comment or a test of the
repository says, and TLC finds it violated. `IQClaim` is kept as a run. The
others are obtained by putting the property alone into the configuration named,
with the changes given; they are defined in the modules for that purpose.

| Configuration and changes | Property | What happens |
|---|---|---|
| `IQClaim` | `OneClaimPerDraft` | `intake/service.py:513`. A worker that outlasted its lease writes its outcome over a draft that was approved meanwhile; the draft returns to review and a second claim is made of it. |
| `PQSafety` | `LateWritesAreFenced` | `processing/lease_recovery.py:99`. The fence is a SELECT without `FOR UPDATE`, followed by UPDATEs by primary key; a recovery committed in between is not noticed, although `docs/product/A03_DOCUMENT_PROCESSING_STALE_LEASE_RECOVERY.md:19` promises the stale session's rollback. That backoff keeps a successor from having started remains true, and is proved. |
| `PQSafety` | `VerdictBlocksJobs` | `processing/service.py:418`. The query for the document's other live jobs autoflushes the job's own terminal status, and the second flush's fence refuses it: the verdict is rolled back and the document stays unscanned as long as another job is live. |
| `PQSafety` | `QuarantineKeepsBytes` | `documents/evidence_security.py:74`. The file moves before the row that names its new key commits; after a crash or the rollback above no record owns the bytes, against `docs/decisions/ADR-032-human-controlled-legacy-rescan.md:15`. |
| `PQSafety` | `VerdictIsFinal` | Only with two workers, which nothing forbids and nothing deploys: both have read `legacy_unscanned`. |
| `SLSerial`, `Overlap = TRUE` | `CapRespected` | `settlements/service.py:161`. An edit acts on a row read without a lock. If the proposal is submitted, approved, accepted and paid on before the edit commits, its UPDATE still writes the amount, and active payments exceed it, against `docs/product/A01_PAYMENT_SETTLEMENT_CAP_INVARIANT.md:9`. |
| `IQLive` | `RetryIsAutomatic` | `intake/maturity.py:120`. A worker that dies between the two transactions of a failed attempt leaves a retryable draft failed; recovery looks at running jobs only. |
| `WHLive`, `Deaths <- DieInAttempts` | `EveryDeliveryEnds` | `governance_webhooks/service.py:578`. The row of a worker that died stays `attempting`: neither claim, nor manual retry, nor any recovery takes it up. |
| `WHLive`, `MaxVersion = 3`, three salts | `KeysSurviveRotation` | `governance_webhooks/service.py:267`. One previous key is kept; a second rotation within the transition window dead-letters rows queued before the first. |
| `WHLive`, `SlowRequests = TRUE` | `RetriesOnlyFailed` | `governance_webhooks/service.py:757`. A manual retry tests a status read without a lock and writes over an automatic delivery. With a second administrator, two rotations of the same version issue two secrets (`IssuedSecretsVerify`). |
| `FRSafety`, two workers | `ApprovedFromCurrentSource` | `processing/service.py:465`. The candidates to invalidate are selected without a lock; one committed before the segments are deleted keeps its verification. |
| `FRSafety` | `FieldStaysReviewable` | `review/service.py:785`. After its only source is rejected, a field's next fact starts at version 1, which has a revision already: every approval fails. |
| `FRSafety` | `RevisionsImmutable` | `claims/facts.py:79`. Revisions lose their cited segment when the document is reprocessed (`ON DELETE SET NULL`). |
| `FRSafety`, `Overlap = TRUE` | `FactHasAuthority` | `review/service.py:620`. The select under the lock does not refresh the row; an approval that waited for a rejection promotes a fact on a rejected candidate. |
| `FRSafety`, `Overlap = TRUE` | `NoSilentReReview` | `review/service.py:666`. For the same reason a grouped request overwrites a decision it has not seen. |
| `ROLive`, one family, `Results = {"unchanged"}`, `Events = {"admit"}`, `MaxVersion = 2` | `EveryTickObserved` | `due_tick_dispatch_service.py:255`. A dispatch whose document version was superseded is refused at every poll and its tick is never dispatched again. |
| `ROLive`, `Results = {"unchanged"}`, `Events = {}`, `CandidateLimit = 1` | `EveryTickDispatched` | `due_tick_dispatch_service.py:201`. `next_due_at` never advances, so with more active schedules than the limit the later ones are never visited. |
| `ROLive`, `Results = {"unchanged"}`, `Events = {"delete"}` | `EveryTickDispatched` | `recurring_observation_schedule_service.py:149`. A family whose document was deleted ends the scheduler's iteration before it reaches the others. |
| `ROLive`, `Results = {"unchanged"}`, `Events = {"disable"}`, `CandidateLimit = 1` | `EveryFreshDispatchConsumed` | `due_tick_dispatch_consumption_service.py:538`. Dispatches that stay refused fill the worker's candidate limit. |
| `ROLive`, `Families = {1}`, `Providers = {"sftp"}`, `Results = {"changed"}`, `Events = {"refresh", "baseline", "disable"}`, `MaxVersion = 2` | `EveryChangeReviewed` | `family_version_admission_service.py:514`. A change on a refreshed version cannot be handed over once its schedule is disabled, and blocks the projector. |
| the same with `replace` for `disable`, `MaxRevision = 2` | `EstablishedBaselineHolds` | The same line. Replacing the schedule voids the baseline established for a refreshed version. |
| `ROLive`, one family, `Results = {"changed"}`, `Events = {"refresh"}`, `MaxVersion = 2` | `EveryTickObserved` | `family_version_admission_service.py:566`. A family that is not SFTP cannot be observed again after a refresh. |
| `CHSafety`, `StaleReads = TRUE` | `ResolutionsSpec` | `chronology/service.py:939`. A disposition is compared with the conflict as read before the lock. |
| `CHSafety`, `StaleReads = TRUE`, two users | `NoSilentResolution` | `chronology/service.py:964`. So is the need for a confirmation: the second of two people replaces the first's disposition. |
| `ERSafety` | `EvidenceHasBytes` | `observation_refresh_admission_execution_service.py:971`. `committed` is set after the commit returns, so a lost answer deletes the file of a committed document. |
| `ERSafety` | `NothingLeft` | `observation_refresh_admission_execution_service.py:1001`. Files copied or promoted before the commit are removed in except blocks only; a crash leaves them. |
| `RDChain` | `WindowsFailOnFaults` | `documents/router.py:387`. A download that races a rollback is recorded as an integrity failure and fails the window. |
| `RDChain` | `OutageIsRetryable` | `recovery_durable_read_promotion_service.py:683`. An outage during an approval invalidates the promotion request, which cannot be asked for again. |

Paths are relative to `modules/`, those of sections 8 and 10 to
`modules/external_document_sources/`, the last to `modules/documents/`.

One more fact is visible in the action property `EventsRestOnCurrentEvidence`
rather than in a violation: an admission (`family_version_admission_service.py:1274`)
supersedes a document without retiring its events and conflicts, which an upload
and a deletion do; they stay on the timeline until the next rebuild.

## 13. Not modelled

- Everything upstream of a family binding in `external_document_sources`:
  connections, credentials, listings, staging, checkpoints and the live SFTP
  transport. These are mostly protocol I/O and append-only evidence rows.
- The write side of the recovery chain (dual write, write ownership, storage
  ownership, ratification), replication, restore rehearsals, and physical
  disposal. Their services verify a chain of rows much as section 11's do; the
  lease of each is its own route row.
- Authentication, sessions, SSO and SCIM; claim closure and retention; e-mail
  ingestion; policy, packs and correspondence; AI production controls and pilots.
  These are listed in `PROJECT.json` with the reason for each.
- The text of documents and model output, wording, hashes as bytes (a hash is the
  content it covers), audit rows other than those that a guard reads, schema
  migrations and the web front end.

Model-checked only: every liveness property, which is outside the prover's reach.
Each invariant and action property of a passing run is stated by a theorem.
