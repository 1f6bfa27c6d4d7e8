------------------------- MODULE IntakeQueueProofs --------------------------
(***************************************************************************)
(* The invariants of IntakeQueue and its refinement of IntakePromise, for  *)
(* any number of drafts, workers, clients and claims, when a run ends      *)
(* within its lease and a request is not overtaken between its read and    *)
(* its write.  Processes may die at any moment.                            *)
(***************************************************************************)
EXTENDS IntakeQueue, TLAPS

Running == {"claimed", "extracting", "extracted"}

\* A worker has an item unless it is idle.  What it runs is leased to it alone,
\* and the draft it extracts is still in processing.
RunInv ==
    \A w \in Workers :
        /\ worker[w].pc = "idle" <=> worker[w].item = None
        /\ worker[w].pc \in Running =>
             /\ job[worker[w].item].status = "running"
             /\ ~job[worker[w].item].expired
             /\ \A v \in Workers :
                  worker[v].pc \in Running /\ worker[v].item = worker[w].item => v = w
        /\ worker[w].pc \in {"extracting", "extracted"} =>
             draft[worker[w].item].status = "processing"

\* A draft waits in processing exactly while its job is queued or runs.
QueueInv ==
    \A d \in Drafts :
        /\ job[d].status \in {"pending", "running"} => draft[d].status = "processing"
        /\ draft[d].status = "processing" =>
             \/ job[d].status = "pending" /\ job[d].attempts < MaxAttempts
             \/ job[d].status = "running"

\* What a request relies on from its first step to its last.
RequestInv ==
    \A c \in Clients :
        LET d == client[c].item
            k == client[c].claim IN
        /\ client[c].op # "none" => d \in Drafts
        /\ client[c].op # "approve" => k = None
        /\ client[c].op = "upload" =>
             /\ draft[d].status = "absent" /\ file[d] = "quarantine"
             /\ \A q \in Clients : client[q].op = "upload" /\ client[q].item = d => q = c
        /\ client[c].op = "approve" =>
             /\ k \in Claims /\ source[k] = None
             /\ draft[d].status = "pending_review" /\ file[d] = k
             /\ \A q \in Clients : client[q].op = "approve"
                  /\ (client[q].item = d \/ client[q].claim = k) => q = c
        /\ client[c].op = "reject" => client[c].seenDraft.status = "pending_review"
        /\ client[c].op = "retry" => client[c].seenDraft.status = "failed"

\* A claim and the draft it came from name each other, and the file is the
\* claim's.
SourceInv ==
    \A k \in Claims : source[k] # None =>
        /\ draft[source[k]].status = "approved"
        /\ draft[source[k]].claim = k
        /\ file[source[k]] = k

IntakeInv == TypeOK /\ RunInv /\ QueueInv /\ RequestInv /\ SourceInv

-----------------------------------------------------------------------------
(* Types: what a step writes to a row leaves it a row.                     *)

DraftStatus == {"absent", "processing", "pending_review", "approved", "rejected",
                "failed", "infected", "scan_error"}
JobStatus == {"absent", "pending", "running", "completed", "failed"}

LEMMA DraftWrites ==
  ASSUME NEW f \in [Drafts -> DraftRow], NEW d \in Drafts, NEW status \in DraftStatus
  PROVE  /\ [f EXCEPT ![d].status = status] \in [Drafts -> DraftRow]
         /\ \A key \in Places :
              [f EXCEPT ![d] = [NoDraft EXCEPT !.status = status, !.key = key]]
                \in [Drafts -> DraftRow]
         /\ \A k \in Claims :
              [f EXCEPT ![d] = [status |-> status, key |-> k, claim |-> k]]
                \in [Drafts -> DraftRow]
  BY DEF DraftRow, DraftStatus, NoDraft, Places

LEMMA JobMarks ==
  ASSUME NEW f \in [Drafts -> JobRow], NEW d \in Drafts
  PROVE  /\ [f EXCEPT ![d].ready = TRUE] \in [Drafts -> JobRow]
         /\ [f EXCEPT ![d].expired = TRUE] \in [Drafts -> JobRow]
  BY DEF JobRow

LEMMA JobWrites ==
  ASSUME NEW f \in [Drafts -> JobRow], NEW d \in Drafts, NEW status \in JobStatus,
         NEW b \in BOOLEAN
  PROVE  /\ [f EXCEPT ![d].status = status] \in [Drafts -> JobRow]
         /\ [f EXCEPT ![d].status = status, ![d].terminal = b] \in [Drafts -> JobRow]
         /\ [f EXCEPT ![d].status = status, ![d].ready = b] \in [Drafts -> JobRow]
  BY DEF JobRow, JobStatus

\* A claim of a job that has an attempt left.
LEMMA JobClaimed ==
  ASSUME NEW f \in [Drafts -> JobRow], NEW d \in Drafts, f[d].attempts < MaxAttempts
  PROVE  [f EXCEPT ![d].status = "running", ![d].expired = FALSE,
                   ![d].attempts = @ + 1] \in [Drafts -> JobRow]
  <1>1. f[d].attempts + 1 \in 0..MaxAttempts
    BY IntakeAssumption DEF JobRow
  <1>2. [f[d] EXCEPT !.status = "running", !.expired = FALSE,
                     !.attempts = f[d].attempts + 1] \in JobRow
    BY <1>1 DEF JobRow
  <1> QED
    BY <1>2

\* A retry of a job that nobody changed since it was read queues it anew.
LEMMA JobRetried ==
  ASSUME TypeOK, ~SlowRequests, NEW c \in Clients, client[c].item \in Drafts, Retry(c)
  PROVE  /\ job' \in [Drafts -> JobRow]
         /\ \A d \in Drafts :
              IF d = client[c].item
              THEN job'[d].status = "pending" /\ job'[d].attempts = 0
              ELSE job'[d] = job[d]
  <1> DEFINE d == client[c].item
             seen == client[c].seenJob
             row == [job[d] EXCEPT !.status = "pending", !.attempts = 0,
                                   !.ready = TRUE, !.terminal = FALSE]
  <1>1. seen = job[d]
    BY DEF Retry, Timely
  <1>2. job' = [job EXCEPT
          ![d].status = IF seen.status = "pending" THEN @ ELSE "pending",
          ![d].attempts = IF seen.attempts = 0 THEN @ ELSE 0,
          ![d].ready = TRUE, ![d].terminal = FALSE]
    BY DEF Retry
  <1>3. d \in Drafts /\ job \in [Drafts -> JobRow]
    BY DEF TypeOK
  <1>4. 0 \in 0..MaxAttempts
    BY IntakeAssumption
  <1> HIDE DEF d, seen
  <1>5. row \in JobRow /\ row.status = "pending" /\ row.attempts = 0
    BY <1>3, <1>4 DEF JobRow
  <1>6. job' = [job EXCEPT ![d] = row]
    BY <1>1, <1>2, <1>3 DEF JobRow
  <1> HIDE DEF row
  <1> QED
    BY <1>3, <1>5, <1>6 DEF d

LEMMA WorkerWrites ==
  ASSUME NEW f \in [Workers -> WorkerState], NEW w \in Workers, NEW d \in Drafts,
         NEW pc \in {"claimed", "extracting", "extracted", "checking"}
  PROVE  /\ [f EXCEPT ![w].pc = pc] \in [Workers -> WorkerState]
         /\ [f EXCEPT ![w] = [pc |-> pc, item |-> d]] \in [Workers -> WorkerState]
         /\ [f EXCEPT ![w] = Idle] \in [Workers -> WorkerState]
  BY DEF WorkerState, Idle

LEMMA JobUploaded ==
  ASSUME NEW f \in [Drafts -> JobRow], NEW d \in Drafts
  PROVE  [f EXCEPT ![d] = [NoJob EXCEPT !.status = "pending", !.ready = TRUE]]
           \in [Drafts -> JobRow]
  <1>1. 0 \in 0..MaxAttempts
    BY IntakeAssumption
  <1> QED
    BY <1>1 DEF NoJob, JobRow

LEMMA NoRequestType == NoRequest \in ClientState
  <1>1. NoDraft \in DraftRow
    BY DEF NoDraft, DraftRow, Places
  <1>2. NoJob \in JobRow
    BY IntakeAssumption DEF NoJob, JobRow
  <1> QED
    BY <1>1, <1>2 DEF NoRequest, ClientState

LEMMA RequestType ==
  ASSUME NEW d \in Drafts, NEW op \in {"upload", "approve", "reject", "retry"}
  PROVE  /\ [NoRequest EXCEPT !.op = op, !.item = d] \in ClientState
         /\ \A k \in Claims :
              [NoRequest EXCEPT !.op = op, !.item = d, !.claim = k] \in ClientState
         /\ \A row \in DraftRow, task \in JobRow :
              [NoRequest EXCEPT !.op = op, !.item = d, !.seenDraft = row,
                                !.seenJob = task] \in ClientState
  BY NoRequestType DEF ClientState

LEMMA TypeNext ==
  ASSUME IntakeInv, ~SlowWorkers, ~SlowRequests, [Next]_vars
  PROVE  TypeOK'
  <1>t. TypeOK /\ RunInv /\ RequestInv
    BY DEF IntakeInv
  <1>w. \A w \in Workers : worker[w].pc # "idle" => worker[w].item \in Drafts
    BY <1>t DEF RunInv, TypeOK, WorkerState
  <1>c. \A c \in Clients :
          /\ client[c].op # "none" => client[c].item \in Drafts
          /\ client[c].op = "approve" => client[c].claim \in Claims
    BY <1>t DEF RequestInv
  <1>1. ASSUME NEW d \in Drafts, BackoffEnds(d) PROVE TypeOK'
    <2>1. job' \in [Drafts -> JobRow]
      BY <1>1, <1>t, JobMarks DEF BackoffEnds, TypeOK
    <2> QED
      BY <1>1, <1>t, <2>1 DEF BackoffEnds, TypeOK
  <1>2. ASSUME NEW d \in Drafts, LeaseExpires(d) PROVE TypeOK'
    <2>1. job' \in [Drafts -> JobRow]
      BY <1>2, <1>t, JobMarks DEF LeaseExpires, TypeOK
    <2> QED
      BY <1>2, <1>t, <2>1 DEF LeaseExpires, TypeOK
  <1>3. ASSUME NEW w \in Workers, NEW d \in Drafts, Recover(w, d) PROVE TypeOK'
    <2>1. /\ [job EXCEPT ![d].status = "failed", ![d].terminal = FALSE] \in [Drafts -> JobRow]
          /\ [job EXCEPT ![d].status = "pending", ![d].ready = TRUE] \in [Drafts -> JobRow]
      BY <1>t, JobWrites DEF TypeOK, JobStatus
    <2>2. [draft EXCEPT ![d].status = "failed"] \in [Drafts -> DraftRow]
      BY <1>t, DraftWrites DEF TypeOK, DraftStatus
    <2> QED
      BY <1>3, <1>t, <2>1, <2>2 DEF Recover, TypeOK
  <1>4. ASSUME NEW w \in Workers, NEW d \in Drafts, Claim(w, d) PROVE TypeOK'
    <2>1. job' \in [Drafts -> JobRow]
      BY <1>4, <1>t, JobClaimed DEF Claim, TypeOK
    <2>2. worker' \in [Workers -> WorkerState]
      BY <1>4, <1>t, WorkerWrites DEF Claim, TypeOK
    <2> QED
      BY <1>4, <1>t, <2>1, <2>2 DEF Claim, TypeOK
  <1>5. ASSUME NEW w \in Workers, Start(w) PROVE TypeOK'
    <2> DEFINE d == worker[w].item
    <2>1. d \in Drafts
      BY <1>5, <1>w DEF Start
    <2> HIDE DEF d
    <2>2. [job EXCEPT ![d].status = "failed", ![d].terminal = FALSE] \in [Drafts -> JobRow]
      BY <1>t, <2>1, JobWrites DEF TypeOK, JobStatus
    <2>3. /\ [worker EXCEPT ![w].pc = "extracting"] \in [Workers -> WorkerState]
          /\ [worker EXCEPT ![w].pc = "checking"] \in [Workers -> WorkerState]
      BY <1>t, <2>1, WorkerWrites DEF TypeOK
    <2> QED
      BY <1>5, <1>t, <2>2, <2>3 DEF Start, TypeOK, d
  <1>6. ASSUME NEW w \in Workers, Extract(w) PROVE TypeOK'
    <2>1. worker' \in [Workers -> WorkerState]
      BY <1>6, <1>t, <1>w, WorkerWrites DEF Extract, TypeOK
    <2> QED
      BY <1>6, <1>t, <2>1 DEF Extract, TypeOK
  <1>7. ASSUME NEW w \in Workers, Succeed(w) PROVE TypeOK'
    <2>1. draft' \in [Drafts -> DraftRow]
      BY <1>7, <1>t, <1>w, DraftWrites DEF Succeed, TypeOK, DraftStatus
    <2>2. job' \in [Drafts -> JobRow]
      BY <1>7, <1>t, <1>w, JobWrites DEF Succeed, TypeOK, JobStatus
    <2>3. worker' \in [Workers -> WorkerState]
      BY <1>7, <1>t, <1>w, WorkerWrites DEF Succeed, TypeOK
    <2> QED
      BY <1>7, <1>t, <2>1, <2>2, <2>3 DEF Succeed, TypeOK
  <1>8. ASSUME NEW w \in Workers, NEW terminal \in BOOLEAN, Fail(w, terminal) PROVE TypeOK'
    <2> DEFINE d == worker[w].item
    <2>1. d \in Drafts
      BY <1>8, <1>w DEF Fail
    <2> HIDE DEF d
    <2>2. [job EXCEPT ![d].status = "failed", ![d].terminal = terminal] \in [Drafts -> JobRow]
      BY <1>t, <2>1, JobWrites DEF TypeOK, JobStatus
    <2>3. [draft EXCEPT ![d].status = "failed"] \in [Drafts -> DraftRow]
      BY <1>t, <2>1, DraftWrites DEF TypeOK, DraftStatus
    <2>4. [worker EXCEPT ![w].pc = "checking"] \in [Workers -> WorkerState]
      BY <1>t, <2>1, WorkerWrites DEF TypeOK
    <2> QED
      BY <1>8, <1>t, <2>2, <2>3, <2>4 DEF Fail, TypeOK, d
  <1>9. ASSUME NEW w \in Workers, Requeue(w) PROVE TypeOK'
    <2>1. draft' \in [Drafts -> DraftRow]
      BY <1>9, <1>t, <1>w, DraftWrites DEF Requeue, Retryable, TypeOK, DraftStatus
    <2>2. job' \in [Drafts -> JobRow]
      BY <1>9, <1>t, <1>w, JobWrites DEF Requeue, Retryable, TypeOK, JobStatus
    <2>3. worker' \in [Workers -> WorkerState]
      BY <1>9, <1>t, <1>w, WorkerWrites DEF Requeue, Retryable, TypeOK
    <2> QED
      BY <1>9, <1>t, <2>1, <2>2, <2>3 DEF Requeue, Retryable, TypeOK
  <1>10. ASSUME NEW w \in Workers, Finish(w) PROVE TypeOK'
    <2>1. worker' \in [Workers -> WorkerState]
      BY <1>10, <1>t, <1>w, WorkerWrites DEF Finish, Retryable, TypeOK
    <2> QED
      BY <1>10, <1>t, <2>1 DEF Finish, Retryable, TypeOK
  <1>11. ASSUME NEW w \in Workers, Die(w) PROVE TypeOK'
    <2>1. worker' \in [Workers -> WorkerState]
      BY <1>11, <1>t, <1>w, WorkerWrites DEF Die, TypeOK
    <2> QED
      BY <1>11, <1>t, <2>1 DEF Die, TypeOK
  <1>12. ASSUME NEW c \in Clients, NEW d \in Drafts, UploadStart(c, d) PROVE TypeOK'
    <2>1. file' \in [Drafts -> Places]
      BY <1>12, <1>t DEF UploadStart, TypeOK, Places
    <2>2. [NoRequest EXCEPT !.op = "upload", !.item = d] \in ClientState
      BY RequestType
    <2> QED
      BY <1>12, <1>t, <2>1, <2>2 DEF UploadStart, TypeOK
  <1>13. ASSUME NEW c \in Clients, NEW status \in {"infected", "scan_error"}, UploadHeld(c, status)
        PROVE  TypeOK'
    <2>1. draft' \in [Drafts -> DraftRow]
      BY <1>13, <1>t, <1>c, DraftWrites DEF UploadHeld, TypeOK, DraftStatus, Places
    <2>2. client' \in [Clients -> ClientState]
      BY <1>13, <1>t, <1>c, NoRequestType DEF UploadHeld, TypeOK
    <2> QED
      BY <1>13, <1>t, <2>1, <2>2 DEF UploadHeld, TypeOK
  <1>14. ASSUME NEW c \in Clients, UploadClean(c) PROVE TypeOK'
    <2> DEFINE d == client[c].item
    <2>1. d \in Drafts
      BY <1>14, <1>c DEF UploadClean
    <2> HIDE DEF d
    <2>2. [draft EXCEPT ![d] = [NoDraft EXCEPT !.status = "processing", !.key = "intake"]]
            \in [Drafts -> DraftRow]
      BY <1>t, <2>1, DraftWrites DEF TypeOK, DraftStatus, Places
    <2>3. [job EXCEPT ![d] = [NoJob EXCEPT !.status = "pending", !.ready = TRUE]]
            \in [Drafts -> JobRow]
      BY <1>t, <2>1, JobUploaded DEF TypeOK
    <2>4. /\ [file EXCEPT ![d] = "intake"] \in [Drafts -> Places]
          /\ [file EXCEPT ![d] = "none"] \in [Drafts -> Places]
      BY <1>t, <2>1 DEF TypeOK, Places
    <2>5. client' \in [Clients -> ClientState]
      BY <1>14, <1>t, NoRequestType DEF UploadClean, TypeOK
    <2> QED
      BY <1>14, <1>t, <2>2, <2>3, <2>4, <2>5 DEF UploadClean, TypeOK, d
  <1>15. ASSUME NEW c \in Clients, Abandon(c) PROVE TypeOK'
    <2>1. client' \in [Clients -> ClientState]
      BY <1>15, <1>t, <1>c, NoRequestType DEF Abandon, TypeOK
    <2> QED
      BY <1>15, <1>t, <2>1 DEF Abandon, TypeOK
  <1>16. ASSUME NEW c \in Clients, NEW d \in Drafts, NEW k \in Claims, ApproveStart(c, d, k)
        PROVE  TypeOK'
    <2>1. file' \in [Drafts -> Places]
      BY <1>16, <1>t, <1>c DEF ApproveStart, TypeOK, Places
    <2>2. client' \in [Clients -> ClientState]
      BY <1>16, <1>t, <1>c, RequestType DEF ApproveStart, TypeOK
    <2> QED
      BY <1>16, <1>t, <2>1, <2>2 DEF ApproveStart, TypeOK
  <1>17. ASSUME NEW c \in Clients, ApproveCommit(c) PROVE TypeOK'
    <2>1. draft' \in [Drafts -> DraftRow]
      BY <1>17, <1>t, <1>c, DraftWrites DEF ApproveCommit, TypeOK, DraftStatus
    <2>2. source' \in [Claims -> Drafts \cup {None}]
      BY <1>17, <1>t, <1>c DEF ApproveCommit, TypeOK
    <2>3. client' \in [Clients -> ClientState]
      BY <1>17, <1>t, <1>c, NoRequestType DEF ApproveCommit, TypeOK
    <2> QED
      BY <1>17, <1>t, <2>1, <2>2, <2>3 DEF ApproveCommit, TypeOK
  <1>18. ASSUME NEW c \in Clients, ApproveFails(c) PROVE TypeOK'
    <2>1. file' \in [Drafts -> Places]
      BY <1>18, <1>t, <1>c DEF ApproveFails, TypeOK, DraftRow
    <2>2. client' \in [Clients -> ClientState]
      BY <1>18, <1>t, <1>c, NoRequestType DEF ApproveFails, TypeOK
    <2> QED
      BY <1>18, <1>t, <2>1, <2>2 DEF ApproveFails, TypeOK
  <1>19. ASSUME NEW c \in Clients, ApproverDies(c) PROVE TypeOK'
    <2>1. client' \in [Clients -> ClientState]
      BY <1>19, <1>t, <1>c, NoRequestType DEF ApproverDies, TypeOK
    <2> QED
      BY <1>19, <1>t, <2>1 DEF ApproverDies, TypeOK
  <1>20. ASSUME NEW c \in Clients, NEW d \in Drafts, LoadReject(c, d) PROVE TypeOK'
    <2>1. draft[d] \in DraftRow /\ job[d] \in JobRow
      BY <1>t DEF TypeOK
    <2>2. [NoRequest EXCEPT !.op = "reject", !.item = d, !.seenDraft = draft[d],
                            !.seenJob = job[d]] \in ClientState
      BY <2>1, RequestType
    <2> QED
      BY <1>20, <1>t, <2>2 DEF LoadReject, Load, TypeOK
  <1>21. ASSUME NEW c \in Clients, NEW d \in Drafts, LoadRetry(c, d) PROVE TypeOK'
    <2>1. draft[d] \in DraftRow /\ job[d] \in JobRow
      BY <1>t DEF TypeOK
    <2>2. [NoRequest EXCEPT !.op = "retry", !.item = d, !.seenDraft = draft[d],
                            !.seenJob = job[d]] \in ClientState
      BY <2>1, RequestType
    <2> QED
      BY <1>21, <1>t, <2>2 DEF LoadRetry, Load, TypeOK
  <1>22. ASSUME NEW c \in Clients, Reject(c) PROVE TypeOK'
    <2>1. draft' \in [Drafts -> DraftRow]
      BY <1>22, <1>t, <1>c, DraftWrites DEF Reject, Timely, TypeOK, DraftStatus
    <2>2. client' \in [Clients -> ClientState]
      BY <1>22, <1>t, <1>c, NoRequestType DEF Reject, Timely, TypeOK
    <2> QED
      BY <1>22, <1>t, <2>1, <2>2 DEF Reject, Timely, TypeOK
  <1>23. ASSUME NEW c \in Clients, Retry(c) PROVE TypeOK'
    <2> DEFINE d == client[c].item
    <2>1. d \in Drafts
      BY <1>23, <1>c DEF Retry
    <2>3. draft' \in [Drafts -> DraftRow]
      BY <1>23, <1>t, <2>1, DraftWrites DEF Retry, TypeOK, DraftStatus
    <2>4. job' \in [Drafts -> JobRow]
      BY <1>23, <1>t, <2>1, JobRetried
    <2>5. client' \in [Clients -> ClientState]
      BY <1>23, <1>t, NoRequestType DEF Retry, TypeOK
    <2> QED
      BY <1>23, <1>t, <2>3, <2>4, <2>5 DEF Retry, TypeOK
  <1>24. CASE UNCHANGED vars
    BY <1>24, <1>t DEF vars, TypeOK
  <1> QED
    BY <1>1, <1>2, <1>3, <1>4, <1>5, <1>6, <1>7, <1>8, <1>9, <1>10, <1>11, <1>12, <1>13, <1>14,
       <1>15, <1>16, <1>17, <1>18, <1>19, <1>20, <1>21, <1>22, <1>23, <1>24
    DEF Next, Poll, Run, ClientStep

-----------------------------------------------------------------------------
(* Every step keeps the invariant.                                         *)

LEMMA IntakeNext ==
  ASSUME IntakeInv, ~SlowWorkers, ~SlowRequests, [Next]_vars
  PROVE  RunInv' /\ QueueInv' /\ RequestInv' /\ SourceInv'
  <1> USE DEF IntakeInv
  <1>1. ASSUME NEW d \in Drafts, BackoffEnds(d)
        PROVE  RunInv' /\ QueueInv' /\ RequestInv' /\ SourceInv'
    <2>1. RunInv'
      BY <1>1 DEF BackoffEnds, RunInv
    <2>2. QueueInv'
      BY <1>1, IntakeAssumption DEF BackoffEnds, QueueInv
    <2>3. RequestInv'
      BY <1>1, IntakeAssumption DEF BackoffEnds, RequestInv
    <2>4. SourceInv'
      BY <1>1, IntakeAssumption DEF BackoffEnds, SourceInv
    <2> QED
      BY <2>1, <2>2, <2>3, <2>4
  <1>2. ASSUME NEW d \in Drafts, LeaseExpires(d)
        PROVE  RunInv' /\ QueueInv' /\ RequestInv' /\ SourceInv'
    <2>1. RunInv'
      BY <1>2 DEF LeaseExpires, RunInv
    <2>2. QueueInv'
      BY <1>2, IntakeAssumption DEF LeaseExpires, QueueInv
    <2>3. RequestInv'
      BY <1>2, IntakeAssumption DEF LeaseExpires, RequestInv
    <2>4. SourceInv'
      BY <1>2, IntakeAssumption DEF LeaseExpires, SourceInv
    <2> QED
      BY <2>1, <2>2, <2>3, <2>4
  <1>3. ASSUME NEW w \in Workers, NEW d \in Drafts, Recover(w, d)
        PROVE  RunInv' /\ QueueInv' /\ RequestInv' /\ SourceInv'
    <2>f. /\ \A e \in Drafts : e # d => job'[e] = job[e] /\ draft'[e] = draft[e]
          /\ \/ draft'[d] = draft[d] /\ draft[d].status # "processing" /\ job'[d].status = "failed"
             \/ /\ draft[d].status = "processing" /\ draft'[d].status = "failed"
                /\ job'[d].status = "failed"
             \/ /\ draft'[d] = draft[d] /\ draft[d].status = "processing"
                /\ job'[d].status = "pending" /\ job'[d].attempts < MaxAttempts
          /\ UNCHANGED <<file, source, worker, client>>
      <3>1. CASE draft[d].status # "processing"
        BY <1>3, <3>1 DEF Recover, TypeOK, JobRow
      <3>2. CASE draft[d].status = "processing" /\ job[d].attempts >= MaxAttempts
        <4>1. ~(job[d].attempts < MaxAttempts)
          BY <3>2, IntakeAssumption DEF TypeOK, JobRow
        <4> QED
          BY <1>3, <3>2, <4>1 DEF Recover, TypeOK, JobRow, DraftRow
      <3>3. CASE draft[d].status = "processing" /\ job[d].attempts < MaxAttempts
        <4>1. ~(job[d].attempts >= MaxAttempts)
          BY <3>3, IntakeAssumption DEF TypeOK, JobRow
        <4> QED
          BY <1>3, <3>3, <4>1 DEF Recover, TypeOK, JobRow
      <3>4. draft[d].status = "processing" =>
              job[d].attempts >= MaxAttempts \/ job[d].attempts < MaxAttempts
        BY IntakeAssumption DEF TypeOK, JobRow
      <3> QED
        BY <3>1, <3>2, <3>3, <3>4
    <2>g. \A v \in Workers : worker[v].pc \in Running => worker[v].item # d
      BY <1>3 DEF Recover, RunInv
    <2>h. \A v \in Workers : worker[v].item = None \/ worker[v].item \in Drafts
      BY DEF TypeOK, WorkerState
    <2>1. RunInv'
      BY <2>f, <2>g, <2>h DEF RunInv, Running
    <2>2. QueueInv'
      BY <2>f DEF QueueInv
    <2>3. RequestInv'
      BY <2>f DEF RequestInv
    <2>4. SourceInv'
      BY <2>f DEF SourceInv, TypeOK
    <2> QED
      BY <2>1, <2>2, <2>3, <2>4
  <1>4. ASSUME NEW w \in Workers, NEW d \in Drafts, Claim(w, d)
        PROVE  RunInv' /\ QueueInv' /\ RequestInv' /\ SourceInv'
    <2>1. RunInv'
      <3>1. /\ worker' = [worker EXCEPT ![w] = [pc |-> "claimed", item |-> d]]
            /\ job'[d].status = "running" /\ ~job'[d].expired
            /\ \A e \in Drafts : e # d => job'[e] = job[e]
            /\ draft' = draft
        BY <1>4 DEF Claim, TypeOK, JobRow
      <3>2. \A v \in Workers : worker[v].pc \in Running => worker[v].item # d
        BY <1>4 DEF Claim, RunInv
      <3>3. \A v \in Workers : worker[v].item = None \/ worker[v].item \in Drafts
        BY DEF TypeOK, WorkerState
      <3>4. \A v \in Workers :
              worker'[v] = IF v = w THEN [pc |-> "claimed", item |-> d] ELSE worker[v]
        BY <3>1 DEF TypeOK
      <3> QED
        BY <3>1, <3>2, <3>3, <3>4, IntakeAssumption DEF RunInv, Running
    <2>2. QueueInv'
      BY <1>4, IntakeAssumption DEF Claim, TypeOK, QueueInv
    <2>3. RequestInv'
      BY <1>4, IntakeAssumption DEF Claim, RequestInv
    <2>4. SourceInv'
      BY <1>4, IntakeAssumption DEF Claim, SourceInv
    <2> QED
      BY <2>1, <2>2, <2>3, <2>4
  <1>5. ASSUME NEW w \in Workers, Start(w)
        PROVE  RunInv' /\ QueueInv' /\ RequestInv' /\ SourceInv'
    <2>1. RunInv'
      <3>1. CASE draft[worker[w].item].status = "processing"
        <4>1. /\ worker[w].pc = "claimed" /\ job' = job /\ draft' = draft
              /\ worker' = [worker EXCEPT ![w].pc = "extracting"]
          BY <1>5, <3>1 DEF Start
        <4>2. \A v \in Workers :
                /\ worker'[v].item = worker[v].item
                /\ v # w => worker'[v] = worker[v]
          BY <4>1 DEF TypeOK, WorkerState
        <4>3. worker'[w].pc = "extracting"
          BY <4>1 DEF TypeOK, WorkerState
        <4> QED
          BY <3>1, <4>1, <4>2, <4>3 DEF RunInv, Running
      <3>2. CASE draft[worker[w].item].status # "processing"
        <4>1. /\ worker' = [worker EXCEPT ![w].pc = "checking"]
              /\ draft' = draft
              /\ \A d \in Drafts : d # worker[w].item => job'[d] = job[d]
          BY <1>5, <3>2 DEF Start, TypeOK
        <4>2. \A v \in Workers : v # w /\ worker[v].pc \in Running =>
                worker[v].item \in Drafts /\ worker[v].item # worker[w].item
          BY <1>5 DEF Start, TypeOK, RunInv, Running, WorkerState
        <4>3. \A v \in Workers : v # w => worker'[v] = worker[v]
          BY <4>1 DEF TypeOK
        <4>4. worker'[w].pc = "checking" /\ worker'[w].item = worker[w].item
              /\ worker[w].item # None
          BY <1>5, <4>1 DEF Start, TypeOK, RunInv
        <4> QED
          BY <4>1, <4>2, <4>3, <4>4 DEF RunInv, Running
      <3> QED
        BY <3>1, <3>2
    <2>2. QueueInv'
      BY <1>5, IntakeAssumption DEF Start, TypeOK, RunInv, QueueInv, Running
    <2>3. RequestInv'
      BY <1>5, IntakeAssumption DEF Start, RequestInv
    <2>4. SourceInv'
      BY <1>5, IntakeAssumption DEF Start, SourceInv
    <2> QED
      BY <2>1, <2>2, <2>3, <2>4
  <1>6. ASSUME NEW w \in Workers, Extract(w)
        PROVE  RunInv' /\ QueueInv' /\ RequestInv' /\ SourceInv'
    <2>1. RunInv'
      BY <1>6 DEF Extract, RunInv, Running
    <2>2. QueueInv'
      BY <1>6, IntakeAssumption DEF Extract, QueueInv
    <2>3. RequestInv'
      BY <1>6, IntakeAssumption DEF Extract, RequestInv
    <2>4. SourceInv'
      BY <1>6, IntakeAssumption DEF Extract, SourceInv
    <2> QED
      BY <2>1, <2>2, <2>3, <2>4
  <1>7. ASSUME NEW w \in Workers, Succeed(w)
        PROVE  RunInv' /\ QueueInv' /\ RequestInv' /\ SourceInv'
    <2>1. RunInv'
      BY <1>7 DEF Succeed, TypeOK, RunInv, Running, WorkerState
    <2>2. QueueInv'
      BY <1>7, IntakeAssumption DEF Succeed, TypeOK, QueueInv
    <2>3. RequestInv'
      BY <1>7, IntakeAssumption DEF Succeed, RunInv, RequestInv
    <2>4. SourceInv'
      BY <1>7, IntakeAssumption DEF Succeed, RunInv, SourceInv
    <2> QED
      BY <2>1, <2>2, <2>3, <2>4
  <1>8. ASSUME NEW w \in Workers, NEW terminal \in BOOLEAN, Fail(w, terminal)
        PROVE  RunInv' /\ QueueInv' /\ RequestInv' /\ SourceInv'
    <2>1. RunInv'
      BY <1>8 DEF Fail, TypeOK, RunInv, Running, WorkerState
    <2>2. QueueInv'
      BY <1>8, IntakeAssumption DEF Fail, TypeOK, QueueInv
    <2>3. RequestInv'
      BY <1>8, IntakeAssumption DEF Fail, RunInv, RequestInv
    <2>4. SourceInv'
      BY <1>8, IntakeAssumption DEF Fail, RunInv, SourceInv
    <2> QED
      BY <2>1, <2>2, <2>3, <2>4
  <1>9. ASSUME NEW w \in Workers, Requeue(w)
        PROVE  RunInv' /\ QueueInv' /\ RequestInv' /\ SourceInv'
    <2>1. RunInv'
      BY <1>9 DEF Requeue, Retryable, TypeOK, RunInv, Running, WorkerState, Idle
    <2>2. QueueInv'
      BY <1>9, IntakeAssumption DEF Requeue, Retryable, TypeOK, QueueInv
    <2>3. RequestInv'
      BY <1>9, IntakeAssumption DEF Requeue, Retryable, RequestInv
    <2>4. SourceInv'
      BY <1>9, IntakeAssumption DEF Requeue, Retryable, SourceInv
    <2> QED
      BY <2>1, <2>2, <2>3, <2>4
  <1>10. ASSUME NEW w \in Workers, Finish(w)
        PROVE  RunInv' /\ QueueInv' /\ RequestInv' /\ SourceInv'
    <2>1. RunInv'
      BY <1>10 DEF Finish, RunInv, Running, Idle
    <2>2. QueueInv'
      BY <1>10, IntakeAssumption DEF Finish, QueueInv
    <2>3. RequestInv'
      BY <1>10, IntakeAssumption DEF Finish, RequestInv
    <2>4. SourceInv'
      BY <1>10, IntakeAssumption DEF Finish, SourceInv
    <2> QED
      BY <2>1, <2>2, <2>3, <2>4
  <1>11. ASSUME NEW w \in Workers, Die(w)
        PROVE  RunInv' /\ QueueInv' /\ RequestInv' /\ SourceInv'
    <2>1. RunInv'
      BY <1>11 DEF Die, RunInv, Running, Idle
    <2>2. QueueInv'
      BY <1>11, IntakeAssumption DEF Die, QueueInv
    <2>3. RequestInv'
      BY <1>11, IntakeAssumption DEF Die, RequestInv
    <2>4. SourceInv'
      BY <1>11, IntakeAssumption DEF Die, SourceInv
    <2> QED
      BY <2>1, <2>2, <2>3, <2>4
  <1>12. ASSUME NEW c \in Clients, NEW d \in Drafts, UploadStart(c, d)
        PROVE  RunInv' /\ QueueInv' /\ RequestInv' /\ SourceInv'
    <2>1. RunInv'
      BY <1>12 DEF UploadStart, RunInv
    <2>2. QueueInv'
      BY <1>12, IntakeAssumption DEF UploadStart, QueueInv
    <2>3. RequestInv'
      BY <1>12, IntakeAssumption DEF UploadStart, TypeOK, RequestInv, NoRequest
    <2>4. SourceInv'
      BY <1>12, IntakeAssumption DEF UploadStart, SourceInv
    <2> QED
      BY <2>1, <2>2, <2>3, <2>4
  <1>13. ASSUME NEW c \in Clients, NEW status \in {"infected", "scan_error"}, UploadHeld(c, status)
        PROVE  RunInv' /\ QueueInv' /\ RequestInv' /\ SourceInv'
    <2>1. RunInv'
      BY <1>13 DEF UploadHeld, RunInv, RequestInv
    <2>2. QueueInv'
      BY <1>13, IntakeAssumption DEF UploadHeld, QueueInv
    <2>3. RequestInv'
      BY <1>13, IntakeAssumption DEF UploadHeld, TypeOK, RequestInv, NoRequest
    <2>4. SourceInv'
      BY <1>13, IntakeAssumption DEF UploadHeld, RequestInv, SourceInv
    <2> QED
      BY <2>1, <2>2, <2>3, <2>4
  <1>14. ASSUME NEW c \in Clients, UploadClean(c)
        PROVE  RunInv' /\ QueueInv' /\ RequestInv' /\ SourceInv'
    <2>1. RunInv'
      BY <1>14 DEF UploadClean, TypeOK, RunInv, QueueInv, Running, WorkerState
    <2>2. QueueInv'
      <3>1. CASE \A e \in Drafts : draft[e].status = "absent"
        <4>1. 0 < MaxAttempts
          BY IntakeAssumption
        <4>2. client[c].item \in Drafts
          BY <1>14 DEF UploadClean, RequestInv
        <4>3. /\ draft'[client[c].item].status = "processing"
              /\ job'[client[c].item].status = "pending"
              /\ job'[client[c].item].attempts = 0
          <5>1. [NoDraft EXCEPT !.status = "processing", !.key = "intake"].status = "processing"
            BY DEF NoDraft
          <5>2. /\ [NoJob EXCEPT !.status = "pending", !.ready = TRUE].status = "pending"
                /\ [NoJob EXCEPT !.status = "pending", !.ready = TRUE].attempts = 0
            BY DEF NoJob
          <5> QED
            BY <1>14, <3>1, <4>2, <5>1, <5>2 DEF UploadClean, TypeOK
        <4>4. \A d \in Drafts : d # client[c].item =>
                draft'[d] = draft[d] /\ job'[d] = job[d]
          BY <1>14, <3>1, <4>2 DEF UploadClean, TypeOK
        <4> QED
          BY <4>1, <4>3, <4>4 DEF QueueInv
      <3>2. CASE ~\A e \in Drafts : draft[e].status = "absent"
        BY <1>14, <3>2 DEF UploadClean, QueueInv
      <3> QED
        BY <3>1, <3>2
    <2>3. RequestInv'
      BY <1>14, IntakeAssumption DEF UploadClean, TypeOK, RequestInv, NoRequest
    <2>4. SourceInv'
      BY <1>14, IntakeAssumption DEF UploadClean, TypeOK, RequestInv, SourceInv
    <2> QED
      BY <2>1, <2>2, <2>3, <2>4
  <1>15. ASSUME NEW c \in Clients, Abandon(c)
        PROVE  RunInv' /\ QueueInv' /\ RequestInv' /\ SourceInv'
    <2>1. RunInv'
      BY <1>15 DEF Abandon, RunInv
    <2>2. QueueInv'
      BY <1>15, IntakeAssumption DEF Abandon, QueueInv
    <2>3. RequestInv'
      BY <1>15, IntakeAssumption DEF Abandon, RequestInv, NoRequest
    <2>4. SourceInv'
      BY <1>15, IntakeAssumption DEF Abandon, SourceInv
    <2> QED
      BY <2>1, <2>2, <2>3, <2>4
  <1>16. ASSUME NEW c \in Clients, NEW d \in Drafts, NEW k \in Claims, ApproveStart(c, d, k)
        PROVE  RunInv' /\ QueueInv' /\ RequestInv' /\ SourceInv'
    <2>1. RunInv'
      BY <1>16 DEF ApproveStart, RunInv
    <2>2. QueueInv'
      BY <1>16, IntakeAssumption DEF ApproveStart, QueueInv
    <2>3. RequestInv'
      BY <1>16, IntakeAssumption DEF ApproveStart, TypeOK, RequestInv, Locked
    <2>4. SourceInv'
      BY <1>16, IntakeAssumption DEF ApproveStart, SourceInv
    <2> QED
      BY <2>1, <2>2, <2>3, <2>4
  <1>17. ASSUME NEW c \in Clients, ApproveCommit(c)
        PROVE  RunInv' /\ QueueInv' /\ RequestInv' /\ SourceInv'
    <2>1. RunInv'
      BY <1>17 DEF ApproveCommit, RunInv, RequestInv
    <2>2. QueueInv'
      BY <1>17, IntakeAssumption DEF ApproveCommit, QueueInv, RequestInv
    <2>3. RequestInv'
      BY <1>17, IntakeAssumption DEF ApproveCommit, TypeOK, RequestInv, NoRequest
    <2>4. SourceInv'
      BY <1>17, IntakeAssumption DEF ApproveCommit, TypeOK, RequestInv, SourceInv
    <2> QED
      BY <2>1, <2>2, <2>3, <2>4
  <1>18. ASSUME NEW c \in Clients, ApproveFails(c)
        PROVE  RunInv' /\ QueueInv' /\ RequestInv' /\ SourceInv'
    <2>1. RunInv'
      BY <1>18 DEF ApproveFails, RunInv
    <2>2. QueueInv'
      BY <1>18, IntakeAssumption DEF ApproveFails, QueueInv
    <2>3. RequestInv'
      BY <1>18, IntakeAssumption DEF ApproveFails, TypeOK, RequestInv, NoRequest
    <2>4. SourceInv'
      BY <1>18, IntakeAssumption DEF ApproveFails, RequestInv, SourceInv
    <2> QED
      BY <2>1, <2>2, <2>3, <2>4
  <1>19. ASSUME NEW c \in Clients, ApproverDies(c)
        PROVE  RunInv' /\ QueueInv' /\ RequestInv' /\ SourceInv'
    <2>1. RunInv'
      BY <1>19 DEF ApproverDies, RunInv
    <2>2. QueueInv'
      BY <1>19, IntakeAssumption DEF ApproverDies, QueueInv
    <2>3. RequestInv'
      BY <1>19, IntakeAssumption DEF ApproverDies, RequestInv, NoRequest
    <2>4. SourceInv'
      BY <1>19, IntakeAssumption DEF ApproverDies, SourceInv
    <2> QED
      BY <2>1, <2>2, <2>3, <2>4
  <1>20. ASSUME NEW c \in Clients, NEW d \in Drafts, LoadReject(c, d)
        PROVE  RunInv' /\ QueueInv' /\ RequestInv' /\ SourceInv'
    <2>1. RunInv'
      BY <1>20 DEF LoadReject, Load, RunInv
    <2>2. QueueInv'
      BY <1>20, IntakeAssumption DEF LoadReject, Load, QueueInv
    <2>3. RequestInv'
      BY <1>20, IntakeAssumption DEF LoadReject, Load, RequestInv, NoRequest
    <2>4. SourceInv'
      BY <1>20, IntakeAssumption DEF LoadReject, Load, SourceInv
    <2> QED
      BY <2>1, <2>2, <2>3, <2>4
  <1>21. ASSUME NEW c \in Clients, NEW d \in Drafts, LoadRetry(c, d)
        PROVE  RunInv' /\ QueueInv' /\ RequestInv' /\ SourceInv'
    <2>1. RunInv'
      BY <1>21 DEF LoadRetry, Load, RunInv
    <2>2. QueueInv'
      BY <1>21, IntakeAssumption DEF LoadRetry, Load, QueueInv
    <2>3. RequestInv'
      BY <1>21, IntakeAssumption DEF LoadRetry, Load, RequestInv, NoRequest
    <2>4. SourceInv'
      BY <1>21, IntakeAssumption DEF LoadRetry, Load, SourceInv
    <2> QED
      BY <2>1, <2>2, <2>3, <2>4
  <1>22. ASSUME NEW c \in Clients, Reject(c)
        PROVE  RunInv' /\ QueueInv' /\ RequestInv' /\ SourceInv'
    <2>1. RunInv'
      BY <1>22 DEF Reject, Timely, RunInv, RequestInv
    <2>2. QueueInv'
      BY <1>22, IntakeAssumption DEF Reject, Timely, QueueInv, RequestInv
    <2>3. RequestInv'
      BY <1>22, IntakeAssumption DEF Reject, Timely, RequestInv, Locked, NoRequest
    <2>4. SourceInv'
      BY <1>22, IntakeAssumption DEF Reject, Timely, RequestInv, SourceInv
    <2> QED
      BY <2>1, <2>2, <2>3, <2>4
  <1>23. ASSUME NEW c \in Clients, Retry(c)
        PROVE  RunInv' /\ QueueInv' /\ RequestInv' /\ SourceInv'
    <2>1. RunInv'
      <3>1. draft[client[c].item].status = "failed" /\ client[c].item \in Drafts
        BY <1>23 DEF Retry, Timely, RequestInv
      <3>2. \A v \in Workers : worker[v].pc \in Running => worker[v].item # client[c].item
        BY <3>1 DEF RunInv, QueueInv
      <3>3. /\ worker' = worker
            /\ \A d \in Drafts : d # client[c].item => job'[d] = job[d] /\ draft'[d] = draft[d]
        BY <1>23, <3>1, JobRetried DEF Retry, TypeOK
      <3>4. \A v \in Workers : worker[v].item = None \/ worker[v].item \in Drafts
        BY DEF TypeOK, WorkerState
      <3> QED
        BY <3>2, <3>3, <3>4 DEF RunInv, Running
    <2>2. QueueInv'
      <3>1. client[c].item \in Drafts
        BY <1>23 DEF Retry, RequestInv
      <3>2. \A d \in Drafts :
              IF d = client[c].item THEN draft'[d].status = "processing"
              ELSE draft'[d] = draft[d]
        BY <1>23, <3>1 DEF Retry, TypeOK, DraftRow
      <3>3. 0 < MaxAttempts
        BY IntakeAssumption
      <3> QED
        BY <1>23, <3>1, <3>2, <3>3, JobRetried DEF QueueInv
    <2>r. draft[client[c].item].status = "failed" /\ client[c].item \in Drafts
      BY <1>23 DEF Retry, Timely, RequestInv
    <2>s. /\ \A d \in Drafts : d # client[c].item => draft'[d] = draft[d]
          /\ client' = [client EXCEPT ![c] = NoRequest] /\ UNCHANGED <<file, source>>
      BY <1>23 DEF Retry, TypeOK
    <2>3. RequestInv'
      BY <2>r, <2>s DEF TypeOK, RequestInv, NoRequest
    <2>4. SourceInv'
      <3>1. \A k \in Claims : source[k] # None => source[k] \in Drafts
        BY DEF TypeOK
      <3> QED
        BY <2>r, <2>s, <3>1 DEF SourceInv
    <2> QED
      BY <2>1, <2>2, <2>3, <2>4
  <1>24. CASE UNCHANGED vars
    BY <1>24 DEF vars, RunInv, QueueInv, RequestInv, SourceInv
  <1> QED
    BY <1>1, <1>2, <1>3, <1>4, <1>5, <1>6, <1>7, <1>8, <1>9, <1>10, <1>11, <1>12, <1>13, <1>14,
       <1>15, <1>16, <1>17, <1>18, <1>19, <1>20, <1>21, <1>22, <1>23, <1>24
    DEF Next, Poll, Run, ClientStep

-----------------------------------------------------------------------------
(* Theorems.                                                               *)

LEMMA IntakeInit == Init => IntakeInv
  <1> SUFFICES ASSUME Init PROVE IntakeInv
    OBVIOUS
  <1>1. NoDraft \in DraftRow /\ NoJob \in JobRow /\ NoRequest \in ClientState
    <2>1. 0 \in 0..MaxAttempts
      BY IntakeAssumption
    <2> QED
      BY <2>1, NoRequestType DEF NoDraft, DraftRow, Places, NoJob, JobRow
  <1>2. TypeOK
    BY <1>1 DEF Init, TypeOK, Places, Idle, WorkerState
  <1>3. RunInv /\ QueueInv /\ RequestInv /\ SourceInv
    BY DEF Init, RunInv, QueueInv, RequestInv, SourceInv, Running, Idle,
           NoDraft, NoJob, NoRequest
  <1> QED
    BY <1>2, <1>3 DEF IntakeInv

LEMMA IntakeInvariant ==
  ASSUME ~SlowWorkers, ~SlowRequests
  PROVE  Spec => []IntakeInv
  <1>1. IntakeInv /\ [Next]_vars => IntakeInv'
    BY TypeNext, IntakeNext DEF IntakeInv
  <1> QED
    BY <1>1, IntakeInit, PTL DEF Spec

\* When a run ends within its lease and requests do not overtake each other,
\* no draft makes a second claim and none is stranded in processing, whatever
\* dies.
THEOREM DraftsAreSafe ==
  ASSUME ~SlowWorkers, ~SlowRequests
  PROVE  Spec => []DraftInv
  <1>1. IntakeInv => DraftInv
    BY DEF IntakeInv, DraftInv, SourceInv, QueueInv, OneClaimPerDraft,
           NoStrandedDraft, TypeOK
  <1> QED
    BY <1>1, IntakeInvariant, PTL

\* Under the same conditions the document of a claim stays where its approval
\* put it, though uploads, failed approvals and dead approvers move files.
THEOREM SourcesAreKept ==
  ASSUME ~SlowWorkers, ~SlowRequests
  PROVE  Spec => []ClaimsKeepSource
  <1>1. IntakeInv => ClaimsKeepSource
    BY DEF IntakeInv, SourceInv, ClaimsKeepSource
  <1> QED
    BY <1>1, IntakeInvariant, PTL

-----------------------------------------------------------------------------
(* Refinement of IntakePromise.                                            *)

Undecided == {"processing", "pending_review", "failed"}

\* A step is a stutter of the promise when it makes no claim and moves drafts
\* between the undecided states only.
LEMMA PromiseStutter ==
  ASSUME source' = source,
         \A d \in Drafts : \/ draft'[d].status = draft[d].status
                           \/ {draft[d].status, draft'[d].status} \subseteq Undecided
                           \/ /\ draft[d].status = "absent"
                              /\ draft'[d].status \in {"infected", "scan_error"}
  PROVE  /\ UNCHANGED [d \in Drafts |-> Decision(draft[d].status)]
         /\ UNCHANGED [d \in Drafts |-> {k \in Claims : source[k] = d}]
  <1>1. \A d \in Drafts : Decision(draft'[d].status) = Decision(draft[d].status)
    BY DEF Decision, Undecided
  <1> QED
    BY <1>1

\* The decision on one draft changes.
LEMMA PromiseDecides ==
  ASSUME NEW e \in Drafts, NEW status, draft'[e].status = status,
         \A d \in Drafts : d # e => draft'[d].status = draft[d].status
  PROVE  [d \in Drafts |-> Decision(draft'[d].status)] =
           [[d \in Drafts |-> Decision(draft[d].status)] EXCEPT ![e] = Decision(status)]
  OBVIOUS

LEMMA PromiseUpload ==
  ASSUME IntakeInv, NEW c \in Clients, UploadClean(c)
  PROVE  [Promise!Next]_(<<[d \in Drafts |-> Decision(draft[d].status)],
                           [d \in Drafts |-> {k \in Claims : source[k] = d}]>>)
  <1>1. client[c].item \in Drafts /\ source' = source
    BY DEF UploadClean, IntakeInv, RequestInv
  <1>2. CASE \A e \in Drafts : draft[e].status = "absent"
    <2>1. [NoDraft EXCEPT !.status = "processing", !.key = "intake"].status = "processing"
      BY DEF NoDraft
    <2>2. /\ draft'[client[c].item].status = "processing"
          /\ \A d \in Drafts : d # client[c].item => draft'[d].status = draft[d].status
      BY <1>1, <1>2, <2>1 DEF UploadClean, IntakeInv, TypeOK
    <2>3. /\ Decision("processing") = "open"
          /\ Decision(draft[client[c].item].status) = "none"
      BY <1>1, <1>2 DEF Decision
    <2>4. Promise!Take(client[c].item)
      BY <1>1, <2>2, <2>3, PromiseDecides DEF Promise!Take
    <2> QED
      BY <1>1, <2>4 DEF Promise!Next
  <1>3. CASE ~\A e \in Drafts : draft[e].status = "absent"
    BY <1>1, <1>3, PromiseStutter DEF UploadClean
  <1> QED
    BY <1>2, <1>3

LEMMA PromiseApprove ==
  ASSUME IntakeInv, NEW c \in Clients, ApproveCommit(c)
  PROVE  Promise!Next
  <1>1. PICK d \in Drafts, k \in Claims :
          /\ d = client[c].item /\ k = client[c].claim
          /\ source[k] = None
          /\ draft[d].status = "pending_review"
    BY DEF ApproveCommit, IntakeInv, RequestInv
  <1>2. /\ draft'[d].status = "approved"
        /\ \A e \in Drafts : e # d => draft'[e].status = draft[e].status
        /\ source' = [source EXCEPT ![k] = d]
    BY <1>1 DEF ApproveCommit, IntakeInv, TypeOK
  <1>3. \A j \in Claims : source[j] # d
    BY <1>1, IntakeAssumption DEF IntakeInv, SourceInv
  <1>4. Decision("approved") = "approved" /\ Decision(draft[d].status) = "open"
    BY <1>1 DEF Decision
  <1>5. \A e \in Drafts : {j \in Claims : source'[j] = e} =
                            IF e = d THEN {k} ELSE {j \in Claims : source[j] = e}
    BY <1>1, <1>2, <1>3, IntakeAssumption DEF IntakeInv, TypeOK
  <1>6. [e \in Drafts |-> {j \in Claims : source'[j] = e}] =
          [[e \in Drafts |-> {j \in Claims : source[j] = e}] EXCEPT ![d] = {k}]
    BY <1>5
  <1>7. k \in Claims \ UNION {[x \in Drafts |-> {j \in Claims : source[j] = x}][e] : e \in Drafts}
    BY <1>1, IntakeAssumption
  <1>8. [e \in Drafts |-> Decision(draft'[e].status)] =
          [[e \in Drafts |-> Decision(draft[e].status)] EXCEPT ![d] = "approved"]
    BY <1>1, <1>2, <1>4, PromiseDecides
  <1>9. Promise!Approve(d)
    BY <1>1, <1>4, <1>6, <1>7, <1>8 DEF Promise!Approve
  <1> QED
    BY <1>9 DEF Promise!Next

LEMMA PromiseReject ==
  ASSUME IntakeInv, ~SlowRequests, NEW c \in Clients, Reject(c)
  PROVE  Promise!Next
  <1>1. PICK d \in Drafts : /\ d = client[c].item /\ source' = source
                            /\ draft[d].status = "pending_review"
    BY DEF Reject, Timely, IntakeInv, RequestInv
  <1>2. /\ draft'[d].status = "rejected"
        /\ \A e \in Drafts : e # d => draft'[e].status = draft[e].status
    BY <1>1 DEF Reject, IntakeInv, TypeOK
  <1>3. Decision("rejected") = "rejected" /\ Decision(draft[d].status) = "open"
    BY <1>1 DEF Decision
  <1>4. [e \in Drafts |-> Decision(draft'[e].status)] =
          [[e \in Drafts |-> Decision(draft[e].status)] EXCEPT ![d] = "rejected"]
    BY <1>1, <1>2, <1>3, PromiseDecides
  <1>5. Promise!Reject(d)
    BY <1>1, <1>3, <1>4 DEF Promise!Reject
  <1> QED
    BY <1>5 DEF Promise!Next

\* The other steps leave every undecided draft undecided.
LEMMA PromiseRest ==
  ASSUME IntakeInv, ~SlowRequests,
         \/ \E d \in Drafts : BackoffEnds(d) \/ LeaseExpires(d)
         \/ \E w \in Workers : Poll(w) \/ Run(w) \/ Die(w)
         \/ \E c \in Clients :
              \/ \E d \in Drafts : UploadStart(c, d) \/ LoadReject(c, d) \/ LoadRetry(c, d)
              \/ \E status \in {"infected", "scan_error"} : UploadHeld(c, status)
              \/ \E d \in Drafts, k \in Claims : ApproveStart(c, d, k)
              \/ ApproveFails(c) \/ ApproverDies(c) \/ Retry(c) \/ Abandon(c)
         \/ UNCHANGED vars
  PROVE  /\ source' = source
         /\ \A d \in Drafts : \/ draft'[d].status = draft[d].status
                              \/ {draft[d].status, draft'[d].status} \subseteq Undecided
                              \/ /\ draft[d].status = "absent"
                                 /\ draft'[d].status \in {"infected", "scan_error"}
  <1>0. draft \in [Drafts -> DraftRow]
    BY DEF IntakeInv, TypeOK
  <1>1. CASE UNCHANGED <<draft, source>>
    BY <1>1
  <1>2. ASSUME NEW e \in Drafts, NEW status \in Undecided, draft[e].status \in Undecided,
               draft' = [draft EXCEPT ![e].status = status], source' = source
        PROVE  \A d \in Drafts : \/ draft'[d].status = draft[d].status
                                 \/ {draft[d].status, draft'[d].status} \subseteq Undecided
    BY <1>0, <1>2 DEF DraftRow
  <1>3. ASSUME NEW w \in Workers, NEW d \in Drafts, Recover(w, d),
               draft' # draft
        PROVE  draft[d].status \in Undecided /\ source' = source
               /\ draft' = [draft EXCEPT ![d].status = "failed"]
    BY <1>3 DEF Recover, Undecided
  <1>4. ASSUME NEW w \in Workers, Succeed(w)
        PROVE  worker[w].item \in Drafts /\ draft[worker[w].item].status \in Undecided
    BY <1>4 DEF Succeed, IntakeInv, RunInv, TypeOK, WorkerState, Undecided
  <1>5. ASSUME NEW w \in Workers, NEW terminal \in BOOLEAN, Fail(w, terminal)
        PROVE  worker[w].item \in Drafts /\ draft[worker[w].item].status \in Undecided
    BY <1>5 DEF Fail, IntakeInv, RunInv, TypeOK, WorkerState, Undecided
  <1>6. ASSUME NEW w \in Workers, Requeue(w)
        PROVE  worker[w].item \in Drafts /\ draft[worker[w].item].status \in Undecided
    BY <1>6 DEF Requeue, Retryable, IntakeInv, RunInv, TypeOK, WorkerState, Undecided
  <1>7. ASSUME NEW c \in Clients, Retry(c)
        PROVE  client[c].item \in Drafts /\ draft[client[c].item].status \in Undecided
    BY <1>7 DEF Retry, Timely, IntakeInv, RequestInv, Undecided
  <1>8. ASSUME NEW c \in Clients, NEW status \in {"infected", "scan_error"},
               UploadHeld(c, status)
        PROVE  /\ source' = source
               /\ \A d \in Drafts : \/ draft'[d].status = draft[d].status
                                    \/ /\ draft[d].status = "absent"
                                       /\ draft'[d].status \in {"infected", "scan_error"}
    <2>1. [NoDraft EXCEPT !.status = status, !.key = "quarantine"].status = status
      BY DEF NoDraft
    <2> QED
      BY <1>0, <1>8, <2>1 DEF UploadHeld
  <1>9. {"failed", "processing", "pending_review"} \subseteq Undecided
    BY DEF Undecided
  <1>10. ASSUME NEW w \in Workers, Poll(w)
         PROVE  UNCHANGED <<draft, source>> \/ \E d \in Drafts, status \in Undecided :
                   /\ draft[d].status \in Undecided /\ source' = source
                   /\ draft' = [draft EXCEPT ![d].status = status]
    BY <1>3, <1>9, <1>10 DEF Poll, Recover, Claim
  <1>11. ASSUME NEW w \in Workers, Run(w) \/ Die(w)
         PROVE  UNCHANGED <<draft, source>> \/ \E d \in Drafts, status \in Undecided :
                   /\ draft[d].status \in Undecided /\ source' = source
                   /\ draft' = [draft EXCEPT ![d].status = status]
    <2>1. CASE Start(w) \/ Extract(w) \/ Finish(w) \/ Die(w)
      BY <2>1 DEF Start, Extract, Finish, Die
    <2>2. CASE Succeed(w)
      BY <1>4, <1>9, <2>2 DEF Succeed
    <2>3. ASSUME NEW terminal \in BOOLEAN, Fail(w, terminal)
          PROVE  \E d \in Drafts, status \in Undecided :
                   /\ draft[d].status \in Undecided /\ source' = source
                   /\ draft' = [draft EXCEPT ![d].status = status]
      BY <1>5, <1>9, <2>3 DEF Fail
    <2>4. CASE Requeue(w)
      BY <1>6, <1>9, <2>4 DEF Requeue
    <2> QED
      BY <1>11, <2>1, <2>2, <2>3, <2>4 DEF Run
  <1>12. ASSUME NEW c \in Clients, Retry(c)
         PROVE  \E d \in Drafts, status \in Undecided :
                   /\ draft[d].status \in Undecided /\ source' = source
                   /\ draft' = [draft EXCEPT ![d].status = status]
    BY <1>7, <1>9, <1>12 DEF Retry
  <1> QED
    BY <1>1, <1>2, <1>8, <1>10, <1>11, <1>12
    DEF BackoffEnds, LeaseExpires, UploadStart, LoadReject, LoadRetry, Load,
        ApproveStart, ApproveFails, ApproverDies, Abandon, vars

LEMMA PromiseStep ==
  ASSUME IntakeInv, ~SlowRequests, [Next]_vars
  PROVE  [Promise!Next]_(<<[d \in Drafts |-> Decision(draft[d].status)],
                           [d \in Drafts |-> {k \in Claims : source[k] = d}]>>)
  <1>1. ASSUME NEW c \in Clients, UploadClean(c) \/ ApproveCommit(c) \/ Reject(c)
        PROVE  [Promise!Next]_(<<[d \in Drafts |-> Decision(draft[d].status)],
                           [d \in Drafts |-> {k \in Claims : source[k] = d}]>>)
    BY <1>1, PromiseUpload, PromiseApprove, PromiseReject
  <1>2. CASE ~\E c \in Clients : UploadClean(c) \/ ApproveCommit(c) \/ Reject(c)
    <2>1. /\ source' = source
          /\ \A d \in Drafts : \/ draft'[d].status = draft[d].status
                               \/ {draft[d].status, draft'[d].status} \subseteq Undecided
                               \/ /\ draft[d].status = "absent"
                                  /\ draft'[d].status \in {"infected", "scan_error"}
      BY <1>2, PromiseRest DEF Next, ClientStep
    <2> QED
      BY <2>1, PromiseStutter
  <1> QED
    BY <1>1, <1>2

\* Under the same conditions intake keeps its promise: a draft is opened once,
\* decided once, and only its approval makes a claim, one.
THEOREM PromiseIsKept ==
  ASSUME ~SlowWorkers, ~SlowRequests
  PROVE  Spec => PromiseSpec
  <1>1. Init => Promise!Init
    <2>1. Decision("absent") = "none"
      BY DEF Decision
    <2> QED
      BY <2>1, IntakeAssumption DEF Init, Promise!Init, NoDraft
  <1>2. IntakeInv /\ [Next]_vars
          => [Promise!Next]_(<<[d \in Drafts |-> Decision(draft[d].status)],
                               [d \in Drafts |-> {k \in Claims : source[k] = d}]>>)
    BY PromiseStep
  <1> QED
    BY <1>1, <1>2, IntakeInvariant, PTL DEF Spec, PromiseSpec, Promise!Spec

=============================================================================
