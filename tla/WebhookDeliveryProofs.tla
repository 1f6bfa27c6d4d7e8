------------------------ MODULE WebhookDeliveryProofs ------------------------
(***************************************************************************)
(* The invariants of WebhookDelivery and its refinement of                 *)
(* DeliveryChannel, for any number of events, workers, administrators and  *)
(* keys, when a request is not overtaken between its read and its write.   *)
(* Workers may die at any point, unless a theorem says otherwise.          *)
(***************************************************************************)
EXTENDS WebhookDelivery, FiniteSetTheorems, TLAPS

\* A worker holds a row from its claim until it settles it.  The row is being
\* attempted and no other worker holds it; what is reported as accepted was
\* received.
HoldInv ==
    \A w \in Workers :
        /\ worker[w].pc \in {"claimed", "sending", "answered"} <=> worker[w].item # None
        /\ worker[w].pc = "syncing" => worker[w].version \in Versions
        /\ worker[w].item # None =>
             /\ row[worker[w].item].status = "attempting"
             /\ \A v \in Workers : worker[v].item = worker[w].item => v = w
        /\ worker[w].pc = "answered" /\ worker[w].answer = "accepted" =>
             worker[w].item \in received

\* A row exists for events that occurred, and one that waits has an attempt
\* left.
BudgetInv ==
    \A k \in Events :
        /\ row[k].status # "absent" => k \in occurred
        /\ row[k].status \in {"queued", "failed"} => row[k].attempts < MaxAttempts

\* A retry was asked for a row that had failed.
AdminInv ==
    \A a \in Admins :
        /\ admin[a].op = "retry" =>
             /\ admin[a].item \in Events
             /\ admin[a].row.status \in {"failed", "dead_letter"}
        /\ admin[a].op = "rotate" => admin[a].item = None

\* Each version up to the current one was issued one secret, and the two keys
\* of the destination are the last two of them.
KeyInv ==
    /\ issued[dest.version] = {dest.salt}
    /\ dest.oldVersion < dest.version
    /\ dest.oldVersion # 0 => issued[dest.oldVersion] = {dest.oldSalt}
    /\ \A v \in Versions : v > dest.version => issued[v] = {}

WebhookInv == TypeOK /\ HoldInv /\ BudgetInv /\ AdminInv /\ KeyInv

\* An attempt is never left without a worker, when workers do not die in one.
AttemptsAreHeld ==
    \A k \in Events : row[k].status = "attempting" =>
        \E w \in Workers : worker[w].item = k

-----------------------------------------------------------------------------
(* Types: what a step writes to a row leaves it a row.                     *)

LiveRow == [status : {"queued", "attempting", "failed", "delivered", "dead_letter"},
            attempts : 0..MaxAttempts, retries : 0..MaxRetries, due : BOOLEAN,
            version : Versions, error : {"none", "key", "other"}]

LEMMA NoRowIsAbsent == NoRow \in Row /\ NoRow.status = "absent"
  BY DEF NoRow, Row

LEMMA RowKinds ==
  ASSUME NEW r \in Row
  PROVE  IF r.status = "absent" THEN r = NoRow ELSE r \in LiveRow
  BY NoRowIsAbsent DEF Row, LiveRow

LEMMA LiveRowIsRow == LiveRow \subseteq Row
  BY DEF Row, LiveRow

LEMMA QueuedType ==
  ASSUME NEW v \in Versions
  PROVE  /\ Queued(v) \in LiveRow
         /\ Queued(v).status = "queued" /\ Queued(v).attempts = 0
  <1>1. 0 \in 0..MaxAttempts /\ 0 \in 0..MaxRetries
    BY WebhookAssumption
  <1> QED
    BY <1>1 DEF Queued, NoRow, LiveRow

LEMMA RowWrites ==
  ASSUME NEW f \in [Events -> Row], NEW k \in Events, f[k].status # "absent"
  PROVE  /\ [f EXCEPT ![k].due = TRUE] \in [Events -> Row]
         /\ [f EXCEPT ![k].status = "delivered", ![k].error = "none"] \in [Events -> Row]
         /\ \A error \in {"key", "other"} :
              [f EXCEPT ![k].status = "dead_letter", ![k].error = error] \in [Events -> Row]
  <1>1. f[k] \in LiveRow
    BY RowKinds
  <1>2. /\ [f[k] EXCEPT !.due = TRUE] \in LiveRow
        /\ [f[k] EXCEPT !.status = "delivered", !.error = "none"] \in LiveRow
        /\ \A error \in {"key", "other"} :
             [f[k] EXCEPT !.status = "dead_letter", !.error = error] \in LiveRow
    BY <1>1 DEF LiveRow
  <1> QED
    BY <1>2, LiveRowIsRow

LEMMA RowClaimed ==
  ASSUME NEW f \in [Events -> Row], NEW k \in Events, f[k].status # "absent",
         f[k].attempts < MaxAttempts
  PROVE  [f EXCEPT ![k].status = "attempting", ![k].attempts = @ + 1] \in [Events -> Row]
  <1>1. f[k] \in LiveRow
    BY RowKinds
  <1>2. f[k].attempts + 1 \in 0..MaxAttempts
    BY <1>1, WebhookAssumption DEF LiveRow
  <1>3. [f[k] EXCEPT !.status = "attempting", !.attempts = f[k].attempts + 1] \in LiveRow
    BY <1>1, <1>2 DEF LiveRow
  <1> QED
    BY <1>3, LiveRowIsRow

\* A failed attempt ends the row or leaves it an attempt.
LEMMA FailedType ==
  ASSUME row \in [Events -> Row], NEW k \in Events, row[k].status # "absent"
  PROVE  /\ Failed(k) \in [Events -> Row]
         /\ Failed(k)[k].status \in {"dead_letter", "failed"}
         /\ Failed(k)[k].status = "failed" => Failed(k)[k].attempts < MaxAttempts
         /\ \A j \in Events : j # k => Failed(k)[j] = row[j]
  <1> DEFINE last == row[k].attempts >= MaxAttempts
             status == IF last THEN "dead_letter" ELSE "failed"
             r == [row[k] EXCEPT !.status = status, !.due = last, !.error = "other"]
  <1>1. row[k] \in LiveRow
    BY RowKinds
  <1>2. last \in BOOLEAN /\ (~last => row[k].attempts < MaxAttempts)
    BY <1>1, WebhookAssumption DEF LiveRow
  <1>3. status \in {"dead_letter", "failed"} /\ (status = "failed" <=> ~last)
    OBVIOUS
  <1>4. Failed(k) = [row EXCEPT ![k].status = status, ![k].due = last, ![k].error = "other"]
    BY DEF Failed
  <1> HIDE DEF last, status
  <1>5. /\ r \in LiveRow /\ r.status = status /\ r.attempts = row[k].attempts
    BY <1>1, <1>2, <1>3 DEF LiveRow
  <1>6. Failed(k) = [row EXCEPT ![k] = r]
    BY <1>1, <1>4 DEF LiveRow
  <1> HIDE DEF r
  <1> QED
    BY <1>2, <1>3, <1>5, <1>6, LiveRowIsRow

\* A retry queues the row anew under the version that was read.
LEMMA RetriedType ==
  ASSUME TypeOK, NEW a \in Admins, Retry(a), admin[a].item \in Events,
         row[admin[a].item].status # "absent"
  PROVE  /\ row' \in [Events -> Row]
         /\ row'[admin[a].item].status = "queued"
         /\ row'[admin[a].item].attempts = 0
         /\ \A j \in Events : j # admin[a].item => row'[j] = row[j]
  <1> DEFINE k == admin[a].item
             v == admin[a].dest.version
             r == [status |-> "queued", attempts |-> 0, retries |-> row[k].retries + 1,
                   due |-> TRUE, version |-> v, error |-> "none"]
  <1>1. row' = [row EXCEPT ![k] = r] /\ row[k].retries < MaxRetries
    BY DEF Retry, TypeOK
  <1>2. row[k] \in LiveRow /\ v \in Versions /\ row \in [Events -> Row]
    BY RowKinds DEF TypeOK, AdminState, Dest
  <1> HIDE DEF k, v
  <1>3. row[k].retries + 1 \in 0..MaxRetries /\ 0 \in 0..MaxAttempts
    BY <1>1, <1>2, WebhookAssumption DEF LiveRow
  <1>4. r \in LiveRow
    BY <1>2, <1>3 DEF LiveRow
  <1>5. r.status = "queued" /\ r.attempts = 0
    OBVIOUS
  <1> HIDE DEF r
  <1>6. k \in Events
    BY DEF k
  <1> QED
    BY <1>1, <1>2, <1>4, <1>5, <1>6, LiveRowIsRow DEF k

LEMMA WorkerWrites ==
  ASSUME NEW f \in [Workers -> WorkerState], NEW w \in Workers
  PROVE  /\ [f EXCEPT ![w] = Idle] \in [Workers -> WorkerState]
         /\ [f EXCEPT ![w] = [Idle EXCEPT !.pc = "polling"]] \in [Workers -> WorkerState]
         /\ \A v \in Versions :
              [f EXCEPT ![w] = [Idle EXCEPT !.pc = "syncing", !.version = v]]
                \in [Workers -> WorkerState]
         /\ \A k \in Events :
              [f EXCEPT ![w].pc = "claimed", ![w].item = k] \in [Workers -> WorkerState]
         /\ [f EXCEPT ![w].pc = "sending"] \in [Workers -> WorkerState]
         /\ \A answer \in {"accepted", "refused"} :
              [f EXCEPT ![w].pc = "answered", ![w].answer = answer]
                \in [Workers -> WorkerState]
  <1>1. 0 \in 0..MaxVersion /\ Versions \subseteq 0..MaxVersion
    BY WebhookAssumption DEF Versions
  <1>2. Idle \in WorkerState
    BY <1>1 DEF Idle, WorkerState
  <1>3. /\ [Idle EXCEPT !.pc = "polling"] \in WorkerState
        /\ \A v \in Versions : [Idle EXCEPT !.pc = "syncing", !.version = v] \in WorkerState
    BY <1>1, <1>2 DEF WorkerState
  <1>4. /\ \A k \in Events : [f[w] EXCEPT !.pc = "claimed", !.item = k] \in WorkerState
        /\ [f[w] EXCEPT !.pc = "sending"] \in WorkerState
        /\ \A answer \in {"accepted", "refused"} :
             [f[w] EXCEPT !.pc = "answered", !.answer = answer] \in WorkerState
    BY DEF WorkerState
  <1> QED
    BY <1>2, <1>3, <1>4

LEMMA RequestType ==
  ASSUME dest \in Dest, row \in [Events -> Row], NEW k \in Events \cup {None},
         NEW op \in {"none", "rotate", "retry"}
  PROVE  Request(op, k) \in AdminState
  <1>1. (IF k = None THEN NoRow ELSE row[k]) \in Row
    BY NoRowIsAbsent
  <1> QED
    BY <1>1 DEF Request, AdminState

-----------------------------------------------------------------------------
(* Every step keeps the invariant.                                         *)

LEMMA TypeNext ==
  ASSUME WebhookInv, ~SlowRequests, [Next]_vars
  PROVE  TypeOK'
  <1>t. TypeOK /\ HoldInv /\ AdminInv
    BY DEF WebhookInv
  <1>1. ASSUME NEW k \in Events, Occur(k) PROVE TypeOK'
    BY <1>1, <1>t DEF Occur, TypeOK
  <1>2. ASSUME NEW k \in Events, EnqueueTest(k) PROVE TypeOK'
    <2>1. dest.version \in Versions
      BY <1>t DEF TypeOK, Dest
    <2>2. row' \in [Events -> Row]
      BY <1>2, <1>t, <2>1, QueuedType, LiveRowIsRow DEF EnqueueTest, TypeOK
    <2> QED
      BY <1>2, <1>t, <2>1, <2>2 DEF EnqueueTest, TypeOK
  <1>3. ASSUME NEW k \in Events, Elapse(k) PROVE TypeOK'
    <2>1. row' \in [Events -> Row]
      BY <1>3, <1>t, RowWrites DEF Elapse, TypeOK
    <2> QED
      BY <1>3, <1>t, <2>1 DEF Elapse, TypeOK
  <1>4. ASSUME GraceEnds PROVE TypeOK'
    <2>1. dest' \in Dest
      BY <1>4, <1>t DEF GraceEnds, TypeOK, Dest
    <2> QED
      BY <1>4, <1>t, <2>1 DEF GraceEnds, TypeOK
  <1>5. ASSUME NEW w \in Workers, SyncLoad(w) PROVE TypeOK'
    <2>1. dest.version \in Versions
      BY <1>t DEF TypeOK, Dest
    <2>2. worker' \in [Workers -> WorkerState]
      BY <1>5, <1>t, <2>1, WorkerWrites DEF SyncLoad, TypeOK
    <2> QED
      BY <1>5, <1>t, <2>1, <2>2 DEF SyncLoad, TypeOK
  <1>6. ASSUME NEW w \in Workers, SyncCommit(w) PROVE TypeOK'
    <2>1. worker[w].version \in Versions
      BY <1>6, <1>t DEF SyncCommit, HoldInv
    <2>2. row' \in [Events -> Row]
      BY <1>6, <1>t, <2>1, QueuedType, LiveRowIsRow DEF SyncCommit, TypeOK
    <2>3. worker' \in [Workers -> WorkerState]
      BY <1>6, <1>t, WorkerWrites DEF SyncCommit, TypeOK
    <2> QED
      BY <1>6, <1>t, <2>1, <2>2, <2>3 DEF SyncCommit, TypeOK
  <1>7. ASSUME NEW w \in Workers, NothingDue(w) PROVE TypeOK'
    <2>1. worker' \in [Workers -> WorkerState]
      BY <1>7, <1>t, WorkerWrites DEF NothingDue, TypeOK
    <2> QED
      BY <1>7, <1>t, <2>1 DEF NothingDue, TypeOK
  <1>8. ASSUME NEW w \in Workers, NEW k \in Events, Claim(w, k) PROVE TypeOK'
    <2>1. row' \in [Events -> Row]
      BY <1>8, <1>t, RowClaimed DEF Claim, Claimable, TypeOK
    <2>2. worker' \in [Workers -> WorkerState]
      BY <1>8, <1>t, WorkerWrites DEF Claim, TypeOK
    <2> QED
      BY <1>8, <1>t, <2>1, <2>2 DEF Claim, Claimable, TypeOK
  <1>9. ASSUME NEW w \in Workers, StopDisabled(w) PROVE TypeOK'
    <2>1. worker[w].item \in Events /\ row[worker[w].item].status = "attempting"
      BY <1>9, <1>t DEF StopDisabled, HoldInv, TypeOK, WorkerState
    <2>2. row' \in [Events -> Row]
      BY <1>9, <1>t, <2>1, FailedType DEF StopDisabled, TypeOK
    <2>3. worker' \in [Workers -> WorkerState]
      BY <1>9, <1>t, WorkerWrites DEF StopDisabled, TypeOK
    <2> QED
      BY <1>9, <1>t, <2>1, <2>2, <2>3 DEF StopDisabled, TypeOK
  <1>10. ASSUME NEW w \in Workers, StopForGood(w) PROVE TypeOK'
    <2>1. worker[w].item \in Events /\ row[worker[w].item].status = "attempting"
      BY <1>10, <1>t DEF StopForGood, HoldInv, TypeOK, WorkerState
    <2>2. row' \in [Events -> Row]
      <3>1. PICK error \in {"key", "other"} :
              row' = [row EXCEPT ![worker[w].item].status = "dead_letter",
                                 ![worker[w].item].error = error]
        BY <1>10 DEF StopForGood
      <3> QED
        BY <1>t, <2>1, <3>1, RowWrites DEF TypeOK
    <2>3. worker' \in [Workers -> WorkerState]
      BY <1>10, <1>t, WorkerWrites DEF StopForGood, TypeOK
    <2> QED
      BY <1>10, <1>t, <2>1, <2>2, <2>3 DEF StopForGood, TypeOK
  <1>11. ASSUME NEW w \in Workers, Sign(w) PROVE TypeOK'
    <2>1. worker' \in [Workers -> WorkerState]
      BY <1>11, <1>t, WorkerWrites DEF Sign, TypeOK
    <2> QED
      BY <1>11, <1>t, <2>1 DEF Sign, TypeOK
  <1>12. ASSUME NEW w \in Workers, Post(w) PROVE TypeOK'
    <2>1. worker[w].item \in Events /\ row[worker[w].item].status = "attempting"
      BY <1>12, <1>t DEF Post, HoldInv, TypeOK, WorkerState
    <2>2. worker' \in [Workers -> WorkerState]
      <3>1. PICK answer \in {"accepted", "refused"} :
              worker' = [worker EXCEPT ![w].pc = "answered", ![w].answer = answer]
        BY <1>12 DEF Post
      <3> QED
        BY <1>t, <3>1, WorkerWrites DEF TypeOK
    <2> QED
      BY <1>12, <1>t, <2>1, <2>2 DEF Post, TypeOK
  <1>13. ASSUME NEW w \in Workers, Settle(w) PROVE TypeOK'
    <2>1. worker[w].item \in Events /\ row[worker[w].item].status = "attempting"
      BY <1>13, <1>t DEF Settle, HoldInv, TypeOK, WorkerState
    <2>2. row' \in [Events -> Row]
      BY <1>13, <1>t, <2>1, RowWrites, FailedType DEF Settle, TypeOK
    <2>3. worker' \in [Workers -> WorkerState]
      BY <1>13, <1>t, WorkerWrites DEF Settle, TypeOK
    <2> QED
      BY <1>13, <1>t, <2>1, <2>2, <2>3 DEF Settle, TypeOK
  <1>14. ASSUME NEW w \in Workers, Die(w) PROVE TypeOK'
    <2>1. worker' \in [Workers -> WorkerState]
      BY <1>14, <1>t, WorkerWrites DEF Die, TypeOK
    <2> QED
      BY <1>14, <1>t, <2>1 DEF Die, TypeOK
  <1>15. ASSUME NEW enabled \in BOOLEAN, Enable(enabled) PROVE TypeOK'
    <2>1. dest' \in Dest
      BY <1>15, <1>t DEF Enable, TypeOK, Dest
    <2> QED
      BY <1>15, <1>t, <2>1 DEF Enable, TypeOK
  <1>16. ASSUME NEW a \in Admins, LoadRotate(a) PROVE TypeOK'
    <2>1. admin' \in [Admins -> AdminState]
      BY <1>16, <1>t, RequestType DEF LoadRotate, TypeOK
    <2> QED
      BY <1>16, <1>t, <2>1 DEF LoadRotate, TypeOK
  <1>17. ASSUME NEW a \in Admins, Abandon(a) PROVE TypeOK'
    <2>1. admin' \in [Admins -> AdminState]
      BY <1>17, <1>t, RequestType DEF Abandon, TypeOK
    <2> QED
      BY <1>17, <1>t, <2>1 DEF Abandon, TypeOK
  <1>18. ASSUME NEW a \in Admins, Retry(a) PROVE TypeOK'
    <2>1. admin[a].item \in Events /\ row[admin[a].item].status # "absent"
      BY <1>18, <1>t, ~SlowRequests, WebhookAssumption DEF Retry, Timely, AdminInv
    <2>2. row' \in [Events -> Row]
      BY <1>18, <1>t, <2>1, RetriedType
    <2>3. admin' \in [Admins -> AdminState]
      BY <1>18, <1>t, RequestType DEF Retry, TypeOK
    <2> QED
      BY <1>18, <1>t, <2>1, <2>2, <2>3 DEF Retry, TypeOK
  <1>19. ASSUME NEW a \in Admins, NEW k \in Events, LoadRetry(a, k) PROVE TypeOK'
    <2>1. admin' \in [Admins -> AdminState]
      BY <1>19, <1>t, RequestType DEF LoadRetry, TypeOK
    <2> QED
      BY <1>19, <1>t, <2>1 DEF LoadRetry, TypeOK
  <1>20. ASSUME NEW a \in Admins, NEW s \in Salts, Rotate(a, s) PROVE TypeOK'
    <2>1. admin[a].dest.version \in Versions /\ admin[a].dest.salt \in Salts
          /\ admin[a].dest.version + 1 \in Versions
      BY <1>20, <1>t, WebhookAssumption DEF Rotate, TypeOK, AdminState, Dest, Versions
    <2>2. Versions \subseteq 0..MaxVersion
      BY WebhookAssumption DEF Versions
    <2>3. dest' \in Dest
      BY <1>20, <1>t, <2>1, <2>2 DEF Rotate, TypeOK, Dest
    <2>4. issued' \in [Versions -> SUBSET Salts]
      BY <1>20, <1>t, <2>1 DEF Rotate, TypeOK
    <2>5. admin' \in [Admins -> AdminState]
      BY <1>20, <1>t, RequestType DEF Rotate, TypeOK
    <2> QED
      BY <1>20, <1>t, <2>1, <2>2, <2>3, <2>4, <2>5 DEF Rotate, TypeOK
  <1>21. CASE UNCHANGED vars
    BY <1>21, <1>t DEF vars, TypeOK
  <1> QED
    BY <1>1, <1>2, <1>3, <1>4, <1>5, <1>6, <1>7, <1>8, <1>9, <1>10, <1>11, <1>12, <1>13, <1>14,
       <1>15, <1>16, <1>17, <1>18, <1>19, <1>20, <1>21 DEF Next, Step, AdminStep

LEMMA WebhookNext ==
  ASSUME WebhookInv, ~SlowRequests, [Next]_vars
  PROVE  HoldInv' /\ BudgetInv' /\ AdminInv' /\ KeyInv'
  <1> USE DEF WebhookInv
  <1>1. ASSUME NEW k \in Events, Occur(k)
        PROVE  HoldInv' /\ BudgetInv' /\ AdminInv' /\ KeyInv'
    <2>1. HoldInv'
      BY <1>1, WebhookAssumption DEF Occur, HoldInv
    <2>2. BudgetInv'
      BY <1>1 DEF Occur, BudgetInv
    <2>3. AdminInv'
      BY <1>1, WebhookAssumption DEF Occur, AdminInv
    <2>4. KeyInv'
      BY <1>1, WebhookAssumption DEF Occur, KeyInv
    <2> QED
      BY <2>1, <2>2, <2>3, <2>4
  <1>2. ASSUME NEW k \in Events, EnqueueTest(k)
        PROVE  HoldInv' /\ BudgetInv' /\ AdminInv' /\ KeyInv'
    <2>r. \A j \in Events : row'[j] = IF j = k THEN Queued(dest.version) ELSE row[j]
      BY <1>2 DEF EnqueueTest, TypeOK
    <2>q. dest.version \in Versions /\ 0 < MaxAttempts
      BY WebhookAssumption DEF TypeOK, Dest
    <2>1. HoldInv'
      BY <1>2, <2>r, <2>q, QueuedType, WebhookAssumption DEF EnqueueTest, HoldInv, BudgetInv
    <2>2. BudgetInv'
      BY <1>2, <2>r, <2>q, QueuedType DEF EnqueueTest, BudgetInv
    <2>3. AdminInv'
      BY <1>2, WebhookAssumption DEF EnqueueTest, AdminInv
    <2>4. KeyInv'
      BY <1>2, WebhookAssumption DEF EnqueueTest, KeyInv
    <2> QED
      BY <2>1, <2>2, <2>3, <2>4
  <1>3. ASSUME NEW k \in Events, Elapse(k)
        PROVE  HoldInv' /\ BudgetInv' /\ AdminInv' /\ KeyInv'
    <2>r. \A j \in Events : row'[j].status = row[j].status /\ row'[j].attempts = row[j].attempts
      BY <1>3 DEF Elapse
    <2>1. HoldInv'
      BY <1>3, <2>r, WebhookAssumption DEF Elapse, HoldInv
    <2>2. BudgetInv'
      BY <1>3, <2>r DEF Elapse, BudgetInv
    <2>3. AdminInv'
      BY <1>3, WebhookAssumption DEF Elapse, AdminInv
    <2>4. KeyInv'
      BY <1>3, WebhookAssumption DEF Elapse, KeyInv
    <2> QED
      BY <2>1, <2>2, <2>3, <2>4
  <1>4. ASSUME GraceEnds
        PROVE  HoldInv' /\ BudgetInv' /\ AdminInv' /\ KeyInv'
    <2>1. HoldInv'
      BY <1>4, WebhookAssumption DEF GraceEnds, HoldInv
    <2>2. BudgetInv'
      BY <1>4 DEF GraceEnds, BudgetInv
    <2>3. AdminInv'
      BY <1>4, WebhookAssumption DEF GraceEnds, AdminInv
    <2>4. KeyInv'
      BY <1>4, WebhookAssumption DEF GraceEnds, KeyInv
    <2> QED
      BY <2>1, <2>2, <2>3, <2>4
  <1>5. ASSUME NEW w \in Workers, SyncLoad(w)
        PROVE  HoldInv' /\ BudgetInv' /\ AdminInv' /\ KeyInv'
    <2>1. HoldInv'
      BY <1>5, WebhookAssumption DEF SyncLoad, TypeOK, HoldInv, Dest, Idle
    <2>2. BudgetInv'
      BY <1>5 DEF SyncLoad, BudgetInv
    <2>3. AdminInv'
      BY <1>5, WebhookAssumption DEF SyncLoad, AdminInv
    <2>4. KeyInv'
      BY <1>5, WebhookAssumption DEF SyncLoad, KeyInv
    <2> QED
      BY <2>1, <2>2, <2>3, <2>4
  <1>6. ASSUME NEW w \in Workers, SyncCommit(w)
        PROVE  HoldInv' /\ BudgetInv' /\ AdminInv' /\ KeyInv'
    <2>r. /\ worker[w].version \in Versions
          /\ \A j \in Events :
               \/ row'[j] = row[j]
               \/ /\ j \in occurred /\ row[j].status = "absent"
                  /\ row'[j] = Queued(worker[w].version)
      <3>1. worker[w].version \in Versions
        BY <1>6 DEF SyncCommit, HoldInv
      <3>2. row' = [j \in Events |-> IF j \in occurred /\ row[j].status = "absent"
                                    THEN Queued(worker[w].version) ELSE row[j]]
        BY <1>6 DEF SyncCommit
      <3> QED
        BY <3>1, <3>2
    <2>q. dest.version \in Versions /\ 0 < MaxAttempts
      BY WebhookAssumption DEF TypeOK, Dest
    <2>1. HoldInv'
      BY <1>6, <2>r, <2>q, QueuedType, WebhookAssumption
      DEF SyncCommit, TypeOK, WorkerState, HoldInv, Idle
    <2>2. BudgetInv'
      BY <1>6, <2>r, <2>q, QueuedType DEF SyncCommit, BudgetInv
    <2>3. AdminInv'
      BY <1>6, WebhookAssumption DEF SyncCommit, AdminInv
    <2>4. KeyInv'
      BY <1>6, WebhookAssumption DEF SyncCommit, KeyInv
    <2> QED
      BY <2>1, <2>2, <2>3, <2>4
  <1>7. ASSUME NEW w \in Workers, NothingDue(w)
        PROVE  HoldInv' /\ BudgetInv' /\ AdminInv' /\ KeyInv'
    <2>1. HoldInv'
      BY <1>7, WebhookAssumption DEF NothingDue, HoldInv, Idle
    <2>2. BudgetInv'
      BY <1>7 DEF NothingDue, BudgetInv
    <2>3. AdminInv'
      BY <1>7, WebhookAssumption DEF NothingDue, AdminInv
    <2>4. KeyInv'
      BY <1>7, WebhookAssumption DEF NothingDue, KeyInv
    <2> QED
      BY <2>1, <2>2, <2>3, <2>4
  <1>8. ASSUME NEW w \in Workers, NEW k \in Events, Claim(w, k)
        PROVE  HoldInv' /\ BudgetInv' /\ AdminInv' /\ KeyInv'
    <2>r. row'[k].status = "attempting" /\ row[k].status \in {"queued", "failed"}
          /\ \A j \in Events : j # k => row'[j] = row[j]
      BY <1>8, RowKinds DEF Claim, Claimable, TypeOK
    <2>1. HoldInv'
      BY <1>8, <2>r, WebhookAssumption DEF Claim, TypeOK, WorkerState, HoldInv
    <2>2. BudgetInv'
      BY <1>8, <2>r DEF Claim, BudgetInv
    <2>3. AdminInv'
      BY <1>8, WebhookAssumption DEF Claim, AdminInv
    <2>4. KeyInv'
      BY <1>8, WebhookAssumption DEF Claim, KeyInv
    <2> QED
      BY <2>1, <2>2, <2>3, <2>4
  <1>9. ASSUME NEW w \in Workers, StopDisabled(w)
        PROVE  HoldInv' /\ BudgetInv' /\ AdminInv' /\ KeyInv'
    <2>r. worker[w].item \in Events
          /\ row'[worker[w].item].status \in {"dead_letter", "failed"}
            /\ (row'[worker[w].item].status = "failed" =>
                 row'[worker[w].item].attempts < MaxAttempts)
          /\ \A j \in Events : j # worker[w].item => row'[j] = row[j]
      BY <1>9, FailedType DEF StopDisabled, TypeOK, HoldInv, WorkerState
    <2>1. HoldInv'
      BY <1>9, <2>r, WebhookAssumption DEF StopDisabled, TypeOK, WorkerState, HoldInv, Idle
    <2>2. BudgetInv'
      BY <1>9, <2>r DEF StopDisabled, HoldInv, BudgetInv
    <2>3. AdminInv'
      BY <1>9, WebhookAssumption DEF StopDisabled, AdminInv
    <2>4. KeyInv'
      BY <1>9, WebhookAssumption DEF StopDisabled, KeyInv
    <2> QED
      BY <2>1, <2>2, <2>3, <2>4
  <1>10. ASSUME NEW w \in Workers, StopForGood(w)
        PROVE  HoldInv' /\ BudgetInv' /\ AdminInv' /\ KeyInv'
    <2>r. worker[w].item \in Events
          /\ row'[worker[w].item].status = "dead_letter" 
          /\ \A j \in Events : j # worker[w].item => row'[j] = row[j]
      BY <1>10, RowKinds DEF StopForGood, TypeOK, HoldInv, WorkerState
    <2>1. HoldInv'
      BY <1>10, <2>r, WebhookAssumption DEF StopForGood, TypeOK, WorkerState, HoldInv, Idle
    <2>2. BudgetInv'
      BY <1>10, <2>r DEF StopForGood, HoldInv, BudgetInv
    <2>3. AdminInv'
      BY <1>10, WebhookAssumption DEF StopForGood, AdminInv
    <2>4. KeyInv'
      BY <1>10, WebhookAssumption DEF StopForGood, KeyInv
    <2> QED
      BY <2>1, <2>2, <2>3, <2>4
  <1>11. ASSUME NEW w \in Workers, Sign(w)
        PROVE  HoldInv' /\ BudgetInv' /\ AdminInv' /\ KeyInv'
    <2>1. HoldInv'
      BY <1>11, WebhookAssumption DEF Sign, HoldInv
    <2>2. BudgetInv'
      BY <1>11 DEF Sign, BudgetInv
    <2>3. AdminInv'
      BY <1>11, WebhookAssumption DEF Sign, AdminInv
    <2>4. KeyInv'
      BY <1>11, WebhookAssumption DEF Sign, KeyInv
    <2> QED
      BY <2>1, <2>2, <2>3, <2>4
  <1>12. ASSUME NEW w \in Workers, Post(w)
        PROVE  HoldInv' /\ BudgetInv' /\ AdminInv' /\ KeyInv'
    <2>1. HoldInv'
      BY <1>12, WebhookAssumption DEF Post, TypeOK, WorkerState, AdminState, HoldInv, Dest
    <2>2. BudgetInv'
      BY <1>12 DEF Post, BudgetInv
    <2>3. AdminInv'
      BY <1>12, WebhookAssumption DEF Post, AdminInv
    <2>4. KeyInv'
      BY <1>12, WebhookAssumption DEF Post, KeyInv
    <2> QED
      BY <2>1, <2>2, <2>3, <2>4
  <1>13. ASSUME NEW w \in Workers, Settle(w)
        PROVE  HoldInv' /\ BudgetInv' /\ AdminInv' /\ KeyInv'
    <2>r. worker[w].item \in Events
          /\ row'[worker[w].item].status \in {"delivered", "dead_letter", "failed"}
            /\ (row'[worker[w].item].status = "failed" =>
                 row'[worker[w].item].attempts < MaxAttempts)
          /\ \A j \in Events : j # worker[w].item => row'[j] = row[j]
      BY <1>13, FailedType, RowKinds DEF Settle, TypeOK, HoldInv, WorkerState
    <2>1. HoldInv'
      BY <1>13, <2>r, WebhookAssumption DEF Settle, TypeOK, WorkerState, HoldInv, Idle
    <2>2. BudgetInv'
      BY <1>13, <2>r DEF Settle, HoldInv, BudgetInv
    <2>3. AdminInv'
      BY <1>13, WebhookAssumption DEF Settle, AdminInv
    <2>4. KeyInv'
      BY <1>13, WebhookAssumption DEF Settle, KeyInv
    <2> QED
      BY <2>1, <2>2, <2>3, <2>4
  <1>14. ASSUME NEW w \in Workers, Die(w)
        PROVE  HoldInv' /\ BudgetInv' /\ AdminInv' /\ KeyInv'
    <2>1. HoldInv'
      BY <1>14, WebhookAssumption DEF Die, HoldInv, Idle
    <2>2. BudgetInv'
      BY <1>14 DEF Die, BudgetInv
    <2>3. AdminInv'
      BY <1>14, WebhookAssumption DEF Die, AdminInv
    <2>4. KeyInv'
      BY <1>14, WebhookAssumption DEF Die, KeyInv
    <2> QED
      BY <2>1, <2>2, <2>3, <2>4
  <1>15. ASSUME NEW enabled \in BOOLEAN, Enable(enabled)
        PROVE  HoldInv' /\ BudgetInv' /\ AdminInv' /\ KeyInv'
    <2>1. HoldInv'
      BY <1>15, WebhookAssumption DEF Enable, HoldInv
    <2>2. BudgetInv'
      BY <1>15 DEF Enable, BudgetInv
    <2>3. AdminInv'
      BY <1>15, WebhookAssumption DEF Enable, AdminInv
    <2>4. KeyInv'
      BY <1>15, WebhookAssumption DEF Enable, KeyInv
    <2> QED
      BY <2>1, <2>2, <2>3, <2>4
  <1>16. ASSUME NEW a \in Admins, LoadRotate(a)
        PROVE  HoldInv' /\ BudgetInv' /\ AdminInv' /\ KeyInv'
    <2>1. HoldInv'
      BY <1>16, WebhookAssumption DEF LoadRotate, HoldInv
    <2>2. BudgetInv'
      BY <1>16 DEF LoadRotate, BudgetInv
    <2>3. AdminInv'
      BY <1>16, WebhookAssumption DEF LoadRotate, AdminInv, Request
    <2>4. KeyInv'
      BY <1>16, WebhookAssumption DEF LoadRotate, KeyInv
    <2> QED
      BY <2>1, <2>2, <2>3, <2>4
  <1>17. ASSUME NEW a \in Admins, Abandon(a)
        PROVE  HoldInv' /\ BudgetInv' /\ AdminInv' /\ KeyInv'
    <2>1. HoldInv'
      BY <1>17, WebhookAssumption DEF Abandon, HoldInv
    <2>2. BudgetInv'
      BY <1>17 DEF Abandon, BudgetInv
    <2>3. AdminInv'
      BY <1>17, WebhookAssumption DEF Abandon, AdminInv, Request
    <2>4. KeyInv'
      BY <1>17, WebhookAssumption DEF Abandon, KeyInv
    <2> QED
      BY <2>1, <2>2, <2>3, <2>4
  <1>18. ASSUME NEW a \in Admins, Retry(a)
        PROVE  HoldInv' /\ BudgetInv' /\ AdminInv' /\ KeyInv'
    <2>r. /\ admin[a].item \in Events
          /\ row[admin[a].item].status \in {"failed", "dead_letter"}
          /\ row'[admin[a].item].status = "queued"
          /\ row'[admin[a].item].attempts = 0
          /\ \A j \in Events : j # admin[a].item => row'[j] = row[j]
      <3>1. /\ admin[a].item \in Events
            /\ row[admin[a].item].status \in {"failed", "dead_letter"}
        BY <1>18, WebhookAssumption DEF Retry, Timely, AdminInv
      <3> QED
        BY <1>18, <3>1, RetriedType
    <2>q. 0 < MaxAttempts
      BY WebhookAssumption
    <2>1. HoldInv'
      BY <1>18, <2>r, <2>q, WebhookAssumption DEF Retry, HoldInv
    <2>2. BudgetInv'
      BY <1>18, <2>r, <2>q DEF Retry, BudgetInv
    <2>3. AdminInv'
      BY <1>18, WebhookAssumption DEF Retry, AdminInv, Request
    <2>4. KeyInv'
      BY <1>18, WebhookAssumption DEF Retry, KeyInv
    <2> QED
      BY <2>1, <2>2, <2>3, <2>4
  <1>19. ASSUME NEW a \in Admins, NEW k \in Events, LoadRetry(a, k)
        PROVE  HoldInv' /\ BudgetInv' /\ AdminInv' /\ KeyInv'
    <2>1. HoldInv'
      BY <1>19, WebhookAssumption DEF LoadRetry, HoldInv
    <2>2. BudgetInv'
      BY <1>19 DEF LoadRetry, BudgetInv
    <2>3. AdminInv'
      BY <1>19, WebhookAssumption DEF LoadRetry, AdminInv, Request
    <2>4. KeyInv'
      BY <1>19, WebhookAssumption DEF LoadRetry, KeyInv
    <2> QED
      BY <2>1, <2>2, <2>3, <2>4
  <1>20. ASSUME NEW a \in Admins, NEW s \in Salts, Rotate(a, s)
        PROVE  HoldInv' /\ BudgetInv' /\ AdminInv' /\ KeyInv'
    <2>1. HoldInv'
      BY <1>20, WebhookAssumption DEF Rotate, HoldInv
    <2>2. BudgetInv'
      BY <1>20 DEF Rotate, BudgetInv
    <2>3. AdminInv'
      BY <1>20, WebhookAssumption DEF Rotate, AdminInv, Request
    <2>4. KeyInv'
      <3>1. /\ admin[a].dest.version = dest.version /\ admin[a].dest.salt = dest.salt
            /\ dest.version + 1 \in Versions /\ dest.version \in Versions
        BY <1>20, WebhookAssumption DEF Rotate, Timely, Keys, TypeOK, Dest, Versions
      <3>2. /\ dest'.version = dest.version + 1 /\ dest'.salt = s
            /\ dest'.oldVersion = dest.version /\ dest'.oldSalt = dest.salt
            /\ issued' = [issued EXCEPT ![dest.version + 1] = @ \cup {s}]
        BY <1>20, <3>1 DEF Rotate
      <3>3. /\ dest.version \in Nat
            /\ \A v \in Versions : v \in Nat
        BY <3>1 DEF Versions
      <3>4. issued[dest.version + 1] = {}
        BY <3>1, <3>3 DEF KeyInv
      <3>5. /\ issued'[dest.version + 1] = {s}
            /\ \A v \in Versions : v # dest.version + 1 => issued'[v] = issued[v]
        BY <3>1, <3>2, <3>4 DEF TypeOK
      <3> QED
        BY <3>1, <3>2, <3>3, <3>5 DEF KeyInv
    <2> QED
      BY <2>1, <2>2, <2>3, <2>4
  <1>21. CASE UNCHANGED vars
    BY <1>21 DEF vars, HoldInv, BudgetInv, AdminInv, KeyInv
  <1> QED
    BY <1>1, <1>2, <1>3, <1>4, <1>5, <1>6, <1>7, <1>8, <1>9, <1>10, <1>11, <1>12, <1>13, <1>14,
       <1>15, <1>16, <1>17, <1>18, <1>19, <1>20, <1>21 DEF Next, Step, AdminStep

-----------------------------------------------------------------------------
(* Theorems.                                                               *)

LEMMA WebhookInit == Init => WebhookInv
  <1> SUFFICES ASSUME Init PROVE WebhookInv
    OBVIOUS
  <1>1. PICK s \in Salts :
          /\ dest = [enabled |-> TRUE, version |-> 1, salt |-> s,
                     oldVersion |-> 0, oldSalt |-> None, grace |-> FALSE]
          /\ issued = [v \in Versions |-> IF v = 1 THEN {s} ELSE {}]
    BY DEF Init
  <1>2. 1 \in Versions /\ 0 \in 0..MaxVersion /\ \A v \in Versions : v \in Nat
    BY WebhookAssumption DEF Versions
  <1>3. dest \in Dest /\ issued \in [Versions -> SUBSET Salts]
    BY <1>1, <1>2 DEF Dest
  <1>4. row \in [Events -> Row] /\ \A k \in Events : row[k].status = "absent"
    BY NoRowIsAbsent DEF Init
  <1>5. Idle \in WorkerState
    BY <1>2 DEF Idle, WorkerState
  <1>6. Request("none", None) \in AdminState
    BY <1>3, <1>4, RequestType
  <1>7. TypeOK
    BY <1>3, <1>4, <1>5, <1>6 DEF Init, TypeOK
  <1>8. HoldInv /\ BudgetInv /\ AdminInv
    BY <1>4 DEF Init, HoldInv, BudgetInv, AdminInv, Idle, Request
  <1>9. KeyInv
    BY <1>1, <1>2 DEF KeyInv
  <1> QED
    BY <1>7, <1>8, <1>9 DEF WebhookInv

LEMMA WebhookInvariant ==
  ASSUME ~SlowRequests
  PROVE  Spec => []WebhookInv
  <1>1. WebhookInv /\ [Next]_vars => WebhookInv'
    BY TypeNext, WebhookNext DEF WebhookInv
  <1> QED
    BY <1>1, WebhookInit, PTL DEF Spec

\* Workers do not die while they hold a row.
DeathsBetweenAttempts ==
    \A w \in Workers : Deaths[w] \cap {"claimed", "sending", "answered"} = {}

LEMMA HeldNext ==
  ASSUME WebhookInv, AttemptsAreHeld, DeathsBetweenAttempts, ~SlowRequests, [Next]_vars
  PROVE  AttemptsAreHeld'
  <1> USE DEF WebhookInv
  <1> SUFFICES ASSUME NEW k \in Events, row'[k].status = "attempting"
               PROVE  \E w \in Workers : worker'[w].item = k
    BY DEF AttemptsAreHeld
  <1>1. \A w \in Workers : worker[w] \in WorkerState
    BY DEF TypeOK
  <1>2. ASSUME row[k].status = "attempting", UNCHANGED worker
        PROVE  \E w \in Workers : worker'[w].item = k
    BY <1>2 DEF AttemptsAreHeld
  <1>3. ASSUME NEW w \in Workers, row[k].status = "attempting", worker[w].item # k,
               \A v \in Workers : v # w => worker'[v] = worker[v]
        PROVE  \E v \in Workers : worker'[v].item = k
    BY <1>3 DEF AttemptsAreHeld
  <1>4. ASSUME NEW w \in Workers, row[k].status = "attempting",
               worker'[w].item = worker[w].item,
               \A v \in Workers : v # w => worker'[v] = worker[v]
        PROVE  \E v \in Workers : worker'[v].item = k
    BY <1>4 DEF AttemptsAreHeld
  <1>5. ASSUME NEW w \in Workers, Claim(w, k)
        PROVE  worker'[w].item = k
    BY <1>1, <1>5 DEF Claim, TypeOK
  <1>6. ASSUME NEW w \in Workers, NEW j \in Events, Claim(w, j), j # k
        PROVE  \E v \in Workers : worker'[v].item = k
    <2>1. row[k].status = "attempting" /\ worker[w].item = None
      BY <1>1, <1>6 DEF Claim, TypeOK, HoldInv
    <2>2. worker[w].item # k /\ \A v \in Workers : v # w => worker'[v] = worker[v]
      BY <1>6, <2>1, WebhookAssumption DEF Claim, TypeOK
    <2> QED
      BY <2>1, <2>2, <1>3
  <1>7. ASSUME NEW w \in Workers, StopDisabled(w) \/ StopForGood(w) \/ Settle(w)
        PROVE  \E v \in Workers : worker'[v].item = k
    <2> DEFINE j == worker[w].item
    <2>1. j \in Events /\ row[j].status # "absent" /\ row \in [Events -> Row]
      BY <1>1, <1>7 DEF StopDisabled, StopForGood, Settle, HoldInv, TypeOK, WorkerState
    <2>2. row'[j].status # "attempting" /\ \A i \in Events : i # j => row'[i] = row[i]
      <3>1. row[j] \in LiveRow
        BY <2>1, RowKinds
      <3> HIDE DEF j
      <3>2. CASE row' = Failed(j)
        BY <2>1, <3>2, FailedType
      <3>3. CASE \E error \in {"key", "other"} :
                   row' = [row EXCEPT ![j].status = "dead_letter", ![j].error = error]
        BY <2>1, <3>1, <3>3 DEF LiveRow
      <3>4. CASE row' = [row EXCEPT ![j].status = "delivered", ![j].error = "none"]
        BY <2>1, <3>1, <3>4 DEF LiveRow
      <3> QED
        BY <1>7, <3>2, <3>3, <3>4 DEF StopDisabled, StopForGood, Settle, j
    <2>3. \A v \in Workers : v # w => worker'[v] = worker[v]
      BY <1>7 DEF StopDisabled, StopForGood, Settle, TypeOK
    <2> QED
      BY <2>1, <2>2, <2>3, <1>3
  <1>8. ASSUME NEW w \in Workers, SyncLoad(w) \/ NothingDue(w) \/ Die(w)
        PROVE  \E v \in Workers : worker'[v].item = k
    <2>1. worker[w].item = None /\ row[k].status = "attempting"
      BY <1>1, <1>8 DEF SyncLoad, NothingDue, Die, HoldInv, DeathsBetweenAttempts
    <2>2. worker[w].item # k /\ \A v \in Workers : v # w => worker'[v] = worker[v]
      BY <1>8, <2>1, WebhookAssumption DEF SyncLoad, NothingDue, Die, TypeOK
    <2> QED
      BY <2>1, <2>2, <1>3
  <1>9. ASSUME NEW w \in Workers, SyncCommit(w)
        PROVE  \E v \in Workers : worker'[v].item = k
    <2>1. worker[w].version \in Versions /\ worker[w].item = None
      BY <1>9 DEF SyncCommit, HoldInv
    <2>2. row'[k] = row[k] \/ row'[k] = Queued(worker[w].version)
      BY <1>9 DEF SyncCommit
    <2>3. row[k].status = "attempting"
      BY <2>1, <2>2, QueuedType
    <2>4. worker[w].item # k /\ \A v \in Workers : v # w => worker'[v] = worker[v]
      BY <1>9, <2>1, WebhookAssumption DEF SyncCommit, TypeOK
    <2> QED
      BY <2>3, <2>4, <1>3
  <1>10. ASSUME NEW w \in Workers, Sign(w) \/ Post(w)
         PROVE  \E v \in Workers : worker'[v].item = k
    <2>1. row[k].status = "attempting"
      BY <1>10 DEF Sign, Post
    <2>2. worker'[w].item = worker[w].item
          /\ \A v \in Workers : v # w => worker'[v] = worker[v]
      BY <1>1, <1>10 DEF Sign, Post, TypeOK, WorkerState
    <2> QED
      BY <2>1, <2>2, <1>4
  <1>11. ASSUME NEW j \in Events, Elapse(j) \/ EnqueueTest(j) \/ Occur(j)
         PROVE  row[k].status = "attempting" /\ UNCHANGED worker
    <2>1. dest.version \in Versions
      BY DEF TypeOK, Dest
    <2>2. Queued(dest.version).status = "queued"
      BY <2>1, QueuedType
    <2>3. CASE EnqueueTest(j)
      BY <2>2, <2>3 DEF EnqueueTest, TypeOK
    <2>4. CASE Elapse(j) \/ Occur(j)
      BY <2>4 DEF Elapse, Occur, TypeOK, Row, NoRow
    <2> QED
      BY <1>11, <2>3, <2>4
  <1>12. ASSUME NEW a \in Admins, Retry(a)
         PROVE  row[k].status = "attempting" /\ UNCHANGED worker
    <2>1. /\ admin[a].item \in Events
          /\ row[admin[a].item].status \in {"failed", "dead_letter"}
      BY <1>12, ~SlowRequests, WebhookAssumption DEF Retry, Timely, AdminInv
    <2> QED
      BY <1>12, <2>1, RetriedType DEF Retry
  <1>13. ASSUME UNCHANGED <<row, worker>>
         PROVE  row[k].status = "attempting" /\ UNCHANGED worker
    BY <1>13
  <1> QED
    BY <1>2, <1>5, <1>6, <1>7, <1>8, <1>9, <1>10, <1>11, <1>12, <1>13
    DEF Next, Step, AdminStep, GraceEnds, Enable, LoadRotate, Abandon, LoadRetry,
        Rotate, vars

\* When requests do not overtake each other and workers die only between
\* attempts, exactly one worker holds a row that is being attempted, a waiting
\* row has an attempt left, and requests are signed with a secret that was shown.
THEOREM DeliveriesAreSafe ==
  ASSUME ~SlowRequests, DeathsBetweenAttempts
  PROVE  Spec => []DeliveryInv
  <1>1. Init => AttemptsAreHeld
    BY NoRowIsAbsent DEF Init, AttemptsAreHeld
  <1>2. WebhookInv /\ AttemptsAreHeld /\ [Next]_vars => AttemptsAreHeld'
    BY HeldNext
  <1>3. WebhookInv /\ AttemptsAreHeld => DeliveryInv
    <2> SUFFICES ASSUME WebhookInv, AttemptsAreHeld PROVE DeliveryInv
      OBVIOUS
    <2>1. ASSUME NEW k \in Events
          PROVE  Cardinality({w \in Workers : worker[w].item = k}) =
                   IF row[k].status = "attempting" THEN 1 ELSE 0
      <3>1. CASE row[k].status = "attempting"
        <4>1. PICK w \in Workers : worker[w].item = k
          BY <3>1 DEF AttemptsAreHeld
        <4>2. {v \in Workers : worker[v].item = k} = {w}
          BY <4>1, WebhookAssumption DEF WebhookInv, HoldInv
        <4> QED
          BY <3>1, <4>2, FS_Singleton
      <3>2. CASE row[k].status # "attempting"
        <4>1. {v \in Workers : worker[v].item = k} = {}
          BY <3>2, WebhookAssumption DEF WebhookInv, HoldInv
        <4> QED
          BY <3>2, <4>1, FS_EmptySet
      <3> QED
        BY <3>1, <3>2
    <2>2. AttemptsHaveWorkers
      BY <2>1 DEF AttemptsHaveWorkers, WebhookInv, BudgetInv
    <2>3. IssuedSecretsVerify
      <3> SUFFICES ASSUME NEW v \in Versions, KeyOf(v) # None
                   PROVE  issued[v] = {KeyOf(v)}
        BY DEF IssuedSecretsVerify
      <3>1. 0 \notin Versions
        BY DEF Versions
      <3>2. CASE v = dest.version
        BY <3>2 DEF KeyOf, WebhookInv, KeyInv
      <3>3. CASE v # dest.version
        <4>1. v = dest.oldVersion /\ KeyOf(v) = dest.oldSalt
          BY <3>3 DEF KeyOf
        <4> QED
          BY <3>1, <4>1 DEF WebhookInv, KeyInv
      <3> QED
        BY <3>2, <3>3
    <2> QED
      BY <2>2, <2>3 DEF DeliveryInv, WebhookInv
  <1> QED
    BY <1>1, <1>2, <1>3, WebhookInvariant, PTL DEF Spec

\* Two workers never hold one row.
RowsAreHeldOnce ==
    \A v, w \in Workers :
        worker[v].item = worker[w].item => v = w \/ worker[v].item = None

\* claim_due takes a row out of every other worker's reach, wherever workers die:
\* also a worker that dies in an attempt leaves its row to nobody else.
THEOREM HoldersAreExclusive ==
  ASSUME ~SlowRequests
  PROVE  Spec => []RowsAreHeldOnce
  <1>1. WebhookInv => RowsAreHeldOnce
    BY DEF WebhookInv, HoldInv, RowsAreHeldOnce
  <1> QED
    BY <1>1, WebhookInvariant, PTL

-----------------------------------------------------------------------------
(* Refinement of DeliveryChannel.                                          *)

LEMMA PhaseOf ==
  /\ Phase("absent") = "none"
  /\ Phase("queued") = "open" /\ Phase("failed") = "open" /\ Phase("attempting") = "open"
  /\ Phase("delivered") = "delivered" /\ Phase("dead_letter") = "dead_letter"
  BY DEF Phase

\* A step that keeps the phase of every row, and what was received, is a
\* stutter of the channel.
LEMMA ChannelStutter ==
  ASSUME \A k \in Events : Phase(row'[k].status) = Phase(row[k].status),
         received' = received
  PROVE  UNCHANGED <<[k \in Events |-> Phase(row[k].status)], received>>
  OBVIOUS

\* One row changes its phase.
LEMMA ChannelMoves ==
  ASSUME NEW j \in Events, NEW status, row'[j].status = status,
         \A k \in Events : k # j => row'[k] = row[k]
  PROVE  [k \in Events |-> Phase(row'[k].status)] =
           [[k \in Events |-> Phase(row[k].status)] EXCEPT ![j] = Phase(status)]
  OBVIOUS

\* New rows are queued.
LEMMA ChannelQueue ==
  ASSUME NEW v \in Versions, received' = received,
         \A k \in Events : \/ row'[k] = row[k]
                           \/ row[k].status = "absent" /\ row'[k] = Queued(v)
  PROVE  Channel!Next
  <1> DEFINE K == {k \in Events : row[k].status = "absent" /\ row'[k] = Queued(v)}
  <1>1. \A k \in Events : Phase(row'[k].status) =
                            IF k \in K THEN "open" ELSE Phase(row[k].status)
    BY QueuedType, PhaseOf
  <1>2. \A k \in K : k \in Events /\ Phase(row[k].status) = "none"
    BY PhaseOf
  <1>3. K \in SUBSET Events
    OBVIOUS
  <1> HIDE DEF K
  <1>4. PICK S \in SUBSET Events : S = K
    BY <1>3
  <1>5. Channel!Queue(S)
    BY <1>1, <1>2, <1>4 DEF Channel!Queue
  <1> QED
    BY <1>5 DEF Channel!Next

\* A worker ends an attempt.
LEMMA ChannelSettle ==
  ASSUME WebhookInv, NEW w \in Workers, StopDisabled(w) \/ StopForGood(w) \/ Settle(w)
  PROVE  [Channel!Next]_(<<[k \in Events |-> Phase(row[k].status)], received>>)
  <1>1. PICK j \in Events : j = worker[w].item /\ row[j].status = "attempting"
    BY DEF WebhookInv, HoldInv, TypeOK, WorkerState, StopDisabled, StopForGood, Settle
  <1>2. row \in [Events -> Row] /\ row[j] \in LiveRow /\ received' = received
    BY <1>1, RowKinds DEF WebhookInv, TypeOK, StopDisabled, StopForGood, Settle
  <1>3. /\ \A k \in Events : k # j => row'[k] = row[k]
        /\ row'[j].status \in {"delivered", "dead_letter", "failed"}
        /\ row'[j].status = "delivered" => j \in received
    <2>1. CASE row' = Failed(j)
      BY <1>1, <1>2, <2>1, FailedType
    <2>2. CASE \E error \in {"key", "other"} :
                 row' = [row EXCEPT ![j].status = "dead_letter", ![j].error = error]
      BY <1>2, <2>2 DEF LiveRow
    <2>3. CASE /\ row' = [row EXCEPT ![j].status = "delivered", ![j].error = "none"]
               /\ worker[w].pc = "answered" /\ worker[w].answer = "accepted"
      BY <1>1, <1>2, <2>3 DEF WebhookInv, HoldInv
    <2> QED
      BY <1>1, <2>1, <2>2, <2>3 DEF StopDisabled, StopForGood, Settle
  <1>4. CASE row'[j].status = "failed"
    <2>1. \A k \in Events : Phase(row'[k].status) = Phase(row[k].status)
      BY <1>1, <1>3, <1>4, PhaseOf
    <2> QED
      BY <1>2, <2>1, ChannelStutter
  <1>5. CASE row'[j].status = "dead_letter"
    <2>1. [k \in Events |-> Phase(row'[k].status)] =
            [[k \in Events |-> Phase(row[k].status)] EXCEPT ![j] = "dead_letter"]
      BY <1>3, <1>5, ChannelMoves, PhaseOf
    <2>2. Channel!GiveUp(j)
      BY <1>1, <1>2, <2>1, PhaseOf DEF Channel!GiveUp
    <2> QED
      BY <2>2 DEF Channel!Next
  <1>6. CASE row'[j].status = "delivered"
    <2>1. [k \in Events |-> Phase(row'[k].status)] =
            [[k \in Events |-> Phase(row[k].status)] EXCEPT ![j] = "delivered"]
      BY <1>3, <1>6, ChannelMoves, PhaseOf
    <2>2. Channel!Confirm(j)
      BY <1>1, <1>2, <1>3, <1>6, <2>1, PhaseOf DEF Channel!Confirm
    <2> QED
      BY <2>2 DEF Channel!Next
  <1> QED
    BY <1>3, <1>4, <1>5, <1>6

LEMMA ChannelRetry ==
  ASSUME WebhookInv, ~SlowRequests, NEW a \in Admins, Retry(a)
  PROVE  [Channel!Next]_(<<[k \in Events |-> Phase(row[k].status)], received>>)
  <1>1. PICK j \in Events : /\ j = admin[a].item
                            /\ row[j].status \in {"failed", "dead_letter"}
    BY WebhookAssumption DEF WebhookInv, Retry, Timely, AdminInv
  <1>2. /\ row'[j].status = "queued" /\ received' = received
        /\ \A k \in Events : k # j => row'[k] = row[k]
    BY <1>1, RetriedType DEF WebhookInv, Retry
  <1>3. CASE row[j].status = "failed"
    <2>1. \A k \in Events : Phase(row'[k].status) = Phase(row[k].status)
      BY <1>2, <1>3, PhaseOf
    <2> QED
      BY <1>2, <2>1, ChannelStutter
  <1>4. CASE row[j].status = "dead_letter"
    <2>1. [k \in Events |-> Phase(row'[k].status)] =
            [[k \in Events |-> Phase(row[k].status)] EXCEPT ![j] = "open"]
      BY <1>2, ChannelMoves, PhaseOf
    <2>2. Channel!Reopen(j)
      BY <1>1, <1>2, <1>4, <2>1, PhaseOf DEF Channel!Reopen
    <2> QED
      BY <2>2 DEF Channel!Next
  <1> QED
    BY <1>1, <1>3, <1>4

LEMMA ChannelStep ==
  ASSUME WebhookInv, ~SlowRequests, [Next]_vars
  PROVE  [Channel!Next]_(<<[k \in Events |-> Phase(row[k].status)], received>>)
  <1> DEFINE Goal == [Channel!Next]_(<<[k \in Events |-> Phase(row[k].status)], received>>)
  <1>0. row \in [Events -> Row]
    BY DEF WebhookInv, TypeOK
  <1>1. ASSUME NEW w \in Workers, SyncCommit(w) PROVE Goal
    <2>1. worker[w].version \in Versions
      BY <1>1 DEF SyncCommit, WebhookInv, HoldInv
    <2>2. \A k \in Events : \/ row'[k] = row[k]
                            \/ row[k].status = "absent" /\ row'[k] = Queued(worker[w].version)
      BY <1>1 DEF SyncCommit
    <2> QED
      BY <1>1, <2>1, <2>2, ChannelQueue DEF SyncCommit
  <1>2. ASSUME NEW j \in Events, EnqueueTest(j) PROVE Goal
    <2>1. dest.version \in Versions /\ row[j].status = "absent"
      BY <1>2 DEF EnqueueTest, WebhookInv, TypeOK, Dest, BudgetInv
    <2>2. \A k \in Events : \/ row'[k] = row[k]
                            \/ row[k].status = "absent" /\ row'[k] = Queued(dest.version)
      BY <1>0, <1>2, <2>1 DEF EnqueueTest
    <2> QED
      BY <1>2, <2>1, <2>2, ChannelQueue DEF EnqueueTest
  <1>3. ASSUME NEW w \in Workers, NEW j \in Events, Claim(w, j) PROVE Goal
    <2>1. row[j].status \in {"queued", "failed"}
      BY <1>3 DEF Claim, Claimable
    <2>2. row[j] \in LiveRow
      BY <1>0, <2>1, RowKinds
    <2>3. row'[j].status = "attempting" /\ \A k \in Events : k # j => row'[k] = row[k]
      BY <1>0, <1>3, <2>2 DEF Claim, LiveRow
    <2>4. \A k \in Events : Phase(row'[k].status) = Phase(row[k].status)
      BY <2>1, <2>3, PhaseOf
    <2> QED
      BY <1>3, <2>4, ChannelStutter DEF Claim
  <1>4. ASSUME NEW j \in Events, Elapse(j) PROVE Goal
    <2>1. \A k \in Events : row'[k].status = row[k].status
      BY <1>0, <1>4 DEF Elapse
    <2> QED
      BY <1>4, <2>1, ChannelStutter DEF Elapse
  <1>5. ASSUME NEW w \in Workers, Post(w) PROVE Goal
    <2>1. PICK j \in Events : j = worker[w].item /\ row[j].status = "attempting"
      BY <1>5 DEF WebhookInv, HoldInv, TypeOK, WorkerState, Post
    <2>2. CASE received' = received \cup {j}
      <3>1. Channel!Receive(j)
        BY <1>5, <2>1, <2>2, PhaseOf DEF Channel!Receive, Post
      <3> QED
        BY <3>1 DEF Channel!Next
    <2>3. CASE received' = received
      BY <1>5, <2>3, ChannelStutter DEF Post
    <2> QED
      BY <1>5, <2>1, <2>2, <2>3 DEF Post
  <1>6. ASSUME UNCHANGED <<row, received>> PROVE Goal
    BY <1>6, ChannelStutter
  <1>7. ASSUME NEW w \in Workers, StopDisabled(w) \/ StopForGood(w) \/ Settle(w) PROVE Goal
    BY <1>7, ChannelSettle
  <1>8. ASSUME NEW a \in Admins, Retry(a) PROVE Goal
    BY <1>8, ChannelRetry
  <1> HIDE DEF Goal
  <1>9. Goal
    BY <1>1, <1>2, <1>3, <1>4, <1>5, <1>6, <1>7, <1>8
    DEF Next, Step, AdminStep, Occur, GraceEnds, SyncLoad, NothingDue, Sign, Die,
        Enable, LoadRotate, Abandon, LoadRetry, Rotate, vars
  <1> QED
    BY <1>9 DEF Goal

\* To the receiver the delivery ledger is an at-least-once channel: only events
\* under delivery arrive, an event counts as delivered only when it arrived, and
\* only a dead letter is opened again, wherever workers die.
THEOREM ChannelIsKept ==
  ASSUME ~SlowRequests
  PROVE  Spec => ChannelSpec
  <1>1. Init => Channel!Init
    BY NoRowIsAbsent, PhaseOf DEF Init, Channel!Init
  <1>2. WebhookInv /\ [Next]_vars
          => [Channel!Next]_(<<[k \in Events |-> Phase(row[k].status)], received>>)
    BY ChannelStep
  <1> QED
    BY <1>1, <1>2, WebhookInvariant, PTL DEF Spec, ChannelSpec, Channel!Spec

=============================================================================
