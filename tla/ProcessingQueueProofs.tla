----------------------- MODULE ProcessingQueueProofs -----------------------
(***************************************************************************)
(* Proofs about ProcessingQueue for every number of workers, clients,      *)
(* documents, jobs and attempts.                                           *)
(***************************************************************************)
EXTENDS ProcessingQueue, TLAPS

(* What an update of one row leaves well typed.                            *)

LEMMA UnlockType ==
    ASSUME NEW row \in JobRow, NEW s \in {"PENDING", "COMPLETED", "FAILED"}
    PROVE  /\ Unlock(row, s) \in JobRow
           /\ Unlock(row, s).status = s
           /\ Unlock(row, s).lockedBy = NoWorker
           /\ Unlock(row, s).attempts = row.attempts
           /\ Unlock(row, s).doc = row.doc
           /\ Unlock(row, s).type = row.type
           /\ Unlock(row, s).wait = row.wait
<1>1. 0 \in 0..(StaleAfter + 1)
  BY QueueAssumption
<1>2. NoWorker \in Workers \cup {NoWorker}
  OBVIOUS
<1>3. Unlock(row, s) \in JobRow
  BY <1>1, <1>2 DEF Unlock, JobRow, Active, Terminal
<1>4. /\ Unlock(row, s).status = s
      /\ Unlock(row, s).lockedBy = NoWorker
      /\ Unlock(row, s).attempts = row.attempts
      /\ Unlock(row, s).doc = row.doc
      /\ Unlock(row, s).type = row.type
      /\ Unlock(row, s).wait = row.wait
  BY DEF Unlock, JobRow
<1> QED
  BY <1>3, <1>4

LEMMA NewSessionType == NewSession \in SessionState
  BY QueueAssumption DEF NewSession, SessionState, Plans, Processing, Places

LEMMA NewDocType == NewDoc("absent") \in DocRow /\ NewDoc("UPLOADED") \in DocRow
  BY DEF NewDoc, DocRow, Processing, Places

LEMMA InitLease == Init => QueueInv
<1> SUFFICES ASSUME Init PROVE QueueInv
  OBVIOUS
<1>1. doc \in [Docs -> DocRow]
  BY NewDocType, Zenon DEF Init
<1>2. TypeOK
  BY <1>1, QueueAssumption
  DEF Init, TypeOK, JobRow, SessionState, Request, NewSession, NoRequest,
      Processing, Plans, Jobs, Types, Active, Terminal, Places
<1> QED
  BY <1>2, QueueAssumption
  DEF Init, QueueInv, LeaseInv, RowsHaveDocs, SessionsHoldAttempts,
      OnlyVerdictsWait, ExclusiveAttempts, LeasesHaveOwners, NoStrandedJob,
      WritersAreCurrent, NewSession, NoRequest, Held, Jobs

\* What a session knows of the job it holds.
LEMMA HeldFacts ==
    ASSUME LeaseInv, NEW w \in Workers, worker[w].pc \notin {"recover", "claim"}
    PROVE  /\ worker[w] \in SessionState
           /\ worker[w].held # 0
           /\ worker[w].held \in Jobs
           /\ Held(w) \in JobRow
           /\ Held(w).doc \in Docs
           /\ HeldDoc(w) \in DocRow
<1>1. worker[w] \in SessionState /\ worker[w].held # 0 /\ Held(w).status # "absent"
  BY DEF LeaseInv, TypeOK, SessionsHoldAttempts
<1>2. worker[w].held \in Jobs
  BY <1>1, QueueAssumption DEF SessionState, Jobs
<1> QED
  BY <1>1, <1>2 DEF LeaseInv, TypeOK, RowsHaveDocs, Held, HeldDoc

-----------------------------------------------------------------------------
(* A session moves on, or starts afresh, and no job changes.               *)

LEMMA SessionChange ==
    ASSUME LeaseInv, NEW w \in Workers, NEW s \in SessionState,
           SetSession(w, s), UNCHANGED <<job, client>>,
           doc' \in [Docs -> DocRow],
           \/ s.held = 0 /\ s.pc \in {"recover", "claim"}
           \/ /\ s.held = worker[w].held
              /\ s.token = worker[w].token
              /\ s.held # 0
              /\ s.pc \notin {"recover", "claim"},
           s.pc = "commit" => s.plan \in Blocked
    PROVE  LeaseInv'
<1> USE DEF LeaseInv, SetSession
<1>1. TypeOK'
  BY DEF TypeOK
<1>2. \A v \in Workers : worker'[v] = IF v = w THEN s ELSE worker[v]
  BY DEF TypeOK
<1>3. SessionsHoldAttempts'
  BY <1>2 DEF SessionsHoldAttempts, Held
<1>4. ExclusiveAttempts'
  BY <1>2 DEF ExclusiveAttempts
<1>5. RowsHaveDocs' /\ LeasesHaveOwners'
  BY DEF RowsHaveDocs, LeasesHaveOwners
<1>6. OnlyVerdictsWait'
  BY <1>2 DEF OnlyVerdictsWait
<1> QED
  BY <1>1, <1>3, <1>4, <1>5, <1>6

LEMMA SessionChangeCurrent ==
    ASSUME QueueInv, NEW w \in Workers, NEW s \in SessionState,
           SetSession(w, s), UNCHANGED job,
           s.pc \in {"write", "commit"} =>
             /\ s.held = worker[w].held
             /\ s.token = worker[w].token
             /\ worker[w].pc \in {"write", "commit"} \/ OwnsLease(w)
    PROVE  NoStrandedJob' /\ WritersAreCurrent'
<1>1. \A v \in Workers : worker'[v] = IF v = w THEN s ELSE worker[v]
  BY DEF QueueInv, LeaseInv, TypeOK, SetSession
<1>2. NoStrandedJob'
  BY DEF QueueInv, NoStrandedJob
<1>3. WritersAreCurrent'
  BY <1>1 DEF QueueInv, WritersAreCurrent, OwnsLease, Held
<1> QED
  BY <1>2, <1>3

-----------------------------------------------------------------------------
(* A session ends and writes the outcome of its job.                       *)

LEMMA JobEnd ==
    ASSUME LeaseInv, NEW w \in Workers, NEW s \in {"PENDING", "COMPLETED", "FAILED"},
           worker[w].held # 0, EndJob(w, s), doc' \in [Docs -> DocRow]
    PROVE  LeaseInv'
<1> DEFINE h == worker[w].held
<1> USE DEF LeaseInv
<1>1. h \in Jobs /\ job[h] \in JobRow
  BY QueueAssumption DEF TypeOK, SessionState, Jobs
<1>2. /\ job' = [job EXCEPT ![h] = Unlock(job[h], s)]
      /\ worker' = [worker EXCEPT ![w] = NewSession]
      /\ client' = client
  BY DEF EndJob, SetJob, SetSession, Held
<1>3. TypeOK'
  BY <1>1, <1>2, UnlockType, NewSessionType DEF TypeOK
<1>4. \A j \in Jobs : job'[j] = IF j = h THEN Unlock(job[h], s) ELSE job[j]
  BY <1>1, <1>2 DEF TypeOK
<1>5. \A v \in Workers : worker'[v] = IF v = w THEN NewSession ELSE worker[v]
  BY <1>2 DEF TypeOK
<1>6. \A j \in Jobs : /\ job'[j].attempts = job[j].attempts
                      /\ job'[j].doc = job[j].doc
                      /\ job[j].status # "absent" => job'[j].status # "absent"
                      /\ job'[j].status # "absent" => job[j].status # "absent"
  BY <1>1, <1>4, UnlockType DEF SessionsHoldAttempts, Held
<1>7. RowsHaveDocs'
  BY <1>2, <1>6 DEF RowsHaveDocs
<1>8. LeasesHaveOwners'
  BY <1>1, <1>4, UnlockType DEF LeasesHaveOwners
<1>9. \A v \in Workers : worker[v].held # 0 => worker[v].held \in Jobs
  BY QueueAssumption DEF TypeOK, SessionState, Jobs
<1>10. SessionsHoldAttempts'
  BY <1>5, <1>6, <1>9 DEF SessionsHoldAttempts, Held, NewSession
<1>11. ExclusiveAttempts'
  BY <1>5 DEF ExclusiveAttempts, NewSession
<1>12. OnlyVerdictsWait'
  BY <1>5 DEF OnlyVerdictsWait, NewSession
<1> QED
  BY <1>3, <1>7, <1>8, <1>10, <1>11, <1>12

\* The only session that may write a job is the one that ends it.
LEMMA JobEndCurrent ==
    ASSUME QueueInv, NEW w \in Workers, NEW s \in {"PENDING", "COMPLETED", "FAILED"},
           worker[w].pc \in {"write", "commit"}, EndJob(w, s),
           s = "PENDING" => worker[w].token < MaxAttempts
    PROVE  NoStrandedJob' /\ WritersAreCurrent'
<1> DEFINE h == worker[w].held
<1>1. LeaseInv /\ TypeOK /\ SessionsHoldAttempts /\ ExclusiveAttempts
      /\ LeasesHaveOwners /\ NoStrandedJob /\ WritersAreCurrent
  BY DEF QueueInv, LeaseInv
<1>2. h # 0 /\ h \in Jobs /\ job[h] \in JobRow /\ job[h].attempts = worker[w].token
  BY <1>1, HeldFacts DEF WritersAreCurrent, Held
<1>3. /\ job' = [job EXCEPT ![h] = Unlock(job[h], s)]
      /\ worker' = [worker EXCEPT ![w] = NewSession]
  BY DEF EndJob, SetJob, SetSession, Held
<1>4. \A j \in Jobs : job'[j] = IF j = h THEN Unlock(job[h], s) ELSE job[j]
  BY <1>1, <1>2, <1>3 DEF TypeOK
<1>5. \A v \in Workers : worker'[v] = IF v = w THEN NewSession ELSE worker[v]
  BY <1>1, <1>3 DEF TypeOK
<1>6. NoStrandedJob'
  BY <1>1, <1>2, <1>4, UnlockType DEF NoStrandedJob
<1>7. \A v \in Workers : v # w /\ worker[v].pc \in {"write", "commit"}
                          => worker[v].held # h /\ worker[v].held \in Jobs
  <2> SUFFICES ASSUME NEW v \in Workers, v # w, worker[v].pc \in {"write", "commit"}
               PROVE  worker[v].held # h /\ worker[v].held \in Jobs
    OBVIOUS
  <2>1. worker[v].held # 0 /\ Held(v).attempts = worker[v].token
    BY <1>1 DEF SessionsHoldAttempts, WritersAreCurrent
  <2>2. worker[v].held \in Jobs
    BY <1>1, <2>1, QueueAssumption DEF TypeOK, SessionState, Jobs
  <2>3. worker[v].held # h
    BY <1>1, <1>2, <2>1 DEF ExclusiveAttempts, Held
  <2> QED
    BY <2>2, <2>3
<1>8. WritersAreCurrent'
  BY <1>1, <1>4, <1>5, <1>7 DEF WritersAreCurrent, OwnsLease, Held, NewSession
<1> QED
  BY <1>6, <1>8

-----------------------------------------------------------------------------
(* Requests: a new row, or no change of the queue at all.                  *)

LEMMA RequestChange ==
    ASSUME LeaseInv, UNCHANGED <<job, worker>>, doc' \in [Docs -> DocRow],
           client' \in [Clients -> Request],
           \A c \in Clients : client'[c].pc # "idle" => client'[c].doc \in Docs
    PROVE  LeaseInv'
  BY DEF LeaseInv, TypeOK, RowsHaveDocs, SessionsHoldAttempts, LeasesHaveOwners,
         OnlyVerdictsWait, ExclusiveAttempts, Held

LEMMA QuietCurrent ==
    ASSUME QueueInv, UNCHANGED <<job, worker>>
    PROVE  NoStrandedJob' /\ WritersAreCurrent'
  BY DEF QueueInv, NoStrandedJob, WritersAreCurrent, OwnsLease, Held

LEMMA NewJobType ==
    ASSUME NEW d \in Docs, NEW t \in Types
    PROVE  NewJob(d, t) \in JobRow
<1>1. 0 \in 0..(StaleAfter + 1) /\ 0 \in 0..MaxAttempts
  BY QueueAssumption
<1> QED
  BY <1>1 DEF NewJob, JobRow, Active

LEMMA NewRow ==
    ASSUME LeaseInv, NEW n \in Jobs, NEW d \in Docs, NEW t \in Types,
           NextSlot(n), SetJob(n, NewJob(d, t)), UNCHANGED worker,
           doc' \in [Docs -> DocRow], client' \in [Clients -> Request],
           \A c \in Clients : client'[c].pc # "idle" => client'[c].doc \in Docs
    PROVE  /\ LeaseInv'
           /\ QueueInv => NoStrandedJob' /\ WritersAreCurrent'
<1> USE DEF LeaseInv
<1>1. \A j \in Jobs : job'[j] = IF j = n THEN NewJob(d, t) ELSE job[j]
  BY DEF TypeOK, SetJob
<1>2. TypeOK'
  BY NewJobType DEF TypeOK, SetJob
<1>3. RowsHaveDocs'
  BY <1>1 DEF RowsHaveDocs, NewJob
<1>4. LeasesHaveOwners'
  BY <1>1 DEF LeasesHaveOwners, NewJob
<1>5. \A v \in Workers : worker[v].held # 0 => /\ worker[v].held \in Jobs
                                               /\ worker[v].held # n
  BY QueueAssumption
  DEF TypeOK, SessionState, Jobs, SessionsHoldAttempts, Held, NextSlot
<1>6. SessionsHoldAttempts'
  BY <1>1, <1>5 DEF SessionsHoldAttempts, Held
<1>7. ExclusiveAttempts' /\ OnlyVerdictsWait'
  BY DEF ExclusiveAttempts, OnlyVerdictsWait
<1>8. ASSUME QueueInv PROVE NoStrandedJob' /\ WritersAreCurrent'
  <2>1. NoStrandedJob'
    BY <1>1, <1>8, QueueAssumption DEF QueueInv, NoStrandedJob, NewJob
  <2>2. \A v \in Workers : worker[v].pc \in {"write", "commit"} => worker[v].held # 0
    BY DEF SessionsHoldAttempts
  <2>3. WritersAreCurrent'
    BY <1>1, <1>5, <1>8, <2>2 DEF QueueInv, WritersAreCurrent, OwnsLease, Held
  <2> QED
    BY <2>1, <2>3
<1> QED
  BY <1>2, <1>3, <1>4, <1>6, <1>7, <1>8

-----------------------------------------------------------------------------
(* Recovery of any set of expired leases.                                  *)

LEMMA RecoveredType ==
    ASSUME NEW row \in JobRow, row.attempts > 0
    PROVE  /\ Recovered(row) \in JobRow
           /\ Recovered(row).lockedBy = NoWorker
           /\ Recovered(row).attempts = row.attempts
           /\ Recovered(row).doc = row.doc
           /\ \/ /\ Recovered(row).status = "PENDING"
                 /\ row.attempts < MaxAttempts
                 /\ Recovered(row).wait > 0
              \/ /\ Recovered(row).status = "FAILED"
                 /\ row.attempts = MaxAttempts
<1>1. row.attempts \in 0..MaxAttempts
  BY DEF JobRow
<1>2. CASE Exhausted(row)
  <2>1. row.attempts = MaxAttempts
    BY <1>1, <1>2, QueueAssumption DEF Exhausted
  <2>2. Recovered(row) = Unlock(row, "FAILED")
    BY <1>2 DEF Recovered
  <2> QED
    BY <2>1, <2>2, UnlockType
<1>3. CASE ~Exhausted(row)
  <2>1. row.attempts < MaxAttempts /\ row.attempts \in 1..MaxAttempts
    BY <1>1, <1>3, QueueAssumption DEF Exhausted
  <2>2. RetryDelay[row.attempts] \in Nat \ {0}
    BY <2>1, QueueAssumption
  <2> DEFINE u == Unlock(row, "PENDING")
  <2>3. u \in JobRow /\ u.status = "PENDING" /\ u.lockedBy = NoWorker
        /\ u.attempts = row.attempts /\ u.doc = row.doc
    BY UnlockType
  <2>4. Recovered(row) = [u EXCEPT !.wait = RetryDelay[row.attempts]]
    BY <1>3 DEF Recovered
  <2> HIDE DEF u
  <2> QED
    BY <2>1, <2>2, <2>3, <2>4 DEF JobRow
<1> QED
  BY <1>2, <1>3

LEMMA Recovery ==
    ASSUME LeaseInv, NEW S, S \subseteq {j \in Jobs : Stale(j)},
           NEW lead, RecoverAll(S, lead),
           worker' \in [Workers -> SessionState],
           \A v \in Workers : /\ worker'[v].held = worker[v].held
                              /\ worker'[v].token = worker[v].token
                              /\ worker'[v].plan = worker[v].plan
                              /\ \/ worker'[v].pc = worker[v].pc
                                 \/ worker[v].pc = "recover" /\ worker'[v].pc = "claim",
           client' \in [Clients -> Request],
           \A c \in Clients : client'[c].pc # "idle" => client'[c].doc \in Docs
    PROVE  /\ LeaseInv'
           /\ QueueInv => NoStrandedJob' /\ WritersAreCurrent'
<1> USE DEF LeaseInv
<1>1. \A j \in S : j \in Jobs /\ job[j] \in JobRow /\ job[j].status = "RUNNING"
                  /\ job[j].attempts > 0
  BY DEF Stale, TypeOK, LeasesHaveOwners
<1>2. \A j \in Jobs : job'[j] = IF j \in S THEN Recovered(job[j]) ELSE job[j]
  BY DEF RecoverAll
<1>3. doc' \in [Docs -> DocRow]
  <2>1. \A d \in Docs, s \in Processing : [doc[d] EXCEPT !.processing = s] \in DocRow
    BY DEF TypeOK, DocRow
  <2> QED
    BY <2>1 DEF RecoverAll, TypeOK, Processing
<1>4. job' \in [Jobs -> JobRow]
  BY <1>1, RecoveredType DEF RecoverAll, TypeOK
<1>5. TypeOK'
  BY <1>3, <1>4 DEF TypeOK
<1>6. RowsHaveDocs'
  BY <1>1, <1>2, RecoveredType DEF RowsHaveDocs
<1>7. LeasesHaveOwners'
  BY <1>1, <1>2, RecoveredType DEF LeasesHaveOwners
<1>8. \A v \in Workers : worker[v].held # 0 => worker[v].held \in Jobs
  BY QueueAssumption DEF TypeOK, SessionState, Jobs
<1>9. \A j \in Jobs : /\ job'[j].attempts = job[j].attempts
                      /\ job[j].status # "absent" => job'[j].status # "absent"
  BY <1>1, <1>2, RecoveredType
<1>10. SessionsHoldAttempts'
  BY <1>8, <1>9 DEF SessionsHoldAttempts, Held
<1>11. ExclusiveAttempts' /\ OnlyVerdictsWait'
  BY DEF ExclusiveAttempts, OnlyVerdictsWait
<1>12. ASSUME QueueInv PROVE NoStrandedJob' /\ WritersAreCurrent'
  <2>1. NoStrandedJob'
    BY <1>1, <1>2, <1>12, RecoveredType DEF QueueInv, NoStrandedJob
  <2>2. ASSUME NEW v \in Workers, worker'[v].pc \in {"write", "commit"}
        PROVE  /\ Held(v)'.attempts = worker'[v].token
               /\ \/ OwnsLease(v)'
                  \/ Held(v)'.status = "PENDING" /\ Held(v)'.wait > 0
                  \/ Held(v)'.status = "FAILED" /\ Held(v)'.attempts = MaxAttempts
    <3> DEFINE h == worker[v].held
    <3>1. worker[v].pc \in {"write", "commit"} /\ h \in Jobs
      BY <1>8, <2>2 DEF SessionsHoldAttempts
    <3>2. /\ job[h].attempts = worker[v].token
          /\ \/ OwnsLease(v)
             \/ job[h].status = "PENDING" /\ job[h].wait > 0
             \/ job[h].status = "FAILED" /\ job[h].attempts = MaxAttempts
      BY <1>12, <3>1 DEF QueueInv, WritersAreCurrent, Held
    <3>3. Held(v)' = job'[h]
      BY DEF Held
    <3>4. CASE h \in S
      BY <1>1, <1>2, <3>1, <3>2, <3>3, <3>4, RecoveredType
    <3>5. CASE h \notin S
      BY <1>2, <3>1, <3>2, <3>3, <3>5 DEF OwnsLease, Held
    <3> QED
      BY <3>4, <3>5
  <2> QED
    BY <2>1, <2>2 DEF WritersAreCurrent
<1> QED
  BY <1>5, <1>6, <1>7, <1>10, <1>11, <1>12

-----------------------------------------------------------------------------
(* The claim and the clock.                                                *)

LEMMA ClaimStep ==
    ASSUME LeaseInv, NEW w \in Workers, Claim(w)
    PROVE  /\ LeaseInv'
           /\ QueueInv => NoStrandedJob' /\ WritersAreCurrent'
<1> USE DEF LeaseInv
<1>1. PICK n \in Claimable :
        /\ SetJob(n, [job[n] EXCEPT !.status = "RUNNING", !.lockedBy = w,
                                    !.age = 0, !.attempts = @ + 1])
        /\ SetSession(w, [NewSession EXCEPT !.pc = "begin", !.held = n,
                                            !.token = job[n].attempts + 1])
  BY DEF Claim
<1> DEFINE row == [job[n] EXCEPT !.status = "RUNNING", !.lockedBy = w,
                                 !.age = 0, !.attempts = @ + 1]
           s == [NewSession EXCEPT !.pc = "begin", !.held = n,
                                   !.token = job[n].attempts + 1]
<1>2. /\ n \in Jobs /\ job[n] \in JobRow /\ job[n].status = "PENDING"
      /\ job[n].wait = 0 /\ job[n].attempts < MaxAttempts
  BY DEF Claimable, TypeOK
<1>3. job[n].attempts \in Nat /\ job[n].attempts + 1 \in 0..MaxAttempts
  BY <1>2, QueueAssumption DEF JobRow
<1>4. 0 \in 0..(StaleAfter + 1)
  BY QueueAssumption
<1>5. row \in JobRow /\ row.status = "RUNNING" /\ row.lockedBy = w
      /\ row.attempts = job[n].attempts + 1 /\ row.doc = job[n].doc
  BY <1>2, <1>3, <1>4 DEF JobRow, Active
<1>6. n \in 0..MaxJobs /\ n # 0
  BY <1>2, QueueAssumption DEF Jobs
<1>7. s \in SessionState /\ s.pc = "begin" /\ s.held = n
      /\ s.token = job[n].attempts + 1
  BY <1>3, <1>6, NewSessionType DEF SessionState, NewSession
<1> HIDE DEF row, s
<1>8. \A j \in Jobs : job'[j] = IF j = n THEN row ELSE job[j]
  BY <1>1 DEF TypeOK, SetJob, row
<1>9. \A v \in Workers : worker'[v] = IF v = w THEN s ELSE worker[v]
  BY <1>1 DEF TypeOK, SetSession, s
<1>10. TypeOK'
  BY <1>1, <1>5, <1>7 DEF TypeOK, SetJob, SetSession, row, s, Claim
<1>11. RowsHaveDocs'
  BY <1>2, <1>5, <1>8 DEF RowsHaveDocs, Claim
<1>12. w # NoWorker
  BY QueueAssumption
<1>13. LeasesHaveOwners'
  BY <1>3, <1>5, <1>8, <1>12 DEF LeasesHaveOwners
<1>14. \A v \in Workers : worker[v].held # 0 =>
          /\ worker[v].held \in Jobs
          /\ worker[v].held = n => worker[v].token < s.token
  BY <1>3, <1>7, QueueAssumption
  DEF TypeOK, SessionState, Jobs, SessionsHoldAttempts, Held
<1>15. SessionsHoldAttempts'
  <2> SUFFICES ASSUME NEW v \in Workers
               PROVE  /\ worker'[v].held = 0 <=> worker'[v].pc \in {"recover", "claim"}
                      /\ worker'[v].held # 0 =>
                           /\ job'[worker'[v].held].status # "absent"
                           /\ worker'[v].token \in 1..job'[worker'[v].held].attempts
    BY DEF SessionsHoldAttempts, Held
  <2>1. CASE v = w
    BY <1>2, <1>3, <1>5, <1>6, <1>7, <1>8, <1>9, <2>1
  <2>2. CASE v # w
    BY <1>3, <1>5, <1>8, <1>9, <1>14, <2>2 DEF SessionsHoldAttempts, Held
  <2> QED
    BY <2>1, <2>2
<1>16. ExclusiveAttempts'
  BY <1>3, <1>7, <1>9, <1>14 DEF ExclusiveAttempts
<1>18. OnlyVerdictsWait'
  BY <1>7, <1>9 DEF OnlyVerdictsWait
<1>17. ASSUME QueueInv PROVE NoStrandedJob' /\ WritersAreCurrent'
  <2>1. NoStrandedJob'
    BY <1>5, <1>8, <1>12, <1>17 DEF QueueInv, NoStrandedJob
  <2>2. \A v \in Workers : worker[v].pc \in {"write", "commit"}
                            => worker[v].held \in Jobs /\ worker[v].held # n
    BY <1>2, <1>14, <1>17
    DEF QueueInv, WritersAreCurrent, OwnsLease, Held, SessionsHoldAttempts
  <2>3. WritersAreCurrent'
    BY <1>7, <1>8, <1>9, <1>17, <2>2 DEF QueueInv, WritersAreCurrent, OwnsLease, Held
  <2> QED
    BY <2>1, <2>3
<1> QED
  BY <1>10, <1>11, <1>13, <1>15, <1>16, <1>17, <1>18

LEMMA TickedType ==
    ASSUME NEW row \in JobRow
    PROVE  /\ Ticked(row) \in JobRow
           /\ Ticked(row).status = row.status
           /\ Ticked(row).lockedBy = row.lockedBy
           /\ Ticked(row).attempts = row.attempts
           /\ Ticked(row).doc = row.doc
<1> DEFINE a == IF row.status = "RUNNING" /\ row.age <= StaleAfter
                THEN row.age + 1 ELSE row.age
           b == IF row.wait > 0 THEN row.wait - 1 ELSE 0
<1>1. a \in 0..(StaleAfter + 1) /\ b \in Nat
  BY QueueAssumption DEF JobRow
<1>2. Ticked(row) = [row EXCEPT !.age = a, !.wait = b]
  BY DEF Ticked, JobRow
<1> HIDE DEF a, b
<1> QED
  BY <1>1, <1>2 DEF JobRow

LEMMA TickStep ==
    ASSUME LeaseInv, Tick
    PROVE  /\ LeaseInv'
           /\ QueueInv /\ ~PauseInFlush => NoStrandedJob' /\ WritersAreCurrent'
<1> USE DEF LeaseInv, Tick
<1>1. \A j \in Jobs : job'[j] = Ticked(job[j]) /\ job[j] \in JobRow
  BY DEF TypeOK
<1>2. TypeOK'
  BY TickedType DEF TypeOK
<1>3. RowsHaveDocs'
  BY <1>1, TickedType DEF RowsHaveDocs
<1>4. LeasesHaveOwners'
  BY <1>1, TickedType DEF LeasesHaveOwners
<1>5. \A v \in Workers : worker[v].held # 0 => worker[v].held \in Jobs
  BY QueueAssumption DEF TypeOK, SessionState, Jobs
<1>6. SessionsHoldAttempts'
  BY <1>1, <1>5, TickedType DEF SessionsHoldAttempts, Held
<1>7. ExclusiveAttempts' /\ OnlyVerdictsWait'
  BY DEF ExclusiveAttempts, OnlyVerdictsWait
<1>8. ASSUME QueueInv, ~PauseInFlush PROVE NoStrandedJob' /\ WritersAreCurrent'
  <2>1. NoStrandedJob'
    BY <1>1, <1>8, TickedType DEF QueueInv, NoStrandedJob
  <2>2. WritersAreCurrent'
    BY <1>8 DEF WritersAreCurrent
  <2> QED
    BY <2>1, <2>2
<1> QED
  BY <1>2, <1>3, <1>4, <1>6, <1>7, <1>8

-----------------------------------------------------------------------------
(* The steps of one worker.                                                *)

\* A session that keeps its job and only changes its plan or its place.
LEMMA SameJob ==
    ASSUME LeaseInv, NEW w \in Workers, worker[w].pc \notin {"recover", "claim"},
           NEW s \in SessionState, SetSession(w, s),
           s.held = worker[w].held, s.token = worker[w].token,
           s.pc \notin {"recover", "claim"},
           s.pc \in {"write", "commit"} =>
               worker[w].pc \in {"write", "commit"} \/ OwnsLease(w),
           s.pc = "commit" => s.plan \in Blocked,
           UNCHANGED <<job, client>>, doc' \in [Docs -> DocRow]
    PROVE  LeaseInv' /\ (QueueInv => NoStrandedJob' /\ WritersAreCurrent')
<1>1. worker[w].held # 0
  BY HeldFacts
<1>2. LeaseInv'
  BY <1>1, SessionChange
<1>3. QueueInv => NoStrandedJob' /\ WritersAreCurrent'
  BY SessionChangeCurrent
<1> QED
  BY <1>2, <1>3

LEMMA ProceedStep ==
    ASSUME LeaseInv, NEW w \in Workers, worker[w].pc \notin {"recover", "claim"},
           NEW next \in {"scan", "run", "fence", "write", "commit"}, Proceed(w, next),
           next \in {"write", "commit"} =>
               worker[w].pc \in {"write", "commit"} \/ OwnsLease(w),
           next = "commit" => worker[w].plan \in Blocked,
           UNCHANGED <<job, client>>, doc' \in [Docs -> DocRow]
    PROVE  LeaseInv' /\ (QueueInv => NoStrandedJob' /\ WritersAreCurrent')
<1> DEFINE s == [worker[w] EXCEPT !.pc = next]
<1>1. s \in SessionState /\ s.pc = next /\ s.plan = worker[w].plan
      /\ s.held = worker[w].held /\ s.token = worker[w].token
  BY HeldFacts DEF SessionState
<1>2. SetSession(w, s)
  BY DEF Proceed
<1> HIDE DEF s
<1> QED
  BY <1>1, <1>2, SameJob

LEMMA DecidedType ==
    ASSUME LeaseInv, NEW w \in Workers, worker[w].pc \notin {"recover", "claim"},
           NEW p \in Plans
    PROVE  /\ Decided(w, p) \in SessionState
           /\ Decided(w, p).pc = "fence"
           /\ Decided(w, p).held = worker[w].held
           /\ Decided(w, p).token = worker[w].token
  BY HeldFacts DEF Decided, SessionState, DocRow

LEMMA DecideStep ==
    ASSUME LeaseInv, NEW w \in Workers, worker[w].pc \notin {"recover", "claim"},
           NEW p \in Plans, Decide(w, p),
           UNCHANGED <<job, client>>, doc' \in [Docs -> DocRow]
    PROVE  LeaseInv' /\ (QueueInv => NoStrandedJob' /\ WritersAreCurrent')
<1>1. Decided(w, p) \in SessionState /\ Decided(w, p).pc = "fence"
      /\ Decided(w, p).held = worker[w].held /\ Decided(w, p).token = worker[w].token
  BY DecidedType
<1> QED
  BY <1>1, SameJob DEF Decide

\* A session gives its job up and begins again.
LEMMA NewSessionStep ==
    ASSUME LeaseInv, NEW w \in Workers, SetSession(w, NewSession),
           UNCHANGED <<job, client>>, doc' \in [Docs -> DocRow]
    PROVE  LeaseInv' /\ (QueueInv => NoStrandedJob' /\ WritersAreCurrent')
<1>1. NewSession.held = 0 /\ NewSession.pc = "recover"
  BY DEF NewSession
<1>2. LeaseInv'
  BY <1>1, NewSessionType, SessionChange
<1>3. QueueInv => NoStrandedJob' /\ WritersAreCurrent'
  BY <1>1, NewSessionType, SessionChangeCurrent
<1> QED
  BY <1>2, <1>3

LEMMA EndStep ==
    ASSUME LeaseInv, NEW w \in Workers, worker[w].pc \in {"write", "commit"},
           NEW s \in {"PENDING", "COMPLETED", "FAILED"}, EndJob(w, s),
           s = "PENDING" => worker[w].token < MaxAttempts,
           doc' \in [Docs -> DocRow]
    PROVE  LeaseInv' /\ (QueueInv => NoStrandedJob' /\ WritersAreCurrent')
<1>1. worker[w].held # 0
  BY HeldFacts
<1> QED
  BY <1>1, JobEnd, JobEndCurrent

LEMMA SetProcessingType ==
    ASSUME LeaseInv, NEW w \in Workers, worker[w].pc \notin {"recover", "claim"},
           NEW s \in Processing, SetProcessing(w, s)
    PROVE  doc' \in [Docs -> DocRow]
<1>1. HeldDoc(w) \in DocRow /\ doc \in [Docs -> DocRow]
  BY HeldFacts DEF LeaseInv, TypeOK
<1>2. [HeldDoc(w) EXCEPT !.processing = s] \in DocRow
  BY <1>1 DEF DocRow
<1> QED
  BY <1>1, <1>2 DEF SetProcessing, SetDoc

LEMMA WorkerKeeps ==
    ASSUME LeaseInv, NEW w \in Workers, WorkerStep(w) \/ Crash(w)
    PROVE  LeaseInv' /\ (QueueInv => NoStrandedJob' /\ WritersAreCurrent')
<1> DEFINE Keeps == LeaseInv' /\ (QueueInv => NoStrandedJob' /\ WritersAreCurrent')
<1>1. doc \in [Docs -> DocRow] /\ client \in [Clients -> Request]
      /\ (\A c \in Clients : client[c].pc # "idle" => client[c].doc \in Docs)
      /\ worker \in [Workers -> SessionState]
  BY DEF LeaseInv, TypeOK, RowsHaveDocs
<1>2. CASE WorkerRecover(w)
  <2> DEFINE s == [worker[w] EXCEPT !.pc = "claim"]
  <2>1. s \in SessionState /\ s.pc = "claim" /\ worker[w].pc = "recover"
        /\ s.held = worker[w].held /\ s.token = worker[w].token
        /\ s.plan = worker[w].plan
    BY <1>1, <1>2 DEF WorkerRecover, SessionState
  <2>2. SetSession(w, s) /\ UNCHANGED client
    BY <1>2 DEF WorkerRecover, Proceed
  <2> HIDE DEF s
  <2>3. \A v \in Workers : worker'[v] = IF v = w THEN s ELSE worker[v]
    BY <1>1, <2>2 DEF SetSession
  <2>4. s.held = 0
    BY <2>1 DEF LeaseInv, SessionsHoldAttempts
  <2>5. CASE UNCHANGED <<job, doc>>
    <3>1. LeaseInv'
      BY <1>1, <2>1, <2>2, <2>4, <2>5, SessionChange
    <3>2. QueueInv => NoStrandedJob' /\ WritersAreCurrent'
      BY <2>1, <2>2, <2>5, SessionChangeCurrent
    <3> QED
      BY <3>1, <3>2
  <2>6. CASE \E lead : RecoverAll({j \in Jobs : Stale(j)}, lead)
    <3>1. PICK lead : RecoverAll({j \in Jobs : Stale(j)}, lead)
      BY <2>6
    <3>2. worker' \in [Workers -> SessionState]
      BY <1>1, <2>1, <2>2 DEF SetSession
    <3> QED
      BY <1>1, <2>1, <2>2, <2>3, <3>1, <3>2, Recovery
  <2> QED
    BY <1>2, <2>5, <2>6 DEF WorkerRecover
<1>3. CASE Claim(w)
  BY <1>3, ClaimStep
<1>4. CASE NothingToClaim(w)
  BY <1>1, <1>4, NewSessionStep DEF NothingToClaim
<1>5. CASE RefuseNoAuthority(w) \/ RefuseQuarantined(w) \/ StartDeleted(w)
           \/ StartText(w) \/ ScanRefused(w) \/ RunFails(w)
  <2>1. \E p \in Plans : Decide(w, p)
    BY <1>5 DEF RefuseNoAuthority, RefuseQuarantined, StartDeleted, StartText,
                ScanRefused, RunFails, Plans
  <2>2. worker[w].pc \notin {"recover", "claim"} /\ UNCHANGED <<job, doc, client>>
    BY <1>5 DEF RefuseNoAuthority, RefuseQuarantined, StartDeleted, StartText,
                ScanRefused, RunFails, Starts
  <2> QED
    BY <1>1, <2>1, <2>2, DecideStep
<1>6. CASE StartIntelligence(w)
  BY <1>1, <1>6, ProceedStep DEF StartIntelligence, Starts
<1>7. CASE StartRescan(w)
  <2>1. worker[w].pc \notin {"recover", "claim"} /\ UNCHANGED <<job, doc, client>>
    BY <1>7 DEF StartRescan, Starts
  <2>2. CASE Proceed(w, "scan")
    BY <1>1, <2>1, <2>2, ProceedStep
  <2>3. CASE Decide(w, "skip")
    BY <1>1, <2>1, <2>3, DecideStep DEF Plans
  <2> QED
    BY <1>7, <2>2, <2>3 DEF StartRescan
<1>8. CASE Scan(w)
  <2>1. worker[w].pc \notin {"recover", "claim"} /\ UNCHANGED <<job, client>>
    BY <1>8 DEF Scan
  <2>2. PICK v \in Verdicts, place \in Places :
          /\ SetSession(w, [Decided(w, v) EXCEPT !.key = place])
          /\ IF place = "quarantine"
             THEN SetDoc(Held(w).doc, [HeldDoc(w) EXCEPT !.bytes = place])
             ELSE UNCHANGED doc
    BY <1>8 DEF Scan
  <2>3. v \in Plans
    BY DEF Plans
  <2> DEFINE s == [Decided(w, v) EXCEPT !.key = place]
  <2>4. s \in SessionState /\ s.pc = "fence"
        /\ s.held = worker[w].held /\ s.token = worker[w].token
    BY <2>1, <2>3, DecidedType DEF SessionState
  <2>5. [HeldDoc(w) EXCEPT !.bytes = place] \in DocRow
    BY <2>1, HeldFacts DEF DocRow
  <2>6. doc' \in [Docs -> DocRow]
    BY <1>1, <2>2, <2>5 DEF SetDoc
  <2> HIDE DEF s
  <2>7. SetSession(w, s)
    BY <2>2 DEF s
  <2> QED
    BY <2>1, <2>4, <2>6, <2>7, SameJob
<1>9. CASE RunSucceeds(w)
  <2> DEFINE s == [worker[w] EXCEPT !.pc = "fence", !.plan = "finish"]
  <2>1. s \in SessionState /\ s.pc = "fence"
        /\ s.held = worker[w].held /\ s.token = worker[w].token
    BY <1>1 DEF SessionState, Plans
  <2>2. SetSession(w, s) /\ worker[w].pc = "run" /\ UNCHANGED <<job, doc, client>>
    BY <1>9 DEF RunSucceeds
  <2> HIDE DEF s
  <2> QED
    BY <1>1, <2>1, <2>2, SameJob
<1>10. CASE FencePasses(w)
  BY <1>1, <1>10, ProceedStep DEF FencePasses
<1>11. CASE FenceFails(w) \/ Crash(w)
  BY <1>1, <1>11, NewSessionStep DEF FenceFails, Crash
<1>12. CASE WriteMark(w)
  <2> DEFINE s == [worker[w] EXCEPT !.pc = "run", !.seen = "PROCESSING"]
  <2>1. s \in SessionState /\ s.pc = "run"
        /\ s.held = worker[w].held /\ s.token = worker[w].token
    BY <1>1 DEF SessionState, Processing
  <2>2. SetSession(w, s) /\ worker[w].pc = "write" /\ UNCHANGED <<job, client>>
    BY <1>12 DEF WriteMark, CanWrite
  <2>3. doc' \in [Docs -> DocRow]
    BY <1>12, <2>2, SetProcessingType DEF WriteMark, Processing
  <2> HIDE DEF s
  <2> QED
    BY <2>1, <2>2, <2>3, SameJob
<1>13. CASE WriteFinish(w)
  <2>1. worker[w].pc = "write" /\ EndJob(w, "COMPLETED")
    BY <1>13 DEF WriteFinish, CanWrite
  <2>2. [HeldDoc(w) EXCEPT !.processing = "PROCESSED", !.extracted = TRUE] \in DocRow
    BY <2>1, HeldFacts DEF DocRow, Processing
  <2>3. doc' \in [Docs -> DocRow]
    BY <1>1, <1>13, <2>2 DEF WriteFinish, SetDoc
  <2> QED
    BY <2>1, <2>3, EndStep
<1>14. CASE WriteFail(w)
  <2>1. worker[w].pc = "write" /\ worker[w].token \in Nat
    BY <1>1, <1>14 DEF WriteFail, CanWrite, SessionState
  <2>2. doc' \in [Docs -> DocRow]
    BY <1>14, <2>1, SetProcessingType DEF WriteFail, Processing
  <2>3. \/ EndJob(w, "FAILED")
        \/ EndJob(w, "PENDING") /\ worker[w].token < MaxAttempts
    BY <1>14, <2>1, QueueAssumption DEF WriteFail
  <2> QED
    BY <2>1, <2>2, <2>3, EndStep
<1>15. CASE WriteSkip(w)
  BY <1>1, <1>15, EndStep DEF WriteSkip, CanWrite
<1>16. CASE WriteBlocked(w)
  <2>1. worker[w].pc = "write" /\ EndJob(w, "FAILED")
    BY <1>16 DEF WriteBlocked, CanWrite
  <2>2. doc' \in [Docs -> DocRow]
    BY <1>1, <1>16, <2>1, SetProcessingType DEF WriteBlocked, Processing
  <2> QED
    BY <2>1, <2>2, EndStep
<1>17. CASE WriteClean(w)
  <2>1. worker[w].pc = "write" /\ EndJob(w, "COMPLETED")
    BY <1>17 DEF WriteClean, CanWrite
  <2>2. [HeldDoc(w) EXCEPT !.malware = "CLEAN"] \in DocRow
    BY <2>1, HeldFacts DEF DocRow, Verdicts
  <2>3. doc' \in [Docs -> DocRow]
    BY <1>1, <1>17, <2>2 DEF WriteClean, SetDoc
  <2> QED
    BY <2>1, <2>3, EndStep
<1>18. CASE WriteVerdict(w)
  <2>1. worker[w].pc = "write" /\ worker[w].plan \in Blocked
        /\ UNCHANGED <<job, doc, client>>
    BY <1>18 DEF WriteVerdict, CanWrite
  <2>2. CASE Proceed(w, "commit")
    BY <1>1, <2>1, <2>2, ProceedStep
  <2>3. CASE Decide(w, "fail")
    BY <1>1, <2>1, <2>3, DecideStep DEF Plans
  <2> QED
    BY <1>18, <2>2, <2>3 DEF WriteVerdict
<1>19. CASE CommitVerdict(w)
  <2>1. worker[w].pc = "commit" /\ EndJob(w, "COMPLETED")
    BY <1>19 DEF CommitVerdict
  <2>2. [HeldDoc(w) EXCEPT !.malware = worker[w].plan, !.key = worker[w].key] \in DocRow
    BY <2>1, HeldFacts
    DEF DocRow, SessionState, Verdicts, LeaseInv, OnlyVerdictsWait
  <2>3. doc' \in [Docs -> DocRow]
    BY <1>1, <1>19, <2>2 DEF CommitVerdict, SetDoc
  <2> QED
    BY <2>1, <2>3, EndStep
<1> QED
  BY <1>2, <1>3, <1>4, <1>5, <1>6, <1>7, <1>8, <1>9, <1>10, <1>11, <1>12,
     <1>13, <1>14, <1>15, <1>16, <1>17, <1>18, <1>19
  DEF WorkerStep

-----------------------------------------------------------------------------
(* The steps of requests.                                                  *)

LEMMA ClientKeeps ==
    ASSUME LeaseInv, NEW c \in Clients, ClientStep(c)
    PROVE  LeaseInv' /\ (QueueInv => NoStrandedJob' /\ WritersAreCurrent')
<1>1. doc \in [Docs -> DocRow] /\ client \in [Clients -> Request]
      /\ worker \in [Workers -> SessionState]
      /\ (\A b \in Clients : client[b].pc # "idle" => client[b].doc \in Docs)
  BY DEF LeaseInv, TypeOK, RowsHaveDocs
<1>2. ASSUME NEW r \in Request, SetRequest(c, r), r.pc = "idle" \/ r.doc \in Docs
      PROVE  /\ client' \in [Clients -> Request]
             /\ \A b \in Clients : client'[b].pc # "idle" => client'[b].doc \in Docs
  BY <1>1, <1>2 DEF SetRequest
<1>3. NoRequest \in Request /\ NoRequest.pc = "idle"
  BY DEF NoRequest, Request, Types
<1>4. ASSUME NEW d \in Docs, RetryRecover(c, d)
      PROVE  LeaseInv' /\ (QueueInv => NoStrandedJob' /\ WritersAreCurrent')
  <2> DEFINE r == [pc |-> "check", doc |-> d, type |-> "TEXT"]
  <2>1. r \in Request /\ r.doc = d
    BY DEF Request, Types
  <2>2. SetRequest(c, r) /\ UNCHANGED worker
    BY <1>4 DEF RetryRecover
  <2> HIDE DEF r
  <2>3. /\ client' \in [Clients -> Request]
        /\ \A b \in Clients : client'[b].pc # "idle" => client'[b].doc \in Docs
    BY <1>2, <2>1, <2>2
  <2>4. CASE UNCHANGED <<job, doc>>
    BY <1>1, <2>2, <2>3, <2>4, RequestChange, QuietCurrent
  <2>5. CASE \E j \in {i \in Jobs : Stale(i)} :
               RecoverAll({j}, [e \in Docs |-> IF e = d THEN j ELSE 0])
    <3>1. PICK j \in {i \in Jobs : Stale(i)} :
                 RecoverAll({j}, [e \in Docs |-> IF e = d THEN j ELSE 0])
      BY <2>5
    <3>2. {j} \subseteq {i \in Jobs : Stale(i)}
      BY <3>1
    <3>3. \A v \in Workers : worker'[v] = worker[v]
      BY <2>2
    <3>4. worker' \in [Workers -> SessionState]
      BY <1>1, <2>2
    <3> QED
      BY <2>3, <3>1, <3>2, <3>3, <3>4, Recovery
  <2> QED
    BY <1>4, <2>4, <2>5 DEF RetryRecover
<1>5. ASSUME NEW d \in Docs, RequestRescan(c, d) \/ RequestIntelligence(c, d)
      PROVE  LeaseInv' /\ (QueueInv => NoStrandedJob' /\ WritersAreCurrent')
  <2>1. \E t \in Types : SetRequest(c, [pc |-> "check", doc |-> d, type |-> t])
    BY <1>5 DEF RequestRescan, RequestIntelligence, Types
  <2>2. PICK t \in Types : SetRequest(c, [pc |-> "check", doc |-> d, type |-> t])
    BY <2>1
  <2> DEFINE r == [pc |-> "check", doc |-> d, type |-> t]
  <2>3. r \in Request /\ r.doc = d
    BY DEF Request
  <2>4. SetRequest(c, r)
    BY <2>2
  <2>5. UNCHANGED <<job, doc, worker>>
    BY <1>5 DEF RequestRescan, RequestIntelligence
  <2> HIDE DEF r
  <2> QED
    BY <1>1, <1>2, <2>3, <2>4, <2>5, RequestChange, QuietCurrent
<1>6. CASE EnqueueCheck(c)
  <2> DEFINE r == [client[c] EXCEPT !.pc = "insert"]
  <2>1. r \in Request /\ r.doc = client[c].doc
    BY <1>1 DEF Request
  <2>2. client[c].doc \in Docs /\ UNCHANGED <<job, doc, worker>>
    BY <1>1, <1>6 DEF EnqueueCheck
  <2>3. SetRequest(c, NoRequest) \/ SetRequest(c, r)
    BY <1>6 DEF EnqueueCheck
  <2> HIDE DEF r
  <2> QED
    BY <1>1, <1>2, <1>3, <2>1, <2>2, <2>3, RequestChange, QuietCurrent
<1>7. CASE EnqueueInsert(c)
  <2>1. client[c].doc \in Docs /\ client[c].type \in Types
        /\ SetRequest(c, NoRequest) /\ UNCHANGED <<doc, worker>>
    BY <1>1, <1>7 DEF EnqueueInsert, Request
  <2>2. /\ client' \in [Clients -> Request]
        /\ \A b \in Clients : client'[b].pc # "idle" => client'[b].doc \in Docs
    BY <1>2, <1>3, <2>1
  <2>3. PICK j \in Jobs : NextSlot(j) /\ SetJob(j, NewJob(client[c].doc, client[c].type))
    BY <1>7 DEF EnqueueInsert
  <2> QED
    BY <1>1, <2>1, <2>2, <2>3, NewRow
<1> QED
  BY <1>4, <1>5, <1>6, <1>7 DEF ClientStep

\* What a request writes to a document leaves it a document.
LEMMA DocWrites ==
    ASSUME NEW row \in DocRow
    PROVE  /\ [row EXCEPT !.deleted = TRUE] \in DocRow
           /\ [row EXCEPT !.released = FALSE] \in DocRow
           /\ [row EXCEPT !.malware = "INFECTED"] \in DocRow
           /\ [row EXCEPT !.malware = "CLEAN", !.bytes = "active",
                         !.key = "none"] \in DocRow
           /\ [row EXCEPT !.bytes = IF @ = row.key THEN "gone" ELSE @,
                         !.key = "none"] \in DocRow
           /\ \A m \in {"CLEAN", "LEGACY"} :
                [row EXCEPT !.processing = "UPLOADED", !.malware = m] \in DocRow
<1>1. /\ [row EXCEPT !.deleted = TRUE] \in DocRow
      /\ [row EXCEPT !.released = FALSE] \in DocRow
  BY DEF DocRow
<1>2. [row EXCEPT !.malware = "INFECTED"] \in DocRow
  BY DEF DocRow, Verdicts, Blocked
<1>3. [row EXCEPT !.malware = "CLEAN", !.bytes = "active", !.key = "none"] \in DocRow
  BY DEF DocRow, Verdicts, Places
<1>4. [row EXCEPT !.bytes = IF @ = row.key THEN "gone" ELSE @,
                !.key = "none"] \in DocRow
  BY DEF DocRow
<1>5. \A m \in {"CLEAN", "LEGACY"} :
        [row EXCEPT !.processing = "UPLOADED", !.malware = m] \in DocRow
  BY DEF DocRow, Processing, Verdicts
<1> QED
  BY <1>1, <1>2, <1>3, <1>4, <1>5

LEMMA DocKeeps ==
    ASSUME LeaseInv, NEW d \in Docs, DocStep(d)
    PROVE  LeaseInv' /\ (QueueInv => NoStrandedJob' /\ WritersAreCurrent')
<1>1. doc \in [Docs -> DocRow] /\ client \in [Clients -> Request]
      /\ (\A b \in Clients : client[b].pc # "idle" => client[b].doc \in Docs)
  BY DEF LeaseInv, TypeOK, RowsHaveDocs
<1>2. doc' \in [Docs -> DocRow] /\ UNCHANGED <<worker, client>>
  <2>1. /\ [doc[d] EXCEPT !.deleted = TRUE] \in DocRow
        /\ [doc[d] EXCEPT !.released = FALSE] \in DocRow
        /\ [doc[d] EXCEPT !.malware = "INFECTED"] \in DocRow
        /\ [doc[d] EXCEPT !.malware = "CLEAN", !.bytes = "active",
                           !.key = "none"] \in DocRow
        /\ [doc[d] EXCEPT !.bytes = IF @ = doc[d].key THEN "gone" ELSE @,
                           !.key = "none"] \in DocRow
        /\ \A m \in {"CLEAN", "LEGACY"} :
             [doc[d] EXCEPT !.processing = "UPLOADED", !.malware = m] \in DocRow
    BY <1>1, DocWrites
  <2> QED
    BY <1>1, <2>1 DEF DocStep, Upload, Delete, RevokeRelease, RetryQuarantine,
               PurgeQuarantine, SetDoc
<1>3. CASE \E j \in Jobs : NextSlot(j) /\ SetJob(j, NewJob(d, "TEXT"))
  BY <1>1, <1>2, <1>3, NewRow DEF Types
<1>4. CASE UNCHANGED job
  BY <1>1, <1>2, <1>4, RequestChange, QuietCurrent
<1> QED
  BY <1>3, <1>4 DEF DocStep, Upload, Delete, RevokeRelease, RetryQuarantine,
                       PurgeQuarantine

LEMMA StepKeeps ==
    ASSUME LeaseInv, [Next]_vars
    PROVE  /\ LeaseInv'
           /\ QueueInv /\ ~PauseInFlush => NoStrandedJob' /\ WritersAreCurrent'
<1>1. CASE UNCHANGED vars
  BY <1>1, RequestChange, QuietCurrent DEF vars, LeaseInv, TypeOK, RowsHaveDocs
<1>2. CASE Next
  BY <1>2, WorkerKeeps, ClientKeeps, DocKeeps, TickStep DEF Next
<1> QED
  BY <1>1, <1>2

-----------------------------------------------------------------------------
(* Theorems.                                                               *)

\* Under every interleaving of workers, requests, crashes and time, and
\* however long a write takes, the queue is well typed and its leases are in
\* order: every session holds an attempt that was made of its job.
THEOREM LeaseInvariant == Spec => []LeaseInv
<1>1. Init => LeaseInv
  BY InitLease DEF QueueInv
<1>2. LeaseInv /\ [Next]_vars => LeaseInv'
  BY StepKeeps
<1> QED
  BY <1>1, <1>2, PTL DEF Spec

\* The rows, sessions and requests always have their types.
THEOREM TypeCorrect == Spec => []TypeOK
<1>1. LeaseInv => TypeOK
  BY DEF LeaseInv
<1> QED
  BY <1>1, LeaseInvariant, PTL

\* No two live sessions ever run the same attempt of the same job
\* (claim_next_job numbers the attempt it takes).
THEOREM ClaimsAreExclusive == Spec => []ExclusiveAttempts
<1>1. LeaseInv => ExclusiveAttempts
  BY DEF LeaseInv
<1> QED
  BY <1>1, LeaseInvariant, PTL

\* When no tick of the clock passes between a lease check and the write it
\* guards, the writer is still the latest attempt of its job.
THEOREM QueueInvariant ==
    ASSUME ~PauseInFlush
    PROVE  Spec => []QueueInv
<1>1. Init => QueueInv
  BY InitLease
<1>2. QueueInv /\ [Next]_vars => QueueInv'
  BY StepKeeps DEF QueueInv
<1> QED
  BY <1>1, <1>2, PTL DEF Spec

\* A job in the queue can always be claimed, and a running one recovered.
THEOREM NoJobIsStranded ==
    ASSUME ~PauseInFlush
    PROVE  Spec => []NoStrandedJob
<1>1. QueueInv => NoStrandedJob
  BY DEF QueueInv
<1> QED
  BY <1>1, QueueInvariant, PTL

\* A worker whose job was claimed again never writes over its successor.
THEOREM SuccessorsAreSafe ==
    ASSUME ~PauseInFlush
    PROVE  Spec => []SuccessorAuthoritative
<1>1. QueueInv => SuccessorAuthoritative
  BY DEF QueueInv, WritersAreCurrent, OwnsLease, SuccessorAuthoritative
<1> QED
  BY <1>1, QueueInvariant, PTL

-----------------------------------------------------------------------------
(***************************************************************************)
(* The processing queue implements AttemptLedger: seen from its rows, every *)
(* step of a worker, a request or the clock is a step of the ledger or a   *)
(* stutter.  What the ledger never does to a settled job, the queue never  *)
(* does either.                                                            *)
(***************************************************************************)


\* A step that leaves status and attempts of every row alone is a stutter.
LEMMA LedgerStutter ==
    ASSUME \A j \in Jobs : /\ job'[j].status = job[j].status
                           /\ job'[j].attempts = job[j].attempts
    PROVE  UNCHANGED Ledger!vars
  BY DEF Ledger!vars

\* One row changes its status and no attempt is counted.
LEMMA LedgerBecomes ==
    ASSUME NEW h \in Jobs, NEW s, job'[h].status = s,
           \A j \in Jobs : /\ j # h => job'[j].status = job[j].status
                           /\ job'[j].attempts = job[j].attempts
    PROVE  Ledger!Becomes(h, s)
<1>1. [j \in Jobs |-> job'[j].status]
        = [[j \in Jobs |-> job[j].status] EXCEPT ![h] = s]
  OBVIOUS
<1>2. [j \in Jobs |-> job'[j].attempts] = [j \in Jobs |-> job[j].attempts]
  OBVIOUS
<1> QED
  BY <1>1, <1>2 DEF Ledger!Becomes

LEMMA LedgerInit == Init => Ledger!Init
  BY DEF Init, Ledger!Init

\* The outcome of a session settles the attempt, hands the job back, or lands
\* on a job that recovery has handed back or given up in the same tick.
LEMMA LedgerEnd ==
    ASSUME QueueInv, NEW w \in Workers, NEW s \in {"PENDING", "COMPLETED", "FAILED"},
           worker[w].pc \in {"write", "commit"}, EndJob(w, s),
           s = "PENDING" => worker[w].token < MaxAttempts
    PROVE  [Ledger!Next]_(Ledger!vars)
<1> DEFINE h == worker[w].held
<1>1. LeaseInv /\ job \in [Jobs -> JobRow]
  BY DEF QueueInv, LeaseInv, TypeOK
<1>2. h \in Jobs /\ job[h] \in JobRow /\ Held(w) = job[h]
  BY <1>1, HeldFacts DEF Held
<1>3. /\ job[h].attempts = worker[w].token
      /\ job[h].attempts > 0
      /\ \/ job[h].status = "RUNNING"
         \/ job[h].status = "PENDING"
         \/ job[h].status = "FAILED" /\ job[h].attempts = MaxAttempts
  BY <1>1, <1>2, HeldFacts
  DEF QueueInv, LeaseInv, WritersAreCurrent, OwnsLease, SessionsHoldAttempts,
      SessionState
<1>4. \A j \in Jobs : job'[j] = IF j = h THEN Unlock(job[h], s) ELSE job[j]
  BY <1>1, <1>2 DEF EndJob, SetJob
<1>5. Ledger!Becomes(h, s)
  BY <1>2, <1>4, UnlockType, LedgerBecomes
<1>6. CASE job[h].status = "RUNNING" /\ s = "PENDING"
  BY <1>2, <1>3, <1>5, <1>6 DEF Ledger!Next, Ledger!Retry
<1>7. CASE job[h].status = "RUNNING" /\ s # "PENDING"
  BY <1>2, <1>5, <1>7 DEF Ledger!Next, Ledger!Settle
<1>8. CASE job[h].status = "PENDING" /\ s = "PENDING"
  BY <1>2, <1>4, <1>8, UnlockType, LedgerStutter
<1>9. CASE /\ s # "PENDING"
           /\ \/ job[h].status = "PENDING"
              \/ job[h].status = "FAILED" /\ job[h].attempts = MaxAttempts
  BY <1>2, <1>3, <1>5, <1>9 DEF Ledger!Next, Ledger!LateSettle
<1>10. job[h].status = "FAILED" => s # "PENDING"
  BY <1>2, <1>3, QueueAssumption DEF JobRow
<1> QED
  BY <1>3, <1>6, <1>7, <1>8, <1>9, <1>10

LEMMA LedgerClaim ==
    ASSUME LeaseInv, NEW w \in Workers, Claim(w)
    PROVE  Ledger!Next
<1>1. PICK n \in Claimable :
        SetJob(n, [job[n] EXCEPT !.status = "RUNNING", !.lockedBy = w,
                                 !.age = 0, !.attempts = @ + 1])
  BY DEF Claim
<1>2. n \in Jobs /\ job \in [Jobs -> JobRow] /\ job[n] \in JobRow
      /\ job[n].status = "PENDING" /\ job[n].attempts < MaxAttempts
  BY DEF Claimable, LeaseInv, TypeOK
<1> DEFINE row == [job[n] EXCEPT !.status = "RUNNING", !.lockedBy = w,
                                 !.age = 0, !.attempts = @ + 1]
<1>3. row.status = "RUNNING" /\ row.attempts = job[n].attempts + 1
  BY <1>2 DEF JobRow
<1>4. \A j \in Jobs : job'[j] = IF j = n THEN row ELSE job[j]
  BY <1>1, <1>2 DEF SetJob
<1> HIDE DEF row
<1>5. [j \in Jobs |-> job'[j].status]
        = [[j \in Jobs |-> job[j].status] EXCEPT ![n] = "RUNNING"]
  BY <1>2, <1>3, <1>4
<1>6. [j \in Jobs |-> job'[j].attempts]
        = [[j \in Jobs |-> job[j].attempts] EXCEPT ![n] = @ + 1]
  BY <1>2, <1>3, <1>4
<1>7. Ledger!Attempt(n)
  BY <1>2, <1>5, <1>6 DEF Ledger!Attempt
<1> QED
  BY <1>2, <1>7 DEF Ledger!Next

LEMMA LedgerSubmit ==
    ASSUME LeaseInv, NEW n \in Jobs, NEW d, NEW t, NextSlot(n), SetJob(n, NewJob(d, t))
    PROVE  Ledger!Next
<1>1. \A j \in Jobs : job'[j] = IF j = n THEN NewJob(d, t) ELSE job[j]
  BY DEF LeaseInv, TypeOK, SetJob
<1>2. /\ NewJob(d, t).status = "PENDING"
      /\ NewJob(d, t).attempts = job[n].attempts
  BY DEF NewJob, NextSlot, LeaseInv, LeasesHaveOwners
<1>3. Ledger!Becomes(n, "PENDING")
  BY <1>1, <1>2, LedgerBecomes
<1> QED
  BY <1>3 DEF Ledger!Next, Ledger!Submit, NextSlot

LEMMA LedgerExpire ==
    ASSUME LeaseInv, NEW S, S \subseteq {j \in Jobs : Stale(j)},
           NEW lead, RecoverAll(S, lead)
    PROVE  Ledger!Next
<1>1. \A j \in S : /\ j \in Jobs /\ job[j] \in JobRow /\ job[j].status = "RUNNING"
                   /\ job[j].attempts > 0
  BY DEF Stale, LeaseInv, TypeOK, LeasesHaveOwners
<1>2. \A j \in Jobs : job'[j] = IF j \in S THEN Recovered(job[j]) ELSE job[j]
  BY DEF RecoverAll
<1>3. [j \in Jobs |-> job'[j].status] =
        [j \in Jobs |-> IF j \notin S THEN [i \in Jobs |-> job[i].status][j]
                        ELSE IF [i \in Jobs |-> job[i].attempts][j] < MaxAttempts
                        THEN "PENDING" ELSE "FAILED"]
  <2>1. ASSUME NEW j \in S
        PROVE  job'[j].status = IF job[j].attempts < MaxAttempts
                                THEN "PENDING" ELSE "FAILED"
    BY <1>1, <1>2, RecoveredType, QueueAssumption
  <2> QED
    BY <1>2, <2>1
<1>4. [j \in Jobs |-> job'[j].attempts] = [j \in Jobs |-> job[j].attempts]
  BY <1>1, <1>2, RecoveredType
<1>5. S \in SUBSET Jobs /\ Ledger!Expire(S)
  BY <1>1, <1>3, <1>4 DEF Ledger!Expire
<1> QED
  BY <1>5 DEF Ledger!Next

-----------------------------------------------------------------------------
(* Every step.                                                             *)

LEMMA LedgerWorker ==
    ASSUME QueueInv, NEW w \in Workers, WorkerStep(w) \/ Crash(w)
    PROVE  [Ledger!Next]_(Ledger!vars)
<1>1. LeaseInv
  BY DEF QueueInv
<1>2. CASE UNCHANGED job
  BY <1>2, LedgerStutter
<1>3. CASE WorkerRecover(w)
  BY <1>1, <1>2, <1>3, LedgerExpire DEF WorkerRecover
<1>4. CASE Claim(w)
  BY <1>1, <1>4, LedgerClaim
<1>5. CASE \/ WriteFinish(w) \/ WriteSkip(w) \/ WriteBlocked(w) \/ WriteClean(w)
           \/ CommitVerdict(w)
  <2>1. worker[w].pc \in {"write", "commit"}
    BY <1>5 DEF WriteFinish, WriteSkip, WriteBlocked, WriteClean, CommitVerdict,
                CanWrite
  <2>2. EndJob(w, "COMPLETED") \/ EndJob(w, "FAILED")
    BY <1>5 DEF WriteFinish, WriteSkip, WriteBlocked, WriteClean, CommitVerdict
  <2> QED
    BY <2>1, <2>2, LedgerEnd
<1>6. CASE WriteFail(w)
  <2>1. worker[w].pc = "write" /\ worker[w].token \in Nat
    BY <1>1, <1>6 DEF WriteFail, CanWrite, LeaseInv, TypeOK, SessionState
  <2>2. \/ EndJob(w, "FAILED")
        \/ EndJob(w, "PENDING") /\ worker[w].token < MaxAttempts
    BY <1>6, <2>1, QueueAssumption DEF WriteFail
  <2> QED
    BY <2>1, <2>2, LedgerEnd
<1>7. CASE \/ NothingToClaim(w) \/ RefuseNoAuthority(w) \/ RefuseQuarantined(w)
           \/ StartDeleted(w) \/ StartText(w) \/ StartIntelligence(w)
           \/ StartRescan(w) \/ Scan(w) \/ ScanRefused(w) \/ RunSucceeds(w)
           \/ RunFails(w) \/ FencePasses(w) \/ FenceFails(w) \/ WriteMark(w)
           \/ WriteVerdict(w) \/ Crash(w)
  BY <1>2, <1>7
  DEF NothingToClaim, RefuseNoAuthority, RefuseQuarantined, StartDeleted,
      StartText, StartIntelligence, StartRescan, Scan, ScanRefused, RunSucceeds,
      RunFails, FencePasses, FenceFails, WriteMark, WriteVerdict, Crash
<1> QED
  BY <1>3, <1>4, <1>5, <1>6, <1>7 DEF WorkerStep

LEMMA LedgerRequest ==
    ASSUME LeaseInv,
           \/ \E c \in Clients : ClientStep(c)
           \/ \E d \in Docs : DocStep(d)
    PROVE  [Ledger!Next]_(Ledger!vars)
<1>1. CASE UNCHANGED job
  BY <1>1, LedgerStutter
<1>2. ASSUME NEW c \in Clients, NEW d \in Docs, RetryRecover(c, d)
      PROVE  [Ledger!Next]_(Ledger!vars)
  <2>1. CASE \E j \in {i \in Jobs : Stale(i)} :
               RecoverAll({j}, [e \in Docs |-> IF e = d THEN j ELSE 0])
    <3>1. PICK j \in {i \in Jobs : Stale(i)} :
                 RecoverAll({j}, [e \in Docs |-> IF e = d THEN j ELSE 0])
      BY <2>1
    <3>2. {j} \subseteq {i \in Jobs : Stale(i)}
      BY <3>1
    <3> QED
      BY <3>1, <3>2, LedgerExpire
  <2> QED
    BY <1>1, <1>2, <2>1 DEF RetryRecover
<1>3. ASSUME NEW c \in Clients, EnqueueInsert(c)
      PROVE  [Ledger!Next]_(Ledger!vars)
  BY <1>3, LedgerSubmit DEF EnqueueInsert
<1>4. ASSUME NEW d \in Docs, NEW m, Upload(d, m)
      PROVE  [Ledger!Next]_(Ledger!vars)
  BY <1>4, LedgerSubmit DEF Upload
<1> QED
  BY <1>1, <1>2, <1>3, <1>4
  DEF ClientStep, DocStep, RequestRescan, RequestIntelligence, EnqueueCheck,
      Delete, RevokeRelease, RetryQuarantine, PurgeQuarantine

LEMMA LedgerTick ==
    ASSUME LeaseInv, Tick
    PROVE  UNCHANGED Ledger!vars
<1>1. \A j \in Jobs : job[j] \in JobRow /\ job'[j] = Ticked(job[j])
  BY DEF LeaseInv, TypeOK, Tick
<1> QED
  BY <1>1, TickedType, LedgerStutter

LEMMA LedgerStep ==
    ASSUME QueueInv, [Next]_vars
    PROVE  [Ledger!Next]_(Ledger!vars)
<1>1. CASE UNCHANGED vars
  BY <1>1, LedgerStutter DEF vars
<1>2. CASE Next
  BY <1>2, LedgerWorker, LedgerRequest, LedgerTick DEF Next, QueueInv
<1> QED
  BY <1>1, <1>2

-----------------------------------------------------------------------------
(* Theorems.                                                               *)

\* Seen from its rows the queue is an AttemptLedger: a job is attempted at
\* most MaxAttempts times and settled once, except that an outcome written in
\* the tick of its recovery is applied late (LateSettle).
THEOREM QueueKeepsLedger ==
    ASSUME ~PauseInFlush
    PROVE  Spec => LedgerSpec
<1>1. Init => Ledger!Init
  BY LedgerInit
<1>2. QueueInv /\ [Next]_vars => [Ledger!Next]_(Ledger!vars)
  BY LedgerStep
<1> QED
  BY <1>1, <1>2, QueueInvariant, PTL DEF Spec, LedgerSpec, Ledger!Spec

\* A ledger step never reopens a completed job, and revives a failed one only
\* to complete it.
LEMMA LedgerIsStable ==
    ASSUME LeaseInv, [Ledger!Next]_(Ledger!vars), NEW j \in Jobs
    PROVE  /\ job[j].status = "COMPLETED" => job'[j].status = "COMPLETED"
           /\ job[j].status = "FAILED" /\ job'[j].status # "FAILED" =>
                /\ job'[j].status = "COMPLETED"
                /\ job[j].attempts = MaxAttempts
<1> DEFINE st == [i \in Jobs |-> job[i].status]
           nx == [i \in Jobs |-> job'[i].status]
<1>1. st[j] = job[j].status /\ nx[j] = job'[j].status
  OBVIOUS
<1>2. CASE UNCHANGED Ledger!vars
  BY <1>1, <1>2 DEF Ledger!vars
<1>3. ASSUME NEW i \in Jobs, NEW s, Ledger!Becomes(i, s)
      PROVE  /\ j # i => job'[j].status = job[j].status
             /\ j = i => job'[j].status = s
  <2>1. nx = [st EXCEPT ![i] = s]
    BY <1>3 DEF Ledger!Becomes
  <2> QED
    BY <1>1, <2>1
<1>4. ASSUME NEW i \in Jobs,
             Ledger!Submit(i) \/ Ledger!Attempt(i) \/ Ledger!Retry(i)
      PROVE  job[j].status \in {"COMPLETED", "FAILED"} => job'[j].status = job[j].status
  <2>1. CASE Ledger!Attempt(i)
    <3>1. nx = [st EXCEPT ![i] = "RUNNING"] /\ st[i] = "PENDING"
      BY <2>1 DEF Ledger!Attempt
    <3> QED
      BY <1>1, <3>1
  <2>2. CASE Ledger!Submit(i) \/ Ledger!Retry(i)
    BY <1>1, <1>3, <2>2 DEF Ledger!Submit, Ledger!Retry
  <2> QED
    BY <1>4, <2>1, <2>2
<1>5. ASSUME NEW i \in Jobs, NEW s \in {"COMPLETED", "FAILED"},
             Ledger!Settle(i, s) \/ Ledger!LateSettle(i, s)
      PROVE  /\ job[j].status = "COMPLETED" => job'[j].status = "COMPLETED"
             /\ job[j].status = "FAILED" /\ job'[j].status # "FAILED" =>
                  /\ job'[j].status = "COMPLETED"
                  /\ job[j].attempts = MaxAttempts
  BY <1>1, <1>3, <1>5 DEF Ledger!Settle, Ledger!LateSettle
<1>6. ASSUME NEW S \in SUBSET Jobs, Ledger!Expire(S)
      PROVE  job[j].status \in {"COMPLETED", "FAILED"} => job'[j].status = job[j].status
  BY <1>1, <1>6 DEF Ledger!Expire
<1> QED
  BY <1>2, <1>4, <1>5, <1>6 DEF Ledger!Next

\* A completed job is never reopened; a failed one changes only to completed,
\* when the budget was spent (the last write of the session given up on).
THEOREM OutcomesAreStable ==
    ASSUME ~PauseInFlush
    PROVE  Spec => TerminalStable
<1> DEFINE A == \A j \in Jobs :
                  /\ job[j].status = "COMPLETED" => job'[j].status = "COMPLETED"
                  /\ job[j].status = "FAILED" /\ job'[j].status # "FAILED" =>
                       /\ job'[j].status = "COMPLETED"
                       /\ job[j].attempts = MaxAttempts
<1>1. QueueInv /\ [Next]_vars => A
  BY LedgerStep, LedgerIsStable DEF QueueInv
<1>2. QueueInv /\ [Next]_vars => [A]_vars
  BY <1>1
<1> HIDE DEF A
<1>3. Spec => [][A]_vars
  BY <1>2, QueueInvariant, PTL DEF Spec
<1> QED
  BY <1>3 DEF TerminalStable, A

-----------------------------------------------------------------------------
(***************************************************************************)
(* One worker.  A rescan looks at the document when it starts and writes   *)
(* its verdict much later; with one worker nobody else gives the document  *)
(* a verdict in between: an upload is before any job of the document, and  *)
(* a retry is about a document that has a verdict already.                 *)
(***************************************************************************)

\* A document that was not uploaded yet has no verdict, no job and no request.
DocsAppear ==
    /\ \A d \in Docs : doc[d].processing = "absent" => doc[d].malware = "LEGACY"
    /\ \A j \in Jobs : job[j].status # "absent" => doc[job[j].doc].processing # "absent"
    /\ \A c \in Clients :
         client[c].pc # "idle" => doc[client[c].doc].processing # "absent"

\* Who scans a document, or is about to write its verdict, has found none.
ScansLegacy ==
    \A w \in Workers :
        /\ worker[w].plan \in Verdicts => worker[w].pc \in {"fence", "write", "commit"}
        /\ worker[w].pc = "scan" \/ worker[w].plan \in Verdicts =>
             HeldDoc(w).malware = "LEGACY"

VerdictInv == LeaseInv /\ DocsAppear /\ ScansLegacy

\* A step keeps the verdicts and the documents there are, or the jobs.
Calm ==
    \A d \in Docs : /\ doc'[d].malware = doc[d].malware
                    /\ doc'[d].processing = "absent" <=> doc[d].processing = "absent"
JobsKept ==
    \A j \in Jobs : /\ job'[j].doc = job[j].doc
                    /\ job'[j].status # "absent" => job[j].status # "absent"

\* The step of a worker that may begin or end a scan but writes no verdict.
LEMMA CalmWorker ==
    ASSUME VerdictInv, NEW w \in Workers, NEW s, SetSession(w, s),
           Calm, JobsKept, UNCHANGED client,
           \/ s.pc # "scan" /\ s.plan \notin Verdicts
           \/ /\ worker[w].held # 0 /\ s.held = worker[w].held
              /\ HeldDoc(w).malware = "LEGACY"
              /\ s.plan \in Verdicts => s.pc \in {"fence", "write", "commit"}
    PROVE  DocsAppear' /\ ScansLegacy'
<1>1. /\ \A v \in Workers : worker'[v] = IF v = w THEN s ELSE worker[v]
      /\ \A v \in Workers : worker[v].held # 0 => /\ worker[v].held \in Jobs
                                                  /\ Held(v).doc \in Docs
  <2>1. \A v \in Workers : worker'[v] = IF v = w THEN s ELSE worker[v]
    BY DEF VerdictInv, LeaseInv, TypeOK, SetSession
  <2>2. \A v \in Workers : worker[v].held # 0 => worker[v].held \in Jobs
    BY QueueAssumption DEF VerdictInv, LeaseInv, TypeOK, SessionState, Jobs
  <2>3. \A v \in Workers : worker[v].held # 0 => Held(v).doc \in Docs
    BY <2>2 DEF VerdictInv, LeaseInv, RowsHaveDocs, SessionsHoldAttempts, Held
  <2> QED
    BY <2>1, <2>2, <2>3
<1>2. DocsAppear'
  <2>1. \A j \in Jobs : job[j].status # "absent" => job[j].doc \in Docs
    BY DEF VerdictInv, LeaseInv, RowsHaveDocs
  <2>2. \A c \in Clients : client[c].pc # "idle" => client[c].doc \in Docs
    BY DEF VerdictInv, LeaseInv, RowsHaveDocs
  <2> QED
    BY <2>1, <2>2 DEF VerdictInv, DocsAppear, Calm, JobsKept
<1>3. ASSUME NEW v \in Workers, worker[v].held # 0, worker'[v].held = worker[v].held,
             HeldDoc(v).malware = "LEGACY"
      PROVE  HeldDoc(v)'.malware = "LEGACY"
  BY <1>1, <1>3 DEF Calm, JobsKept, HeldDoc, Held
<1>4. \A v \in Workers : worker[v].pc = "scan" \/ worker[v].plan \in Verdicts =>
                           worker[v].held # 0
  BY DEF VerdictInv, LeaseInv, SessionsHoldAttempts, ScansLegacy
<1>5. ScansLegacy'
  <2> SUFFICES ASSUME NEW v \in Workers
               PROVE  /\ worker'[v].plan \in Verdicts =>
                            worker'[v].pc \in {"fence", "write", "commit"}
                      /\ worker'[v].pc = "scan" \/ worker'[v].plan \in Verdicts =>
                            HeldDoc(v)'.malware = "LEGACY"
    BY DEF ScansLegacy
  <2>1. CASE v = w
    BY <1>1, <1>3, <2>1
  <2>2. CASE v # w
    <3>1. worker'[v] = worker[v]
      BY <1>1, <2>2
    <3> QED
      BY <1>3, <1>4, <3>1 DEF VerdictInv, ScansLegacy
  <2> QED
    BY <2>1, <2>2
<1> QED
  BY <1>2, <1>5

LEMMA RecoveryIsCalm ==
    ASSUME LeaseInv, NEW S, S \subseteq {j \in Jobs : Stale(j)}, NEW lead,
           RecoverAll(S, lead)
    PROVE  Calm /\ JobsKept
<1>1. \A j \in S : j \in Jobs /\ job[j] \in JobRow /\ job[j].status = "RUNNING"
                   /\ job[j].attempts > 0
  BY DEF LeaseInv, Stale, TypeOK, LeasesHaveOwners
<1>2. \A j \in Jobs : job'[j] = IF j \in S THEN Recovered(job[j]) ELSE job[j]
  BY DEF RecoverAll
<1>3. JobsKept
  BY <1>1, <1>2, RecoveredType DEF JobsKept
<1>4. ASSUME NEW d \in Docs
      PROVE  /\ doc'[d].malware = doc[d].malware
             /\ doc'[d].processing = "absent" <=> doc[d].processing = "absent"
  <2>1. doc[d] \in DocRow
    BY DEF LeaseInv, TypeOK
  <2>2. \/ doc'[d] = doc[d]
        \/ /\ doc[d].processing = "PROCESSING"
           /\ \E s \in {"FAILED", "UPLOADED"} : doc'[d] = [doc[d] EXCEPT !.processing = s]
    BY DEF RecoverAll
  <2> QED
    BY <2>1, <2>2 DEF DocRow
<1> QED
  BY <1>3, <1>4 DEF Calm

\* A worker writes to the document of its job, which is there.
LEMMA HeldDocIsThere ==
    ASSUME VerdictInv, NEW w \in Workers, worker[w].pc \notin {"recover", "claim"}
    PROVE  /\ HeldDoc(w) \in DocRow /\ Held(w).doc \in Docs
           /\ doc \in [Docs -> DocRow]
           /\ HeldDoc(w).processing # "absent"
<1>1. /\ HeldDoc(w) \in DocRow /\ Held(w).doc \in Docs /\ worker[w].held \in Jobs
      /\ worker[w].held # 0
  BY HeldFacts DEF VerdictInv
<1>2. Held(w).status # "absent" /\ doc \in [Docs -> DocRow]
  BY <1>1 DEF VerdictInv, LeaseInv, TypeOK, SessionsHoldAttempts
<1> QED
  BY <1>1, <1>2 DEF VerdictInv, DocsAppear, HeldDoc, Held

LEMMA WritesAreCalm ==
    ASSUME VerdictInv, NEW w \in Workers, worker[w].pc \notin {"recover", "claim"},
           NEW row, SetDoc(Held(w).doc, row), row.malware = HeldDoc(w).malware,
           row.processing # "absent"
    PROVE  Calm
<1>1. \A d \in Docs : doc'[d] = IF d = Held(w).doc THEN row ELSE doc[d]
  BY HeldDocIsThere DEF SetDoc
<1> QED
  BY <1>1, HeldDocIsThere DEF Calm, HeldDoc

LEMMA EndKeepsJobs ==
    ASSUME VerdictInv, NEW w \in Workers, worker[w].pc \notin {"recover", "claim"},
           NEW s \in {"PENDING", "COMPLETED", "FAILED"}, EndJob(w, s)
    PROVE  JobsKept
<1> DEFINE h == worker[w].held
<1>1. h \in Jobs /\ job[h] \in JobRow /\ job[h].status # "absent" /\ h # 0
  BY HeldFacts DEF VerdictInv, LeaseInv, SessionsHoldAttempts, Held
<1>2. \A j \in Jobs : job'[j] = IF j = h THEN Unlock(job[h], s) ELSE job[j]
  BY <1>1 DEF EndJob, SetJob, Held, VerdictInv, LeaseInv, TypeOK
<1> QED
  BY <1>1, <1>2, UnlockType DEF JobsKept


\* A verdict that was given stays.
VerdictsKept ==
    \A d \in Docs : doc[d].malware \in {"INFECTED", "CLEAN"} =>
                        doc'[d].malware = doc[d].malware

LEMMA InitVerdict == Init => VerdictInv
<1> SUFFICES ASSUME Init PROVE VerdictInv
  OBVIOUS
<1>1. LeaseInv
  BY InitLease DEF QueueInv
<1>2. DocsAppear
  BY DEF Init, DocsAppear, NewDoc, NoRequest
<1>3. ScansLegacy
  BY DEF Init, ScansLegacy, NewSession, Verdicts, Blocked
<1> QED
  BY <1>1, <1>2, <1>3 DEF VerdictInv

\* A step of nobody's session leaves those alone that scan.
LEMMA IdleScans ==
    ASSUME VerdictInv, UNCHANGED worker,
           \A j \in Jobs : job[j].status # "absent" => job'[j].doc = job[j].doc,
           \A d \in Docs : doc[d].processing # "absent" /\ doc[d].malware = "LEGACY"
                           => doc'[d].malware = "LEGACY"
    PROVE  ScansLegacy'
<1> SUFFICES ASSUME NEW v \in Workers,
                    worker[v].pc = "scan" \/ worker[v].plan \in Verdicts
             PROVE  HeldDoc(v)'.malware = "LEGACY"
  BY DEF VerdictInv, ScansLegacy
<1>1. worker[v].pc \notin {"recover", "claim"} /\ HeldDoc(v).malware = "LEGACY"
  BY DEF VerdictInv, ScansLegacy
<1>2. worker[v].held \in Jobs /\ Held(v).status # "absent"
  BY <1>1, HeldFacts DEF VerdictInv, LeaseInv, SessionsHoldAttempts
<1>3. Held(v).doc \in Docs /\ HeldDoc(v).processing # "absent"
  BY <1>1, HeldDocIsThere
<1>4. Held(v)'.doc = Held(v).doc
  BY <1>2 DEF Held
<1> QED
  BY <1>1, <1>3, <1>4 DEF HeldDoc

\* New rows and requests are about documents that are there.
LEMMA Appears ==
    ASSUME VerdictInv,
           \A d \in Docs : doc'[d].processing = "absent" =>
              doc[d].processing = "absent" /\ doc'[d].malware = doc[d].malware,
           \A j \in Jobs : job'[j].status # "absent" =>
              \/ job[j].status # "absent" /\ job'[j].doc = job[j].doc
              \/ job'[j].doc \in Docs /\ doc'[job'[j].doc].processing # "absent",
           \A c \in Clients : client'[c].pc # "idle" =>
              \/ client'[c] = client[c]
              \/ client'[c].doc \in Docs /\ doc'[client'[c].doc].processing # "absent"
    PROVE  DocsAppear'
<1>1. \A j \in Jobs : job[j].status # "absent" => job[j].doc \in Docs
  BY DEF VerdictInv, LeaseInv, RowsHaveDocs
<1>2. \A c \in Clients : client[c].pc # "idle" => client[c].doc \in Docs
  BY DEF VerdictInv, LeaseInv, RowsHaveDocs
<1>3. \A d \in Docs : doc'[d].processing = "absent" => doc'[d].malware = "LEGACY"
  BY DEF VerdictInv, DocsAppear
<1>4. \A j \in Jobs : job'[j].status # "absent" => doc'[job'[j].doc].processing # "absent"
  BY <1>1 DEF VerdictInv, DocsAppear
<1>5. \A c \in Clients :
         client'[c].pc # "idle" => doc'[client'[c].doc].processing # "absent"
  BY <1>2 DEF VerdictInv, DocsAppear
<1> QED
  BY <1>3, <1>4, <1>5 DEF DocsAppear

-----------------------------------------------------------------------------
(* The steps of the worker.                                                *)

\* The step that writes a verdict: the document had none, and nobody else is
\* scanning it.
LEMMA VerdictStep ==
    ASSUME VerdictInv, \A v, u \in Workers : v = u, NEW w \in Workers,
           worker[w].pc \in {"write", "commit"}, worker[w].plan \in Verdicts,
           EndJob(w, "COMPLETED"),
           NEW row, SetDoc(Held(w).doc, row),
           row.processing = HeldDoc(w).processing
    PROVE  DocsAppear' /\ ScansLegacy' /\ VerdictsKept
<1>1. /\ HeldDoc(w).malware = "LEGACY"
      /\ worker[w].pc \notin {"recover", "claim"}
  BY DEF VerdictInv, ScansLegacy
<1>2. /\ Held(w).doc \in Docs /\ HeldDoc(w).processing # "absent"
      /\ \A d \in Docs : doc'[d] = IF d = Held(w).doc THEN row ELSE doc[d]
  BY <1>1, HeldDocIsThere DEF SetDoc
<1>3. JobsKept /\ UNCHANGED client
  BY <1>1, EndKeepsJobs DEF EndJob
<1>4. DocsAppear'
  BY <1>2, <1>3, Appears DEF JobsKept, HeldDoc
<1>5. \A v \in Workers : worker'[v] = NewSession
  BY DEF EndJob, SetSession, VerdictInv, LeaseInv, TypeOK
<1>6. ScansLegacy'
  BY <1>5 DEF ScansLegacy, NewSession, Verdicts, Blocked
<1>7. VerdictsKept
  BY <1>1, <1>2 DEF VerdictsKept, HeldDoc
<1> QED
  BY <1>4, <1>6, <1>7

LEMMA CalmKeepsVerdicts == Calm => VerdictsKept
  BY DEF Calm, VerdictsKept

LEMMA QuietIsCalm ==
    /\ UNCHANGED doc => Calm
    /\ UNCHANGED job => JobsKept
  BY DEF Calm, JobsKept

\* A session that decides, or gives up, keeps no scan open.
LEMMA FreshCalm ==
    ASSUME VerdictInv, NEW w \in Workers, SetSession(w, NewSession),
           Calm, JobsKept, UNCHANGED client
    PROVE  DocsAppear' /\ ScansLegacy' /\ VerdictsKept
<1>1. NewSession.pc # "scan" /\ NewSession.plan \notin Verdicts
  BY DEF NewSession, Verdicts, Blocked
<1> QED
  BY <1>1, CalmWorker, CalmKeepsVerdicts

LEMMA DecideCalm ==
    ASSUME VerdictInv, NEW w \in Workers, worker[w].pc \notin {"recover", "claim"},
           NEW p \in Plans \ Verdicts, Decide(w, p), UNCHANGED <<job, doc, client>>
    PROVE  DocsAppear' /\ ScansLegacy' /\ VerdictsKept
<1> DEFINE s == Decided(w, p)
<1>1. s.pc # "scan" /\ s.plan \notin Verdicts
  BY HeldFacts DEF VerdictInv, Decided, SessionState
<1>2. SetSession(w, s)
  BY DEF Decide
<1> HIDE DEF s
<1> QED
  BY <1>1, <1>2, QuietIsCalm, CalmWorker, CalmKeepsVerdicts

\* A session that goes on: to a scan only of a document without a verdict.
LEMMA ProceedCalm ==
    ASSUME VerdictInv, NEW w \in Workers, worker[w].pc \notin {"recover", "claim"},
           NEW next \in {"scan", "run", "fence", "write", "commit"}, Proceed(w, next),
           next = "scan" => HeldDoc(w).malware = "LEGACY",
           worker[w].plan \in Verdicts => next \in {"write", "commit"},
           UNCHANGED <<job, doc, client>>
    PROVE  DocsAppear' /\ ScansLegacy' /\ VerdictsKept
<1> DEFINE s == [worker[w] EXCEPT !.pc = next]
<1>1. s.pc = next /\ s.plan = worker[w].plan /\ s.held = worker[w].held
      /\ worker[w].held # 0
  BY HeldFacts DEF VerdictInv, SessionState
<1>2. SetSession(w, s)
  BY DEF Proceed
<1> HIDE DEF s
<1>3. CASE next = "scan" \/ worker[w].plan \in Verdicts
  <2>1. HeldDoc(w).malware = "LEGACY"
    BY <1>3 DEF VerdictInv, ScansLegacy
  <2>2. s.plan \in Verdicts => s.pc \in {"fence", "write", "commit"}
    BY <1>1
  <2> QED
    BY <1>1, <1>2, <2>1, <2>2, QuietIsCalm, CalmWorker, CalmKeepsVerdicts
<1>4. CASE next # "scan" /\ worker[w].plan \notin Verdicts
  BY <1>1, <1>2, <1>4, QuietIsCalm, CalmWorker, CalmKeepsVerdicts
<1> QED
  BY <1>3, <1>4

\* A session whose outcome is no verdict ends.
LEMMA EndCalm ==
    ASSUME VerdictInv, NEW w \in Workers, worker[w].pc \notin {"recover", "claim"},
           NEW s \in {"PENDING", "COMPLETED", "FAILED"}, EndJob(w, s), Calm
    PROVE  DocsAppear' /\ ScansLegacy' /\ VerdictsKept
<1>1. SetSession(w, NewSession) /\ UNCHANGED client
  BY DEF EndJob
<1> QED
  BY <1>1, EndKeepsJobs, FreshCalm

LEMMA SetProcessingCalm ==
    ASSUME VerdictInv, NEW w \in Workers, worker[w].pc \notin {"recover", "claim"},
           NEW s \in Processing \ {"absent"}, SetProcessing(w, s)
    PROVE  Calm
<1> DEFINE row == [HeldDoc(w) EXCEPT !.processing = s]
<1>1. row.malware = HeldDoc(w).malware /\ row.processing = s
  BY HeldDocIsThere DEF DocRow
<1>2. UNCHANGED doc \/ SetDoc(Held(w).doc, row)
  BY DEF SetProcessing
<1> HIDE DEF row
<1> QED
  BY <1>1, <1>2, WritesAreCalm, QuietIsCalm

LEMMA VerdictWorker ==
    ASSUME VerdictInv, \A v, u \in Workers : v = u, NEW w \in Workers,
           WorkerStep(w) \/ Crash(w)
    PROVE  DocsAppear' /\ ScansLegacy' /\ VerdictsKept
<1>1. worker[w] \in SessionState /\ LeaseInv
  BY DEF VerdictInv, LeaseInv, TypeOK
<1>2. CASE WorkerRecover(w)
  <2> DEFINE s == [worker[w] EXCEPT !.pc = "claim"]
  <2>1. s.pc = "claim" /\ s.plan = worker[w].plan /\ worker[w].pc = "recover"
    BY <1>1, <1>2 DEF WorkerRecover, SessionState
  <2>2. SetSession(w, s) /\ UNCHANGED client
    BY <1>2 DEF WorkerRecover, Proceed
  <2> HIDE DEF s
  <2>3. s.plan \notin Verdicts
    BY <2>1 DEF VerdictInv, ScansLegacy
  <2>4. Calm /\ JobsKept
    BY <1>1, <1>2, QuietIsCalm, RecoveryIsCalm DEF WorkerRecover
  <2> QED
    BY <2>1, <2>2, <2>3, <2>4, CalmWorker, CalmKeepsVerdicts
<1>3. CASE Claim(w)
  <2>1. PICK n \in Claimable :
          /\ SetJob(n, [job[n] EXCEPT !.status = "RUNNING", !.lockedBy = w,
                                      !.age = 0, !.attempts = @ + 1])
          /\ SetSession(w, [NewSession EXCEPT !.pc = "begin", !.held = n,
                                              !.token = job[n].attempts + 1])
    BY <1>3 DEF Claim
  <2> DEFINE row == [job[n] EXCEPT !.status = "RUNNING", !.lockedBy = w,
                                   !.age = 0, !.attempts = @ + 1]
             s == [NewSession EXCEPT !.pc = "begin", !.held = n,
                                     !.token = job[n].attempts + 1]
  <2>2. n \in Jobs /\ job[n] \in JobRow /\ job[n].status = "PENDING"
    BY <1>1 DEF Claimable, LeaseInv, TypeOK
  <2>3. row.doc = job[n].doc
    BY <2>2 DEF JobRow
  <2>4. s.pc # "scan" /\ s.plan \notin Verdicts
    BY DEF NewSession, Verdicts, Blocked
  <2> HIDE DEF row, s
  <2>5. \A j \in Jobs : job'[j] = IF j = n THEN row ELSE job[j]
    BY <1>1, <2>1 DEF LeaseInv, TypeOK, SetJob, row
  <2>6. JobsKept
    BY <2>2, <2>3, <2>5 DEF JobsKept
  <2>7. SetSession(w, s) /\ Calm /\ UNCHANGED client
    BY <1>3, <2>1, QuietIsCalm DEF Claim, s
  <2> QED
    BY <2>4, <2>6, <2>7, CalmWorker, CalmKeepsVerdicts
<1>4. CASE NothingToClaim(w) \/ FenceFails(w) \/ Crash(w)
  BY <1>4, QuietIsCalm, FreshCalm DEF NothingToClaim, FenceFails, Crash
<1>5. CASE RefuseNoAuthority(w) \/ RefuseQuarantined(w) \/ StartDeleted(w)
           \/ StartText(w) \/ ScanRefused(w) \/ RunFails(w)
  <2>1. \E p \in Plans \ Verdicts : Decide(w, p)
    BY <1>5 DEF RefuseNoAuthority, RefuseQuarantined, StartDeleted, StartText,
                ScanRefused, RunFails, Plans, Verdicts, Blocked
  <2>2. worker[w].pc \notin {"recover", "claim"} /\ UNCHANGED <<job, doc, client>>
    BY <1>5 DEF RefuseNoAuthority, RefuseQuarantined, StartDeleted, StartText,
                ScanRefused, RunFails, Starts
  <2> QED
    BY <2>1, <2>2, DecideCalm
<1>6. CASE StartIntelligence(w)
  <2>1. /\ worker[w].pc = "begin" /\ Proceed(w, "run")
        /\ UNCHANGED <<job, doc, client>>
    BY <1>6 DEF StartIntelligence, Starts
  <2>2. worker[w].plan \notin Verdicts
    BY <2>1 DEF VerdictInv, ScansLegacy
  <2> QED
    BY <2>1, <2>2, ProceedCalm
<1>7. CASE StartRescan(w)
  <2>1. worker[w].pc = "begin" /\ UNCHANGED <<job, doc, client>>
    BY <1>7 DEF StartRescan, Starts
  <2>2. worker[w].plan \notin Verdicts
    BY <2>1 DEF VerdictInv, ScansLegacy
  <2>3. CASE HeldDoc(w).malware = "LEGACY" /\ Proceed(w, "scan")
    BY <2>1, <2>2, <2>3, ProceedCalm
  <2>4. CASE Decide(w, "skip")
    BY <2>1, <2>4, DecideCalm DEF Plans, Verdicts, Blocked
  <2> QED
    BY <1>7, <2>3, <2>4 DEF StartRescan
<1>8. CASE Scan(w)
  <2>1. worker[w].pc = "scan" /\ UNCHANGED <<job, client>>
    BY <1>8 DEF Scan
  <2>2. HeldDoc(w).malware = "LEGACY" /\ worker[w].held # 0 /\ HeldDoc(w) \in DocRow
        /\ HeldDoc(w).processing # "absent"
    BY <1>1, <2>1, HeldFacts, HeldDocIsThere DEF VerdictInv, ScansLegacy
  <2>3. PICK v \in Verdicts, place \in Places :
          /\ SetSession(w, [Decided(w, v) EXCEPT !.key = place])
          /\ IF place = "quarantine"
             THEN SetDoc(Held(w).doc, [HeldDoc(w) EXCEPT !.bytes = place])
             ELSE UNCHANGED doc
    BY <1>8 DEF Scan
  <2> DEFINE s == [Decided(w, v) EXCEPT !.key = place]
             row == [HeldDoc(w) EXCEPT !.bytes = place]
  <2>4. Decided(w, v) \in SessionState /\ Decided(w, v).pc = "fence"
        /\ Decided(w, v).held = worker[w].held
    BY <1>1, <2>1, DecidedType DEF Plans
  <2>5. s.pc = "fence" /\ s.held = worker[w].held
    BY <2>4 DEF SessionState
  <2>6. row.malware = HeldDoc(w).malware /\ row.processing = HeldDoc(w).processing
    BY <2>2 DEF DocRow
  <2> HIDE DEF s, row
  <2>7. SetSession(w, s) /\ (UNCHANGED doc \/ SetDoc(Held(w).doc, row))
    BY <2>3 DEF s, row
  <2>8. worker[w].pc \notin {"recover", "claim"} /\ row.processing # "absent"
    BY <2>1, <2>2, <2>6
  <2>9. Calm
    <3>1. CASE SetDoc(Held(w).doc, row)
      BY <2>6, <2>8, <3>1, WritesAreCalm
    <3>2. CASE UNCHANGED doc
      BY <3>2, QuietIsCalm
    <3> QED
      BY <2>7, <3>1, <3>2
  <2> QED
    BY <2>1, <2>2, <2>5, <2>7, <2>9, QuietIsCalm, CalmWorker, CalmKeepsVerdicts
<1>9. CASE RunSucceeds(w)
  <2> DEFINE s == [worker[w] EXCEPT !.pc = "fence", !.plan = "finish"]
  <2>1. s.pc # "scan" /\ s.plan \notin Verdicts
    BY <1>1 DEF SessionState, Verdicts, Blocked
  <2>2. SetSession(w, s) /\ UNCHANGED <<job, doc, client>>
    BY <1>9 DEF RunSucceeds
  <2> HIDE DEF s
  <2> QED
    BY <2>1, <2>2, QuietIsCalm, CalmWorker, CalmKeepsVerdicts
<1>10. CASE FencePasses(w)
  <2>1. worker[w].pc = "fence" /\ Proceed(w, "write") /\ UNCHANGED <<job, doc, client>>
    BY <1>10 DEF FencePasses
  <2> QED
    BY <2>1, ProceedCalm
<1>11. CASE WriteMark(w)
  <2> DEFINE s == [worker[w] EXCEPT !.pc = "run", !.seen = "PROCESSING"]
  <2>1. s.pc = "run" /\ s.plan = worker[w].plan
    BY <1>1 DEF SessionState
  <2>2. SetSession(w, s) /\ worker[w].pc = "write" /\ worker[w].plan = "mark"
        /\ UNCHANGED <<job, client>>
    BY <1>11 DEF WriteMark, CanWrite
  <2> HIDE DEF s
  <2>3. Calm
    BY <1>11, <2>2, SetProcessingCalm DEF WriteMark, Processing
  <2>4. s.pc # "scan" /\ s.plan \notin Verdicts
    BY <2>1, <2>2 DEF Verdicts, Blocked
  <2> QED
    BY <2>2, <2>3, <2>4, QuietIsCalm, CalmWorker, CalmKeepsVerdicts
<1>12. CASE WriteFinish(w)
  <2> DEFINE row == [HeldDoc(w) EXCEPT !.processing = "PROCESSED", !.extracted = TRUE]
  <2>1. worker[w].pc = "write" /\ EndJob(w, "COMPLETED")
    BY <1>12 DEF WriteFinish, CanWrite
  <2>2. row.malware = HeldDoc(w).malware /\ row.processing = "PROCESSED"
    BY <2>1, HeldDocIsThere DEF DocRow
  <2>3. UNCHANGED doc \/ SetDoc(Held(w).doc, row)
    BY <1>12 DEF WriteFinish
  <2> HIDE DEF row
  <2>4. Calm
    BY <2>1, <2>2, <2>3, WritesAreCalm, QuietIsCalm
  <2> QED
    BY <2>1, <2>4, EndCalm
<1>13. CASE WriteFail(w) \/ WriteSkip(w) \/ WriteBlocked(w)
  <2>1. worker[w].pc = "write"
    BY <1>13 DEF WriteFail, WriteSkip, WriteBlocked, CanWrite
  <2>2. \E s \in {"PENDING", "COMPLETED", "FAILED"} : EndJob(w, s)
    BY <1>13 DEF WriteFail, WriteSkip, WriteBlocked
  <2>3. \/ UNCHANGED doc
        \/ SetProcessing(w, "FAILED")
        \/ SetProcessing(w, "UPLOADED")
    BY <1>13 DEF WriteFail, WriteSkip, WriteBlocked
  <2>4. Calm
    BY <2>1, <2>3, SetProcessingCalm, QuietIsCalm DEF Processing
  <2> QED
    BY <2>1, <2>2, <2>4, EndCalm
<1>14. CASE WriteClean(w)
  <2> DEFINE row == [HeldDoc(w) EXCEPT !.malware = "CLEAN"]
  <2>1. worker[w].pc = "write" /\ worker[w].plan = "CLEAN" /\ EndJob(w, "COMPLETED")
    BY <1>14 DEF WriteClean, CanWrite
  <2>2. SetDoc(Held(w).doc, row)
    BY <1>14 DEF WriteClean
  <2>3. row.processing = HeldDoc(w).processing
    BY <2>1, HeldDocIsThere DEF DocRow
  <2>4. worker[w].plan \in Verdicts
    BY <2>1 DEF Verdicts
  <2> HIDE DEF row
  <2> QED
    BY <2>1, <2>2, <2>3, <2>4, VerdictStep
<1>15. CASE WriteVerdict(w)
  <2>1. worker[w].pc = "write" /\ UNCHANGED <<job, doc, client>>
    BY <1>15 DEF WriteVerdict, CanWrite
  <2>2. CASE Proceed(w, "commit")
    BY <2>1, <2>2, ProceedCalm
  <2>3. CASE Decide(w, "fail")
    BY <2>1, <2>3, DecideCalm DEF Plans, Verdicts, Blocked
  <2> QED
    BY <1>15, <2>2, <2>3 DEF WriteVerdict
<1>16. CASE CommitVerdict(w)
  <2> DEFINE row == [HeldDoc(w) EXCEPT !.malware = worker[w].plan,
                                       !.key = worker[w].key]
  <2>1. worker[w].pc = "commit" /\ EndJob(w, "COMPLETED")
    BY <1>16 DEF CommitVerdict
  <2>2. SetDoc(Held(w).doc, row)
    BY <1>16 DEF CommitVerdict
  <2>3. row.processing = HeldDoc(w).processing
    BY <2>1, HeldDocIsThere DEF DocRow
  <2>4. worker[w].plan \in Verdicts
    BY <1>1, <2>1 DEF LeaseInv, OnlyVerdictsWait, Verdicts
  <2> HIDE DEF row
  <2> QED
    BY <2>1, <2>2, <2>3, <2>4, VerdictStep
<1> QED
  BY <1>2, <1>3, <1>4, <1>5, <1>6, <1>7, <1>8, <1>9, <1>10, <1>11, <1>12,
     <1>13, <1>14, <1>15, <1>16
  DEF WorkerStep

-----------------------------------------------------------------------------
(* The steps of requests, documents and the clock.                         *)

LEMMA VerdictClient ==
    ASSUME VerdictInv, NEW c \in Clients, ClientStep(c)
    PROVE  DocsAppear' /\ ScansLegacy' /\ VerdictsKept
<1>1. LeaseInv /\ client \in [Clients -> Request]
      /\ (\A b \in Clients : client[b].pc # "idle" => client[b].doc \in Docs)
      /\ (\A b \in Clients :
            client[b].pc # "idle" => doc[client[b].doc].processing # "absent")
  BY DEF VerdictInv, LeaseInv, TypeOK, RowsHaveDocs, DocsAppear
<1>2. ASSUME NEW r, SetRequest(c, r), UNCHANGED worker, Calm, JobsKept,
             \A j \in Jobs : job[j].status # "absent" => job'[j].doc = job[j].doc,
             r.pc # "idle" => r.doc \in Docs /\ doc[r.doc].processing # "absent"
      PROVE  DocsAppear' /\ ScansLegacy' /\ VerdictsKept
  <2>1. \A b \in Clients : client'[b] = IF b = c THEN r ELSE client[b]
    BY <1>1, <1>2 DEF SetRequest
  <2>2. \A b \in Clients : client'[b].pc # "idle" =>
          \/ client'[b] = client[b]
          \/ client'[b].doc \in Docs /\ doc'[client'[b].doc].processing # "absent"
    BY <1>2, <2>1 DEF Calm
  <2>3. DocsAppear'
    BY <1>2, <2>2, Appears DEF Calm, JobsKept
  <2>4. ScansLegacy'
    BY <1>2, IdleScans DEF Calm
  <2> QED
    BY <1>2, <2>3, <2>4, CalmKeepsVerdicts
<1>3. ASSUME NEW d \in Docs, RetryRecover(c, d)
      PROVE  DocsAppear' /\ ScansLegacy' /\ VerdictsKept
  <2> DEFINE r == [pc |-> "check", doc |-> d, type |-> "TEXT"]
  <2>1. SetRequest(c, r) /\ UNCHANGED worker /\ r.doc = d
        /\ doc[d].processing # "absent"
    BY <1>3 DEF RetryRecover, Visible
  <2> HIDE DEF r
  <2>2. CASE UNCHANGED <<job, doc>>
    BY <1>2, <2>1, <2>2, QuietIsCalm
  <2>3. CASE \E j \in {i \in Jobs : Stale(i)} :
               RecoverAll({j}, [e \in Docs |-> IF e = d THEN j ELSE 0])
    <3>1. PICK j \in {i \in Jobs : Stale(i)} :
                 RecoverAll({j}, [e \in Docs |-> IF e = d THEN j ELSE 0])
      BY <2>3
    <3>2. {j} \subseteq {i \in Jobs : Stale(i)}
      BY <3>1
    <3>3. Calm /\ JobsKept
      BY <1>1, <3>1, <3>2, RecoveryIsCalm
    <3> QED
      BY <1>2, <2>1, <3>3 DEF JobsKept
  <2> QED
    BY <1>3, <2>2, <2>3 DEF RetryRecover
<1>4. ASSUME NEW d \in Docs, RequestRescan(c, d) \/ RequestIntelligence(c, d)
      PROVE  DocsAppear' /\ ScansLegacy' /\ VerdictsKept
  <2>1. \E t \in Types : SetRequest(c, [pc |-> "check", doc |-> d, type |-> t])
    BY <1>4 DEF RequestRescan, RequestIntelligence, Types
  <2>2. PICK t \in Types : SetRequest(c, [pc |-> "check", doc |-> d, type |-> t])
    BY <2>1
  <2> DEFINE r == [pc |-> "check", doc |-> d, type |-> t]
  <2>3. SetRequest(c, r) /\ r.doc = d
    BY <2>2
  <2>4. UNCHANGED <<job, doc, worker>> /\ doc[d].processing # "absent"
    BY <1>4 DEF RequestRescan, RequestIntelligence, Visible
  <2> HIDE DEF r
  <2> QED
    BY <1>2, <2>3, <2>4, QuietIsCalm
<1>5. CASE EnqueueCheck(c)
  <2> DEFINE r == [client[c] EXCEPT !.pc = "insert"]
  <2>1. r.doc = client[c].doc
    BY <1>1 DEF Request
  <2>2. /\ client[c].doc \in Docs /\ doc[client[c].doc].processing # "absent"
        /\ UNCHANGED <<job, doc, worker>>
    BY <1>1, <1>5 DEF EnqueueCheck
  <2>3. SetRequest(c, NoRequest) \/ SetRequest(c, r)
    BY <1>5 DEF EnqueueCheck
  <2>4. NoRequest.pc = "idle"
    BY DEF NoRequest
  <2> HIDE DEF r
  <2>5. CASE SetRequest(c, NoRequest)
    BY <1>2, <2>2, <2>4, <2>5, QuietIsCalm
  <2>6. CASE SetRequest(c, r)
    BY <1>2, <2>1, <2>2, <2>6, QuietIsCalm
  <2> QED
    BY <2>3, <2>5, <2>6
<1>6. CASE EnqueueInsert(c)
  <2>1. /\ client[c].doc \in Docs /\ doc[client[c].doc].processing # "absent"
        /\ SetRequest(c, NoRequest) /\ UNCHANGED <<doc, worker>>
    BY <1>1, <1>6 DEF EnqueueInsert
  <2>2. PICK n \in Jobs : NextSlot(n) /\ SetJob(n, NewJob(client[c].doc, client[c].type))
    BY <1>6 DEF EnqueueInsert
  <2>3. \A j \in Jobs : job'[j] = IF j = n THEN NewJob(client[c].doc, client[c].type)
                                  ELSE job[j]
    BY <1>1, <2>2 DEF LeaseInv, TypeOK, SetJob
  <2>4. NewJob(client[c].doc, client[c].type).doc = client[c].doc
    BY DEF NewJob
  <2>5. \A b \in Clients : client'[b].pc # "idle" => client'[b] = client[b]
    BY <1>1, <2>1 DEF SetRequest, NoRequest
  <2>6. DocsAppear'
    BY <2>1, <2>3, <2>4, <2>5, Appears
  <2>7. \A j \in Jobs : job[j].status # "absent" => job'[j].doc = job[j].doc
    BY <2>2, <2>3 DEF NextSlot
  <2>8. ScansLegacy'
    BY <2>1, <2>7, IdleScans
  <2> QED
    BY <2>1, <2>6, <2>8, QuietIsCalm, CalmKeepsVerdicts
<1> QED
  BY <1>3, <1>4, <1>5, <1>6 DEF ClientStep

LEMMA VerdictDoc ==
    ASSUME VerdictInv, NEW d \in Docs, DocStep(d)
    PROVE  DocsAppear' /\ ScansLegacy' /\ VerdictsKept
<1>1. doc \in [Docs -> DocRow] /\ doc[d] \in DocRow /\ job \in [Jobs -> JobRow]
  BY DEF VerdictInv, LeaseInv, TypeOK
<1>2. UNCHANGED <<worker, client>>
  BY DEF DocStep, Upload, Delete, RevokeRelease, RetryQuarantine, PurgeQuarantine
<1>3. ASSUME NEW row, SetDoc(d, row), UNCHANGED job, row.malware = doc[d].malware,
             row.processing = doc[d].processing
      PROVE  DocsAppear' /\ ScansLegacy' /\ VerdictsKept
  <2>1. \A e \in Docs : doc'[e] = IF e = d THEN row ELSE doc[e]
    BY <1>1, <1>3 DEF SetDoc
  <2>2. Calm
    BY <1>3, <2>1 DEF Calm
  <2>3. DocsAppear'
    BY <1>2, <1>3, <2>2, Appears DEF Calm
  <2>4. ScansLegacy'
    BY <1>2, <1>3, <2>2, IdleScans DEF Calm
  <2> QED
    BY <2>2, <2>3, <2>4, CalmKeepsVerdicts
<1>4. CASE Delete(d)
  <2> DEFINE row == [doc[d] EXCEPT !.deleted = TRUE]
  <2>1. row.malware = doc[d].malware /\ row.processing = doc[d].processing
    BY <1>1 DEF DocRow
  <2>2. SetDoc(d, row) /\ UNCHANGED job
    BY <1>4 DEF Delete
  <2> HIDE DEF row
  <2> QED
    BY <1>3, <2>1, <2>2
<1>5. CASE RevokeRelease(d)
  <2> DEFINE row == [doc[d] EXCEPT !.released = FALSE]
  <2>1. row.malware = doc[d].malware /\ row.processing = doc[d].processing
    BY <1>1 DEF DocRow
  <2>2. SetDoc(d, row) /\ UNCHANGED job
    BY <1>5 DEF RevokeRelease
  <2> HIDE DEF row
  <2> QED
    BY <1>3, <2>1, <2>2
<1>6. CASE PurgeQuarantine(d)
  <2> DEFINE row == [doc[d] EXCEPT !.bytes = IF @ = doc[d].key THEN "gone" ELSE @,
                                   !.key = "none"]
  <2>1. row.malware = doc[d].malware /\ row.processing = doc[d].processing
    BY <1>1 DEF DocRow
  <2>2. SetDoc(d, row) /\ UNCHANGED job
    BY <1>6 DEF PurgeQuarantine
  <2> HIDE DEF row
  <2> QED
    BY <1>3, <2>1, <2>2
<1>7. ASSUME NEW m \in {"CLEAN", "LEGACY"}, Upload(d, m)
      PROVE  DocsAppear' /\ ScansLegacy' /\ VerdictsKept
  <2> DEFINE row == [doc[d] EXCEPT !.processing = "UPLOADED", !.malware = m]
  <2>1. row.processing = "UPLOADED"
    BY <1>1 DEF DocRow
  <2>2. /\ SetDoc(d, row) /\ doc[d].processing = "absent"
        /\ doc[d].malware = "LEGACY"
    BY <1>7 DEF Upload, VerdictInv, DocsAppear
  <2> HIDE DEF row
  <2>3. \A e \in Docs : doc'[e] = IF e = d THEN row ELSE doc[e]
    BY <1>1, <2>2 DEF SetDoc
  <2>4. PICK n \in Jobs : NextSlot(n) /\ SetJob(n, NewJob(d, "TEXT"))
    BY <1>7 DEF Upload
  <2>5. \A j \in Jobs : job'[j] = IF j = n THEN NewJob(d, "TEXT") ELSE job[j]
    BY <1>1, <2>4 DEF SetJob
  <2>6. NewJob(d, "TEXT").doc = d
    BY DEF NewJob
  <2>7. DocsAppear'
    BY <1>2, <2>1, <2>3, <2>5, <2>6, Appears
  <2>8. \A j \in Jobs : job[j].status # "absent" => job'[j].doc = job[j].doc
    BY <2>4, <2>5 DEF NextSlot
  <2>9. ScansLegacy'
    BY <1>2, <2>2, <2>3, <2>8, IdleScans
  <2> QED
    BY <2>2, <2>3, <2>7, <2>9 DEF VerdictsKept
<1>8. CASE RetryQuarantine(d)
  <2>1. PICK row \in {[doc[d] EXCEPT !.malware = "INFECTED"],
                      [doc[d] EXCEPT !.malware = "CLEAN", !.bytes = "active",
                                     !.key = "none"]} : SetDoc(d, row)
    BY <1>8 DEF RetryQuarantine
  <2>2. row.processing = doc[d].processing
    BY <1>1, <2>1 DEF DocRow
  <2>3. doc[d].malware = "SCAN_ERROR" /\ UNCHANGED job
    BY <1>8 DEF RetryQuarantine
  <2>4. \A e \in Docs : doc'[e] = IF e = d THEN row ELSE doc[e]
    BY <1>1, <2>1 DEF SetDoc
  <2>5. doc[d].processing # "absent"
    BY <2>3 DEF VerdictInv, DocsAppear
  <2>6. DocsAppear'
    BY <1>2, <2>2, <2>3, <2>4, <2>5, Appears
  <2>7. ScansLegacy'
    BY <1>2, <2>3, <2>4, IdleScans
  <2> QED
    BY <2>3, <2>4, <2>6, <2>7 DEF VerdictsKept
<1> QED
  BY <1>4, <1>5, <1>6, <1>7, <1>8 DEF DocStep

LEMMA VerdictTick ==
    ASSUME VerdictInv, Tick \/ UNCHANGED vars
    PROVE  DocsAppear' /\ ScansLegacy' /\ VerdictsKept
<1>1. UNCHANGED <<doc, worker, client>>
  BY DEF Tick, vars
<1>2. \A j \in Jobs : job'[j].status = job[j].status /\ job'[j].doc = job[j].doc
  BY TickedType DEF Tick, vars, VerdictInv, LeaseInv, TypeOK
<1>3. DocsAppear'
  BY <1>1, <1>2, Appears
<1>4. ScansLegacy'
  BY <1>1, <1>2, IdleScans
<1> QED
  BY <1>1, <1>3, <1>4, QuietIsCalm, CalmKeepsVerdicts

LEMMA VerdictStays ==
    ASSUME VerdictInv, \A v, w \in Workers : v = w, [Next]_vars
    PROVE  VerdictInv' /\ VerdictsKept
<1>1. LeaseInv'
  BY StepKeeps DEF VerdictInv
<1>2. DocsAppear' /\ ScansLegacy' /\ VerdictsKept
  BY VerdictWorker, VerdictClient, VerdictDoc, VerdictTick DEF Next
<1> QED
  BY <1>1, <1>2 DEF VerdictInv

\* With one worker process no rescan, retry, upload or crash, and no second
\* rescan queued behind the first, ever changes a verdict once the document is
\* found infected or clean (rescan_legacy_document, retry_quarantined_upload),
\* however long a write takes.
THEOREM VerdictsAreFinal ==
    ASSUME \A v, w \in Workers : v = w
    PROVE  Spec => VerdictIsFinal
<1>1. VerdictInv /\ [Next]_vars => VerdictInv' /\ VerdictsKept
  BY VerdictStays
<1>2. VerdictInv /\ [Next]_vars => [VerdictsKept]_vars
  BY <1>1
<1>3. VerdictIsFinal <=> [][VerdictsKept]_vars
  BY DEF VerdictIsFinal, VerdictsKept
<1> QED
  BY <1>1, <1>2, <1>3, InitVerdict, PTL DEF Spec

=============================================================================
