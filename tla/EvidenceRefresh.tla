-------------------------- MODULE EvidenceRefresh --------------------------
(***************************************************************************)
(* From an observed change of an external item to the next version of one  *)
(* evidence family.  A reviewer decides on the handed off observation; an  *)
(* approval authorizes one refresh, which reads the item's bytes once into *)
(* quarantine storage; a second person authorizes their admission; the     *)
(* admission scans them again and commits the family's next document.      *)
(*                                                                         *)
(* A handler is a process with steps between its locks, its storage calls  *)
(* and its commits, where it may crash.  All transactions of the family    *)
(* meet at its binding and current document rows, here one lock.  The      *)
(* provider changes the item, people upload and delete, at any time.       *)
(* Contents are taken to have one size: sizes the byte count tells apart   *)
(* are the easy case.                                                      *)
(***************************************************************************)
EXTENDS Naturals, Sequences, FiniteSets, SequencesExt

CONSTANTS
    Providers,   \* the providers the family may come from
    Processes,   \* request handlers
    Requests,    \* person, request key and reason of a refresh request
    Contents,
    First,       \* the content the family was admitted with
    Faults,      \* what may go wrong, see below
    Events,      \* what else may happen, see below
    MaxToken,    \* bound: versions of the item at its provider
    MaxHandoffs, \* bound: observations handed to reviewers
    MaxDocs,     \* bound: documents of the family
    MaxCrashes,  \* bound: files a crash may leave behind
    None

ASSUME RefreshAssumption ==
    /\ Providers \subseteq {"sharepoint", "sftp"} /\ Providers # {}
    /\ First \in Contents
    /\ Faults \subseteq {"crash", "disconnect", "lost_reply", "stray"}
    /\ Events \subseteq {"disable", "upload", "admit", "baseline", "delete", "elsewhere"}
    /\ {MaxToken, MaxHandoffs, MaxDocs, MaxCrashes} \subseteq Nat
    /\ MaxToken > 0 /\ MaxDocs > 0
    /\ None \notin Contents \cup Requests \cup Processes

VARIABLES
    source,     \* contents of the item at its provider, by version token
    profile,    \* the source profile: its provider, and whether it is active
    docs,       \* documents of the family, in the order of their versions
    removed,    \* versions of the family that were deleted
    elsewhere,  \* contents of the claim's documents outside the family
    handoffs,   \* observations handed over, with what became of them
    store,      \* [handoff -> object under the key of its refresh]
    lock,       \* the process that holds the family's rows
    proc,       \* [Processes -> the request it handles]
    damage      \* what faults have done, see below

vars == <<source, profile, docs, removed, elsewhere, handoffs, store, lock, proc, damage>>

\* damage.files: local files that no row and no process knows of.
\* damage.locks: some handler has lost its connection and its rows with it.

\* Reads of an SFTP item return no version token.
SftpItem == profile.provider = "sftp"

Tokens == 0..MaxToken
Handoffs == 1..MaxHandoffs

\* token: the source state the version is compared with, 0 if it has none.
\* origin: the handoff whose refresh it came from.  bytes: its file exists.
Document ==
    [content : Contents, token : Tokens, origin : 0..MaxHandoffs, bytes : BOOLEAN]

\* fetched: contents that were read from the provider for it.  staged: the
\* refresh execution's content hash.  granted: admission was authorized.
Handoff ==
    [version : 1..MaxDocs, token : 1..MaxToken,
     decision : {"open", "dismissed", "approved"},
     anchor : Requests \cup {None}, fetched : SUBSET Contents,
     staged : Contents \cup {None}, granted : BOOLEAN]

Handler ==
    [pc : {"idle", "anchored", "reading", "fetched", "stored", "copied", "promoted"},
     handoff : 0..MaxHandoffs, request : Requests \cup {None},
     content : Contents \cup {None}]

Idle == [pc |-> "idle", handoff |-> 0, request |-> None, content |-> None]

TypeOK ==
    /\ source \in Seq(Contents) /\ Len(source) \in 1..MaxToken
    /\ profile \in [provider : Providers, active : BOOLEAN]
    /\ docs \in Seq(Document) /\ Len(docs) \in 1..MaxDocs
    /\ removed \subseteq DOMAIN docs
    /\ elsewhere \subseteq Contents
    /\ handoffs \in Seq(Handoff) /\ Len(handoffs) <= MaxHandoffs
    /\ store \in [Handoffs -> Contents \cup {None}]
    /\ lock \in Processes \cup {None}
    /\ proc \in [Processes -> Handler]
    /\ damage \in [files : 0..MaxCrashes, locks : BOOLEAN]

\* An object may lie under a key before any request for it was recorded.
Init ==
    /\ source = <<First>>
    /\ profile \in [provider : Providers, active : {TRUE}]
    /\ docs = <<[content |-> First, token |-> 1, origin |-> 0, bytes |-> TRUE]>>
    /\ removed = {} /\ elsewhere = {}
    /\ handoffs = <<>>
    /\ store \in [Handoffs -> IF "stray" \in Faults THEN {First, None} ELSE {None}]
    /\ lock = None
    /\ proc = [p \in Processes |-> Idle]
    /\ damage = [files |-> 0, locks |-> FALSE]

-----------------------------------------------------------------------------
\* What the handlers look at.

Current == Len(docs)
Bound == Current \notin removed
Prior(v) == docs[v].token

\* The document hash is unique in a claim; a deleted document keeps its row.
Known == elsewhere \cup {docs[v].content : v \in DOMAIN docs}
Live == elsewhere \cup {docs[v].content : v \in DOMAIN docs \ removed}

Admitted(h) == \E v \in DOMAIN docs : docs[v].origin = h

\* Mutant: any current version will do.
MutAuthorityHolds(h) == profile.active /\ Bound
\* The profile is active and the version the reviewer saw is still current.
AuthorityHolds(h) == profile.active /\ Bound /\ handoffs[h].version = Current

Free == lock = None
Set(h, field, value) == handoffs' = [handoffs EXCEPT ![h][field] = value]
Step(p, pc, c) == proc' = [proc EXCEPT ![p].pc = pc, ![p].content = c]

Released(p) == IF lock = p THEN None ELSE lock

\* A refusal or an error rolls the transaction back.
End(p) == proc' = [proc EXCEPT ![p] = Idle] /\ lock' = Released(p)
Refuse(p) ==
    /\ End(p)
    /\ UNCHANGED <<source, profile, docs, removed, elsewhere, handoffs, store, damage>>

-----------------------------------------------------------------------------
\* Reviewers.

\* A due tick found the item changed and the observation was handed over.
HandOver ==
    /\ Free /\ profile.active /\ Bound
    /\ Prior(Current) \notin {0, Len(source)}
    /\ Len(handoffs) < MaxHandoffs
    /\ handoffs' = Append(handoffs,
          [version |-> Current, token |-> Len(source), decision |-> "open",
           anchor |-> None, fetched |-> {}, staged |-> None, granted |-> FALSE])
    /\ UNCHANGED <<source, profile, docs, removed, elsewhere, store, lock, proc, damage>>

\* A decision is terminal, and an approval authorizes the refresh.
Decide(h, d) ==
    /\ Free
    /\ handoffs[h].decision = "open"
    /\ AuthorityHolds(h)
    /\ Prior(Current) \notin {0, handoffs[h].token}
    /\ Set(h, "decision", d)
    /\ UNCHANGED <<source, profile, docs, removed, elsewhere, store, lock, proc, damage>>

-----------------------------------------------------------------------------
\* The refresh: an anchor is committed, then the rows are locked again, the
\* bytes are read and stored, and the execution is committed.

\* The recovery anchor binds the authorization to one request, before which
\* the key of its object must be unoccupied.  A retry of that request finds
\* it and goes on, in the code without giving up the rows in between.
Anchor(p, h, r) ==
    /\ proc[p] = Idle
    /\ Free
    /\ handoffs[h].decision = "approved"
    /\ handoffs[h].staged = None
    /\ AuthorityHolds(h)
    /\ \A g \in DOMAIN handoffs \ {h} : handoffs[g].anchor # r
    /\ \/ handoffs[h].anchor = r
       \/ handoffs[h].anchor = None /\ store[h] = None
    /\ Set(h, "anchor", r)
    /\ proc' = [proc EXCEPT ![p] =
                  [pc |-> "anchored", handoff |-> h, request |-> r, content |-> None]]
    /\ UNCHANGED <<source, profile, docs, removed, elsewhere, store, lock, damage>>

\* Mutant: bytes an earlier attempt stored are not looked for.
MutRecovered(h) == None
\* What an earlier attempt left under the anchored key.
Recovered(h) == store[h]

\* An SFTP item must differ from the document it is to follow.
Differs(h, c) == SftpItem => c # docs[handoffs[h].version].content

GoesOn(h) ==
    /\ handoffs[h].staged = None
    /\ AuthorityHolds(h)
    /\ Recovered(h) # None => Differs(h, Recovered(h))

\* The rows are locked again and everything is checked again.  Another
\* process may have completed the refresh meanwhile.
Lock(p) ==
    LET h == proc[p].handoff IN
    /\ proc[p].pc = "anchored"
    /\ Free
    /\ IF GoesOn(h)
       THEN /\ lock' = p
            /\ IF Recovered(h) = None THEN Step(p, "reading", None)
               ELSE Step(p, "stored", Recovered(h))
            /\ UNCHANGED <<source, profile, docs, removed, elsewhere, handoffs, store, damage>>
       ELSE Refuse(p)

\* Mutant: the version token of the read is not compared.
MutAccepts(h) == TRUE
\* The read must return the version that was observed; SFTP reads return no
\* token to compare.
Accepts(h) == SftpItem \/ Len(source) = handoffs[h].token

\* One exact item is read, or the read fails.
Fetch(p) ==
    LET h == proc[p].handoff  c == Last(source) IN
    /\ proc[p].pc = "reading"
    /\ IF Accepts(h) /\ Differs(h, c)
       THEN /\ Step(p, "fetched", c)
            /\ Set(h, "fetched", handoffs[h].fetched \cup {c})
            /\ UNCHANGED <<source, profile, docs, removed, elsewhere, store, lock, damage>>
       ELSE Refuse(p)

\* Mutant: the stored object is not read back.
MutVerified(kept, c) == TRUE
Verified(kept, c) == kept = c

\* The bytes are stored unless the key is occupied, and read back.
Put(p) ==
    LET h == proc[p].handoff
        c == proc[p].content
        kept == IF store[h] = None THEN c ELSE store[h]
    IN
    /\ proc[p].pc = "fetched"
    /\ store' = [store EXCEPT ![h] = kept]
    /\ IF Verified(kept, c) THEN Step(p, "stored", c) /\ UNCHANGED lock
       ELSE End(p)
    /\ UNCHANGED <<source, profile, docs, removed, elsewhere, handoffs, damage>>

\* The execution is committed.  Without its rows the commit fails.
Complete(p) ==
    /\ proc[p].pc = "stored"
    /\ IF lock = p
       THEN /\ Set(proc[p].handoff, "staged", proc[p].content)
            /\ End(p)
            /\ UNCHANGED <<source, profile, docs, removed, elsewhere, store, damage>>
       ELSE Refuse(p)

-----------------------------------------------------------------------------
\* The admission.

\* A person authorizes the admission of what was staged, once.
Grant(h) ==
    /\ Free
    /\ handoffs[h].staged # None
    /\ ~handoffs[h].granted
    /\ AuthorityHolds(h)
    /\ handoffs[h].staged \notin Live
    /\ Set(h, "granted", TRUE)
    /\ UNCHANGED <<source, profile, docs, removed, elsewhere, store, lock, proc, damage>>

\* The staged bytes are verified and copied into local quarantine.
Copy(p, h) ==
    /\ proc[p] = Idle
    /\ Free
    /\ handoffs[h].granted
    /\ ~Admitted(h)
    /\ Current < MaxDocs
    /\ AuthorityHolds(h)
    /\ handoffs[h].staged \notin Live
    /\ store[h] = handoffs[h].staged
    /\ lock' = p
    /\ proc' = [proc EXCEPT ![p] = [pc |-> "copied", handoff |-> h, request |-> None,
                                   content |-> handoffs[h].staged]]
    /\ UNCHANGED <<source, profile, docs, removed, elsewhere, handoffs, store, damage>>

\* The signature and malware checks pass and the copy is promoted, or they
\* fail and it is removed.
Promote(p) ==
    /\ proc[p].pc = "copied"
    /\ Step(p, "promoted", proc[p].content)
    /\ UNCHANGED <<source, profile, docs, removed, elsewhere, handoffs, store, lock, damage>>

Reject(p) == proc[p].pc = "copied" /\ Refuse(p)

NextVersion(c, t, h, b) ==
    docs' = Append(docs, [content |-> c, token |-> t, origin |-> h, bytes |-> b])

\* The next version and the execution are committed together.  A commit that
\* fails, for the lost rows or for a hash the claim knows, removes the copy.
Admit(p) ==
    LET h == proc[p].handoff  c == proc[p].content IN
    /\ proc[p].pc = "promoted"
    /\ IF lock = p /\ c \notin Known
       THEN /\ NextVersion(c, 0, h, TRUE)
            /\ End(p)
            /\ UNCHANGED <<source, profile, removed, elsewhere, handoffs, store, damage>>
       ELSE Refuse(p)

\* The database commits and the connection is lost before it answers: the
\* handler takes the error for a failure and removes the promoted file.
LoseReply(p) ==
    LET h == proc[p].handoff  c == proc[p].content IN
    /\ "lost_reply" \in Faults
    /\ proc[p].pc = "promoted"
    /\ lock = p /\ c \notin Known
    /\ Current < MaxDocs
    /\ NextVersion(c, 0, h, FALSE)
    /\ End(p)
    /\ UNCHANGED <<source, profile, removed, elsewhere, handoffs, store, damage>>

-----------------------------------------------------------------------------
\* Faults of a handler.

\* A process dies.  Its transaction ends, its local file stays.
Crash(p) ==
    /\ "crash" \in Faults
    /\ proc[p] # Idle
    /\ End(p)
    /\ LET n == IF proc[p].pc \in {"copied", "promoted"} THEN 1 ELSE 0
       IN /\ damage.files + n <= MaxCrashes
          /\ damage' = [damage EXCEPT !.files = @ + n]
    /\ UNCHANGED <<source, profile, docs, removed, elsewhere, handoffs, store>>

\* Its database connection is lost while it waits for the provider or for
\* the object storage: the rows are free, and it goes on until its commit.
Disconnect(p) ==
    /\ "disconnect" \in Faults
    /\ lock = p
    /\ lock' = None
    /\ damage' = [damage EXCEPT !.locks = TRUE]
    /\ UNCHANGED <<source, profile, docs, removed, elsewhere, handoffs, store, proc>>

-----------------------------------------------------------------------------
\* What goes on around the handlers.

\* The item changes at its provider, in its contents or only its metadata.
ChangeItem(c) ==
    /\ Len(source) < MaxToken
    /\ source' = Append(source, c)
    /\ UNCHANGED <<profile, docs, removed, elsewhere, handoffs, store, lock, proc, damage>>

DisableProfile ==
    /\ "disable" \in Events
    /\ profile.active
    /\ profile' = [profile EXCEPT !.active = FALSE]
    /\ UNCHANGED <<source, docs, removed, elsewhere, handoffs, store, lock, proc, damage>>

\* A person uploads a replacement of the current document.
Upload(c) ==
    /\ "upload" \in Events
    /\ Free /\ Bound
    /\ Current < MaxDocs
    /\ c \notin Known
    /\ NextVersion(c, 0, 0, TRUE)
    /\ UNCHANGED <<source, profile, removed, elsewhere, handoffs, store, lock, proc, damage>>

\* A later version found by checkpointed change detection is admitted.
AdmitLater(t) ==
    /\ "admit" \in Events
    /\ ~SftpItem
    /\ Free /\ profile.active /\ Bound
    /\ Current < MaxDocs
    /\ Prior(Current) \notin {0, t}
    /\ source[t] \notin Known
    /\ NextVersion(source[t], t, 0, TRUE)
    /\ UNCHANGED <<source, profile, removed, elsewhere, handoffs, store, lock, proc, damage>>

\* A person establishes a refreshed version as the baseline to compare with.
EstablishBaseline ==
    LET d == docs[Current] IN
    /\ "baseline" \in Events
    /\ SftpItem
    /\ Free /\ Bound
    /\ d.origin # 0 /\ d.token = 0
    /\ docs' = [docs EXCEPT ![Current].token = handoffs[d.origin].token]
    /\ UNCHANGED <<source, profile, removed, elsewhere, handoffs, store, lock, proc, damage>>

DeleteVersion(v) ==
    /\ "delete" \in Events
    /\ v = Current => Free
    /\ v \notin removed
    /\ removed' = removed \cup {v}
    /\ UNCHANGED <<source, profile, docs, elsewhere, handoffs, store, lock, proc, damage>>

\* Someone uploads a document of another family.
UploadElsewhere(c) ==
    /\ "elsewhere" \in Events
    /\ c \notin Known
    /\ elsewhere' = elsewhere \cup {c}
    /\ UNCHANGED <<source, profile, docs, removed, handoffs, store, lock, proc, damage>>

-----------------------------------------------------------------------------
Handle(p) == Lock(p) \/ Fetch(p) \/ Put(p) \/ Complete(p)
             \/ Promote(p) \/ Reject(p) \/ Admit(p)

Next ==
    \/ HandOver
    \/ \E h \in DOMAIN handoffs : Grant(h) \/ \E d \in {"dismissed", "approved"} : Decide(h, d)
    \/ \E p \in Processes, h \in DOMAIN handoffs :
          Copy(p, h) \/ \E r \in Requests : Anchor(p, h, r)
    \/ \E p \in Processes : Handle(p) \/ LoseReply(p) \/ Crash(p) \/ Disconnect(p)
    \/ \E c \in Contents : ChangeItem(c) \/ Upload(c) \/ UploadElsewhere(c)
    \/ DisableProfile \/ EstablishBaseline
    \/ \E t \in DOMAIN source : AdmitLater(t)
    \/ \E v \in DOMAIN docs : DeleteVersion(v)

Spec == Init /\ [][Next]_vars

-----------------------------------------------------------------------------
\* Properties.

\* A refreshed version follows the version its reviewer looked at, and no
\* approval gives two versions (decide_observation_review_handoff to
\* execute_observation_refresh_admission).
FollowsReviewed ==
    \A v \in DOMAIN docs :
        docs[v].origin # 0 =>
            /\ handoffs[docs[v].origin].decision = "approved"
            /\ handoffs[docs[v].origin].version = v - 1
            /\ \A w \in DOMAIN docs \ {v} : docs[w].origin # docs[v].origin

\* The bytes of a refreshed version are those the item had when the change
\* the reviewer approved was observed (_read_exact_changed_content; only where
\* reads return a version token).
AdmitsReviewedBytes ==
    \A v \in DOMAIN docs :
        ~SftpItem /\ docs[v].origin # 0 => docs[v].content = source[handoffs[docs[v].origin].token]

\* What a refresh execution records is what lies under its key, and what a
\* read of the provider for this approval returned: no object that was there
\* before, and no other attempt's bytes (_verify_storage,
\* _recover_anchored_storage, _preflight_storage_key_absent).
RecordsStoredBytes ==
    \A h \in DOMAIN handoffs :
        handoffs[h].staged # None =>
            /\ store[h] = handoffs[h].staged
            /\ handoffs[h].staged \in handoffs[h].fetched

\* Once the object is stored, no restart reads the provider again, unless a
\* handler has gone on without its rows
\* (execute_observation_refresh_authorization).
NoReadOnceStored ==
    [][\A p \in Processes :
          (proc[p].pc = "reading" /\ proc'[p].pc = "fetched")
              => store[proc[p].handoff] = None \/ damage.locks]_vars

\* No refusal, error or crash keeps the rows locked: who holds them is past its
\* lock and before its answer.
RowsAreHeldByHandlers ==
    lock # None => proc[lock].pc \notin {"idle", "anchored"}

\* What holds of a refresh at every moment: its version follows the reviewed
\* one, its record is about the stored bytes, and its rows are held by a handler.
EvidenceInv ==
    TypeOK /\ FollowsReviewed /\ RecordsStoredBytes /\ RowsAreHeldByHandlers

StageOf(h) ==
    IF Admitted(h) THEN "admitted"
    ELSE IF handoffs[h].granted THEN "granted"
    ELSE IF handoffs[h].staged # None THEN "staged"
    ELSE handoffs[h].decision

\* What the reviewers see of the refreshes.
History == [v \in DOMAIN docs |-> docs[v].content]
Stages == [h \in DOMAIN handoffs |-> StageOf(h)]
Bases == [h \in DOMAIN handoffs |-> handoffs[h].version]
StagedBytes == [h \in DOMAIN handoffs |-> handoffs[h].staged]

Governed == INSTANCE GovernedRefresh WITH
    history <- History, stage <- Stages, over <- Bases, bytes <- StagedBytes

\* The services keep the promise to the reviewers: one version per approval,
\* of the bytes that were staged, over the version it was given for.
GovernedSpec == Governed!Spec

\* A document that was admitted has its file
\* (execute_observation_refresh_admission's cleanup).
EvidenceHasBytes == \A v \in DOMAIN docs : docs[v].bytes

\* A file that no document came of is removed (_cleanup_local_storage).
NothingLeft == damage.files = 0

=============================================================================
