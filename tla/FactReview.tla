----------------------------- MODULE FactReview -----------------------------
(***************************************************************************)
(* One field of a claim, from machine candidate to canonical fact.  A      *)
(* worker replaces the text segments of the source document (a text job)   *)
(* or asks the provider for a candidate that cites one of them (an AI      *)
(* job); reviewers approve, edit and reject candidates, one by one or in   *)
(* groups; the fact follows the last decision and every state of it leaves *)
(* a revision.                                                             *)
(*                                                                         *)
(* A review reads the candidate, waits for the claim's row lock, and then  *)
(* holds it to its commit.  The select under the lock returns the object   *)
(* the session has already, with the attributes read before the wait (no   *)
(* populate_existing), so the decision is made from the earlier read and   *)
(* the UPDATE names the columns that differ from it.  The fact, the        *)
(* feedback and the document are read under the lock.  The worker's        *)
(* transactions do not take that lock.                                     *)
(***************************************************************************)
EXTENDS Naturals, FiniteSets

CONSTANTS
    Cands,          \* candidates for the field, one per AI run
    Workers,        \* document workers
    Reviewers,      \* requests to the review endpoints
    Overlap,        \* whether a candidate may change between its read and the lock
    Intake,         \* the approved intake form as a source of the fact
    Typed,          \* the value a reviewer types when editing
    None,
    MaxGen,         \* bound: generations of text segments
    MaxVersion      \* bound: versions of the fact, below the 50 revisions a rejection scans

ASSUME FactReviewAssumption ==
    /\ MaxGen \in Nat \ {0}
    /\ MaxVersion \in 1..49
    /\ Intake # None
    /\ {Intake, Typed, None} \cap Cands = {}
    /\ Overlap \in BOOLEAN

VARIABLES
    text,       \* the document's processing status and the generation of its segments
    claim,      \* the candidates, the current fact and its revisions
    worker,     \* [Workers -> the job under way]
    review      \* [Reviewers -> the candidate read before the lock, as it was]

vars == <<text, claim, worker, review>>

Gens == 1..MaxGen
Versions == 1..MaxVersion
Accepted == {"approved", "edited"}

\* cites: the generation of the cited segment, 0 when the column is NULL;
\* made: the generation the provider was shown (no column holds it);
\* stale: validation_warnings has AI_SOURCE_REPROCESSED; feedback: the latest
\* AIFeedback row.  A machine's value is the candidate itself.
NoFeedback == [status |-> "pending", value |-> None, why |-> FALSE]
Feedback == [status : {"pending", "rejected"} \cup Accepted,
             value : Cands \cup {Typed, None}, why : BOOLEAN]
NoCand == [status |-> "absent", cites |-> 0, made |-> 0, verified |-> FALSE,
           stale |-> FALSE, value |-> None, feedback |-> NoFeedback]
Cand == [status : {"absent", "pending", "rejected"} \cup Accepted,
         cites : 0..MaxGen, made : 0..MaxGen, verified : BOOLEAN, stale : BOOLEAN,
         value : Cands \cup {Typed, None}, feedback : Feedback]

NoFact == [source |-> None, value |-> None, cites |-> 0]
Fact == [source : Cands \cup {Intake, None}, value : Cands \cup {Typed, Intake, None},
         cites : 0..MaxGen]

Claim == [cand : [Cands -> Cand], fact : Fact, version : 0..MaxVersion,
          revision : [Versions -> Fact]]

Idle == [pc |-> "idle", gen |-> 0, seen |-> {}, item |-> None, cand |-> NoCand]
WorkerState == [pc : {"idle", "extracting", "selected", "asking", "inserted"},
                gen : 0..MaxGen, seen : SUBSET Cands,
                item : Cands \cup {None}, cand : Cand]

NoRequest == [item |-> None, view |-> NoCand]
Request == [item : Cands \cup {None}, view : Cand]

TypeOK ==
    /\ text \in [status : {"uploaded", "processing", "processed", "failed"}, gen : Gens]
    /\ claim \in Claim
    /\ worker \in [Workers -> WorkerState]
    /\ review \in [Reviewers -> Request]

(***************************************************************************)
(* The fact and its history                                                *)
(***************************************************************************)

\* A fact that was removed starts again at version 1.
NextVersion(c) == IF c.fact = NoFact THEN 1 ELSE c.version + 1
Storable(c) == NextVersion(c) \in Versions /\ c.revision[NextVersion(c)] = NoFact

\* Mutant: the hook records the fact as it was before the write.
M_Write(c, f) == [c EXCEPT !.fact = f, !.version = NextVersion(c),
                           !.revision[NextVersion(c)] = c.fact]

\* A write of the fact: the row at its next version, and the revision that the
\* before_flush hook adds.
Write(c, f) == [c EXCEPT !.fact = f, !.version = NextVersion(c),
                         !.revision[NextVersion(c)] = f]

\* Mutant: a rejected source is good enough.
M_Restorable(c, x) == {v \in 1..(c.version - 1) : c.revision[v].source \notin {None, x}}

\* Mutant: only the revision just before the fact is looked at.
M_RestorableLast(c, x) ==
    {v \in 1..(c.version - 1) :
        /\ v = c.version - 1 /\ c.revision[v].source \notin {None, x}
        /\ c.revision[v].source \in Cands =>
              c.cand[c.revision[v].source].status \in Accepted}

\* The revisions a rejection of x may bring back: older than the fact, of
\* another source, and that source the intake form or still accepted.
Restorable(c, x) ==
    {v \in 1..(c.version - 1) :
        /\ c.revision[v].source \notin {None, x}
        /\ c.revision[v].source \in Cands =>
              c.cand[c.revision[v].source].status \in Accepted}
Latest(S) == CHOOSE v \in S : \A w \in S : w <= v

\* A claim that was opened from an approved intake form has a fact already.
Init ==
    /\ text = [status |-> "processed", gen |-> 1]
    /\ \E f \in {NoFact, [source |-> Intake, value |-> Intake, cites |-> 0]} :
          claim = [cand |-> [x \in Cands |-> NoCand], fact |-> f,
                   version |-> IF f = NoFact THEN 0 ELSE 1,
                   revision |-> [v \in Versions |-> IF v = 1 THEN f ELSE NoFact]]
    /\ worker = [w \in Workers |-> Idle]
    /\ review = [r \in Reviewers |-> NoRequest]

(***************************************************************************)
(* Reviewers                                                               *)
(***************************************************************************)

StatusOf(act) == CASE act = "approve" -> "approved"
                   [] act = "edit" -> "edited"
                   [] act = "reject" -> "rejected"
ValueOf(x, act) == CASE act = "approve" -> x
                     [] act = "edit" -> Typed
                     [] act = "reject" -> None

\* The decision that the row as read and its latest feedback already record.
Replay(c, x, view, act, why) ==
    /\ view.status = StatusOf(act) /\ view.value = ValueOf(x, act)
    /\ c.cand[x].feedback = [status |-> StatusOf(act), value |-> ValueOf(x, act), why |-> why]

\* What the source must be for an approval or an edit; a reason stands in for
\* a citation the machine could not verify.
SourceAllows(view, act, why) ==
    act = "reject" \/ ( /\ ~view.stale
                        /\ text.status = "processed"
                        /\ why \/ view.verified )

\* A column is written when the decision differs from what was read.
Column(read, row, new) == IF read = new THEN row ELSE new
Decided(c, x, view, act, why) ==
    [c EXCEPT !.cand[x].status = Column(view.status, @, StatusOf(act)),
              !.cand[x].value = Column(view.value, @, ValueOf(x, act)),
              !.cand[x].feedback =
                  [status |-> StatusOf(act), value |-> ValueOf(x, act), why |-> why]]

Promotes(c, x, act) == act # "reject"
Withdraws(c, x, act) == act = "reject" /\ c.fact.source = x

\* The claim after the decision: the fact follows an acceptance, and a
\* rejection of its source brings back the latest restorable revision.
Reviewed(c, x, view, act, why) ==
    LET d == Decided(c, x, view, act, why) IN
    IF Promotes(c, x, act)
    THEN Write(d, [source |-> x, value |-> ValueOf(x, act), cites |-> view.cites])
    ELSE IF ~Withdraws(c, x, act) THEN d
    ELSE IF Restorable(d, x) = {} THEN [d EXCEPT !.fact = NoFact, !.version = 0]
    ELSE Write(d, d.revision[Latest(Restorable(d, x))])

\* Whether the transaction commits: the unique (claim, field, version) of the
\* revisions refuses a second revision of one version, and the fact cannot
\* cite a segment that is gone.
Commits(c, x, view, act, why) ==
    \/ ~Promotes(c, x, act) /\ ~Withdraws(c, x, act)
    \/ Withdraws(c, x, act) /\ Restorable(Decided(c, x, view, act, why), x) = {}
    \/ Storable(c) /\ (Promotes(c, x, act) => view.cites \in {0, text.gen})

\* No request other than r has read a candidate of X and waits for the lock.
Undisturbed(r, X) == Overlap \/ \A q \in Reviewers \ {r} : review[q].item \notin X

\* The read before the lock; the request then waits for the claim's row.
Read(r, x) ==
    /\ review[r] = NoRequest /\ claim.cand[x].status # "absent"
    /\ review' = [review EXCEPT ![r] = [item |-> x, view |-> claim.cand[x]]]
    /\ UNCHANGED <<text, claim, worker>>

End(r) == review' = [review EXCEPT ![r] = NoRequest]

\* POST /review/{id} under the lock.
Review(r, act, why, confirm) ==
    LET x == review[r].item view == review[r].view IN
    /\ x # None /\ Undisturbed(r, {x})
    /\ SourceAllows(view, act, why)
    /\ ~Replay(claim, x, view, act, why)
    /\ view.status = "pending" \/ confirm
    /\ Commits(claim, x, view, act, why)
    /\ claim' = Reviewed(claim, x, view, act, why)
    /\ End(r)
    /\ UNCHANGED <<text, worker>>

\* POST /review/groups/review and /review/bulk/approve: pending candidates
\* only, in the order of the request, all or none (bound: two of them).  The
\* first one takes the lock, the second one is read again under it.
ReviewGroup(r, y, act, why) ==
    LET x == review[r].item view == review[r].view
        half == Reviewed(claim, x, view, act, why) IN
    /\ x \notin {None, y} /\ act \in {"approve", "reject"} /\ Undisturbed(r, {x, y})
    /\ \A v \in {view, claim.cand[y]} : v.status = "pending" /\ SourceAllows(v, act, why)
    /\ Commits(claim, x, view, act, why) /\ Commits(half, y, half.cand[y], act, why)
    /\ claim' = Reviewed(half, y, half.cand[y], act, why)
    /\ End(r)
    /\ UNCHANGED <<text, worker>>

\* The request is refused, fails, or is a replay: nothing is written.
Refuse(r) == review[r] # NoRequest /\ End(r) /\ UNCHANGED <<text, claim, worker>>

(***************************************************************************)
(* Document workers                                                        *)
(***************************************************************************)

Enter(w, pc) == worker' = [worker EXCEPT ![w].pc = pc]
Rest(w) == worker' = [worker EXCEPT ![w] = Idle]

\* A text job commits the processing status before it reads the file.
StartText(w) ==
    /\ worker[w].pc = "idle" /\ text.gen < MaxGen
    /\ \A v \in Workers : worker[v].pc \notin {"extracting", "selected"}
    /\ text' = [text EXCEPT !.status = "processing"]
    /\ Enter(w, "extracting")
    /\ UNCHANGED <<claim, review>>

\* Mutant: only candidates that still wait for a review are invalidated.
M_SelectCandidates(w) ==
    /\ worker[w].pc = "extracting"
    /\ worker' = [worker EXCEPT ![w].pc = "selected",
                    ![w].seen = {x \in Cands : claim.cand[x].status = "pending"}]
    /\ UNCHANGED <<text, claim, review>>

\* The candidates to invalidate, selected without a lock.
SelectCandidates(w) ==
    /\ worker[w].pc = "extracting"
    /\ worker' = [worker EXCEPT ![w].pc = "selected",
                    ![w].seen = {x \in Cands : claim.cand[x].status # "absent"}]
    /\ UNCHANGED <<text, claim, review>>

\* The flush, the delete and the commit of the text job.  The delete waits for
\* a candidate inserted but not committed that cites a segment (its foreign
\* key share-locks the segment), then sets every citation to NULL.
Uncited(f) == [f EXCEPT !.cites = 0]
ReplaceText(w) ==
    /\ worker[w].pc = "selected" /\ (Overlap \/ \A r \in Reviewers : review[r] = NoRequest)
    /\ \A v \in Workers : worker[v].pc = "inserted" => worker[v].cand.cites # text.gen
    /\ text' = [status |-> "processed", gen |-> text.gen + 1]
    /\ claim' = [claim EXCEPT
                   !.cand = [x \in Cands |->
                       [Uncited(claim.cand[x]) EXCEPT
                          !.stale = @ \/ x \in worker[w].seen,
                          !.verified = @ /\ x \notin worker[w].seen]],
                   !.fact = Uncited(@),
                   !.revision = [v \in Versions |-> Uncited(@[v])]]
    /\ Rest(w)
    /\ UNCHANGED review

\* The extraction or its transaction fails, with attempts left or without.
FailText(w) ==
    /\ worker[w].pc \in {"extracting", "selected"}
    /\ \E s \in {"uploaded", "failed"} : text' = [text EXCEPT !.status = s]
    /\ Rest(w)
    /\ UNCHANGED <<claim, review>>

\* An AI job reads the segments, commits the run as running and asks the
\* provider, with no transaction open.
StartRun(w) ==
    /\ worker[w].pc = "idle"
    /\ worker' = [worker EXCEPT ![w].pc = "asking", ![w].gen = text.gen]
    /\ UNCHANGED <<text, claim, review>>

\* The provider's item: it cites a segment it was shown or none.
Answer(w, g, q) == [NoCand EXCEPT !.status = "pending", !.made = worker[w].gen,
                                  !.cites = g, !.verified = q]

\* The insert: a cited segment that was replaced meanwhile fails it (FailRun).
\* A quote is verified only against a cited segment.
InsertRun(w, x) ==
    /\ worker[w].pc = "asking" /\ claim.cand[x].status = "absent"
    /\ \A v \in Workers : worker[v].item # x
    /\ \E g \in {0, worker[w].gen} \cap {0, text.gen}, q \in BOOLEAN :
         /\ q => g # 0
         /\ worker' = [worker EXCEPT ![w].pc = "inserted", ![w].item = x,
                                     ![w].cand = Answer(w, g, q)]
    /\ UNCHANGED <<text, claim, review>>

CommitRun(w) ==
    /\ worker[w].pc = "inserted"
    /\ claim' = [claim EXCEPT !.cand[worker[w].item] = worker[w].cand]
    /\ Rest(w)
    /\ UNCHANGED <<text, review>>

FailRun(w) ==
    /\ worker[w].pc \in {"asking", "inserted"}
    /\ Rest(w)
    /\ UNCHANGED <<text, claim, review>>

\* A worker dies: its open transaction is rolled back, what it committed stays.
Die(w) ==
    /\ worker[w].pc # "idle"
    /\ Rest(w)
    /\ UNCHANGED <<text, claim, review>>

Decision ==
    \E r \in Reviewers :
       \/ \E x \in Cands : Read(r, x)
       \/ \E act \in {"approve", "edit", "reject"}, why, confirm \in BOOLEAN :
             Review(r, act, why, confirm)
       \/ \E y \in Cands, act \in {"approve", "reject"}, why \in BOOLEAN :
             ReviewGroup(r, y, act, why)
       \/ Refuse(r)

Next ==
    \/ Decision
    \/ \E w \in Workers :
          \/ StartText(w) \/ SelectCandidates(w) \/ ReplaceText(w) \/ FailText(w)
          \/ StartRun(w) \/ (\E x \in Cands : InsertRun(w, x)) \/ CommitRun(w) \/ FailRun(w)
          \/ Die(w)

Spec == Init /\ [][Next]_vars

-----------------------------------------------------------------------------
(* Properties *)

\* A fact that came from a machine rests on a human decision that still
\* stands: its source is approved or edited, with the value the fact has,
\* through re-reviews, rejections and restorations of other candidates.
FactHasAuthority ==
    claim.fact.source \in Cands =>
        /\ claim.cand[claim.fact.source].status \in Accepted
        /\ claim.cand[claim.fact.source].value = claim.fact.value

\* The history explains the fact: the newest revision is the fact itself,
\* citation included, and no version below it is missing.
HistoryExplainsFact ==
    claim.fact # NoFact =>
        /\ claim.revision[claim.version] = claim.fact
        /\ \A v \in 1..claim.version : claim.revision[v] # NoFact

\* What holds of the fact's versions at every moment, whoever reviews what.
FactInv == TypeOK /\ HistoryExplainsFact

\* An approval or an edit is about the text the document has now: the
\* candidate was produced from the current segments, and they are in place.
ApprovedFromCurrentSource ==
    [][\A x \in Cands :
         LET c == claim.cand[x] d == claim'.cand[x] IN
         (d.status \in Accepted /\ <<d.status, d.value>> # <<c.status, c.value>>) =>
             d.made = text.gen /\ text.status = "processed"]_vars

\* The field stays open to a later decision: whatever was approved, rejected
\* and removed before, the next acceptance can be stored.
FieldStaysReviewable ==
    NextVersion(claim) \in Versions => Storable(claim)

\* Nobody decides again by accident: what a reviewer decided stays, unless a
\* request that confirms a re-review decides otherwise; a group or a bulk
\* request never does.
NoSilentReReview ==
    [][\A r \in Reviewers :
         ( \/ \E act \in {"approve", "edit", "reject"}, why \in BOOLEAN :
                  Review(r, act, why, FALSE)
           \/ \E y \in Cands, act \in {"approve", "reject"}, why \in BOOLEAN :
                  ReviewGroup(r, y, act, why) )
         => claim.cand[review[r].item].status = "pending"]_vars

\* A revision is a snapshot: once written, it never changes.
RevisionsImmutable ==
    [][\A v \in Versions :
         claim.revision[v] # NoFact => claim'.revision[v] = claim.revision[v]]_vars

\* The register of decisions that the claim presents to the rest of the system.
Standing == [x \in {y \in Cands : claim.cand[y].status \in Accepted} |-> claim.cand[x].value]
Register == INSTANCE CanonicalFact WITH accepted <- Standing, current <- claim.fact.source
RegisterSpec == Register!Spec

=============================================================================
