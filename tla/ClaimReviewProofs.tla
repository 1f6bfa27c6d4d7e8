--------------------------- MODULE ClaimReviewProofs --------------------------
(***************************************************************************)
(* The review of a claim: its facts, and the timeline that is rebuilt from *)
(* what was reviewed.                                                      *)
(*                                                                         *)
(* First, the invariants of FactReview and its refinement of               *)
(* CanonicalFact, for any number of candidates, requests and workers, when *)
(* a candidate does not change between the read of a request and the lock  *)
(* it waits for (~Overlap).  Then those of Chronology and its refinement   *)
(* of ConflictRegister, for any documents, times and users; the refinement *)
(* when a conflict does not change in the same way (~StaleReads).          *)
(***************************************************************************)
EXTENDS FactReview, Chronology, WellFoundedInduction, FiniteSetTheorems, SequenceTheorems, TLAPS

\* The candidate x of the claim c stands.
IsAccepted(c, x) == c.cand[x].status \in Accepted

\* A fact has a source and a version, the revisions up to it are there and the
\* last one is the fact; a claim without a fact starts again at version 1.
Versioned(c) ==
    /\ \A f \in {c.fact} \cup {c.revision[v] : v \in Versions} :
         f.source = None => f = NoFact
    /\ IF c.fact = NoFact THEN c.version = 0
       ELSE /\ c.version \in Versions
            /\ c.revision[c.version] = c.fact
            /\ \A v \in 1..c.version : c.revision[v] # NoFact

\* The last revision from an accepted candidate has the value that was accepted.
Spoken(c) ==
    \A v \in 1..c.version :
        LET x == c.revision[v].source IN
        x \in Cands /\ IsAccepted(c, x) =>
            \/ c.revision[v].value = c.cand[x].value
            \/ \E w \in (v + 1)..c.version : c.revision[w].source = x

\* Every accepted candidate can be fallen back on, and the source of the fact
\* is accepted.
Recallable(c) ==
    /\ \A x \in Cands : IsAccepted(c, x) =>
         \E v \in 1..c.version : c.revision[v].source = x
    /\ c.fact.source \in Cands => IsAccepted(c, c.fact.source)

ClaimInv(c) == c \in Claim /\ Versioned(c) /\ Spoken(c) /\ Recallable(c)

\* What a request read is what the candidate is.
ViewInv ==
    \A r \in Reviewers : review[r].item # None =>
        /\ claim.cand[review[r].item].status # "absent"
        /\ review[r].view = claim.cand[review[r].item]

\* A candidate inserted but not committed is of no other run.
RunInv ==
    \A w \in Workers : worker[w].pc = "inserted" =>
        /\ worker[w].item \in Cands
        /\ claim.cand[worker[w].item].status = "absent"
        /\ worker[w].cand.status = "pending"
        /\ \A v \in Workers \ {w} : worker[v].item # worker[w].item

\* One worker at a time replaces the text.
ExtractInv ==
    \A w \in Workers : worker[w].pc \in {"extracting", "selected"} =>
        /\ text.gen < MaxGen
        /\ \A v \in Workers \ {w} : worker[v].pc \notin {"extracting", "selected"}

ReviewInv == TypeOK /\ ClaimInv(claim) /\ ViewInv /\ RunInv /\ ExtractInv

-----------------------------------------------------------------------------
(* The operators a decision is built from.                                 *)

Acts == {"approve", "edit", "reject"}

\* CHOOSE finds the latest version of a set of them.
LEMMA LatestIs ==
  ASSUME NEW n \in Nat, NEW S \in SUBSET (1..n), S # {}
  PROVE  Latest(S) \in S /\ \A w \in S : w <= Latest(S)
  <1> DEFINE T == {m \in Nat : n - m \in S}
             R == OpToRel(<, Nat)
  <1>1. R = {ss \in Nat \X Nat : ss[1] < ss[2]}
    BY DEF OpToRel
  <1>2. IsWellFoundedOn(R, Nat)
    BY NatLessThanWellFounded, Zenon
  <1>3. T \subseteq Nat /\ T # {}
    <2>1. PICK v \in S : TRUE
      OBVIOUS
    <2>2. n - v \in Nat /\ n - (n - v) = v
      OBVIOUS
    <2> QED
      BY <2>1, <2>2
  <1> HIDE DEF T, R
  <1>4. PICK m \in T : \A k \in T : ~(<<k, m>> \in R)
    BY <1>2, <1>3, WFMin
  <1>5. \A k \in T : m <= k
    <2> SUFFICES ASSUME NEW k \in T, ~(m <= k) PROVE FALSE
      OBVIOUS
    <2>1. k \in Nat /\ m \in Nat /\ k < m
      BY <1>3
    <2>2. <<k, m>> \in {ss \in Nat \X Nat : ss[1] < ss[2]}
      BY <2>1
    <2> QED
      BY <1>1, <1>4, <2>2
  <1>6. n - m \in S /\ m \in Nat
    BY <1>3 DEF T
  <1>7. ASSUME NEW w \in S PROVE w <= n - m
    <2>1. n - w \in Nat /\ n - (n - w) = w
      OBVIOUS
    <2>2. n - w \in T
      BY <2>1 DEF T
    <2> QED
      BY <1>5, <1>6, <2>2
  <1> QED
    BY <1>6, <1>7 DEF Latest

LEMMA ActTypes ==
  ASSUME NEW x \in Cands, NEW act \in Acts
  PROVE  /\ StatusOf(act) \in {"approved", "edited", "rejected"}
         /\ StatusOf(act) \in Accepted <=> act # "reject"
         /\ ValueOf(x, act) \in Cands \cup {Typed, None}
         /\ act # "reject" => ValueOf(x, act) \in {x, Typed}
  BY DEF Acts, StatusOf, ValueOf, Accepted

\* A decision made from the candidate as it is changes that candidate alone.
LEMMA DecidedIs ==
  ASSUME NEW c \in Claim, NEW x \in Cands, NEW act \in Acts, NEW why \in BOOLEAN
  PROVE  LET d == Decided(c, x, c.cand[x], act, why) IN
         /\ d \in Claim
         /\ d.fact = c.fact /\ d.version = c.version /\ d.revision = c.revision
         /\ \A y \in Cands \ {x} : d.cand[y] = c.cand[y]
         /\ d.cand[x].status = StatusOf(act) /\ d.cand[x].value = ValueOf(x, act)
         /\ d.cand[x].made = c.cand[x].made /\ d.cand[x].stale = c.cand[x].stale
  <1> DEFINE row == [c.cand[x] EXCEPT !.status = StatusOf(act), !.value = ValueOf(x, act),
                       !.feedback = [status |-> StatusOf(act), value |-> ValueOf(x, act),
                                     why |-> why]]
             d == Decided(c, x, c.cand[x], act, why)
  <1>1. c.cand[x] \in Cand /\ c.cand \in [Cands -> Cand]
    BY DEF Claim
  <1>2. row \in Cand
    BY <1>1, ActTypes DEF Cand, Feedback, Accepted
  <1>3. d.cand = [c.cand EXCEPT ![x] = row]
    BY DEF Decided, Claim, Column, Cand
  <1>4. d.fact = c.fact /\ d.version = c.version /\ d.revision = c.revision
    BY DEF Decided, Claim
  <1>5. /\ row.status = StatusOf(act) /\ row.value = ValueOf(x, act)
        /\ row.made = c.cand[x].made /\ row.stale = c.cand[x].stale
    BY <1>1 DEF Cand
  <1>6. d = [c EXCEPT !.cand = [c.cand EXCEPT ![x] = row]]
    <2> DEFINE S == StatusOf(act)
               V == ValueOf(x, act)
               c1 == [c EXCEPT !.cand[x].status = S]
               c2 == [c1 EXCEPT !.cand[x].value = V]
    <2>1. c1 = [c EXCEPT !.cand = [c.cand EXCEPT ![x] = [c.cand[x] EXCEPT !.status = S]]]
      OBVIOUS
    <2>2. c2 = [c EXCEPT !.cand = [c.cand EXCEPT ![x] =
                                    [c.cand[x] EXCEPT !.status = S, !.value = V]]]
      BY DEF Claim
    <2>3. d = [c2 EXCEPT !.cand[x].feedback = [status |-> S, value |-> V, why |-> why]]
      BY DEF Decided, Claim, Column, Cand
    <2> HIDE DEF d, c1, c2
    <2>4. c2.cand[x] = [c.cand[x] EXCEPT !.status = S, !.value = V]
      BY <1>1, <2>2 DEF Claim
    <2>5. [c2.cand[x] EXCEPT !.feedback = [status |-> S, value |-> V, why |-> why]] = row
      BY <1>1, <2>4 DEF Cand
    <2>6. [c2.cand EXCEPT ![x] = row] = [c.cand EXCEPT ![x] = row]
      BY <1>1, <2>2 DEF Claim
    <2>7. d = [c2 EXCEPT !.cand = [c2.cand EXCEPT ![x] = row]]
      BY <2>3, <2>5
    <2> QED
      BY <1>1, <2>2, <2>6, <2>7 DEF Claim
  <1> HIDE DEF d, row
  <1>7. d.cand \in [Cands -> Cand]
    BY <1>1, <1>2, <1>3
  <1>8. d \in Claim
    BY <1>6, <1>3, <1>7 DEF Claim
  <1> QED
    BY <1>1, <1>3, <1>4, <1>5, <1>8 DEF d

LEMMA WriteIs ==
  ASSUME NEW c \in Claim, NEW f \in Fact, NextVersion(c) \in Versions
  PROVE  LET e == Write(c, f) IN
         /\ e \in Claim
         /\ e.cand = c.cand /\ e.fact = f /\ e.version = NextVersion(c)
         /\ e.revision[NextVersion(c)] = f
         /\ \A v \in Versions \ {NextVersion(c)} : e.revision[v] = c.revision[v]
  <1> DEFINE n == NextVersion(c)
             e == Write(c, f)
  <1>1. n \in 0..MaxVersion /\ c.revision \in [Versions -> Fact]
    BY FactReviewAssumption DEF Versions, Claim
  <1>2. e.revision = [c.revision EXCEPT ![n] = f]
    BY DEF Write, Claim
  <1>3. e.cand = c.cand /\ e.fact = f /\ e.version = n
    BY DEF Write, Claim
  <1>4. e = [c EXCEPT !.fact = f, !.version = n, !.revision = [c.revision EXCEPT ![n] = f]]
    BY DEF Write, Claim
  <1>5. n \in Versions
    OBVIOUS
  <1> HIDE DEF n, e
  <1>6. [c.revision EXCEPT ![n] = f] \in [Versions -> Fact]
    BY <1>1
  <1>7. e \in Claim
    BY <1>1, <1>4, <1>6 DEF Claim
  <1> QED
    BY <1>1, <1>2, <1>3, <1>5, <1>7 DEF n, e

\* The versions of a claim are those below the next one.
LEMMA NextVersionIs ==
  ASSUME NEW c \in Claim, Versioned(c)
  PROVE  /\ c.version \in Nat /\ NextVersion(c) = c.version + 1
         /\ \A v \in 1..c.version : v \in Versions /\ c.revision[v] \in Fact
  <1>1. c.version \in 0..MaxVersion /\ c.revision \in [Versions -> Fact]
    BY DEF Claim
  <1>2. MaxVersion \in Nat
    BY FactReviewAssumption
  <1> QED
    BY <1>1, <1>2 DEF Versioned, NextVersion, Versions

\* A write of a fact with a source keeps the history whole.
LEMMA WriteVersioned ==
  ASSUME NEW c \in Claim, Versioned(c), NEW f \in Fact, f.source # None,
         NextVersion(c) \in Versions
  PROVE  Versioned(Write(c, f))
  <1> DEFINE n == NextVersion(c)
             e == Write(c, f)
  <1>1. /\ n = c.version + 1 /\ c.version \in Nat /\ n \in Versions
        /\ \A v \in 1..c.version : v \in Versions
    BY NextVersionIs
  <1>2. /\ e.fact = f /\ e.version = n /\ e.revision[n] = f
        /\ \A v \in Versions \ {n} : e.revision[v] = c.revision[v]
    BY WriteIs
  <1> HIDE DEF n, e
  <1>3. \A v \in 1..c.version : c.revision[v] # NoFact
    BY DEF Versioned
  <1>4. f # NoFact
    BY DEF NoFact
  <1>5. \A g \in {e.fact} \cup {e.revision[v] : v \in Versions} : g.source = None => g = NoFact
    BY <1>2 DEF Versioned
  <1>6. \A v \in 1..e.version : e.revision[v] # NoFact
    BY <1>1, <1>2, <1>3, <1>4
  <1> QED
    BY <1>1, <1>2, <1>4, <1>5, <1>6 DEF Versioned, e

-----------------------------------------------------------------------------
(* A decision made from the candidate as it is.                            *)

\* An acceptance makes its candidate the source.
LEMMA AcceptKeeps ==
  ASSUME NEW c, ClaimInv(c), NEW x \in Cands, NEW act \in Acts \ {"reject"},
         NEW why \in BOOLEAN, Commits(c, x, c.cand[x], act, why), c.cand[x].status # "absent"
  PROVE  LET e == Reviewed(c, x, c.cand[x], act, why) IN
         /\ ClaimInv(e)
         /\ \A y \in Cands \ {x} : e.cand[y] = c.cand[y]
         /\ e.cand[x].status = StatusOf(act) /\ e.cand[x].value = ValueOf(x, act)
         /\ e.cand[x].made = c.cand[x].made /\ e.cand[x].stale = c.cand[x].stale
         /\ e.fact.source = x
  <1> DEFINE f == [source |-> x, value |-> ValueOf(x, act), cites |-> c.cand[x].cites]
             d == Decided(c, x, c.cand[x], act, why)
             e == Reviewed(c, x, c.cand[x], act, why)
             n == NextVersion(d)
  <1>1. /\ c \in Claim /\ d \in Claim
        /\ d.fact = c.fact /\ d.version = c.version /\ d.revision = c.revision
        /\ \A y \in Cands \ {x} : d.cand[y] = c.cand[y]
        /\ d.cand[x].status = StatusOf(act) /\ d.cand[x].value = ValueOf(x, act)
        /\ d.cand[x].made = c.cand[x].made /\ d.cand[x].stale = c.cand[x].stale
    BY DecidedIs DEF ClaimInv
  <1>2. e = Write(d, f)
    BY DEF Reviewed, Promotes
  <1>3. f \in Fact /\ f.source = x /\ f.value = ValueOf(x, act) /\ x # None
    BY <1>1, ActTypes, FactReviewAssumption DEF Fact, Claim, Cand
  <1>4. n \in Versions /\ n = NextVersion(c)
    BY <1>1 DEF Commits, Promotes, Withdraws, Storable, NextVersion
  <1> HIDE DEF d, e, f
  <1>5. /\ Versioned(d) /\ Versioned(c)
    BY <1>1 DEF Versioned, ClaimInv
  <1>6. n = c.version + 1 /\ c.version \in Nat
    BY <1>1, <1>5, NextVersionIs
  <1>7. /\ e \in Claim
        /\ e.cand = d.cand /\ e.fact = f /\ e.version = n /\ e.revision[n] = f
        /\ \A v \in Versions \ {n} : e.revision[v] = c.revision[v]
    BY <1>1, <1>2, <1>3, <1>4, WriteIs
  <1>8. Versioned(e)
    BY <1>1, <1>2, <1>3, <1>4, <1>5, WriteVersioned
  <1> HIDE DEF n
  <1>9. \A v \in 1..c.version : v \in Versions \ {n}
    BY <1>1, <1>5, <1>6, NextVersionIs
  <1>10. \A v \in 1..e.version : v = n \/ v \in 1..c.version
    BY <1>6, <1>7
  <1>11. \A y \in Cands \ {x} : IsAccepted(e, y) <=> IsAccepted(c, y)
    BY <1>1, <1>7 DEF IsAccepted
  <1>12. IsAccepted(e, x)
    BY <1>1, <1>7, ActTypes DEF IsAccepted
  <1>13. Spoken(e)
    <2> SUFFICES ASSUME NEW v \in 1..e.version, NEW s \in Cands, s = e.revision[v].source,
                        IsAccepted(e, s)
                 PROVE  \/ e.revision[v].value = e.cand[s].value
                        \/ \E w \in (v + 1)..e.version : e.revision[w].source = s
      BY DEF Spoken
    <2>1. CASE v = n
      BY <1>1, <1>3, <1>7, <2>1
    <2>2. CASE v # n /\ s = x
      <3>1. n \in (v + 1)..e.version /\ e.revision[n].source = s
        BY <1>3, <1>4, <1>6, <1>7, <1>10, <2>2
      <3> QED
        BY <3>1
    <2>3. CASE v # n /\ s # x
      <3>1. v \in 1..c.version /\ c.revision[v].source = s /\ IsAccepted(c, s)
            /\ e.revision[v] = c.revision[v] /\ e.cand[s] = c.cand[s]
        BY <1>1, <1>7, <1>9, <1>10, <1>11, <2>3
      <3>2. \/ c.revision[v].value = c.cand[s].value
            \/ \E w \in (v + 1)..c.version : c.revision[w].source = s
        BY <3>1 DEF ClaimInv, Spoken
      <3>3. ASSUME NEW w \in (v + 1)..c.version, c.revision[w].source = s
            PROVE  w \in (v + 1)..e.version /\ e.revision[w].source = s
        BY <1>6, <1>7, <1>9, <3>3
      <3> QED
        BY <3>1, <3>2, <3>3
    <2> QED
      BY <2>1, <2>2, <2>3
  <1>14. Recallable(e)
    <2>1. ASSUME NEW y \in Cands, IsAccepted(e, y)
          PROVE  \E v \in 1..e.version : e.revision[v].source = y
      <3>1. CASE y = x
        BY <1>3, <1>6, <1>7, <3>1
      <3>2. CASE y # x
        <4>1. PICK v \in 1..c.version : c.revision[v].source = y
          BY <1>11, <2>1, <3>2 DEF ClaimInv, Recallable
        <4>2. v \in 1..e.version /\ e.revision[v].source = y
          BY <1>6, <1>7, <1>9, <4>1
        <4> QED
          BY <4>2
      <3> QED
        BY <3>1, <3>2
    <2> QED
      BY <1>3, <1>7, <1>12, <2>1 DEF Recallable
  <1> QED
    BY <1>1, <1>3, <1>7, <1>8, <1>13, <1>14 DEF ClaimInv, e

\* A rejection of another candidate leaves the fact alone.
LEMMA RejectOtherKeeps ==
  ASSUME NEW c, ClaimInv(c), NEW x \in Cands, NEW why \in BOOLEAN, c.fact.source # x
  PROVE  LET e == Reviewed(c, x, c.cand[x], "reject", why) IN
         /\ ClaimInv(e)
         /\ \A y \in Cands \ {x} : e.cand[y] = c.cand[y]
         /\ e.cand[x].status = "rejected" /\ e.cand[x].value = None
         /\ e.cand[x].made = c.cand[x].made /\ e.cand[x].stale = c.cand[x].stale
         /\ e.fact = c.fact
  <1> DEFINE d == Decided(c, x, c.cand[x], "reject", why)
  <1>1. /\ c \in Claim /\ d \in Claim
        /\ d.fact = c.fact /\ d.version = c.version /\ d.revision = c.revision
        /\ \A y \in Cands \ {x} : d.cand[y] = c.cand[y]
        /\ d.cand[x].status = "rejected" /\ d.cand[x].value = None
        /\ d.cand[x].made = c.cand[x].made /\ d.cand[x].stale = c.cand[x].stale
    BY DecidedIs DEF ClaimInv, Acts, StatusOf, ValueOf
  <1>2. Reviewed(c, x, c.cand[x], "reject", why) = d
    BY <1>1 DEF Reviewed, Promotes, Withdraws
  <1> HIDE DEF d
  <1>3. \A y \in Cands : IsAccepted(d, y) => y # x /\ IsAccepted(c, y)
    BY <1>1 DEF IsAccepted, Accepted
  <1>4. Versioned(d)
    BY <1>1 DEF ClaimInv, Versioned
  <1>5. Spoken(d)
    BY <1>1, <1>3 DEF ClaimInv, Spoken
  <1>6. Recallable(d)
    <2>1. d.fact.source \in Cands => IsAccepted(d, d.fact.source)
      BY <1>1 DEF ClaimInv, Recallable, IsAccepted
    <2> QED
      BY <1>1, <1>3, <2>1 DEF ClaimInv, Recallable
  <1> QED
    BY <1>1, <1>2, <1>4, <1>5, <1>6 DEF ClaimInv

\* A rejection of the source brings back the latest decision that stands, and
\* only when none stands is the fact removed.
LEMMA RejectSourceKeeps ==
  ASSUME NEW c, ClaimInv(c), NEW x \in Cands, NEW why \in BOOLEAN, c.fact.source = x,
         Commits(c, x, c.cand[x], "reject", why)
  PROVE  LET e == Reviewed(c, x, c.cand[x], "reject", why) IN
         /\ ClaimInv(e)
         /\ \A y \in Cands \ {x} : e.cand[y] = c.cand[y]
         /\ e.cand[x].status = "rejected" /\ e.cand[x].value = None
         /\ e.cand[x].made = c.cand[x].made /\ e.cand[x].stale = c.cand[x].stale
         /\ \/ e.fact.source \in {Intake} \cup {y \in Cands : IsAccepted(e, y)}
            \/ e.fact.source = None /\ \A y \in Cands : ~IsAccepted(e, y)
  <1> DEFINE d == Decided(c, x, c.cand[x], "reject", why)
             e == Reviewed(c, x, c.cand[x], "reject", why)
             R == Restorable(d, x)
  <1>1. /\ c \in Claim /\ d \in Claim
        /\ d.fact = c.fact /\ d.version = c.version /\ d.revision = c.revision
        /\ \A y \in Cands \ {x} : d.cand[y] = c.cand[y]
        /\ d.cand[x].status = "rejected" /\ d.cand[x].value = None
        /\ d.cand[x].made = c.cand[x].made /\ d.cand[x].stale = c.cand[x].stale
    BY DecidedIs DEF ClaimInv, Acts, StatusOf, ValueOf
  <1>2. e = IF R = {} THEN [d EXCEPT !.fact = NoFact, !.version = 0]
            ELSE Write(d, d.revision[Latest(R)])
    BY <1>1 DEF Reviewed, Promotes, Withdraws
  <1>3. R = {} \/ Storable(c)
    BY <1>1 DEF Commits, Promotes, Withdraws
  <1>4. R = {v \in 1..(c.version - 1) :
               /\ c.revision[v].source \notin {None, x}
               /\ c.revision[v].source \in Cands => IsAccepted(d, c.revision[v].source)}
    BY <1>1 DEF Restorable, IsAccepted
  <1>5. NextVersion(d) = NextVersion(c)
    BY <1>1 DEF NextVersion
  <1> HIDE DEF d, e, R
  <1>6. \A y \in Cands : IsAccepted(d, y) => y # x /\ IsAccepted(c, y)
    BY <1>1 DEF IsAccepted, Accepted
  <1>7. c.fact # NoFact /\ c.version \in Versions /\ c.revision[c.version] = c.fact
        /\ c.version \in Nat /\ NextVersion(c) = c.version + 1
    <2>1. c.fact # NoFact
      BY FactReviewAssumption DEF NoFact
    <2> QED
      BY <1>1, <2>1, NextVersionIs DEF ClaimInv, Versioned
  <1>8. ASSUME NEW y \in Cands, IsAccepted(d, y)
        PROVE  \E v \in R : c.revision[v].source = y
    <2>1. y # x /\ IsAccepted(c, y)
      BY <1>6, <1>8
    <2>2. PICK v \in 1..c.version : c.revision[v].source = y
      BY <2>1 DEF ClaimInv, Recallable
    <2>3. v # c.version
      BY <1>7, <2>1, <2>2
    <2>4. v \in R
      BY <1>4, <1>7, <1>8, <2>1, <2>2, <2>3, FactReviewAssumption
    <2> QED
      BY <2>2, <2>4
  <1>9. CASE R = {}
    <2>1. e = [d EXCEPT !.fact = NoFact, !.version = 0]
      BY <1>2, <1>9
    <2>2. NoFact \in Fact /\ NoFact.source = None
      BY FactReviewAssumption DEF NoFact, Fact
    <2>3. 0 \in 0..MaxVersion
      BY FactReviewAssumption
    <2>4. e \in Claim /\ e.fact = NoFact /\ e.version = 0
          /\ e.cand = d.cand /\ e.revision = d.revision
      BY <1>1, <2>1, <2>2, <2>3 DEF Claim
    <2>5. \A y \in Cands : ~IsAccepted(e, y)
      BY <1>8, <1>9, <2>4 DEF IsAccepted
    <2>6. Versioned(e)
      BY <1>1, <2>2, <2>4 DEF Versioned, ClaimInv
    <2>7. Spoken(e) /\ Recallable(e)
      BY <2>2, <2>4, <2>5, FactReviewAssumption DEF Spoken, Recallable
    <2> QED
      BY <1>1, <2>2, <2>4, <2>5, <2>6, <2>7 DEF ClaimInv, e
  <1>10. CASE R # {}
    <2> DEFINE l == Latest(R)
               f == c.revision[l]
               n == c.version + 1
    <2>1. l \in R /\ \A w \in R : w <= l
      <3>1. c.version - 1 \in Nat
        BY <1>7 DEF Versions
      <3>2. R \in SUBSET (1..(c.version - 1))
        BY <1>4
      <3> QED
        BY <1>10, <3>1, <3>2, LatestIs
    <2> HIDE DEF l
    <2>2. /\ l \in 1..c.version /\ l \in 1..(c.version - 1) /\ l \in Versions
          /\ f.source \notin {None, x}
          /\ f.source \in Cands => IsAccepted(d, f.source)
      BY <1>1, <1>4, <1>7, <2>1, NextVersionIs DEF ClaimInv
    <2>3. f \in Fact
      BY <1>1, <2>2 DEF Claim
    <2>4. e = Write(d, f)
      BY <1>1, <1>2, <1>10 DEF l
    <2> HIDE DEF f
    <2>5. n \in Versions
      BY <1>3, <1>7, <1>10 DEF Storable
    <2>6. Versioned(d)
      BY <1>1 DEF ClaimInv, Versioned
    <2>7. /\ e \in Claim
          /\ e.cand = d.cand /\ e.fact = f /\ e.version = n /\ e.revision[n] = f
          /\ \A v \in Versions \ {n} : e.revision[v] = c.revision[v]
      BY <1>1, <1>5, <1>7, <2>3, <2>4, <2>5, WriteIs
    <2>8. Versioned(e)
      BY <1>1, <1>5, <1>7, <2>2, <2>3, <2>4, <2>5, <2>6, WriteVersioned
    <2>9. \A v \in 1..c.version : v \in Versions \ {n} /\ v \in 1..n
      BY <1>1, <1>7, NextVersionIs DEF ClaimInv
    <2> HIDE DEF n
    <2>10. \A v \in 1..n : v = n \/ v \in 1..c.version
      BY <1>7 DEF n
    <2>11. \A y \in Cands : IsAccepted(e, y) <=> IsAccepted(d, y)
      BY <2>7 DEF IsAccepted
    <2>12. Spoken(e)
      <3> SUFFICES ASSUME NEW v \in 1..n, NEW s \in Cands, s = e.revision[v].source,
                          IsAccepted(e, s)
                   PROVE  \/ e.revision[v].value = e.cand[s].value
                          \/ \E w \in (v + 1)..n : e.revision[w].source = s
        BY <2>7 DEF Spoken
      <3>1. IsAccepted(c, s) /\ s # x /\ e.cand[s] = c.cand[s]
        BY <1>1, <1>6, <2>7, <2>11
      <3>2. CASE v = n
        <4>1. s = f.source
          BY <2>7, <3>2
        <4>2. ASSUME NEW w \in (l + 1)..c.version, c.revision[w].source = s PROVE FALSE
          <5>1. w # c.version
            BY <1>7, <3>1, <4>2
          <5>2. w \in 1..(c.version - 1)
            BY <1>7, <2>2, <4>2, <5>1
          <5>3. w \in R
            BY <1>4, <2>2, <4>1, <4>2, <5>2, <3>1
          <5> QED
            BY <1>7, <2>1, <2>2, <4>2, <5>3
        <4>3. f.value = c.cand[s].value
          BY <2>2, <3>1, <4>1, <4>2 DEF ClaimInv, Spoken, f
        <4> QED
          BY <2>7, <3>1, <3>2, <4>3
      <3>3. CASE v # n /\ f.source = s
        <4>1. n \in (v + 1)..n
          BY <1>7, <2>10, <3>3 DEF n
        <4> QED
          BY <2>7, <3>3, <4>1
      <3>4. CASE v # n /\ f.source # s
        <4>1. v \in 1..c.version /\ c.revision[v].source = s /\ e.revision[v] = c.revision[v]
          BY <2>7, <2>9, <2>10, <3>4
        <4>2. \/ c.revision[v].value = c.cand[s].value
              \/ \E w \in (v + 1)..c.version : c.revision[w].source = s
          BY <3>1, <4>1 DEF ClaimInv, Spoken
        <4>3. ASSUME NEW w \in (v + 1)..c.version, c.revision[w].source = s
              PROVE  w \in (v + 1)..n /\ e.revision[w].source = s
          <5>1. w \in 1..c.version /\ w \in (v + 1)..n
            BY <1>7, <4>1 DEF n
          <5> QED
            BY <2>7, <2>9, <4>3, <5>1
        <4> QED
          BY <3>1, <4>1, <4>2, <4>3
      <3> QED
        BY <3>2, <3>3, <3>4
    <2>13. Recallable(e)
      <3>1. ASSUME NEW y \in Cands, IsAccepted(e, y)
            PROVE  \E v \in 1..n : e.revision[v].source = y
        <4>1. PICK v \in 1..c.version : c.revision[v].source = y
          BY <1>6, <2>11, <3>1 DEF ClaimInv, Recallable
        <4> QED
          BY <2>7, <2>9, <4>1
      <3> QED
        BY <2>2, <2>7, <2>11, <3>1 DEF Recallable
    <2>14. e.fact.source \in {Intake} \cup {y \in Cands : IsAccepted(e, y)}
      <3>1. f.source \in Cands \cup {Intake}
        BY <2>2, <2>3 DEF Fact
      <3> QED
        BY <2>2, <2>7, <2>11, <3>1
    <2> QED
      BY <1>1, <2>7, <2>8, <2>12, <2>13, <2>14 DEF ClaimInv, e
  <1> QED
    BY <1>9, <1>10

\* What a decision makes of the fact.
FactMoves(c, e, x, act) ==
    \/ act # "reject" /\ e.fact.source = x
    \/ act = "reject" /\ c.fact.source # x /\ e.fact = c.fact
    \/ /\ act = "reject" /\ c.fact.source = x
       /\ \/ e.fact.source \in {Intake} \cup {y \in Cands : IsAccepted(e, y)}
          \/ e.fact.source = None /\ \A y \in Cands : ~IsAccepted(e, y)

\* The claim after a decision on x.
Follows(c, e, x, act) ==
    /\ ClaimInv(e)
    /\ \A y \in Cands \ {x} : e.cand[y] = c.cand[y]
    /\ e.cand[x].status = StatusOf(act) /\ e.cand[x].value = ValueOf(x, act)
    /\ e.cand[x].made = c.cand[x].made /\ e.cand[x].stale = c.cand[x].stale
    /\ FactMoves(c, e, x, act)

LEMMA DecisionKeeps ==
  ASSUME NEW c, ClaimInv(c), NEW x \in Cands, NEW act \in Acts, NEW why \in BOOLEAN,
         Commits(c, x, c.cand[x], act, why), c.cand[x].status # "absent"
  PROVE  Follows(c, Reviewed(c, x, c.cand[x], act, why), x, act)
  <1>1. CASE act # "reject"
    BY <1>1, AcceptKeeps DEF Follows, FactMoves
  <1>2. CASE act = "reject" /\ c.fact.source # x
    BY <1>2, RejectOtherKeeps DEF Follows, FactMoves, StatusOf, ValueOf
  <1>3. CASE act = "reject" /\ c.fact.source = x
    BY <1>3, RejectSourceKeeps DEF Follows, FactMoves, StatusOf, ValueOf
  <1> QED
    BY <1>1, <1>2, <1>3

-----------------------------------------------------------------------------
(* The other writes of the claim.                                          *)

LEMMA UncitedIs ==
  /\ \A f \in Fact : /\ Uncited(f) \in Fact
                     /\ Uncited(f).source = f.source /\ Uncited(f).value = f.value
                     /\ f # NoFact /\ f.source # None => Uncited(f) # NoFact
  /\ Uncited(NoFact) = NoFact
  <1>1. 0 \in 0..MaxGen
    BY FactReviewAssumption
  <1>2. ASSUME NEW f \in Fact
        PROVE  /\ Uncited(f) \in Fact
               /\ Uncited(f).source = f.source /\ Uncited(f).value = f.value
    BY <1>1 DEF Uncited, Fact
  <1>3. Uncited(NoFact) = NoFact
    BY DEF Uncited, NoFact
  <1>4. NoFact.source = None
    BY DEF NoFact
  <1> QED
    BY <1>2, <1>3, <1>4

LEMMA ReplaceKeeps ==
  ASSUME ClaimInv(claim), NEW w \in Workers, ReplaceText(w)
  PROVE  /\ ClaimInv(claim')
         /\ \A x \in Cands : /\ claim'.cand[x].status = claim.cand[x].status
                             /\ claim'.cand[x].value = claim.cand[x].value
                             /\ claim'.cand[x].made = claim.cand[x].made
                             /\ claim'.cand[x].stale =
                                  (claim.cand[x].stale \/ x \in worker[w].seen)
         /\ claim'.fact.source = claim.fact.source
  <1> DEFINE row(x) == [Uncited(claim.cand[x]) EXCEPT
                          !.stale = @ \/ x \in worker[w].seen,
                          !.verified = @ /\ x \notin worker[w].seen]
             cands == [x \in Cands |-> row(x)]
             revisions == [v \in Versions |-> Uncited(claim.revision[v])]
  <1>1. claim' = [claim EXCEPT !.cand = cands, !.fact = Uncited(@), !.revision = revisions]
    BY DEF ReplaceText, ClaimInv, Claim
  <1>2. claim \in Claim /\ claim.fact \in Fact /\ claim.revision \in [Versions -> Fact]
        /\ claim.cand \in [Cands -> Cand]
    BY DEF ClaimInv, Claim
  <1>3. ASSUME NEW x \in Cands
        PROVE  /\ row(x) \in Cand
               /\ row(x).status = claim.cand[x].status
               /\ row(x).value = claim.cand[x].value
               /\ row(x).made = claim.cand[x].made
               /\ row(x).stale = (claim.cand[x].stale \/ x \in worker[w].seen)
    <2>1. 0 \in 0..MaxGen
      BY FactReviewAssumption
    <2> QED
      BY <1>2, <2>1 DEF Cand, Uncited
  <1> HIDE DEF row
  <1>4. cands \in [Cands -> Cand] /\ \A x \in Cands : cands[x] = row(x)
    BY <1>3
  <1>5. revisions \in [Versions -> Fact]
        /\ \A v \in Versions : revisions[v] = Uncited(claim.revision[v])
    BY <1>2, UncitedIs
  <1> HIDE DEF cands, revisions
  <1>6. /\ claim' \in Claim
        /\ claim'.cand = cands /\ claim'.fact = Uncited(claim.fact)
        /\ claim'.version = claim.version /\ claim'.revision = revisions
    BY <1>1, <1>2, <1>4, <1>5, UncitedIs DEF Claim
  <1>7. \A v \in 1..claim.version : v \in Versions /\ claim.version \in Nat
    BY <1>2, NextVersionIs DEF ClaimInv
  <1>8. \A f \in {claim.fact} \cup {claim.revision[v] : v \in Versions} :
          (f.source = None => f = NoFact) /\ f \in Fact
    BY <1>2 DEF ClaimInv, Versioned
  <1>9. \A f \in {claim.fact} \cup {claim.revision[v] : v \in Versions} :
          /\ Uncited(f) = NoFact <=> f = NoFact
          /\ Uncited(f).source = None => Uncited(f) = NoFact
          /\ Uncited(f).source = f.source /\ Uncited(f).value = f.value
    BY <1>8, UncitedIs
  <1>10. Versioned(claim')
    <2>1. \A f \in {claim'.fact} \cup {claim'.revision[v] : v \in Versions} :
            f.source = None => f = NoFact
      BY <1>5, <1>6, <1>9
    <2>2. claim'.fact = NoFact <=> claim.fact = NoFact
      BY <1>6, <1>9
    <2>3. ASSUME claim.fact # NoFact
          PROVE  /\ claim.version \in Versions /\ revisions[claim.version] = claim'.fact
                 /\ \A v \in 1..claim.version : revisions[v] # NoFact
      BY <1>5, <1>6, <1>7, <1>9, <2>3 DEF ClaimInv, Versioned
    <2> QED
      BY <1>6, <2>1, <2>2, <2>3 DEF ClaimInv, Versioned
  <1>11. \A x \in Cands : IsAccepted(claim', x) <=> IsAccepted(claim, x)
    BY <1>3, <1>4, <1>6 DEF IsAccepted
  <1>12. \A v \in 1..claim.version : /\ revisions[v].source = claim.revision[v].source
                                     /\ revisions[v].value = claim.revision[v].value
    BY <1>5, <1>7, <1>9
  <1>13. \A v \in 1..claim.version : \A u \in (v + 1)..claim.version : u \in 1..claim.version
    BY <1>7
  <1>14. Spoken(claim')
    BY <1>3, <1>4, <1>6, <1>11, <1>12, <1>13 DEF ClaimInv, Spoken
  <1>15. Recallable(claim')
    BY <1>6, <1>9, <1>11, <1>12 DEF ClaimInv, Recallable
  <1> QED
    BY <1>3, <1>4, <1>6, <1>9, <1>10, <1>14, <1>15 DEF ClaimInv

LEMMA CommitKeeps ==
  ASSUME ReviewInv, NEW w \in Workers, CommitRun(w)
  PROVE  LET x == worker[w].item IN
         /\ x \in Cands /\ claim.cand[x].status = "absent"
         /\ ClaimInv(claim')
         /\ \A y \in Cands \ {x} : claim'.cand[y] = claim.cand[y]
         /\ claim'.cand[x] = worker[w].cand /\ worker[w].cand.status = "pending"
         /\ claim'.fact = claim.fact
  <1> DEFINE x == worker[w].item
             row == worker[w].cand
  <1>1. x \in Cands /\ claim.cand[x].status = "absent" /\ row.status = "pending"
        /\ row \in Cand
    BY DEF ReviewInv, RunInv, CommitRun, TypeOK, WorkerState
  <1>2. claim' = [claim EXCEPT !.cand = [claim.cand EXCEPT ![x] = row]]
    BY DEF CommitRun
  <1> HIDE DEF x, row
  <1>3. claim \in Claim /\ claim.cand \in [Cands -> Cand]
    BY DEF ReviewInv, ClaimInv, Claim
  <1>4. [claim.cand EXCEPT ![x] = row] \in [Cands -> Cand]
    BY <1>1, <1>3
  <1>5. /\ claim' \in Claim /\ claim'.cand = [claim.cand EXCEPT ![x] = row]
        /\ claim'.fact = claim.fact /\ claim'.version = claim.version
        /\ claim'.revision = claim.revision
    BY <1>2, <1>3, <1>4 DEF Claim
  <1>6. claim'.cand[x] = row /\ \A y \in Cands \ {x} : claim'.cand[y] = claim.cand[y]
    BY <1>1, <1>3, <1>5
  <1>7. \A y \in Cands : IsAccepted(claim', y) <=> IsAccepted(claim, y)
    BY <1>1, <1>6 DEF IsAccepted, Accepted
  <1>8. \A y \in Cands : IsAccepted(claim, y) => y # x
    BY <1>1 DEF IsAccepted, Accepted
  <1>9. Versioned(claim')
    BY <1>5 DEF ReviewInv, ClaimInv, Versioned
  <1>10. Spoken(claim') /\ Recallable(claim')
    BY <1>5, <1>6, <1>7, <1>8 DEF ReviewInv, ClaimInv, Spoken, Recallable
  <1> QED
    BY <1>1, <1>5, <1>6, <1>9, <1>10 DEF ClaimInv, x, row

-----------------------------------------------------------------------------
(* The invariant.                                                          *)

\* A decision of a request under the lock, on one candidate or on two.
ReviewsOne(r, x, act, why) ==
    /\ x = review[r].item /\ x \in Cands /\ act \in Acts /\ why \in BOOLEAN
    /\ SourceAllows(claim.cand[x], act, why)
    /\ \A q \in Reviewers \ {r} : review[q].item # x
    /\ Follows(claim, claim', x, act)
    /\ review' = [review EXCEPT ![r] = NoRequest]
    /\ UNCHANGED <<text, worker>>

ReviewsTwo(r, x, y, act, why) ==
    /\ x = review[r].item /\ x \in Cands /\ y \in Cands \ {x}
    /\ act \in {"approve", "reject"} /\ why \in BOOLEAN
    /\ \A z \in {x, y} : /\ claim.cand[z].status = "pending"
                         /\ SourceAllows(claim.cand[z], act, why)
    /\ \A q \in Reviewers \ {r} : review[q].item \notin {x, y}
    /\ \E half : Follows(claim, half, x, act) /\ Follows(half, claim', y, act)
    /\ review' = [review EXCEPT ![r] = NoRequest]
    /\ UNCHANGED <<text, worker>>

\* What a request read is still so when it gets the lock.
LEMMA ReviewIsDecision ==
  ASSUME ~Overlap, ReviewInv, NEW r \in Reviewers, NEW act \in Acts, NEW why \in BOOLEAN,
         NEW confirm \in BOOLEAN, Review(r, act, why, confirm)
  PROVE  \E x \in Cands : ReviewsOne(r, x, act, why)
  <1> DEFINE x == review[r].item
  <1>1. /\ x \in Cands /\ review[r].view = claim.cand[x]
        /\ claim.cand[x].status # "absent"
    BY DEF Review, ReviewInv, ViewInv, TypeOK, Request
  <1>2. /\ \A q \in Reviewers \ {r} : review[q].item # x
        /\ SourceAllows(claim.cand[x], act, why)
        /\ Commits(claim, x, claim.cand[x], act, why)
        /\ claim' = Reviewed(claim, x, claim.cand[x], act, why)
        /\ review' = [review EXCEPT ![r] = NoRequest] /\ UNCHANGED <<text, worker>>
    BY <1>1 DEF Review, Undisturbed, End
  <1>3. Follows(claim, claim', x, act)
    BY <1>1, <1>2, DecisionKeeps DEF ReviewInv
  <1> QED
    BY <1>1, <1>2, <1>3 DEF ReviewsOne

LEMMA GroupIsDecision ==
  ASSUME ~Overlap, ReviewInv, NEW r \in Reviewers, NEW y \in Cands,
         NEW act \in {"approve", "reject"}, NEW why \in BOOLEAN, ReviewGroup(r, y, act, why)
  PROVE  \E x \in Cands : ReviewsTwo(r, x, y, act, why)
  <1> DEFINE x == review[r].item
             half == Reviewed(claim, x, claim.cand[x], act, why)
  <1>1. /\ x \in Cands /\ x # y /\ review[r].view = claim.cand[x]
    BY DEF ReviewGroup, ReviewInv, ViewInv, TypeOK, Request
  <1>2. /\ \A q \in Reviewers \ {r} : review[q].item \notin {x, y}
        /\ \A z \in {x, y} : /\ claim.cand[z].status = "pending"
                             /\ SourceAllows(claim.cand[z], act, why)
        /\ Commits(claim, x, claim.cand[x], act, why)
        /\ Commits(half, y, half.cand[y], act, why)
        /\ claim' = Reviewed(half, y, half.cand[y], act, why)
        /\ review' = [review EXCEPT ![r] = NoRequest] /\ UNCHANGED <<text, worker>>
    BY <1>1 DEF ReviewGroup, Undisturbed, End
  <1> HIDE DEF half
  <1>3. act \in Acts
    BY DEF Acts
  <1>4. Follows(claim, half, x, act)
    BY <1>1, <1>2, <1>3, DecisionKeeps DEF ReviewInv, half
  <1>5. ClaimInv(half) /\ half.cand[y] = claim.cand[y]
    BY <1>1, <1>4 DEF Follows
  <1>6. Follows(half, claim', y, act)
    BY <1>2, <1>3, <1>5, DecisionKeeps
  <1> QED
    BY <1>1, <1>2, <1>4, <1>6 DEF ReviewsTwo

\* Decisions change candidates that no other request has read and that no
\* worker is about to insert.
LEMMA DecisionInv ==
  ASSUME ReviewInv, NEW r \in Reviewers, NEW X \in SUBSET Cands,
         ClaimInv(claim'), \A z \in Cands \ X : claim'.cand[z] = claim.cand[z],
         \A z \in X : claim.cand[z].status # "absent",
         \A q \in Reviewers \ {r} : review[q].item \notin X,
         review' = [review EXCEPT ![r] = NoRequest], UNCHANGED <<text, worker>>
  PROVE  ReviewInv'
  <1>1. NoRequest \in Request /\ NoRequest.item = None
    BY FactReviewAssumption DEF NoRequest, Request, NoCand, Cand, NoFeedback, Feedback
  <1>2. TypeOK'
    BY <1>1 DEF ReviewInv, TypeOK, ClaimInv
  <1>3. ViewInv'
    BY <1>1 DEF ReviewInv, ViewInv, TypeOK, Request
  <1>4. RunInv' /\ ExtractInv'
    BY DEF ReviewInv, RunInv, ExtractInv
  <1> QED
    BY <1>2, <1>3, <1>4 DEF ReviewInv

LEMMA OneInv ==
  ASSUME ReviewInv, NEW r \in Reviewers, NEW x \in Cands, NEW act, NEW why,
         ReviewsOne(r, x, act, why)
  PROVE  ReviewInv'
  <1>1. claim.cand[x].status # "absent"
    BY FactReviewAssumption DEF ReviewsOne, ReviewInv, ViewInv
  <1>2. /\ ClaimInv(claim') /\ \A z \in Cands \ {x} : claim'.cand[z] = claim.cand[z]
        /\ \A q \in Reviewers \ {r} : review[q].item \notin {x}
        /\ review' = [review EXCEPT ![r] = NoRequest] /\ UNCHANGED <<text, worker>>
    BY DEF ReviewsOne, Follows
  <1> QED
    BY <1>1, <1>2, DecisionInv

LEMMA TwoInv ==
  ASSUME ReviewInv, NEW r \in Reviewers, NEW x \in Cands, NEW y \in Cands, NEW act, NEW why,
         ReviewsTwo(r, x, y, act, why)
  PROVE  ReviewInv'
  <1>1. PICK half : Follows(claim, half, x, act) /\ Follows(half, claim', y, act)
    BY DEF ReviewsTwo
  <1>2. ClaimInv(claim') /\ \A z \in Cands \ {x, y} : claim'.cand[z] = claim.cand[z]
    BY <1>1 DEF Follows
  <1>3. /\ \A z \in {x, y} : claim.cand[z].status # "absent"
        /\ \A q \in Reviewers \ {r} : review[q].item \notin {x, y}
        /\ review' = [review EXCEPT ![r] = NoRequest] /\ UNCHANGED <<text, worker>>
    BY DEF ReviewsTwo
  <1> QED
    BY <1>2, <1>3, DecisionInv

\* A worker's step that leaves the claim alone.
Works(w) ==
    \/ StartText(w) \/ SelectCandidates(w) \/ FailText(w) \/ StartRun(w)
    \/ (\E x \in Cands : InsertRun(w, x)) \/ FailRun(w) \/ Die(w)

LEMMA IdleType == Idle \in WorkerState /\ Idle.pc = "idle" /\ Idle.item = None
  BY FactReviewAssumption DEF Idle, WorkerState, NoCand, Cand, NoFeedback, Feedback

LEMMA WorkInv ==
  ASSUME ReviewInv, NEW w \in Workers, Works(w)
  PROVE  ReviewInv'
  <1>1. /\ claim' = claim /\ review' = review
        /\ \A v \in Workers \ {w} : worker'[v] = worker[v]
    BY DEF Works, StartText, SelectCandidates, FailText, StartRun, InsertRun, FailRun, Die,
           Enter, Rest, ReviewInv, TypeOK
  <1>2. worker \in [Workers -> WorkerState] /\ text.gen \in Gens /\ Gens \subseteq 0..MaxGen
    BY FactReviewAssumption DEF ReviewInv, TypeOK, Gens
  <1>3. text' \in [status : {"uploaded", "processing", "processed", "failed"}, gen : Gens]
    BY DEF ReviewInv, TypeOK, Works, StartText, SelectCandidates, FailText, StartRun,
           InsertRun, FailRun, Die
  <1>4. CASE \E x \in Cands : InsertRun(w, x)
    <2>1. PICK x \in Cands : InsertRun(w, x)
      BY <1>4
    <2>2. PICK g \in {0, worker[w].gen}, q \in BOOLEAN :
            worker' = [worker EXCEPT ![w].pc = "inserted", ![w].item = x,
                                     ![w].cand = Answer(w, g, q)]
      BY <2>1 DEF InsertRun
    <2> DEFINE c == Answer(w, g, q)
    <2>3. c \in Cand /\ c.status = "pending"
      <3>1. NoCand \in Cand /\ worker[w].gen \in 0..MaxGen /\ 0 \in 0..MaxGen
        BY <1>2, FactReviewAssumption DEF NoCand, Cand, NoFeedback, Feedback, WorkerState
      <3> QED
        BY <3>1 DEF Answer, Cand
    <2> HIDE DEF c
    <2>4. worker' = [worker EXCEPT ![w].pc = "inserted", ![w].item = x, ![w].cand = c]
      BY <2>2 DEF c
    <2>5. worker' \in [Workers -> WorkerState] /\ worker'[w].item = x
          /\ worker'[w].cand = c
      <3> DEFINE r == [worker[w] EXCEPT !.pc = "inserted", !.item = x, !.cand = c]
      <3>1. r \in WorkerState /\ r.item = x /\ r.cand = c
        BY <1>2, <2>3 DEF WorkerState
      <3>2. worker' = [worker EXCEPT ![w] = r]
        BY <1>2, <2>4 DEF WorkerState
      <3> HIDE DEF r
      <3> QED
        BY <1>2, <3>1, <3>2
    <2>6. claim.cand[x].status = "absent" /\ \A v \in Workers : worker[v].item # x
      BY <2>1 DEF InsertRun
    <2>7. worker'[w].pc = "inserted" /\ text' = text
      BY <1>2, <2>1, <2>2 DEF InsertRun, WorkerState
    <2>8. ExtractInv'
      BY <1>1, <2>7 DEF ReviewInv, ExtractInv
    <2> QED
      BY <1>1, <1>3, <2>3, <2>5, <2>6, <2>8 DEF ReviewInv, TypeOK, ViewInv, RunInv
  <1>5. CASE ~\E x \in Cands : InsertRun(w, x)
    <2>1. worker' \in [Workers -> WorkerState] /\ worker'[w].pc # "inserted"
      BY <1>2, <1>5, IdleType
         DEF Works, StartText, SelectCandidates, FailText, StartRun, FailRun, Die, Enter, Rest,
             WorkerState
    <2>2. worker'[w].item = worker[w].item \/ worker'[w].item = None
      BY <1>2, <1>5, IdleType
         DEF Works, StartText, SelectCandidates, FailText, StartRun, FailRun, Die, Enter, Rest,
             WorkerState
    <2>3. RunInv'
      BY <1>1, <2>1, <2>2, FactReviewAssumption DEF ReviewInv, RunInv
    <2>4. /\ text'.gen = text.gen
          /\ worker'[w].pc \in {"extracting", "selected"} =>
               \/ worker[w].pc \in {"extracting", "selected"}
               \/ /\ text.gen < MaxGen
                  /\ \A v \in Workers : worker[v].pc \notin {"extracting", "selected"}
      BY <1>2, <1>5, IdleType
         DEF Works, StartText, SelectCandidates, FailText, StartRun, FailRun, Die, Enter, Rest,
             WorkerState, ReviewInv, TypeOK
    <2>5. ExtractInv'
      BY <1>1, <2>4 DEF ReviewInv, ExtractInv
    <2> QED
      BY <1>1, <1>3, <2>1, <2>3, <2>5 DEF ReviewInv, TypeOK, ViewInv
  <1> QED
    BY <1>4, <1>5

LEMMA ReplaceInv ==
  ASSUME ~Overlap, ReviewInv, NEW w \in Workers, ReplaceText(w)
  PROVE  ReviewInv'
  <1>1. /\ ClaimInv(claim')
        /\ \A x \in Cands : claim'.cand[x].status = claim.cand[x].status
    BY ReplaceKeeps DEF ReviewInv
  <1>2. \A r \in Reviewers : review'[r] = NoRequest /\ review' = review
    BY DEF ReplaceText
  <1>3. NoRequest.item = None
    BY DEF NoRequest
  <1>4. worker' = [worker EXCEPT ![w] = Idle] /\ worker \in [Workers -> WorkerState]
    BY DEF ReplaceText, Rest, ReviewInv, TypeOK
  <1>5. TypeOK'
    <2>1. text' \in [status : {"uploaded", "processing", "processed", "failed"}, gen : Gens]
      <3>1. text.gen \in Nat /\ text.gen + 1 \in Gens
        BY FactReviewAssumption DEF ReviewInv, TypeOK, ReplaceText, ExtractInv, Gens
      <3> QED
        BY <3>1 DEF ReplaceText
    <2> QED
      BY <1>1, <1>4, <2>1, IdleType DEF ReviewInv, TypeOK, ReplaceText, ClaimInv
  <1>6. RunInv'
    BY <1>1, <1>4, IdleType, FactReviewAssumption DEF ReviewInv, RunInv
  <1>7. ExtractInv'
    BY <1>4, IdleType DEF ReviewInv, ExtractInv, ReplaceText
  <1> QED
    BY <1>1, <1>2, <1>3, <1>5, <1>6, <1>7 DEF ReviewInv, ViewInv

LEMMA CommitInv ==
  ASSUME ReviewInv, NEW w \in Workers, CommitRun(w)
  PROVE  ReviewInv'
  <1> DEFINE x == worker[w].item
  <1>1. /\ x \in Cands /\ claim.cand[x].status = "absent" /\ ClaimInv(claim')
        /\ \A y \in Cands \ {x} : claim'.cand[y] = claim.cand[y]
    BY CommitKeeps
  <1>2. /\ worker' = [worker EXCEPT ![w] = Idle] /\ worker[w].pc = "inserted"
        /\ UNCHANGED <<text, review>> /\ worker \in [Workers -> WorkerState]
    BY DEF CommitRun, Rest, ReviewInv, TypeOK
  <1>3. TypeOK'
    BY <1>1, <1>2, IdleType DEF ReviewInv, TypeOK, ClaimInv
  <1>4. ViewInv'
    BY <1>1, <1>2 DEF ReviewInv, ViewInv, TypeOK, Request
  <1>5. RunInv'
    BY <1>1, <1>2, IdleType, FactReviewAssumption DEF ReviewInv, RunInv
  <1>6. ExtractInv'
    BY <1>2, IdleType DEF ReviewInv, ExtractInv
  <1> QED
    BY <1>1, <1>3, <1>4, <1>5, <1>6 DEF ReviewInv

\* What a step is, as far as the claim is concerned.
LEMMA StepKinds ==
  ASSUME ~Overlap, ReviewInv, [Next]_vars
  PROVE  \/ \E r \in Reviewers, x \in Cands, act \in Acts, why \in BOOLEAN :
               ReviewsOne(r, x, act, why)
         \/ \E r \in Reviewers, x, y \in Cands, act \in {"approve", "reject"}, why \in BOOLEAN :
               ReviewsTwo(r, x, y, act, why)
         \/ \E w \in Workers : ReplaceText(w) \/ CommitRun(w) \/ Works(w)
         \/ \E r \in Reviewers, x \in Cands : Read(r, x)
         \/ \E r \in Reviewers : Refuse(r)
         \/ UNCHANGED vars
  <1>1. CASE Decision
    <2>1. PICK r \in Reviewers :
            \/ \E x \in Cands : Read(r, x)
            \/ \E act \in Acts, why, confirm \in BOOLEAN : Review(r, act, why, confirm)
            \/ \E y \in Cands, act \in {"approve", "reject"}, why \in BOOLEAN :
                  ReviewGroup(r, y, act, why)
            \/ Refuse(r)
      BY <1>1 DEF Decision, Acts
    <2>2. ASSUME NEW act \in Acts, NEW why \in BOOLEAN, NEW confirm \in BOOLEAN,
                 Review(r, act, why, confirm)
          PROVE  \E x \in Cands : ReviewsOne(r, x, act, why)
      BY <2>2, ReviewIsDecision
    <2>3. ASSUME NEW y \in Cands, NEW act \in {"approve", "reject"}, NEW why \in BOOLEAN,
                 ReviewGroup(r, y, act, why)
          PROVE  \E x \in Cands : ReviewsTwo(r, x, y, act, why)
      BY <2>3, GroupIsDecision
    <2> QED
      BY <2>1, <2>2, <2>3
  <1>2. CASE Next /\ ~Decision
    BY <1>2 DEF Next, Works
  <1> QED
    BY <1>1, <1>2

LEMMA ReviewInvNext ==
  ASSUME ~Overlap, ReviewInv, [Next]_vars
  PROVE  ReviewInv'
  <1>1. ASSUME NEW r \in Reviewers, NEW x \in Cands, Read(r, x)
        PROVE  ReviewInv'
    <2>1. /\ review' = [review EXCEPT ![r] = [item |-> x, view |-> claim.cand[x]]]
          /\ claim.cand[x].status # "absent" /\ UNCHANGED <<text, claim, worker>>
      BY <1>1 DEF Read
    <2>2. claim.cand[x] \in Cand
      BY DEF ReviewInv, ClaimInv, Claim
    <2> QED
      BY <2>1, <2>2 DEF ReviewInv, TypeOK, ClaimInv, Request, ViewInv, RunInv, ExtractInv
  <1>2. ASSUME NEW r \in Reviewers, Refuse(r)
        PROVE  ReviewInv'
    <2>1. review' = [review EXCEPT ![r] = NoRequest] /\ UNCHANGED <<text, claim, worker>>
      BY <1>2 DEF Refuse, End
    <2>2. /\ {} \in SUBSET Cands /\ ClaimInv(claim')
          /\ \A z \in Cands \ {} : claim'.cand[z] = claim.cand[z]
      BY <2>1 DEF ReviewInv
    <2> QED
      BY <2>1, <2>2, DecisionInv
  <1>3. CASE UNCHANGED vars
    BY <1>3 DEF vars, ReviewInv, TypeOK, ViewInv, RunInv, ExtractInv
  <1> QED
    BY <1>1, <1>2, <1>3, StepKinds, OneInv, TwoInv, WorkInv, ReplaceInv, CommitInv

LEMMA ReviewInvInit == Init => ReviewInv
  <1> SUFFICES ASSUME Init PROVE ReviewInv
    OBVIOUS
  <1>1. PICK f \in {NoFact, [source |-> Intake, value |-> Intake, cites |-> 0]} :
          claim = [cand |-> [x \in Cands |-> NoCand], fact |-> f,
                   version |-> IF f = NoFact THEN 0 ELSE 1,
                   revision |-> [v \in Versions |-> IF v = 1 THEN f ELSE NoFact]]
    BY DEF Init
  <1>2. /\ f \in Fact /\ NoFact \in Fact /\ NoCand \in Cand /\ NoRequest \in Request
        /\ f.source \in {Intake, None} /\ (f.source = None => f = NoFact)
        /\ NoFact.source = None
    BY FactReviewAssumption DEF NoFact, Fact, NoCand, Cand, NoFeedback, Feedback, NoRequest,
                                Request
  <1>3. 0 \in 0..MaxVersion /\ 1 \in Versions /\ 1 \in 0..MaxVersion
    BY FactReviewAssumption DEF Versions
  <1>4. /\ claim.fact = f /\ claim.version = (IF f = NoFact THEN 0 ELSE 1)
        /\ \A v \in Versions : claim.revision[v] = (IF v = 1 THEN f ELSE NoFact)
        /\ \A x \in Cands : claim.cand[x] = NoCand
    BY <1>1
  <1>5. claim \in Claim
    BY <1>1, <1>2, <1>3 DEF Claim
  <1>6. \A x \in Cands : ~IsAccepted(claim, x)
    BY <1>4 DEF IsAccepted, NoCand, Accepted
  <1>7. Versioned(claim)
    BY <1>2, <1>3, <1>4 DEF Versioned
  <1>8. Spoken(claim) /\ Recallable(claim)
    BY <1>2, <1>4, <1>6, FactReviewAssumption DEF Spoken, Recallable
  <1>9. TypeOK /\ ViewInv /\ RunInv /\ ExtractInv
    <2>1. [status |-> "processed", gen |-> 1]
            \in [status : {"uploaded", "processing", "processed", "failed"}, gen : Gens]
      BY FactReviewAssumption DEF Gens
    <2> QED
      BY <1>2, <1>5, <2>1, IdleType DEF Init, TypeOK, ViewInv, RunInv, ExtractInv, NoRequest
  <1> QED
    BY <1>5, <1>7, <1>8, <1>9 DEF ReviewInv, ClaimInv

LEMMA ReviewInvariant == ~Overlap => (Spec => []ReviewInv)
  <1> SUFFICES ASSUME ~Overlap PROVE Spec => []ReviewInv
    OBVIOUS
  <1>1. ReviewInv /\ [Next]_vars => ReviewInv'
    BY ReviewInvNext
  <1> QED
    BY <1>1, ReviewInvInit, PTL DEF Spec

\* The newest revision is the fact and no version below it is missing, whoever
\* reviews what and whatever is reprocessed.
THEOREM HistoryIsWhole == ~Overlap => (Spec => []FactInv)
  <1>1. ReviewInv => FactInv
    BY DEF ReviewInv, ClaimInv, Versioned, FactInv, HistoryExplainsFact
  <1> QED
    BY <1>1, ReviewInvariant, PTL

\* A fact that came from a machine rests on a decision that stands, with the
\* value that was accepted.
THEOREM FactsHaveAuthority == ~Overlap => (Spec => []FactHasAuthority)
  <1>1. ASSUME ReviewInv PROVE FactHasAuthority
    <2> SUFFICES ASSUME claim.fact.source \in Cands
                 PROVE  /\ claim.cand[claim.fact.source].status \in Accepted
                        /\ claim.cand[claim.fact.source].value = claim.fact.value
      BY DEF FactHasAuthority
    <2>1. ClaimInv(claim)
      BY <1>1 DEF ReviewInv
    <2>2. claim.fact # NoFact
      BY FactReviewAssumption DEF NoFact
    <2>3. claim.version \in Nat /\ claim.version \in 1..claim.version
          /\ claim.revision[claim.version] = claim.fact
      BY <2>1, <2>2, NextVersionIs DEF ClaimInv, Versioned, Versions
    <2>4. IsAccepted(claim, claim.fact.source)
      BY <2>1 DEF ClaimInv, Recallable
    <2> QED
      BY <2>1, <2>3, <2>4 DEF ClaimInv, Spoken, IsAccepted
  <1> QED
    BY <1>1, ReviewInvariant, PTL

-----------------------------------------------------------------------------
(* Approvals and the text, with one document worker.                       *)

\* With one worker, what is not marked stale was made from the current text.
CurrentInv ==
    /\ \A x \in Cands : claim.cand[x].status = "absent" \/ claim.cand[x].stale
                          \/ claim.cand[x].made = text.gen
    /\ \A w \in Workers :
         /\ worker[w].pc \in {"extracting", "selected"} => text.status = "processing"
         /\ worker[w].pc = "selected" =>
              worker[w].seen = {x \in Cands : claim.cand[x].status # "absent"}
         /\ worker[w].pc = "asking" => worker[w].gen = text.gen
         /\ worker[w].pc = "inserted" => worker[w].cand.made = text.gen

\* A decision neither adds a candidate nor touches what one was made from.
LEMMA CurrentAfterDecision ==
  ASSUME CurrentInv, UNCHANGED <<text, worker>>,
         \A x \in Cands : /\ claim'.cand[x].status = "absent" <=> claim.cand[x].status = "absent"
                          /\ claim'.cand[x].made = claim.cand[x].made
                          /\ claim'.cand[x].stale = claim.cand[x].stale
  PROVE  CurrentInv'
  BY DEF CurrentInv

LEMMA CurrentNext ==
  ASSUME ~Overlap, \A v, w \in Workers : v = w, ReviewInv, ReviewInv', CurrentInv, [Next]_vars
  PROVE  CurrentInv'
  <1>0. worker \in [Workers -> WorkerState] /\ Idle.pc = "idle"
    BY IdleType DEF ReviewInv, TypeOK
  <1>1. ASSUME NEW r \in Reviewers, NEW x \in Cands, NEW act \in Acts, NEW why \in BOOLEAN,
               ReviewsOne(r, x, act, why)
        PROVE  CurrentInv'
    <2>1. claim.cand[x].status # "absent"
      BY <1>1, FactReviewAssumption DEF ReviewsOne, ReviewInv, ViewInv
    <2>2. /\ \A z \in Cands \ {x} : claim'.cand[z] = claim.cand[z]
          /\ claim'.cand[x].made = claim.cand[x].made /\ claim'.cand[x].stale = claim.cand[x].stale
          /\ claim'.cand[x].status # "absent" /\ UNCHANGED <<text, worker>>
      BY <1>1, ActTypes DEF ReviewsOne, Follows
    <2> QED
      BY <2>1, <2>2, CurrentAfterDecision
  <1>2. ASSUME NEW r \in Reviewers, NEW x \in Cands, NEW y \in Cands,
               NEW act \in {"approve", "reject"}, NEW why \in BOOLEAN,
               ReviewsTwo(r, x, y, act, why)
        PROVE  CurrentInv'
    <2>1. act \in Acts
      BY DEF Acts
    <2>2. PICK half : Follows(claim, half, x, act) /\ Follows(half, claim', y, act)
      BY <1>2 DEF ReviewsTwo
    <2>3. /\ \A z \in {x, y} : claim.cand[z].status # "absent"
          /\ UNCHANGED <<text, worker>> /\ x # y
      BY <1>2 DEF ReviewsTwo
    <2>4. StatusOf(act) # "absent"
      BY <2>1, ActTypes
    <2> QED
      BY <2>2, <2>3, <2>4, CurrentAfterDecision DEF Follows
  <1>3. ASSUME NEW w \in Workers, ReplaceText(w)
        PROVE  CurrentInv'
    <2>1. \A x \in Cands : /\ claim'.cand[x].status = claim.cand[x].status
                           /\ claim'.cand[x].stale =
                                (claim.cand[x].stale \/ x \in worker[w].seen)
      BY <1>3, ReplaceKeeps DEF ReviewInv
    <2>2. /\ worker[w].seen = {x \in Cands : claim.cand[x].status # "absent"}
          /\ worker' = [worker EXCEPT ![w] = Idle]
      BY <1>3 DEF ReplaceText, Rest, CurrentInv
    <2> QED
      BY <1>0, <2>1, <2>2 DEF CurrentInv
  <1>4. ASSUME NEW w \in Workers, CommitRun(w)
        PROVE  CurrentInv'
    <2> DEFINE x == worker[w].item
    <2>1. /\ x \in Cands
          /\ \A y \in Cands \ {x} : claim'.cand[y] = claim.cand[y]
          /\ claim'.cand[x].made = text.gen
      BY <1>4, CommitKeeps DEF CurrentInv, CommitRun
    <2>2. worker' = [worker EXCEPT ![w] = Idle] /\ text' = text
      BY <1>4 DEF CommitRun, Rest
    <2> QED
      BY <1>0, <2>1, <2>2 DEF CurrentInv
  <1>5. ASSUME NEW w \in Workers, Works(w)
        PROVE  CurrentInv'
    <2>1. claim' = claim /\ text'.gen = text.gen
      BY <1>5 DEF Works, StartText, SelectCandidates, FailText, StartRun, InsertRun, FailRun,
                  Die, ReviewInv, TypeOK
    <2>2. CASE \E x \in Cands : InsertRun(w, x)
      <3>1. PICK x \in Cands, g \in {0, worker[w].gen}, q \in BOOLEAN :
              /\ worker[w].pc = "asking" /\ text' = text
              /\ worker' = [worker EXCEPT ![w].pc = "inserted", ![w].item = x,
                                          ![w].cand = Answer(w, g, q)]
        BY <2>2 DEF InsertRun
      <3>2. Answer(w, g, q).made = worker[w].gen
        BY DEF Answer, NoCand
      <3>3. worker'[w].pc = "inserted" /\ worker'[w].cand = Answer(w, g, q)
        BY <1>0, <3>1 DEF WorkerState
      <3> QED
        BY <2>1, <3>1, <3>2, <3>3 DEF CurrentInv
    <2>3. CASE ~\E x \in Cands : InsertRun(w, x)
      <3>1. /\ worker'[w].pc # "inserted"
            /\ worker'[w].pc \in {"extracting", "selected"} => text'.status = "processing"
            /\ worker'[w].pc = "selected" =>
                 worker'[w].seen = {x \in Cands : claim.cand[x].status # "absent"}
            /\ worker'[w].pc = "asking" => worker'[w].gen = text.gen
        BY <1>0, <1>5, <2>3
           DEF Works, StartText, SelectCandidates, FailText, StartRun, FailRun, Die, Enter,
               Rest, WorkerState, ReviewInv, TypeOK, CurrentInv
      <3> QED
        BY <2>1, <3>1 DEF CurrentInv
    <2> QED
      BY <2>2, <2>3
  <1>6. ASSUME claim' = claim, text' = text, worker' = worker
        PROVE  CurrentInv'
    BY <1>6 DEF CurrentInv
  <1> QED
    BY <1>1, <1>2, <1>3, <1>4, <1>5, <1>6, StepKinds DEF Read, Refuse, vars

\* An approval or an edit is about the text the document has, when one worker
\* serves the queue.
THEOREM ApprovalsAreCurrent ==
  ASSUME ~Overlap, \A v, w \in Workers : v = w
  PROVE  Spec => ApprovedFromCurrentSource
  <1> DEFINE Approves ==
        \A x \in Cands :
          LET c == claim.cand[x] d == claim'.cand[x] IN
          (d.status \in Accepted /\ <<d.status, d.value>> # <<c.status, c.value>>) =>
             d.made = text.gen /\ text.status = "processed"
  <1>1. Init => CurrentInv
    BY FactReviewAssumption DEF Init, CurrentInv, Idle, NoCand
  <1>2. ReviewInv /\ ReviewInv' /\ CurrentInv /\ [Next]_vars => CurrentInv'
    BY CurrentNext
  <1>3. ASSUME ReviewInv, CurrentInv, [Next]_vars PROVE Approves
    <2> SUFFICES ASSUME NEW x \in Cands, claim'.cand[x].status \in Accepted,
                        \/ claim'.cand[x].status # claim.cand[x].status
                        \/ claim'.cand[x].value # claim.cand[x].value
                 PROVE  claim'.cand[x].made = text.gen /\ text.status = "processed"
      OBVIOUS
    <2>1. ASSUME NEW r \in Reviewers, NEW z \in Cands, NEW act \in Acts, NEW why \in BOOLEAN,
                 ReviewsOne(r, z, act, why)
          PROVE  claim'.cand[x].made = text.gen /\ text.status = "processed"
      <3>1. z = x /\ act # "reject"
        BY <2>1, ActTypes DEF ReviewsOne, Follows
      <3>2. claim.cand[x].status # "absent"
        BY <1>3, <2>1, <3>1, FactReviewAssumption DEF ReviewsOne, ReviewInv, ViewInv
      <3> QED
        BY <1>3, <2>1, <3>1, <3>2 DEF ReviewsOne, Follows, SourceAllows, CurrentInv
    <2>2. ASSUME NEW r \in Reviewers, NEW z \in Cands, NEW y \in Cands,
                 NEW act \in {"approve", "reject"}, NEW why \in BOOLEAN,
                 ReviewsTwo(r, z, y, act, why)
          PROVE  claim'.cand[x].made = text.gen /\ text.status = "processed"
      <3>1. PICK half : Follows(claim, half, z, act) /\ Follows(half, claim', y, act)
        BY <2>2 DEF ReviewsTwo
      <3>2. act \in Acts /\ z # y
        BY <2>2 DEF Acts, ReviewsTwo
      <3>3. x \in {z, y} /\ act # "reject"
        BY <3>1, <3>2, ActTypes DEF Follows
      <3>4. claim'.cand[x].made = claim.cand[x].made
        BY <3>1, <3>2, <3>3 DEF Follows
      <3>5. /\ claim.cand[x].status = "pending" /\ ~claim.cand[x].stale
            /\ text.status = "processed"
        BY <2>2, <3>3 DEF ReviewsTwo, SourceAllows
      <3> QED
        BY <1>3, <3>4, <3>5 DEF CurrentInv
    <2>3. ASSUME NEW w \in Workers, ReplaceText(w) PROVE FALSE
      BY <1>3, <2>3, ReplaceKeeps DEF ReviewInv
    <2>4. ASSUME NEW w \in Workers, CommitRun(w) PROVE FALSE
      BY <1>3, <2>4, CommitKeeps DEF Accepted
    <2>5. claim' # claim
      OBVIOUS
    <2> QED
      BY <1>3, <2>1, <2>2, <2>3, <2>4, <2>5, StepKinds
         DEF Read, Refuse, vars, Works, StartText, SelectCandidates, FailText, StartRun,
             InsertRun, FailRun, Die
  <1> QED
    BY <1>1, <1>2, <1>3, ReviewInvariant, PTL DEF Spec, ApprovedFromCurrentSource

-----------------------------------------------------------------------------
(* Refinement: the claim is the register of CanonicalFact.                 *)

LEMMA StandingIs ==
  /\ DOMAIN Standing = {x \in Cands : IsAccepted(claim, x)}
  /\ \A x \in DOMAIN Standing : Standing[x] = claim.cand[x].value
  BY DEF Standing, IsAccepted

LEMMA StandingNext ==
  /\ Standing' = [x \in {y \in Cands : IsAccepted(claim', y)} |-> claim'.cand[x].value]
  /\ DOMAIN Standing' = {x \in Cands : IsAccepted(claim', x)}
  BY DEF Standing, IsAccepted

LEMMA SameRegister ==
  ASSUME claim'.fact.source = claim.fact.source,
         \A x \in Cands : /\ IsAccepted(claim', x) <=> IsAccepted(claim, x)
                          /\ IsAccepted(claim, x) => claim'.cand[x].value = claim.cand[x].value
  PROVE  UNCHANGED <<Standing, claim.fact.source>>
  BY DEF Standing, IsAccepted

LEMMA OneIsRegisterStep ==
  ASSUME ReviewInv, NEW r \in Reviewers, NEW x \in Cands, NEW act \in Acts,
         NEW why \in BOOLEAN, ReviewsOne(r, x, act, why)
  PROVE  Register!Next
  <1>1. /\ \A y \in Cands \ {x} : claim'.cand[y] = claim.cand[y]
        /\ claim'.cand[x].status = StatusOf(act) /\ claim'.cand[x].value = ValueOf(x, act)
        /\ FactMoves(claim, claim', x, act)
    BY DEF ReviewsOne, Follows
  <1>2. \A y \in Cands \ {x} : IsAccepted(claim', y) <=> IsAccepted(claim, y)
    BY <1>1 DEF IsAccepted
  <1>3. CASE act # "reject"
    <2> DEFINE v == ValueOf(x, act)
    <2>1. v \in {x, Typed} /\ IsAccepted(claim', x) /\ claim'.fact.source = x
      BY <1>1, <1>3, ActTypes DEF FactMoves, IsAccepted
    <2>2. {y \in Cands : IsAccepted(claim', y)} = DOMAIN Standing \cup {x}
      BY <1>2, <2>1, StandingIs
    <2>3. Standing' = [y \in DOMAIN Standing \cup {x} |-> IF y = x THEN v ELSE Standing[y]]
      BY <1>1, <2>2, StandingIs, StandingNext
    <2>4. Register!Accept(x)
      BY <2>1, <2>3 DEF Register!Accept, Register!With
    <2> QED
      BY <2>4 DEF Register!Next
  <1>4. CASE act = "reject"
    <2>1. ~IsAccepted(claim', x)
      BY <1>1, <1>4, ActTypes DEF IsAccepted
    <2>2. {y \in Cands : IsAccepted(claim', y)} = DOMAIN Standing \ {x}
      BY <1>2, <2>1, StandingIs
    <2>3. Standing' = [y \in DOMAIN Standing \ {x} |-> Standing[y]]
      BY <1>1, <2>2, StandingIs, StandingNext
    <2>4. IF claim.fact.source # x THEN claim'.fact.source = claim.fact.source
          ELSE IF DOMAIN Standing' # {} THEN claim'.fact.source \in DOMAIN Standing' \cup {Intake}
          ELSE claim'.fact.source \in {Intake, None}
      BY <1>1, <1>4, StandingNext DEF FactMoves
    <2>5. Register!Withdraw(x)
      BY <2>3, <2>4 DEF Register!Withdraw, Register!Without, Register!Standing
    <2> QED
      BY <2>5 DEF Register!Next
  <1> QED
    BY <1>3, <1>4

LEMMA TwoIsRegisterStep ==
  ASSUME ReviewInv, NEW r \in Reviewers, NEW x \in Cands, NEW y \in Cands,
         NEW act \in {"approve", "reject"}, NEW why \in BOOLEAN, ReviewsTwo(r, x, y, act, why)
  PROVE  Register!Next \/ UNCHANGED <<Standing, claim.fact.source>>
  <1>1. PICK half : Follows(claim, half, x, act) /\ Follows(half, claim', y, act)
    BY DEF ReviewsTwo
  <1>2. /\ act \in Acts /\ x # y
        /\ claim.cand[x].status = "pending" /\ claim.cand[y].status = "pending"
    BY DEF Acts, ReviewsTwo
  <1>3. ~IsAccepted(claim, x) /\ ~IsAccepted(claim, y)
    BY <1>2 DEF IsAccepted, Accepted
  <1>4. /\ \A z \in Cands \ {x, y} : claim'.cand[z] = claim.cand[z]
        /\ \A z \in {x, y} : /\ claim'.cand[z].status = StatusOf(act)
                             /\ claim'.cand[z].value = ValueOf(z, act)
    BY <1>1, <1>2 DEF Follows
  <1>5. \A z \in Cands \ {x, y} : IsAccepted(claim', z) <=> IsAccepted(claim, z)
    BY <1>4 DEF IsAccepted
  <1>6. CASE act = "approve"
    <2>1. claim'.fact.source = y
      BY <1>1, <1>6 DEF Follows, FactMoves
    <2>2. \A z \in {x, y} : IsAccepted(claim', z) /\ claim'.cand[z].value = z
      BY <1>4, <1>6 DEF IsAccepted, StatusOf, ValueOf, Accepted
    <2>3. {z \in Cands : IsAccepted(claim', z)} = DOMAIN Standing \cup {x, y}
      BY <1>5, <2>2, StandingIs
    <2>4. Standing' = [z \in DOMAIN Standing \cup {x, y} |->
                         IF z \in {x, y} THEN z ELSE Standing[z]]
      BY <1>4, <2>2, <2>3, StandingIs, StandingNext
    <2>5. {x, y} \cap DOMAIN Standing = {}
      BY <1>3, StandingIs
    <2>6. Register!AcceptBoth(x, y)
      BY <2>1, <2>4, <2>5 DEF Register!AcceptBoth
    <2> QED
      BY <2>6 DEF Register!Next
  <1>7. CASE act = "reject"
    <2>1. \A z \in {x, y} : ~IsAccepted(claim', z)
      BY <1>2, <1>4, <1>7, ActTypes DEF IsAccepted
    <2>2. claim.fact.source \notin {x, y}
      BY <1>3 DEF ReviewInv, ClaimInv, Recallable
    <2>3. half.fact.source = claim.fact.source /\ claim'.fact.source = half.fact.source
      BY <1>1, <1>7, <2>2 DEF Follows, FactMoves
    <2> QED
      BY <1>3, <1>4, <1>5, <2>1, <2>3, SameRegister
  <1> QED
    BY <1>6, <1>7

LEMMA RegisterNext ==
  ASSUME ~Overlap, ReviewInv, [Next]_vars
  PROVE  Register!Next \/ UNCHANGED <<Standing, claim.fact.source>>
  <1>1. ASSUME NEW w \in Workers, ReplaceText(w)
        PROVE  UNCHANGED <<Standing, claim.fact.source>>
    BY <1>1, ReplaceKeeps, SameRegister DEF ReviewInv, IsAccepted
  <1>2. ASSUME NEW w \in Workers, CommitRun(w)
        PROVE  UNCHANGED <<Standing, claim.fact.source>>
    BY <1>2, CommitKeeps, SameRegister DEF IsAccepted, Accepted
  <1>3. ASSUME claim' = claim
        PROVE  UNCHANGED <<Standing, claim.fact.source>>
    BY <1>3 DEF Standing
  <1> QED
    BY <1>1, <1>2, <1>3, OneIsRegisterStep, TwoIsRegisterStep, StepKinds
       DEF Read, Refuse, vars, Works, StartText, SelectCandidates, FailText, StartRun,
           InsertRun, FailRun, Die

\* The claim is a register of decisions: the fact follows the decisions that
\* stand, and is removed only when none stands.
THEOREM RegisterIsKept == ~Overlap => (Spec => RegisterSpec)
  <1> SUFFICES ASSUME ~Overlap PROVE Spec => RegisterSpec
    OBVIOUS
  <1>1. Init => Register!Init
    <2> SUFFICES ASSUME Init PROVE Register!Init
      OBVIOUS
    <2>1. claim.fact.source \in {None, Intake} /\ \A x \in Cands : claim.cand[x] = NoCand
      BY DEF Init, NoFact
    <2>2. {y \in Cands : claim.cand[y].status \in Accepted} = {}
      BY <2>1 DEF NoCand, Accepted
    <2>3. Standing = [x \in {} |-> None]
      BY <2>2 DEF Standing
    <2> QED
      BY <2>1, <2>3 DEF Register!Init
  <1>2. ReviewInv /\ [Next]_vars => [Register!Next]_<<Standing, claim.fact.source>>
    BY RegisterNext
  <1> QED
    BY <1>1, <1>2, ReviewInvariant, PTL DEF Spec, RegisterSpec, Register!Spec

-----------------------------------------------------------------------------
(***************************************************************************)
(* The timeline.  The invariant says that the event rows have distinct     *)
(* signatures and that those on display rest on disjoint evidence (Sound); *)
(* the candidates of a rebuild are apart too (Clear), so that a candidate  *)
(* matches at most one row and each row is moved by at most one of them.   *)
(***************************************************************************)

(* Documents and clusters.                                                 *)

LEMMA DocParts ==
    ASSUME NEW d \in Docs
    PROVE  /\ d[1] \in {Chief, Log} /\ d[2] \in 1..MaxDocs[d[1]]
           /\ d = <<d[1], d[2]>> /\ d # Nil
           /\ MaxDocs[d[1]] \in Nat \ {0}
<1>1. PICK s \in {Chief, Log} : d \in {s} \X (1..MaxDocs[s])
  BY DEF Docs
<1>2. MaxDocs[s] \in Nat \ {0}
  BY <1>1, ChronologyAssumption
<1>3. d[1] = s /\ d[2] \in 1..MaxDocs[s] /\ d = <<d[1], d[2]>>
  BY <1>1
<1>4. d \in {Chief, Log} \X Nat
  BY <1>1, <1>2, <1>3
<1> QED
  BY <1>1, <1>2, <1>3, <1>4, ChronologyAssumption

LEMMA DocOf ==
    ASSUME NEW s \in {Chief, Log}, NEW n \in 1..MaxDocs[s]
    PROVE  <<s, n>> \in Docs
BY DEF Docs

LEMMA TimeTypes ==
    /\ Times \subseteq Nat /\ Tolerance \in Nat
    /\ Denied \notin Times /\ Nil \notin Times /\ Denied # Nil
BY ChronologyAssumption DEF Times

\* Two sources, and one version of each in force: no three reviewed values.
LEMMA OneInForce ==
    ASSUME TimelineTypeOK, VersionsInOrder,
           NEW d \in Docs, NEW e \in Docs, d[1] = e[1],
           doc[d].state = "current", doc[e].state = "current"
    PROVE  d = e
<1>1. /\ d[1] \in {Chief, Log} /\ d = <<d[1], d[2]>> /\ e = <<d[1], e[2]>>
      /\ d[2] \in 1..MaxDocs[d[1]] /\ e[2] \in 1..MaxDocs[d[1]]
      /\ MaxDocs[d[1]] \in Nat
  BY DocParts
<1>2. \A m, n \in 1..MaxDocs[d[1]] :
        m < n /\ doc[<<d[1], n>>].state = "current" => doc[<<d[1], m>>].state = "superseded"
  BY <1>1 DEF VersionsInOrder
<1>3. ~(d[2] < e[2]) /\ ~(e[2] < d[2])
  BY <1>1, <1>2
<1>4. d[2] = e[2]
  BY <1>1, <1>3
<1> QED
  BY <1>1, <1>4

LEMMA NoThreeTimed ==
    ASSUME TimelineTypeOK, VersionsInOrder,
           NEW d \in Timed(doc), NEW e \in Timed(doc), NEW f \in Timed(doc), d # e
    PROVE  f = d \/ f = e
<1>1. \A x \in Timed(doc) : x \in Docs /\ doc[x].state = "current" /\ x[1] \in {Chief, Log}
  BY DocParts DEF Timed, ReviewedDocs
<1>2. d[1] # e[1]
  BY <1>1, OneInForce
<1>3. f[1] = d[1] \/ f[1] = e[1]
  BY <1>1, <1>2
<1> QED
  BY <1>1, <1>3, OneInForce

LEMMA TimedValue ==
    ASSUME TimelineTypeOK, NEW d \in Timed(doc)
    PROVE  d \in Docs /\ doc[d].value \in Times /\ doc[d].state = "current"
<1>1. d \in Docs /\ doc[d].state = "current" /\ doc[d].value \notin {Denied, Nil}
  BY DEF Timed, ReviewedDocs
<1>2. doc[d] \in Doc
  BY <1>1 DEF TimelineTypeOK
<1> QED
  BY <1>1, <1>2 DEF Doc

\* Sources that disagree are clusters of one.
LEMMA ClustersApart ==
    ASSUME TimelineTypeOK, VersionsInOrder,
           NEW C \in Clusters(doc), NEW E \in Clusters(doc), C # E
    PROVE  \E d, e \in Timed(doc) :
             C = {d} /\ E = {e} /\ d # e /\ ~Near(doc[d].value, doc[e].value)
<1>1. \A X \in Clusters(doc) :
        /\ X \subseteq Timed(doc) /\ X # {}
        /\ \A d, e \in X : Near(doc[d].value, doc[e].value)
        /\ \A e \in Timed(doc) \ X : \E d \in X : ~Near(doc[d].value, doc[e].value)
  BY DEF Clusters
<1>2. ASSUME NEW X \in Clusters(doc), NEW Y \in Clusters(doc), NEW y \in Y \ X
      PROVE  \E d, e \in Timed(doc) :
               X = {d} /\ Y = {e} /\ d # e /\ ~Near(doc[d].value, doc[e].value)
  <2>1. PICK x \in X : ~Near(doc[x].value, doc[y].value)
    BY <1>1, <1>2
  <2>2. x # y /\ x \notin Y /\ x \in Timed(doc) /\ y \in Timed(doc)
    BY <1>1, <1>2, <2>1
  <2>3. \A z \in Timed(doc) : z = x \/ z = y
    BY <2>2, NoThreeTimed
  <2>4. X = {x} /\ Y = {y}
    BY <1>1, <1>2, <2>1, <2>2, <2>3
  <2> QED
    BY <2>1, <2>2, <2>4
<1>3. ASSUME NEW x, NEW y, ~Near(doc[x].value, doc[y].value)
      PROVE  ~Near(doc[y].value, doc[x].value)
  BY <1>3 DEF Near
<1>4. CASE \E y \in E : y \notin C
  BY <1>2, <1>4
<1>5. CASE \E y \in C : y \notin E
  BY <1>2, <1>3, <1>5
<1> QED
  BY <1>4, <1>5

Candidate == [evidence : (SUBSET Docs) \ {{}}, value : Times]

\* What the candidates of a rebuild are to its rows.
Clear(S) ==
    /\ S \subseteq Candidate
    /\ \A a, b \in S : a # b =>
         a.evidence \cap b.evidence = {} /\ ~Near(a.value, b.value)
    /\ \A a, b, c \in S : a = b \/ b = c \/ a = c

LEMMA PrimaryIn ==
    ASSUME TimelineTypeOK, NEW C \in Clusters(doc)
    PROVE  Primary(C) \in C
<1>1. PICK x \in C : TRUE
  BY DEF Clusters
<1>2. \E d \in C : d[1] = Log \/ \A e \in C : e[1] # Log
  BY <1>1
<1> QED
  BY <1>2 DEF Primary

LEMMA CandidatesClear ==
    ASSUME TimelineTypeOK, VersionsInOrder
    PROVE  /\ Clear(Candidates(doc))
           /\ \A c \in Candidates(doc) : \A d \in c.evidence : doc[d].state = "current"
<1> DEFINE Of(C) == [evidence |-> C, value |-> doc[Primary(C)].value]
<1>1. \A C \in Clusters(doc) : C # {} /\ C \subseteq Timed(doc) /\ Primary(C) \in C
  BY PrimaryIn DEF Clusters
<1>2. \A C \in Clusters(doc) : /\ Of(C) \in Candidate /\ Of(C).evidence = C
                               /\ Of(C).value = doc[Primary(C)].value
                               /\ \A d \in C : doc[d].state = "current"
  BY <1>1, TimedValue DEF Candidate
<1>3. \A c \in Candidates(doc) : \E C \in Clusters(doc) : c = Of(C)
  BY DEF Candidates
<1>4. ASSUME NEW C \in Clusters(doc), NEW E \in Clusters(doc), C # E
      PROVE  /\ Of(C).evidence \cap Of(E).evidence = {}
             /\ ~Near(Of(C).value, Of(E).value)
             /\ \A F \in Clusters(doc) : F = C \/ F = E
  <2>1. PICK d \in Timed(doc), e \in Timed(doc) :
               C = {d} /\ E = {e} /\ d # e /\ ~Near(doc[d].value, doc[e].value)
    BY <1>4, ClustersApart
  <2>2. Primary(C) = d /\ Primary(E) = e
    BY <1>1, <2>1
  <2>3. \A F \in Clusters(doc) : F = C \/ F = E
    <3>1. SUFFICES ASSUME NEW F \in Clusters(doc), F # C
                   PROVE  F = E
      OBVIOUS
    <3>2. PICK f \in Timed(doc) : F = {f}
      BY <3>1, ClustersApart
    <3>3. f = d \/ f = e
      BY <2>1, NoThreeTimed
    <3> QED
      BY <2>1, <3>1, <3>2, <3>3
  <2> QED
    BY <1>2, <2>1, <2>2, <2>3
<1> HIDE DEF Of
<1>5. Candidates(doc) \subseteq Candidate
  BY <1>2, <1>3
<1>6. \A a, b \in Candidates(doc) : a # b =>
        a.evidence \cap b.evidence = {} /\ ~Near(a.value, b.value)
  BY <1>3, <1>4
<1>7. \A a, b, c \in Candidates(doc) : a = b \/ b = c \/ a = c
  BY <1>3, <1>4
<1>8. \A c \in Candidates(doc) : \A d \in c.evidence : doc[d].state = "current"
  BY <1>2, <1>3
<1> QED
  BY <1>5, <1>6, <1>7, <1>8 DEF Clear

LEMMA ClearSubset ==
    ASSUME NEW C, Clear(C), NEW S \in SUBSET C
    PROVE  Clear(S)
BY DEF Clear

\* The new rows are the candidates of S, each once.
LEMMA NthCovers ==
    ASSUME NEW S, Clear(S)
    PROVE  /\ Cardinality(S) \in Nat
           /\ \A n \in 1..Cardinality(S) : Nth(S, n) \in S
           /\ \A m, n \in 1..Cardinality(S) : m # n => Nth(S, m) # Nth(S, n)
           /\ \A c \in S : \E n \in 1..Cardinality(S) : c = Nth(S, n)
<1> DEFINE Below(c) == {b \in S : b.value < c.value}
<1>1. \A c \in S : c.value \in Nat
  BY TimeTypes DEF Clear, Candidate
<1>2. ASSUME NEW n \in Nat, NEW a \in S,
             \A c \in S : Cardinality(Below(c)) = n - 1 <=> c = a
      PROVE  Nth(S, n) = a
  <2>1. Nth(S, n) = CHOOSE c \in S : Cardinality(Below(c)) = n - 1
    BY DEF Nth
  <2> QED
    BY <1>2, <2>1
<1>3. \A x : Cardinality({x}) = 1 /\ IsFiniteSet({x})
  BY FS_Singleton
<1>4. Cardinality({}) = 0
  BY FS_EmptySet
<1>5. CASE S = {}
  BY <1>4, <1>5
<1>6. CASE \E a \in S : S = {a}
  <2>1. PICK a \in S : S = {a}
    BY <1>6
  <2>2. Below(a) = {}
    BY <1>1, <2>1
  <2>3. \A c \in S : Cardinality(Below(c)) = 1 - 1 <=> c = a
    BY <1>4, <2>1, <2>2
  <2> HIDE DEF Below
  <2>5. Nth(S, 1) = a
    BY <1>2, <2>3
  <2>4. Cardinality(S) = 1
    BY <1>3, <2>1
  <2> QED
    BY <2>1, <2>4, <2>5
<1>7. CASE \E a, b \in S : a # b
  <2>1. PICK a \in S, b \in S : a # b /\ ~(b.value < a.value)
    BY <1>1, <1>7
  <2>2. S = {a, b}
    BY <2>1 DEF Clear
  <2>3. a.value < b.value
    BY <1>1, <2>1, TimeTypes DEF Clear, Near
  <2>4. Below(a) = {} /\ Below(b) = {a}
    BY <1>1, <2>1, <2>2, <2>3
  <2>5. Cardinality(Below(a)) = 0 /\ Cardinality(Below(b)) = 1
    BY <1>3, <1>4, <2>4
  <2>6. /\ \A c \in S : Cardinality(Below(c)) = 1 - 1 <=> c = a
        /\ \A c \in S : Cardinality(Below(c)) = 2 - 1 <=> c = b
    BY <2>1, <2>2, <2>5
  <2> HIDE DEF Below
  <2>7. Nth(S, 1) = a /\ Nth(S, 2) = b
    BY <1>2, <2>6
  <2>8. Cardinality(S) = 2
    <3>1. S = {a} \cup {b} /\ b \notin {a}
      BY <2>1, <2>2
    <3>2. Cardinality({a} \cup {b}) = Cardinality({a}) + 1
      BY <1>3, <3>1, FS_AddElement
    <3>3. Cardinality({a}) = 1
      BY <1>3
    <3>4. Cardinality({a} \cup {b}) = 2
      BY <3>2, <3>3
    <3> QED
      BY <3>1, <3>4
  <2> QED
    BY <2>1, <2>2, <2>7, <2>8
<1>8. S = {} \/ (\E a \in S : S = {a}) \/ (\E a, b \in S : a # b)
  OBVIOUS
<1> QED
  BY <1>5, <1>6, <1>7, <1>8

(* Event rows.                                                             *)

\* Rows that may be: nothing supports two of them, no two have a signature.
Apart(rows) ==
    \A i, j \in Live(rows) : i # j => rows[i].evidence \cap rows[j].evidence = {}
Distinct(rows) ==
    \A i, j \in DOMAIN rows :
        rows[i].evidence = rows[j].evidence /\ rows[i].value = rows[j].value => i = j
Sound(rows) == rows \in Seq(Event) /\ Apart(rows) /\ Distinct(rows)

\* The row i is that of the candidate c.
Shows(row, c) == row.evidence = c.evidence /\ row.value = c.value

\* A candidate has at most one row: the one of its signature or, when there is
\* none, the active one of its evidence.
LEMMA MatchIs ==
    ASSUME NEW rows, Sound(rows), NEW c \in Candidate
    PROVE  /\ \A i \in DOMAIN rows :
                i \in Match(rows, c) <=>
                    /\ rows[i].evidence = c.evidence
                    /\ \/ rows[i].value = c.value
                       \/ rows[i].active /\ \A j \in DOMAIN rows : ~Shows(rows[j], c)
           /\ Match(rows, c) \subseteq DOMAIN rows
           /\ \A i, j \in Match(rows, c) : i = j
<1> DEFINE same == {i \in DOMAIN rows : rows[i].evidence = c.evidence}
           signed == {i \in same : rows[i].value = c.value}
           line == {i \in same : rows[i].active}
<1>1. Match(rows, c) = IF signed # {} THEN signed
                       ELSE IF Cardinality(line) = 1 THEN line ELSE {}
  BY DEF Match
<1>2. \A i, j \in signed : i = j
  BY DEF Sound, Distinct
<1>3. \A i, j \in line : i = j
  <2> SUFFICES ASSUME NEW i \in line, NEW j \in line PROVE i = j
    OBVIOUS
  <2>1. i \in Live(rows) /\ j \in Live(rows)
    BY DEF Live
  <2>2. rows[i].evidence \cap rows[j].evidence # {}
    BY DEF Candidate
  <2> QED
    BY <2>1, <2>2 DEF Sound, Apart
<1>4. line # {} <=> Cardinality(line) = 1
  <2>1. CASE line = {}
    BY <2>1, FS_EmptySet
  <2>2. CASE line # {}
    <3>1. PICK i \in line : TRUE
      BY <2>2
    <3>2. line = {i}
      BY <1>3, <3>1
    <3> QED
      BY <3>1, <3>2, FS_Singleton
  <2> QED
    BY <2>1, <2>2
<1>5. Match(rows, c) = IF signed # {} THEN signed ELSE line
  BY <1>1, <1>4
<1>6. signed = {i \in DOMAIN rows : Shows(rows[i], c)}
  BY DEF Shows
<1>7. \A i \in DOMAIN rows : i \in line <=> rows[i].evidence = c.evidence /\ rows[i].active
  OBVIOUS
<1> HIDE DEF line
<1>8. line \subseteq DOMAIN rows
  BY DEF line
<1>9. CASE signed # {}
  BY <1>2, <1>5, <1>6, <1>9 DEF Shows
<1>10. CASE signed = {}
  BY <1>3, <1>5, <1>6, <1>7, <1>8, <1>10 DEF Shows
<1> QED
  BY <1>9, <1>10

LEMMA EventTypes ==
    ASSUME NEW rows \in Seq(Event)
    PROVE  /\ Len(rows) \in Nat /\ DOMAIN rows = 1..Len(rows)
           /\ \A i \in DOMAIN rows : /\ rows[i] \in Event
                                     /\ rows[i].evidence \in (SUBSET Docs) \ {{}}
                                     /\ rows[i].value \in Times
                                     /\ rows[i].active \in BOOLEAN
           /\ Live(rows) \subseteq DOMAIN rows
<1>1. Len(rows) \in Nat /\ DOMAIN rows = 1..Len(rows) /\ rows \in [1..Len(rows) -> Event]
  BY LenProperties
<1> QED
  BY <1>1 DEF Event, Live

LEMMA MatchOwn ==
    ASSUME NEW rows, Sound(rows), NEW C, Clear(C),
           NEW c \in C, NEW d \in C, NEW i, i \in Match(rows, c), i \in Match(rows, d)
    PROVE  c = d
<1>1. i \in DOMAIN rows /\ c.evidence = d.evidence
  BY MatchIs DEF Clear
<1>2. c.evidence # {}
  BY DEF Clear, Candidate
<1> QED
  BY <1>1, <1>2 DEF Clear

LEMMA KeptIs ==
    ASSUME NEW rows, Sound(rows), NEW C, Clear(C)
    PROVE  /\ Kept(rows, C) \in Seq(Event)
           /\ Len(Kept(rows, C)) = Len(rows)
           /\ \A i \in DOMAIN rows :
                /\ Kept(rows, C)[i].evidence = rows[i].evidence
                /\ Kept(rows, C)[i].active <=> \E c \in C : i \in Match(rows, c)
                /\ \A c \in C : i \in Match(rows, c) => Shows(Kept(rows, C)[i], c)
                /\ ~Kept(rows, C)[i].active => Kept(rows, C)[i].value = rows[i].value
<1> DEFINE K == Kept(rows, C)
<1>1. /\ Len(rows) \in Nat /\ DOMAIN rows = 1..Len(rows)
      /\ \A i \in DOMAIN rows : rows[i] \in Event
  BY EventTypes DEF Sound
<1>2. ASSUME NEW i \in DOMAIN rows, NEW c \in C, i \in Match(rows, c)
      PROVE  /\ K[i] = [rows[i] EXCEPT !.active = TRUE, !.value = c.value]
             /\ K[i] \in Event /\ K[i].active /\ K[i].evidence = rows[i].evidence
             /\ Shows(K[i], c)
  <2>1. (CHOOSE d \in C : i \in Match(rows, d)) = c
    BY <1>2, MatchOwn
  <2>2. K[i] = [rows[i] EXCEPT !.active = TRUE, !.value = c.value]
    BY <1>2, <2>1 DEF Kept
  <2>3. c \in Candidate /\ rows[i].evidence = c.evidence
    BY <1>2, MatchIs DEF Clear
  <2>4. rows[i] \in Event
    BY <1>1
  <2> QED
    BY <2>2, <2>3, <2>4 DEF Event, Candidate, Shows
<1>3. ASSUME NEW i \in DOMAIN rows, ~\E c \in C : i \in Match(rows, c)
      PROVE  /\ K[i] = [rows[i] EXCEPT !.active = FALSE]
             /\ K[i] \in Event /\ ~K[i].active
             /\ K[i].evidence = rows[i].evidence /\ K[i].value = rows[i].value
  <2>1. K[i] = [rows[i] EXCEPT !.active = FALSE]
    BY <1>3 DEF Kept
  <2>2. rows[i] \in Event
    BY <1>1
  <2> QED
    BY <2>1, <2>2 DEF Event
<1>4. K = [i \in 1..Len(rows) |-> K[i]]
  BY <1>1 DEF Kept
<1> HIDE DEF K
<1>5. \A i \in 1..Len(rows) : K[i] \in Event
  BY <1>1, <1>2, <1>3
<1>6. K \in [1..Len(rows) -> Event]
  BY <1>4, <1>5
<1>7. K \in Seq(Event) /\ Len(K) = Len(rows)
  BY <1>1, <1>6, LenProperties
<1>8. \A i \in DOMAIN rows :
        /\ K[i].evidence = rows[i].evidence
        /\ K[i].active <=> \E c \in C : i \in Match(rows, c)
        /\ \A c \in C : i \in Match(rows, c) => Shows(K[i], c)
        /\ ~K[i].active => K[i].value = rows[i].value
  BY <1>2, <1>3
<1> QED
  BY <1>7, <1>8 DEF K

LEMMA NewRowsAre ==
    ASSUME NEW S, Clear(S)
    PROVE  /\ NewRows(S) \in Seq(Event)
           /\ Len(NewRows(S)) = Cardinality(S)
           /\ \A n \in 1..Cardinality(S) :
                NewRows(S)[n].active /\ Shows(NewRows(S)[n], Nth(S, n))
<1>1. Cardinality(S) \in Nat /\ \A n \in 1..Cardinality(S) : Nth(S, n) \in Candidate
  BY NthCovers DEF Clear
<1>2. \A n \in 1..Cardinality(S) :
        /\ NewRows(S)[n] = [evidence |-> Nth(S, n).evidence, value |-> Nth(S, n).value,
                            active |-> TRUE]
        /\ NewRows(S)[n] \in Event
  BY <1>1 DEF NewRows, Event, Candidate
<1>3. NewRows(S) \in [1..Cardinality(S) -> Event]
  BY <1>1 DEF NewRows, Event, Candidate
<1>4. NewRows(S) \in Seq(Event) /\ Len(NewRows(S)) = Cardinality(S)
  BY <1>1, <1>3, LenProperties
<1>5. ASSUME NEW n \in 1..Cardinality(S)
      PROVE  NewRows(S)[n].active /\ Shows(NewRows(S)[n], Nth(S, n))
  <2>1. NewRows(S)[n] = [evidence |-> Nth(S, n).evidence, value |-> Nth(S, n).value,
                         active |-> TRUE]
    BY <1>2
  <2> QED
    BY <2>1 DEF Shows
<1> QED
  BY <1>4, <1>5

\* The rows that a rebuild leaves: the active ones are those of the candidates,
\* each candidate has one, and the rows that were there keep their evidence.
LEMMA UpsertedRows ==
    ASSUME NEW rows, Sound(rows), NEW C, Clear(C)
    PROVE  LET U == Upserted(rows, C) IN
           /\ Sound(U)
           /\ Len(rows) <= Len(U)
           /\ \A i \in Live(U) : \E c \in C : Shows(U[i], c)
           /\ \A c \in C : \E i \in Live(U) : Shows(U[i], c)
           /\ \A i \in DOMAIN U \ DOMAIN rows :
                \E c \in C : Match(rows, c) = {} /\ Shows(U[i], c)
<1> DEFINE U == Upserted(rows, C)
           S == Fresh(rows, C)
           k == Len(rows)
           m == Cardinality(S)
           K == Kept(rows, C)
           N == NewRows(S)
<1>1. Clear(S) /\ S \subseteq C /\ \A c \in C : c \in S <=> Match(rows, c) = {}
  BY ClearSubset DEF Fresh
<1>2. /\ k \in Nat /\ m \in Nat /\ DOMAIN rows = 1..k
      /\ K \in Seq(Event) /\ Len(K) = k /\ N \in Seq(Event) /\ Len(N) = m
  BY <1>1, EventTypes, KeptIs, NewRowsAre, NthCovers DEF Sound
<1>3. /\ U \in Seq(Event) /\ Len(U) = k + m /\ DOMAIN U = 1..(k + m)
      /\ \A i \in 1..(k + m) : U[i] = IF i <= k THEN K[i] ELSE N[i - k]
  <2>1. U = K \o N
    BY DEF Upserted
  <2> HIDE DEF U, K, N, k, m
  <2> QED
    BY <1>2, <2>1, ConcatProperties, LenProperties
<1>4. \A i \in 1..k :
        /\ U[i].evidence = rows[i].evidence
        /\ U[i].active <=> \E c \in C : i \in Match(rows, c)
        /\ \A c \in C : i \in Match(rows, c) => Shows(U[i], c)
        /\ ~U[i].active => U[i].value = rows[i].value
  <2>1. \A i \in 1..k : i \in 1..(k + m) /\ U[i] = K[i]
    BY <1>2, <1>3
  <2> HIDE DEF U, k
  <2> QED
    BY <1>2, <2>1, KeptIs
<1>5. \A n \in 1..m : /\ k + n \in 1..(k + m) /\ U[k + n].active
                      /\ Shows(U[k + n], Nth(S, n)) /\ Nth(S, n) \in S
  <2>1. \A n \in 1..m : k + n \in 1..(k + m) /\ U[k + n] = N[n]
    BY <1>2, <1>3
  <2>2. \A n \in 1..m : N[n].active /\ Shows(N[n], Nth(S, n)) /\ Nth(S, n) \in S
    BY <1>1, NewRowsAre, NthCovers
  <2> HIDE DEF U, N, S, k, m
  <2> QED
    BY <2>1, <2>2
<1>6. \A i \in 1..(k + m) : i \in 1..k \/ \E n \in 1..m : i = k + n
  <2> SUFFICES ASSUME NEW i \in 1..(k + m), i \notin 1..k
               PROVE  \E n \in 1..m : i = k + n
    OBVIOUS
  <2>1. i - k \in 1..m /\ i = k + (i - k)
    BY <1>2
  <2> QED
    BY <2>1
<1>7. /\ \A c \in C : c \in Candidate /\ c.evidence # {}
      /\ \A c, d \in C : c.evidence = d.evidence => c = d
      /\ \A c, d \in C : c # d => c.evidence \cap d.evidence = {}
  BY DEF Clear, Candidate
<1>8. /\ \A n \in 1..m, l \in 1..m : Nth(S, n) = Nth(S, l) => n = l
      /\ \A c \in S : \E n \in 1..m : c = Nth(S, n)
  BY <1>1, NthCovers
<1> HIDE DEF U, S, k, m, K, N
<1>9. \A i \in Live(U) : \E c \in C : Shows(U[i], c)
  BY <1>1, <1>3, <1>4, <1>5, <1>6 DEF Live
<1>10. \A c \in C : \E i \in Live(U) : Shows(U[i], c)
  <2> SUFFICES ASSUME NEW c \in C PROVE \E i \in Live(U) : Shows(U[i], c)
    OBVIOUS
  <2>1. CASE c \in S
    BY <1>3, <1>5, <1>8, <2>1 DEF Live
  <2>2. CASE c \notin S
    <3>1. PICK i \in Match(rows, c) : TRUE
      BY <1>1, <2>2
    <3>2. i \in 1..k
      BY <1>2, <1>7, <3>1, MatchIs
    <3>3. i \in 1..(k + m)
      BY <1>2, <3>2
    <3> QED
      BY <1>3, <1>4, <3>1, <3>2, <3>3 DEF Live
  <2> QED
    BY <2>1, <2>2
<1>11. Distinct(U)
  <2>1. ASSUME NEW i \in 1..k, NEW c \in C, Shows(U[i], c) PROVE i \in Match(rows, c)
    <3>1. CASE U[i].active
      <4>1. PICK d \in C : i \in Match(rows, d) /\ Shows(U[i], d)
        BY <1>4, <3>1
      <4> QED
        BY <1>7, <2>1, <4>1 DEF Shows
    <3>2. CASE ~U[i].active
      <4>1. Shows(rows[i], c)
        BY <1>4, <2>1, <3>2 DEF Shows
      <4> QED
        BY <1>2, <1>7, <4>1, MatchIs DEF Shows
    <3> QED
      BY <3>1, <3>2
  <2>2. ASSUME NEW i \in 1..k, NEW j \in 1..k,
               U[i].evidence = U[j].evidence, U[i].value = U[j].value
        PROVE  i = j
    <3>1. CASE \E c \in C : Shows(U[i], c)
      <4>1. PICK c \in C : Shows(U[i], c) /\ Shows(U[j], c)
        BY <2>2, <3>1 DEF Shows
      <4> QED
        BY <1>7, <2>1, <4>1, MatchIs
    <3>2. CASE ~\E c \in C : Shows(U[i], c)
      <4>1. ~U[i].active /\ ~U[j].active
        BY <1>4, <2>2, <3>2 DEF Shows
      <4>2. rows[i].evidence = rows[j].evidence /\ rows[i].value = rows[j].value
        BY <1>4, <2>2, <4>1
      <4> QED
        BY <1>2, <4>2 DEF Sound, Distinct
    <3> QED
      BY <3>1, <3>2
  <2>3. ASSUME NEW i \in 1..k, NEW n \in 1..m,
               U[i].evidence = U[k + n].evidence, U[i].value = U[k + n].value
        PROVE  FALSE
    <3>1. Nth(S, n) \in C /\ Match(rows, Nth(S, n)) = {} /\ Shows(U[i], Nth(S, n))
      BY <1>1, <1>5, <2>3 DEF Shows
    <3> QED
      BY <2>1, <3>1
  <2>4. ASSUME NEW n \in 1..m, NEW l \in 1..m,
               U[k + l].evidence = U[k + n].evidence
        PROVE  l = n
    <3>1. Nth(S, n) \in C /\ Nth(S, l) \in C /\ Nth(S, n).evidence = Nth(S, l).evidence
      BY <1>1, <1>5, <2>4 DEF Shows
    <3> QED
      BY <1>7, <1>8, <3>1
  <2> SUFFICES ASSUME NEW i \in 1..(k + m), NEW j \in 1..(k + m),
                      U[i].evidence = U[j].evidence, U[i].value = U[j].value
               PROVE  i = j
    BY <1>3 DEF Distinct
  <2>5. CASE i \in 1..k /\ j \in 1..k
    BY <2>2, <2>5
  <2>6. CASE i \in 1..k /\ \E n \in 1..m : j = k + n
    BY <2>3, <2>6
  <2>7. CASE j \in 1..k /\ \E n \in 1..m : i = k + n
    BY <2>3, <2>7
  <2>8. CASE (\E n \in 1..m : i = k + n) /\ (\E n \in 1..m : j = k + n)
    BY <2>4, <2>8
  <2> QED
    BY <1>6, <2>5, <2>6, <2>7, <2>8
<1>12. Apart(U)
  <2> SUFFICES ASSUME NEW i \in Live(U), NEW j \in Live(U), i # j
               PROVE  U[i].evidence \cap U[j].evidence = {}
    BY DEF Apart
  <2>1. PICK c \in C, d \in C : Shows(U[i], c) /\ Shows(U[j], d)
    BY <1>9
  <2>2. c # d
    BY <1>11, <2>1 DEF Distinct, Shows, Live
  <2> QED
    BY <1>7, <2>1, <2>2 DEF Shows
<1>13. \A i \in DOMAIN U \ DOMAIN rows : \E c \in C : Match(rows, c) = {} /\ Shows(U[i], c)
  BY <1>1, <1>2, <1>3, <1>5, <1>6
<1>14. Sound(U) /\ k <= Len(U)
  BY <1>2, <1>3, <1>11, <1>12 DEF Sound
<1> QED
  BY <1>9, <1>10, <1>13, <1>14 DEF U, k

LEMMA UpsertedTwice ==
    ASSUME NEW rows, Sound(rows), NEW C, Clear(C)
    PROVE  Upserted(Upserted(rows, C), C) = Upserted(rows, C)
<1> DEFINE U == Upserted(rows, C)
<1>1. /\ Sound(U)
      /\ \A i \in Live(U) : \E c \in C : Shows(U[i], c)
      /\ \A c \in C : \E i \in Live(U) : Shows(U[i], c)
  BY UpsertedRows
<1> HIDE DEF U
<1>2. /\ Len(U) \in Nat /\ DOMAIN U = 1..Len(U) /\ Live(U) \subseteq DOMAIN U
      /\ U \in [1..Len(U) -> Event]
      /\ \A i \in DOMAIN U : U[i] \in Event
  BY <1>1, EventTypes, LenProperties DEF Sound
<1>3. \A c \in C : c \in Candidate
  BY DEF Clear
<1>4. \A i \in DOMAIN U, c \in C : i \in Match(U, c) <=> Shows(U[i], c)
  BY <1>1, <1>2, <1>3, MatchIs DEF Shows
<1>5. \A i \in DOMAIN U, c \in C : Shows(U[i], c) => i \in Live(U)
  BY <1>1, <1>2 DEF Sound, Distinct, Shows
<1>6. Fresh(U, C) = {}
  BY <1>1, <1>2, <1>4 DEF Fresh
<1>7. NewRows(Fresh(U, C)) = <<>>
  <2>1. Clear({})
    BY DEF Clear
  <2>2. NewRows({}) \in Seq(Event) /\ Len(NewRows({})) = 0
    BY <2>1, NewRowsAre, FS_EmptySet
  <2> QED
    BY <1>6, <2>2, EmptySeq
<1>8. Kept(U, C) = U
  <2>1. /\ Kept(U, C) \in Seq(Event) /\ Len(Kept(U, C)) = Len(U)
        /\ \A i \in DOMAIN U :
             /\ Kept(U, C)[i].evidence = U[i].evidence
             /\ Kept(U, C)[i].active <=> \E c \in C : i \in Match(U, c)
             /\ \A c \in C : i \in Match(U, c) => Shows(Kept(U, C)[i], c)
             /\ ~Kept(U, C)[i].active => Kept(U, C)[i].value = U[i].value
    BY <1>1, KeptIs
  <2>2. \A i \in DOMAIN U : Kept(U, C)[i] \in Event
    BY <1>2, <2>1, EventTypes
  <2>3. ASSUME NEW i \in 1..Len(U) PROVE Kept(U, C)[i] = U[i]
    <3>1. Kept(U, C)[i].active <=> U[i].active
      BY <1>1, <1>2, <1>4, <1>5, <2>1 DEF Live
    <3>2. Kept(U, C)[i].value = U[i].value
      BY <1>1, <1>2, <1>4, <2>1, <3>1 DEF Live, Shows
    <3>3. Kept(U, C)[i].evidence = U[i].evidence
      BY <1>2, <2>1
    <3>4. Kept(U, C)[i] \in Event /\ U[i] \in Event
      BY <1>2, <2>2
    <3> QED
      BY <3>1, <3>2, <3>3, <3>4 DEF Event
  <2> QED
    BY <1>1, <1>2, <2>1, <2>3, SeqEqual DEF Sound
<1>9. Upserted(U, C) = U
  BY <1>1, <1>7, <1>8, ConcatEmptySeq DEF Upserted, Sound
<1> QED
  BY <1>9 DEF U

(* Conflict rows.                                                          *)

KeysOf(F) == {f.key : f \in F}
StateOf(F, k) == (CHOOSE f \in F : f.key = k).state

LEMMA SettledIs ==
    ASSUME NEW rows, NEW F
    PROVE  LET G == Settled(rows, F) IN
           /\ DOMAIN G = DOMAIN rows \cup KeysOf(F)
           /\ \A k \in KeysOf(F) :
                /\ \E f \in F : f.key = k /\ f.state = StateOf(F, k)
                /\ k \in DOMAIN rows => G[k] = Refreshed(rows[k], StateOf(F, k))
                /\ k \notin DOMAIN rows => G[k] = NewConflict(StateOf(F, k))
           /\ \A k \in DOMAIN rows \ KeysOf(F) : G[k] = [rows[k] EXCEPT !.active = FALSE]
<1> DEFINE G == Settled(rows, F)
<1>1. G = [k \in DOMAIN rows \cup KeysOf(F) |->
             IF k \in KeysOf(F)
             THEN IF k \in DOMAIN rows THEN Refreshed(rows[k], StateOf(F, k))
                  ELSE NewConflict(StateOf(F, k))
             ELSE [rows[k] EXCEPT !.active = FALSE]]
  BY Zenon DEF Settled, KeysOf, StateOf
<1>2. \A k \in KeysOf(F) : \E f \in F : f.key = k /\ f.state = StateOf(F, k)
  BY DEF KeysOf, StateOf
<1> HIDE DEF G
<1>3. /\ DOMAIN G = DOMAIN rows \cup KeysOf(F)
      /\ \A k \in KeysOf(F) :
           /\ k \in DOMAIN rows => G[k] = Refreshed(rows[k], StateOf(F, k))
           /\ k \notin DOMAIN rows => G[k] = NewConflict(StateOf(F, k))
      /\ \A k \in DOMAIN rows \ KeysOf(F) : G[k] = [rows[k] EXCEPT !.active = FALSE]
  BY <1>1
<1> QED
  BY <1>2, <1>3 DEF G

\* A conflict row of any version.
AnyConflict == [state : State, version : Nat \ {0}, status : Statuses \cup {"open"},
                active : BOOLEAN, last : ConflictDecision]

LEMMA ConflictTypes ==
    /\ Conflict \subseteq AnyConflict
    /\ \A c \in AnyConflict : c.version <= MaxState => c \in Conflict
    /\ NoDecision \in ConflictDecision
<1>1. MaxState \in Nat \ {0}
  BY ChronologyAssumption
<1>2. NoDecision \in ConflictDecision
  BY <1>1 DEF NoDecision, ConflictDecision, State
<1>3. \A n \in Nat \ {0} : n <= MaxState => n \in 1..MaxState
  BY <1>1
<1>4. 1..MaxState \subseteq Nat \ {0}
  BY <1>1
<1>5. Conflict \subseteq AnyConflict
  BY <1>4 DEF Conflict, AnyConflict
<1>6. \A c \in AnyConflict : c.version <= MaxState => c \in Conflict
  BY <1>3 DEF Conflict, AnyConflict
<1> QED
  BY <1>2, <1>5, <1>6

LEMMA RefreshedIs ==
    ASSUME NEW row \in Conflict, NEW state \in State
    PROVE  /\ Refreshed(row, state) \in AnyConflict
           /\ Refreshed(row, state).active /\ Refreshed(row, state).state = state
<1>1. row \in AnyConflict /\ row.version + 1 \in Nat \ {0}
  BY ConflictTypes DEF AnyConflict
<1>2. CASE ~row.active \/ row.state # state
  <2>1. Refreshed(row, state)
          = [row EXCEPT !.state = state, !.version = row.version + 1, !.status = "open",
                        !.active = TRUE]
    BY <1>2 DEF Refreshed
  <2> QED
    BY <1>1, <2>1 DEF AnyConflict
<1>3. CASE row.active /\ row.state = state
  BY <1>1, <1>3 DEF Refreshed
<1> QED
  BY <1>2, <1>3

LEMMA SettledTypes ==
    ASSUME NEW rows, \A k \in DOMAIN rows : rows[k] \in Conflict,
           NEW F, \A f \in F : f.state \in State
    PROVE  LET G == Settled(rows, F) IN
           /\ \A k \in DOMAIN G : G[k] \in AnyConflict
           /\ \A k \in KeysOf(F) : G[k].active /\ G[k].state = StateOf(F, k)
           /\ \A k \in DOMAIN G \ KeysOf(F) : k \in DOMAIN rows /\ ~G[k].active
<1> DEFINE G == Settled(rows, F)
<1>1. /\ DOMAIN G = DOMAIN rows \cup KeysOf(F)
      /\ \A k \in KeysOf(F) :
           /\ \E f \in F : f.key = k /\ f.state = StateOf(F, k)
           /\ k \in DOMAIN rows => G[k] = Refreshed(rows[k], StateOf(F, k))
           /\ k \notin DOMAIN rows => G[k] = NewConflict(StateOf(F, k))
      /\ \A k \in DOMAIN rows \ KeysOf(F) : G[k] = [rows[k] EXCEPT !.active = FALSE]
  BY SettledIs
<1> HIDE DEF G
<1>2. \A k \in KeysOf(F) : StateOf(F, k) \in State
  BY <1>1
<1>3. ASSUME NEW s \in State
      PROVE  NewConflict(s) \in AnyConflict /\ NewConflict(s).active /\ NewConflict(s).state = s
  BY ConflictTypes DEF NewConflict, AnyConflict
<1>4. ASSUME NEW k \in KeysOf(F)
      PROVE  G[k] \in AnyConflict /\ G[k].active /\ G[k].state = StateOf(F, k)
  BY <1>1, <1>2, <1>3, RefreshedIs
<1>5. ASSUME NEW k \in DOMAIN rows \ KeysOf(F)
      PROVE  G[k] \in AnyConflict /\ ~G[k].active
  <2>1. rows[k] \in AnyConflict
    BY ConflictTypes
  <2>2. G[k] = [rows[k] EXCEPT !.active = FALSE]
    BY <1>1
  <2> QED
    BY <2>1, <2>2 DEF AnyConflict
<1> QED
  BY <1>1, <1>4, <1>5 DEF G

LEMMA SettledTwice ==
    ASSUME NEW rows, \A k \in DOMAIN rows : rows[k] \in Conflict,
           NEW F, \A f \in F : f.state \in State
    PROVE  Settled(Settled(rows, F), F) = Settled(rows, F)
<1> DEFINE G == Settled(rows, F)
<1>1. /\ DOMAIN G = DOMAIN rows \cup KeysOf(F)
      /\ \A k \in DOMAIN rows \ KeysOf(F) : G[k] = [rows[k] EXCEPT !.active = FALSE]
  BY SettledIs
<1>2. /\ \A k \in KeysOf(F) : G[k].active /\ G[k].state = StateOf(F, k)
      /\ \A k \in DOMAIN G \ KeysOf(F) : k \in DOMAIN rows
  BY SettledTypes
<1>3. G = [k \in DOMAIN G |-> G[k]]
  BY DEF Settled
<1> HIDE DEF G
<1> DEFINE H == Settled(G, F)
<1>4. H = [k \in DOMAIN H |-> H[k]]
  BY DEF Settled
<1>5. /\ DOMAIN H = DOMAIN G \cup KeysOf(F)
      /\ \A k \in KeysOf(F) :
           /\ \E f \in F : f.key = k /\ f.state = StateOf(F, k)
           /\ k \in DOMAIN G => H[k] = Refreshed(G[k], StateOf(F, k))
           /\ k \notin DOMAIN G => H[k] = NewConflict(StateOf(F, k))
      /\ \A k \in DOMAIN G \ KeysOf(F) : H[k] = [G[k] EXCEPT !.active = FALSE]
  BY SettledIs
<1> HIDE DEF H
<1>6. ASSUME NEW k \in KeysOf(F) PROVE H[k] = G[k]
  BY <1>1, <1>2, <1>5, <1>6 DEF Refreshed
<1>7. ASSUME NEW k \in DOMAIN G \ KeysOf(F) PROVE H[k] = G[k]
  <2>1. rows[k] \in Conflict
    BY <1>2
  <2> QED
    BY <1>1, <1>2, <1>5, <2>1 DEF Conflict
<1>8. DOMAIN H = DOMAIN G /\ \A k \in DOMAIN G : H[k] = G[k]
  BY <1>1, <1>5, <1>6, <1>7
<1>9. H = G
  BY <1>3, <1>4, <1>8
<1> QED
  BY <1>9 DEF G, H

LEMMA FoundAre ==
    ASSUME TimelineTypeOK, NEW U, Sound(U)
    PROVE  \A f \in Found(doc, U) :
             /\ f.state \in State
             /\ Len(U) <= MaxEvents => f.key \in Keys
             /\ ToSet(f.key.events) \subseteq Live(U)
             /\ f.key.report = Nil =>
                  /\ f.state = [n \in 1..2 |-> U[f.key.events[n]].value]
                  /\ ~Near(f.state[1], f.state[2])
<1>1. /\ Len(U) \in Nat /\ DOMAIN U = 1..Len(U) /\ Live(U) \subseteq DOMAIN U
      /\ \A i \in DOMAIN U : U[i].value \in Times /\ U[i].value \in Nat
  BY EventTypes, TimeTypes DEF Sound
<1>2. MaxEvents \in Nat
  BY ChronologyAssumption
<1>3. Len(U) <= MaxEvents => Live(U) \subseteq Events
  BY <1>1, <1>2 DEF Events
<1>4. ASSUME NEW f \in TimeConflicts(U)
      PROVE  /\ f.state \in State
             /\ Len(U) <= MaxEvents => f.key \in Keys
             /\ ToSet(f.key.events) \subseteq Live(U)
             /\ f.state = [n \in 1..2 |-> U[f.key.events[n]].value]
             /\ ~Near(f.state[1], f.state[2])
  <2>1. PICK p \in Live(U) \X Live(U) :
          /\ U[p[1]].value + Tolerance < U[p[2]].value
          /\ f = [key |-> [report |-> Nil, events |-> p],
                  state |-> <<U[p[1]].value, U[p[2]].value>>]
    BY <1>4 DEF TimeConflicts
  <2>2. PICK i \in Live(U), j \in Live(U) : p = <<i, j>>
    BY <2>1
  <2>3. /\ f.key = [report |-> Nil, events |-> <<i, j>>]
        /\ f.state = <<U[i].value, U[j].value>>
        /\ U[i].value + Tolerance < U[j].value
    BY <2>1, <2>2
  <2>4. f.state \in State
    BY <1>1, <2>3 DEF State
  <2>5. Len(U) <= MaxEvents => f.key \in Keys
    BY <1>3, <2>3 DEF Keys
  <2>6. f.key.events = <<i, j>>
    BY <2>3
  <2>7. ToSet(f.key.events) \subseteq Live(U)
    BY <2>6 DEF ToSet
  <2>8. f.state = [n \in 1..2 |-> U[f.key.events[n]].value]
    BY <2>3, <2>6
  <2>9. ~Near(f.state[1], f.state[2])
    BY <1>1, <2>3, TimeTypes DEF Near
  <2> QED
    BY <2>4, <2>5, <2>7, <2>8, <2>9
<1>5. ASSUME NEW f \in Denials(doc, U)
      PROVE  /\ f.state \in State
             /\ Len(U) <= MaxEvents => f.key \in Keys
             /\ ToSet(f.key.events) \subseteq Live(U)
             /\ f.key.report # Nil
  <2>1. PICK d \in ReviewedDocs(doc), i \in Live(U) :
          f = [key |-> [report |-> d, events |-> <<i>>], state |-> <<Denied, Nil>>]
    BY <1>5 DEF Denials
  <2>2. d \in Docs /\ d # Nil
    BY DocParts DEF ReviewedDocs
  <2>3. f.state \in State
    BY <2>1 DEF State
  <2>4. Len(U) <= MaxEvents => f.key \in Keys
    BY <1>3, <2>1, <2>2 DEF Keys
  <2>5. f.key.events = <<i>> /\ f.key.report = d
    BY <2>1
  <2>6. ToSet(f.key.events) \subseteq Live(U)
    BY <2>5 DEF ToSet
  <2> QED
    BY <2>2, <2>3, <2>4, <2>5, <2>6
<1> QED
  BY <1>4, <1>5 DEF Found

(* The invariant.                                                          *)

DocInv == doc \in [Docs -> Doc] /\ VersionsInOrder
ChronInv ==
    /\ DOMAIN chron = {"event", "conflict"}
    /\ Sound(chron.event) /\ Len(chron.event) <= MaxEvents
    /\ DOMAIN chron.conflict \subseteq Keys
    /\ \A k \in DOMAIN chron.conflict : chron.conflict[k] \in Conflict
    /\ ConflictsAreLive
UserInv == user \in [Users -> {NothingRead} \cup [key : Keys, view : Conflict]] /\ RequestsKnown

LEMMA TimelineParts == TimelineInv <=> DocInv /\ ChronInv /\ UserInv
BY 
DEF TimelineInv, TimelineTypeOK, OneEventPerEvidence, SignaturesUnique, DocInv, ChronInv,
    UserInv,
       Sound, Apart, Distinct

LEMMA TimelinePartsNext == TimelineInv' <=> DocInv' /\ ChronInv' /\ UserInv'
BY 
DEF TimelineInv, TimelineTypeOK, OneEventPerEvidence, SignaturesUnique, DocInv, ChronInv,
    UserInv,
       Sound, Apart, Distinct

LEMMA InitTimeline == TimelineInit => TimelineInv
<1> SUFFICES ASSUME TimelineInit PROVE DocInv /\ ChronInv /\ UserInv
  BY TimelineParts
<1> USE DEF TimelineInit
<1>1. DocInv
  <2>1. doc \in [Docs -> Doc]
    BY DEF Doc
  <2>2. VersionsInOrder
    <3> SUFFICES ASSUME NEW s \in {Chief, Log}, NEW n \in 1..MaxDocs[s]
                 PROVE  doc[<<s, n>>].state = "absent"
      BY DEF VersionsInOrder
    <3> QED
      BY DocOf
  <2> QED
    BY <2>1, <2>2 DEF DocInv
<1>2. ChronInv
  <2>1. chron.event = <<>> /\ chron.conflict = <<>> /\ DOMAIN chron = {"event", "conflict"}
    OBVIOUS
  <2>2. DOMAIN <<>> = {} /\ <<>> \in Seq(Event) /\ Len(<<>>) = 0
    BY LenProperties, EmptySeq
  <2>3. Sound(chron.event)
    BY <2>1, <2>2 DEF Sound, Apart, Distinct, Live
  <2> QED
    BY <2>1, <2>2, <2>3, ChronologyAssumption DEF ChronInv, ConflictsAreLive
<1>3. UserInv
  BY DEF UserInv, RequestsKnown
<1> QED
  BY <1>1, <1>2, <1>3

\* Who is alone with the lock finds no conflict read and not yet decided.
LEMMA QuietUsers ==
    ASSUME UserInv, Quiet(Nil), UNCHANGED user,
           DOMAIN chron.conflict \subseteq DOMAIN chron'.conflict
    PROVE  UserInv'
<1>1. ~StaleReads => \A u \in Users : user[u] = NothingRead
  BY ChronologyAssumption DEF Quiet
<1> QED
  BY <1>1 DEF UserInv, RequestsKnown

LEMMA RebuildKeeps ==
    ASSUME TimelineInv, Rebuild
    PROVE  ChronInv' /\ DOMAIN chron.conflict \subseteq DOMAIN chron'.conflict
<1> DEFINE C == Candidates(doc)
           U == Upserted(chron.event, C)
           F == Found(doc, U)
           G == Settled(chron.conflict, F)
<1>1. TimelineTypeOK /\ VersionsInOrder /\ ChronInv
  BY TimelineParts DEF TimelineInv
<1>2. Clear(C)
  BY <1>1, CandidatesClear
<1>3. chron' = [event |-> U, conflict |-> G] /\ Bounded(chron')
  BY DEF Rebuild, Rebuilt
<1>4. Sound(U)
  BY <1>1, <1>2, UpsertedRows DEF ChronInv
<1> HIDE DEF C, U
<1>5. \A f \in F : /\ f.state \in State
                   /\ Len(U) <= MaxEvents => f.key \in Keys
                   /\ ToSet(f.key.events) \subseteq Live(U)
                   /\ f.key.report = Nil =>
                        /\ f.state = [n \in 1..2 |-> U[f.key.events[n]].value]
                        /\ ~Near(f.state[1], f.state[2])
  BY <1>1, <1>4, FoundAre
<1> HIDE DEF F
<1>6. /\ DOMAIN G = DOMAIN chron.conflict \cup KeysOf(F)
      /\ \A k \in KeysOf(F) : \E f \in F : f.key = k /\ f.state = StateOf(F, k)
  BY SettledIs
<1>7. /\ \A k \in DOMAIN G : G[k] \in AnyConflict
      /\ \A k \in KeysOf(F) : G[k].active /\ G[k].state = StateOf(F, k)
      /\ \A k \in DOMAIN G \ KeysOf(F) : ~G[k].active
  BY <1>1, <1>5, SettledTypes DEF ChronInv
<1> HIDE DEF G
<1>8. /\ DOMAIN chron' = {"event", "conflict"} /\ chron'.event = U /\ chron'.conflict = G
      /\ Len(U) <= MaxEvents /\ \A k \in DOMAIN G : G[k].version <= MaxState
  BY <1>3 DEF Bounded
<1>9. DOMAIN G \subseteq Keys
  <2>1. KeysOf(F) \subseteq Keys
    BY <1>5, <1>8 DEF KeysOf
  <2> QED
    BY <1>1, <1>6, <2>1 DEF ChronInv
<1>10. \A k \in DOMAIN G : G[k] \in Conflict
  BY <1>7, <1>8, ConflictTypes
<1>11. ConflictsAreLive'
  <2> SUFFICES ASSUME NEW k \in DOMAIN G, G[k].active
               PROVE  /\ ToSet(k.events) \subseteq Live(U)
                      /\ k.report = Nil =>
                           /\ G[k].state = [n \in 1..2 |-> U[k.events[n]].value]
                           /\ ~Near(G[k].state[1], G[k].state[2])
    BY <1>8 DEF ConflictsAreLive
  <2>1. k \in KeysOf(F) /\ G[k].state = StateOf(F, k)
    BY <1>7
  <2>2. PICK f \in F : f.key = k /\ f.state = StateOf(F, k)
    BY <1>6, <2>1
  <2> QED
    BY <1>5, <2>1, <2>2
<1> QED
  BY <1>4, <1>6, <1>8, <1>9, <1>10, <1>11 DEF ChronInv

LEMMA RetiredKeeps ==
    ASSUME ChronInv, NEW d \in Docs, chron' = Retired(chron, d)
    PROVE  ChronInv' /\ DOMAIN chron.conflict \subseteq DOMAIN chron'.conflict
<1> DEFINE E == chron.event
           hit == {i \in Live(E) : d \in E[i].evidence}
           R == [i \in DOMAIN E |-> [E[i] EXCEPT !.active = @ /\ i \notin hit]]
           G == [k \in DOMAIN chron.conflict |->
                   [chron.conflict[k] EXCEPT
                      !.active = @ /\ k.report # d /\ ToSet(k.events) \cap hit = {}]]
<1>1. chron' = [event |-> R, conflict |-> G]
  BY Zenon DEF Retired
<1>2. /\ Len(E) \in Nat /\ DOMAIN E = 1..Len(E) /\ Live(E) \subseteq DOMAIN E
      /\ \A i \in DOMAIN E : E[i] \in Event
  BY EventTypes DEF ChronInv, Sound
<1>3. \A i \in DOMAIN E :
        /\ R[i] \in Event
        /\ R[i].evidence = E[i].evidence /\ R[i].value = E[i].value
        /\ R[i].active <=> E[i].active /\ i \notin hit
  BY <1>2 DEF Event
<1>4. DOMAIN R = DOMAIN E /\ R = [i \in DOMAIN E |-> R[i]]
  OBVIOUS
<1>5. \A k \in DOMAIN chron.conflict :
        /\ G[k] \in Conflict /\ G[k].state = chron.conflict[k].state
        /\ G[k].active => chron.conflict[k].active /\ ToSet(k.events) \cap hit = {}
  <2> SUFFICES ASSUME NEW k \in DOMAIN chron.conflict
               PROVE  /\ G[k] \in Conflict /\ G[k].state = chron.conflict[k].state
                      /\ G[k].active => /\ chron.conflict[k].active
                                        /\ ToSet(k.events) \cap hit = {}
    OBVIOUS
  <2> DEFINE c == chron.conflict[k]
             on == c.active /\ k.report # d /\ ToSet(k.events) \cap hit = {}
  <2>1. G[k] = [c EXCEPT !.active = on]
    OBVIOUS
  <2>2. c \in Conflict /\ on \in BOOLEAN
    BY DEF ChronInv
  <2>3. on => c.active /\ ToSet(k.events) \cap hit = {}
    OBVIOUS
  <2> HIDE DEF on, c, G
  <2>4. G[k] \in Conflict /\ G[k].state = c.state /\ G[k].active = on
    BY <2>1, <2>2 DEF Conflict
  <2> QED
    BY <2>3, <2>4 DEF c
<1>6. DOMAIN G = DOMAIN chron.conflict
  OBVIOUS
<1> HIDE DEF R, G
<1>7. R \in Seq(Event) /\ Len(R) = Len(E)
  <2>1. R \in [1..Len(E) -> Event]
    BY <1>2, <1>3, <1>4
  <2> QED
    BY <1>2, <2>1, LenProperties
<1>8. Live(R) = Live(E) \ hit
  BY <1>2, <1>3, <1>4 DEF Live
<1>9. Sound(R)
  BY <1>3, <1>4, <1>7, <1>8 DEF ChronInv, Sound, Apart, Distinct, Live
<1>10. /\ chron'.event = R /\ chron'.conflict = G /\ DOMAIN chron' = {"event", "conflict"}
  BY <1>1
<1>11. ConflictsAreLive'
  <2> SUFFICES ASSUME NEW k \in DOMAIN G, G[k].active
               PROVE  /\ ToSet(k.events) \subseteq Live(R)
                      /\ k.report = Nil =>
                           /\ G[k].state = [n \in 1..2 |-> R[k.events[n]].value]
                           /\ ~Near(G[k].state[1], G[k].state[2])
    BY <1>10 DEF ConflictsAreLive
  <2>1. /\ k \in DOMAIN chron.conflict /\ chron.conflict[k].active
        /\ G[k].state = chron.conflict[k].state
        /\ ToSet(k.events) \cap hit = {}
    BY <1>5, <1>6
  <2>2. /\ ToSet(k.events) \subseteq Live(E)
        /\ k.report = Nil =>
             /\ G[k].state = [n \in 1..2 |-> E[k.events[n]].value]
             /\ ~Near(G[k].state[1], G[k].state[2])
    BY <2>1 DEF ChronInv, ConflictsAreLive
  <2>3. ToSet(k.events) \subseteq Live(R)
    BY <1>8, <2>1, <2>2
  <2>4. ASSUME k.report = Nil
        PROVE  [n \in 1..2 |-> E[k.events[n]].value] = [n \in 1..2 |-> R[k.events[n]].value]
    <3>1. k \in Keys /\ k.events \in Events \X Events
      BY <2>1, <2>4, DocParts DEF ChronInv, Keys
    <3>2. \A n \in 1..2 : k.events[n] \in ToSet(k.events)
      BY <3>1 DEF ToSet
    <3>3. \A n \in 1..2 : E[k.events[n]].value = R[k.events[n]].value
      BY <1>2, <1>3, <2>2, <3>2
    <3> QED
      BY <3>3
  <2> QED
    BY <2>2, <2>3, <2>4
<1> QED
  BY <1>5, <1>6, <1>7, <1>9, <1>10, <1>11 DEF ChronInv

LEMMA DisposedKeeps ==
    ASSUME TimelineInv, NEW u \in Users, NEW s \in Statuses, NEW confirm \in BOOLEAN,
           Resolve(u, s, confirm)
    PROVE  ChronInv' /\ UserInv'
<1> DEFINE k == user[u].key
           v == user[u].view
           G == [chron.conflict EXCEPT ![k] = Disposed(@, v, u, s)]
<1>1. DocInv /\ ChronInv /\ UserInv
  BY TimelineParts
<1>2. /\ k # Nil /\ Quiet(u)
      /\ chron' = [chron EXCEPT !.conflict = G]
      /\ user' = [user EXCEPT ![u] = NothingRead]
  BY Zenon DEF Resolve
<1>3. user[u] # NothingRead /\ user[u] \in [key : Keys, view : Conflict]
  BY <1>1, <1>2 DEF UserInv, NothingRead
<1>4. k \in DOMAIN chron.conflict /\ v \in Conflict
  BY <1>1, <1>3 DEF UserInv, RequestsKnown
<1>5. DOMAIN chron' = {"event", "conflict"} /\ chron'.event = chron.event /\ chron'.conflict = G
  BY <1>1, <1>2 DEF ChronInv
<1>6. Made(u, v, s) \in ConflictDecision
  <2>1. v.version \in 0..MaxState
    BY <1>4, ChronologyAssumption DEF Conflict
  <2> QED
    BY <1>4, <2>1 DEF Made, ConflictDecision, Conflict
<1>7. \A c \in Conflict : /\ Disposed(c, v, u, s) \in Conflict
                          /\ Disposed(c, v, u, s).state = c.state
                          /\ Disposed(c, v, u, s).active = c.active
  <2> SUFFICES ASSUME NEW c \in Conflict
               PROVE  /\ Disposed(c, v, u, s) \in Conflict
                      /\ Disposed(c, v, u, s).state = c.state
                      /\ Disposed(c, v, u, s).active = c.active
    OBVIOUS
  <2> DEFINE t == IF v.status = s THEN c.status ELSE s
  <2>1. Disposed(c, v, u, s) = [c EXCEPT !.status = t, !.last = Made(u, v, s)]
    BY DEF Disposed
  <2>2. t \in Statuses \cup {"open"}
    BY DEF Conflict
  <2> HIDE DEF t
  <2> QED
    BY <1>6, <2>1, <2>2 DEF Conflict
<1>8. /\ DOMAIN G = DOMAIN chron.conflict
      /\ \A j \in DOMAIN G : /\ G[j] \in Conflict
                             /\ G[j].state = chron.conflict[j].state
                             /\ G[j].active = chron.conflict[j].active
                             /\ j # k => G[j] = chron.conflict[j]
  BY <1>1, <1>4, <1>7 DEF ChronInv
<1> HIDE DEF G
<1>9. ConflictsAreLive'
  BY <1>1, <1>5, <1>8 DEF ChronInv, ConflictsAreLive
<1>10. ChronInv'
  BY <1>1, <1>5, <1>8, <1>9 DEF ChronInv
<1>11. UserInv'
  <2>1. user' \in [Users -> {NothingRead} \cup [key : Keys, view : Conflict]]
    BY <1>1, <1>2 DEF UserInv
  <2>2. ASSUME NEW w \in Users, user'[w] # NothingRead
        PROVE  /\ user'[w].key \in DOMAIN G
               /\ StaleReads \/ G[user'[w].key] = user'[w].view
    <3>1. w # u /\ user'[w] = user[w]
      BY <1>1, <1>2, <2>2 DEF UserInv
    <3>2. StaleReads
      BY <1>2, <2>2, <3>1 DEF Quiet
    <3> QED
      BY <1>1, <1>8, <2>2, <3>1, <3>2 DEF UserInv, RequestsKnown
  <2> QED
    BY <1>5, <2>1, <2>2 DEF UserInv, RequestsKnown
<1> QED
  BY <1>10, <1>11

(* Documents.                                                              *)

LEMMA ReviewKeepsDocs ==
    ASSUME DocInv, NEW d \in Docs, NEW v \in Times \cup {Denied, Nil}, ReviewValue(d, v)
    PROVE  DocInv' /\ \A e \in Docs : doc'[e].state = doc[e].state
<1>1. doc' = [doc EXCEPT ![d].value = v] /\ doc \in [Docs -> Doc]
  BY DEF ReviewValue, DocInv
<1>2. doc' \in [Docs -> Doc] /\ \A e \in Docs : doc'[e].state = doc[e].state
  BY <1>1 DEF Doc
<1> QED
  BY <1>2, DocOf, ChronologyAssumption DEF DocInv, VersionsInOrder

LEMMA UploadKeepsDocs ==
    ASSUME DocInv, NEW s \in {Chief, Log}, Upload(s)
    PROVE  /\ DocInv'
           /\ \A e \in Docs : doc[e].state = "current" => doc'[e].state = "current"
<1>1. 1 \in 1..MaxDocs[s] /\ \A t \in {Chief, Log} : MaxDocs[t] \in Nat
  BY ChronologyAssumption
<1>2. <<s, 1>> \in Docs
  BY <1>1, DocOf
<1>3. /\ doc[<<s, 1>>].state = "absent" /\ doc \in [Docs -> Doc]
      /\ doc' = [doc EXCEPT ![<<s, 1>>].state = "current"]
  BY DEF Upload, DocInv
<1>4. /\ doc' \in [Docs -> Doc]
      /\ \A e \in Docs : doc'[e].state = IF e = <<s, 1>> THEN "current" ELSE doc[e].state
  BY <1>2, <1>3 DEF Doc
<1>5. VersionsInOrder'
  <2> SUFFICES ASSUME NEW t \in {Chief, Log}, NEW n \in 1..MaxDocs[t],
                      doc'[<<t, n>>].state # "absent", NEW m \in 1..(n - 1)
               PROVE  doc'[<<t, m>>].state = "superseded"
    BY DEF VersionsInOrder
  <2>1. m \in 1..MaxDocs[t] /\ <<t, n>> \in Docs /\ <<t, m>> \in Docs /\ n # 1
    BY <1>1, DocOf
  <2>2. doc[<<t, n>>].state # "absent"
    BY <1>4, <2>1
  <2>3. doc[<<t, m>>].state = "superseded"
    BY <2>2 DEF DocInv, VersionsInOrder
  <2> QED
    BY <1>3, <1>4, <2>1, <2>3
<1> QED
  BY <1>3, <1>4, <1>5 DEF DocInv

LEMMA SupersedingKeepsDocs ==
    ASSUME DocInv, NEW d \in Docs, Superseding(d)
    PROVE  /\ DocInv'
           /\ \A e \in Docs : e # d /\ doc[e].state = "current" => doc'[e].state = "current"
<1> DEFINE n == d[2] + 1
           e == <<d[1], n>>
<1>1. /\ d[1] \in {Chief, Log} /\ d[2] \in 1..MaxDocs[d[1]] /\ d = <<d[1], d[2]>>
      /\ \A t \in {Chief, Log} : MaxDocs[t] \in Nat
  BY DocParts, ChronologyAssumption
<1>2. /\ d[2] < MaxDocs[d[1]] /\ doc[d].state = "current" /\ doc \in [Docs -> Doc]
      /\ doc' = [doc EXCEPT ![d].state = "superseded", ![e].state = "current"]
  BY DEF Superseding, DocInv
<1>3. n \in 1..MaxDocs[d[1]] /\ d[2] \in 1..(n - 1) /\ \A i \in 1..(n - 1) : i <= d[2]
  BY <1>1, <1>2
<1>4. e \in Docs /\ e # d
  BY <1>1, <1>3, DocOf
<1>5. /\ doc' \in [Docs -> Doc]
      /\ \A x \in Docs : doc'[x].state = IF x = e THEN "current"
                                         ELSE IF x = d THEN "superseded" ELSE doc[x].state
  <2> HIDE DEF e
  <2> QED
    BY <1>2, <1>4 DEF Doc
<1>6. VersionsInOrder'
  <2> SUFFICES ASSUME NEW t \in {Chief, Log}, NEW i \in 1..MaxDocs[t],
                      doc'[<<t, i>>].state # "absent", NEW m \in 1..(i - 1)
               PROVE  doc'[<<t, m>>].state = "superseded"
    BY DEF VersionsInOrder
  <2>1. m \in 1..MaxDocs[t] /\ <<t, i>> \in Docs /\ <<t, m>> \in Docs /\ m < i
    BY <1>1, DocOf
  <2>2. CASE <<t, i>> = e
    <3>1. t = d[1] /\ m \in 1..d[2]
      BY <1>1, <1>3, <2>1, <2>2
    <3>2. CASE m = d[2]
      BY <1>1, <1>4, <1>5, <2>1, <3>1, <3>2
    <3>3. CASE m # d[2]
      <4>1. m \in 1..(d[2] - 1) /\ doc[<<d[1], d[2]>>].state # "absent"
        BY <1>1, <1>2, <3>1, <3>3
      <4>2. doc[<<t, m>>].state = "superseded"
        BY <1>1, <3>1, <4>1 DEF DocInv, VersionsInOrder
      <4>3. <<t, m>> # e /\ <<t, m>> # d
        BY <1>1, <2>1, <2>2, <3>3
      <4> QED
        BY <1>5, <2>1, <4>2, <4>3
    <3> QED
      BY <3>2, <3>3
  <2>3. CASE <<t, i>> # e
    <3>1. doc[<<t, i>>].state # "absent"
      BY <1>2, <1>5, <2>1, <2>3
    <3>2. doc[<<t, m>>].state = "superseded"
      BY <3>1 DEF DocInv, VersionsInOrder
    <3>3. <<t, m>> # e
      <4> SUFFICES ASSUME <<t, m>> = e PROVE FALSE
        OBVIOUS
      <4>1. t = d[1] /\ d[2] \in 1..(i - 1)
        BY <1>1, <1>3, <2>1
      <4>2. doc[<<t, d[2]>>].state = "superseded"
        BY <3>1, <4>1 DEF DocInv, VersionsInOrder
      <4> QED
        BY <1>1, <1>2, <4>1, <4>2
    <3> QED
      BY <1>5, <2>1, <3>2, <3>3
  <2> QED
    BY <2>2, <2>3
<1>7. \A x \in Docs : x # d /\ doc[x].state = "current" => doc'[x].state = "current"
  BY <1>5
<1> QED
  BY <1>5, <1>6, <1>7 DEF DocInv

LEMMA DeleteKeepsDocs ==
    ASSUME DocInv, NEW d \in Docs, Delete(d)
    PROVE  /\ DocInv'
           /\ \A e \in Docs : e # d /\ doc[e].state = "current" => doc'[e].state = "current"
<1>1. /\ doc[d].state = "current" /\ doc \in [Docs -> Doc]
      /\ doc' = [doc EXCEPT ![d].state = "deleted"]
  BY DEF Delete, DocInv
<1>2. /\ doc' \in [Docs -> Doc]
      /\ \A e \in Docs : doc'[e].state = IF e = d THEN "deleted" ELSE doc[e].state
  BY <1>1 DEF Doc
<1>3. VersionsInOrder'
  <2> SUFFICES ASSUME NEW t \in {Chief, Log}, NEW n \in 1..MaxDocs[t],
                      doc'[<<t, n>>].state # "absent", NEW m \in 1..(n - 1)
               PROVE  doc'[<<t, m>>].state = "superseded"
    BY DEF VersionsInOrder
  <2>1. m \in 1..MaxDocs[t] /\ <<t, n>> \in Docs /\ <<t, m>> \in Docs
    BY DocOf, ChronologyAssumption
  <2>2. doc[<<t, m>>].state = "superseded"
    BY <1>1, <1>2, <2>1 DEF DocInv, VersionsInOrder
  <2> QED
    BY <1>1, <1>2, <2>1, <2>2
<1> QED
  BY <1>2, <1>3 DEF DocInv

LEMMA ChronKeeps ==
    ASSUME ChronInv, UserInv, UNCHANGED <<chron, user>>
    PROVE  ChronInv' /\ UserInv'
BY DEF ChronInv, UserInv, RequestsKnown, ConflictsAreLive, Sound, Apart, Distinct, Live

LEMMA NextTimeline == TimelineInv /\ [TimelineNext]_timelineVars => TimelineInv'
<1> SUFFICES ASSUME TimelineInv, [TimelineNext]_timelineVars PROVE DocInv' /\ ChronInv' /\ UserInv'
  BY TimelinePartsNext
<1>1. DocInv /\ ChronInv /\ UserInv
  BY TimelineParts
<1>2. UNCHANGED doc => DocInv'
  BY <1>1 DEF DocInv, VersionsInOrder
<1>3. CASE Rebuild
  BY <1>1, <1>2, <1>3, RebuildKeeps, QuietUsers DEF Rebuild
<1>4. ASSUME NEW s \in {Chief, Log}, Upload(s) PROVE DocInv' /\ ChronInv' /\ UserInv'
  BY <1>1, <1>4, UploadKeepsDocs, ChronKeeps DEF Upload
<1>5. ASSUME NEW d \in Docs, Replace(d) PROVE DocInv' /\ ChronInv' /\ UserInv'
  BY <1>1, <1>5, SupersedingKeepsDocs, RetiredKeeps, QuietUsers DEF Replace
<1>6. ASSUME NEW d \in Docs, Admit(d) PROVE DocInv' /\ ChronInv' /\ UserInv'
  BY <1>1, <1>6, SupersedingKeepsDocs, ChronKeeps DEF Admit
<1>7. ASSUME NEW d \in Docs, Delete(d) PROVE DocInv' /\ ChronInv' /\ UserInv'
  <2>1. Quiet(Nil) /\ chron' = Retired(chron, d) /\ UNCHANGED user
    BY <1>7 DEF Delete
  <2> QED
    BY <1>1, <1>7, <2>1, DeleteKeepsDocs, RetiredKeeps, QuietUsers
<1>8. ASSUME NEW d \in Docs, NEW v \in Times \cup {Denied, Nil}, ReviewValue(d, v)
      PROVE  DocInv' /\ ChronInv' /\ UserInv'
  <2>1. UNCHANGED <<chron, user>>
    BY <1>8 DEF ReviewValue
  <2> QED
    BY <1>1, <1>8, <2>1, ReviewKeepsDocs, ChronKeeps
<1>9. ASSUME NEW u \in Users, NEW k \in DOMAIN chron.conflict, ReadConflict(u, k)
      PROVE  DocInv' /\ ChronInv' /\ UserInv'
  <2>1. /\ UNCHANGED <<doc, chron>>
        /\ user' = [user EXCEPT ![u] = [key |-> k, view |-> chron.conflict[k]]]
    BY <1>9 DEF ReadConflict
  <2>2. ChronInv'
    BY <1>1, <2>1 DEF ChronInv, ConflictsAreLive, Sound, Apart, Distinct, Live
  <2>3. k \in Keys /\ chron.conflict[k] \in Conflict
    BY <1>1 DEF ChronInv
  <2> DEFINE r == [key |-> k, view |-> chron.conflict[k]]
  <2>4. r \in [key : Keys, view : Conflict] /\ r.key = k /\ r.view = chron.conflict[k]
    BY <2>3
  <2>5. user' = [user EXCEPT ![u] = r]
    BY <2>1
  <2> HIDE DEF r
  <2>6. user' \in [Users -> {NothingRead} \cup [key : Keys, view : Conflict]]
    BY <1>1, <2>4, <2>5 DEF UserInv
  <2>7. RequestsKnown'
    BY <1>1, <2>1, <2>4, <2>5 DEF UserInv, RequestsKnown
  <2> QED
    BY <1>2, <2>1, <2>2, <2>6, <2>7 DEF UserInv
<1>10. ASSUME NEW u \in Users, NEW s \in Statuses, NEW confirm \in BOOLEAN,
              Resolve(u, s, confirm)
       PROVE  DocInv' /\ ChronInv' /\ UserInv'
  <2>1. UNCHANGED doc
    BY <1>10 DEF Resolve
  <2> QED
    BY <1>2, <1>10, <2>1, DisposedKeeps
<1>11. ASSUME NEW u \in Users, RefuseResolution(u) PROVE DocInv' /\ ChronInv' /\ UserInv'
  <2>1. UNCHANGED <<doc, chron>> /\ user' = [user EXCEPT ![u] = NothingRead]
    BY <1>11 DEF RefuseResolution
  <2>2. ChronInv'
    BY <1>1, <2>1 DEF ChronInv, ConflictsAreLive, Sound, Apart, Distinct, Live
  <2>3. UserInv'
    BY <1>1, <2>1 DEF UserInv, RequestsKnown
  <2> QED
    BY <1>2, <2>1, <2>2, <2>3
<1>12. CASE UNCHANGED timelineVars
  BY <1>1, <1>2, <1>12, ChronKeeps DEF timelineVars
<1> QED
  BY <1>3, <1>4, <1>5, <1>6, <1>7, <1>8, <1>9, <1>10, <1>11, <1>12 DEF TimelineNext

\* At every moment of any timeline no reviewed value supports two events on
\* display, and a conflict on display is about the events and the times on
\* display (chronology/service.py, _upsert_events, _upsert_conflicts and
\* invalidate_chronology_for_document_retirement).
THEOREM TimelineIsSound == TimelineSpec => []TimelineInv
<1>1. TimelineInit => TimelineInv
  BY InitTimeline
<1>2. TimelineInv /\ [TimelineNext]_timelineVars => TimelineInv'
  BY NextTimeline
<1> QED
  BY <1>1, <1>2, PTL DEF TimelineSpec

LEMMA RebuiltTwice == TimelineInv => RebuildIdempotent
<1> SUFFICES ASSUME TimelineInv
             PROVE  Rebuilt(doc, Rebuilt(doc, chron)) = Rebuilt(doc, chron)
  BY DEF RebuildIdempotent
<1> DEFINE C == Candidates(doc)
           U == Upserted(chron.event, C)
           F == Found(doc, U)
           G == Settled(chron.conflict, F)
           r == [event |-> U, conflict |-> G]
<1>1. TimelineTypeOK /\ VersionsInOrder /\ ChronInv
  BY TimelineParts DEF TimelineInv
<1>2. Clear(C)
  BY <1>1, CandidatesClear
<1>3. Sound(U) /\ Upserted(U, C) = U
  BY <1>1, <1>2, UpsertedRows, UpsertedTwice DEF ChronInv
<1>4. \A f \in F : f.state \in State
  BY <1>1, <1>3, FoundAre
<1>5. Settled(G, F) = G
  BY <1>1, <1>4, SettledTwice DEF ChronInv
<1>6. Rebuilt(doc, chron) = r
  BY DEF Rebuilt
<1>7. Rebuilt(doc, r) = [event |-> Upserted(r.event, C),
                         conflict |-> Settled(r.conflict, Found(doc, Upserted(r.event, C)))]
  BY DEF Rebuilt
<1>8. r.event = U /\ r.conflict = G
  OBVIOUS
<1> HIDE DEF r
<1>9. Rebuilt(doc, r) = [event |-> U, conflict |-> G]
  BY <1>3, <1>5, <1>7, <1>8
<1> QED
  BY <1>6, <1>9 DEF r

\* A second rebuild with nothing reviewed in between changes nothing: events,
\* conflicts and their dispositions are found again by their signatures and
\* keys.
THEOREM RebuildsAreIdempotent == TimelineSpec => []RebuildIdempotent
<1>1. TimelineInv => RebuildIdempotent
  BY RebuiltTwice
<1> QED
  BY <1>1, TimelineIsSound, PTL

\* The rows that a step makes are new candidates of a rebuild.
LEMMA NewEvents ==
    ASSUME TimelineInv, [TimelineNext]_timelineVars
    PROVE  \/ DOMAIN chron'.event = DOMAIN chron.event
           \/ Rebuild
<1>1. ChronInv
  BY TimelineParts
<1>2. ASSUME NEW d, chron' = Retired(chron, d) PROVE DOMAIN chron'.event = DOMAIN chron.event
  BY <1>2 DEF Retired
<1>3. ASSUME NEW u \in Users, NEW s \in Statuses, NEW b \in BOOLEAN, Resolve(u, s, b)
      PROVE  chron'.event = chron.event
  BY <1>1, <1>3 DEF Resolve, ChronInv
<1>4. ASSUME UNCHANGED chron PROVE DOMAIN chron'.event = DOMAIN chron.event
  BY <1>4
<1> QED
  BY <1>2, <1>3, <1>4
  DEF TimelineNext, timelineVars, Upload, Replace, Admit, Delete, ReviewValue, ReadConflict,
      RefuseResolution

LEMMA RebuildIdentity ==
    ASSUME TimelineInv, Rebuild
    PROVE  \A i \in DOMAIN chron'.event \ DOMAIN chron.event :
              \A j \in Live(chron.event) :
                 chron.event[j].evidence # chron'.event[i].evidence
<1> DEFINE C == Candidates(doc)
           U == Upserted(chron.event, C)
<1>1. TimelineTypeOK /\ VersionsInOrder /\ ChronInv
  BY TimelineParts DEF TimelineInv
<1>2. Clear(C) /\ Sound(chron.event)
  BY <1>1, CandidatesClear DEF ChronInv
<1>3. chron'.event = U
  BY DEF Rebuild, Rebuilt
<1>4. \A i \in DOMAIN U \ DOMAIN chron.event :
        \E c \in C : Match(chron.event, c) = {} /\ Shows(U[i], c)
  BY <1>2, UpsertedRows
<1> HIDE DEF U, C
<1> SUFFICES ASSUME NEW i \in DOMAIN U \ DOMAIN chron.event, NEW j \in Live(chron.event),
                    chron.event[j].evidence = U[i].evidence
             PROVE  FALSE
  BY <1>3
<1>5. PICK c \in C : Match(chron.event, c) = {} /\ Shows(U[i], c)
  BY <1>4
<1>6. c \in Candidate /\ j \in DOMAIN chron.event /\ chron.event[j].active
  BY <1>2 DEF Clear, Live
<1>7. chron.event[j].evidence = c.evidence
  BY <1>5 DEF Shows
<1>8. \A i1 \in DOMAIN chron.event : Shows(chron.event[i1], c) => i1 \in Match(chron.event, c)
  BY <1>2, <1>6, MatchIs DEF Shows
<1>9. j \in Match(chron.event, c)
  BY <1>2, <1>5, <1>6, <1>7, <1>8, MatchIs
<1> QED
  BY <1>5, <1>9

\* A correction keeps the identity of the event, and the decisions on its
\* conflicts: a rebuild matches evidence that is on display to the row it has.
THEOREM IdentityIsKept == TimelineSpec => CorrectionKeepsIdentity
<1> DEFINE Kind == \A i \in DOMAIN chron'.event \ DOMAIN chron.event :
                     \A j \in Live(chron.event) :
                        chron.event[j].evidence # chron'.event[i].evidence
<1>1. TimelineInv /\ [TimelineNext]_timelineVars => [Kind]_timelineVars
  BY NewEvents, RebuildIdentity
<1>2. CorrectionKeepsIdentity <=> [][Kind]_timelineVars
  BY DEF CorrectionKeepsIdentity
<1> HIDE DEF Kind
<1> QED
  BY <1>1, <1>2, TimelineIsSound, PTL DEF TimelineSpec

LEMMA RestingStep ==
    ASSUME TimelineInv, [TimelineNext]_timelineVars,
           Resting \/ Rebuild, ~\E d \in Docs : Admit(d)
    PROVE  Resting' \/ UNCHANGED timelineVars
<1>1. /\ DocInv /\ ChronInv /\ TimelineTypeOK /\ VersionsInOrder
      /\ Live(chron.event) \subseteq DOMAIN chron.event
      /\ \A i \in DOMAIN chron.event : chron.event[i].evidence \subseteq Docs
  BY TimelineParts, EventTypes DEF TimelineInv, ChronInv, Sound
<1>2. CASE Rebuild
  <2> DEFINE C == Candidates(doc)
             U == Upserted(chron.event, C)
  <2>1. /\ Clear(C) /\ Sound(chron.event)
        /\ \A c \in C : \A d \in c.evidence : doc[d].state = "current"
    BY <1>1, CandidatesClear DEF ChronInv
  <2>2. chron'.event = U /\ doc' = doc
    BY <1>2 DEF Rebuild, Rebuilt
  <2>3. \A i \in Live(U) : \E c \in C : Shows(U[i], c)
    BY <2>1, UpsertedRows
  <2> HIDE DEF U, C
  <2> QED
    BY <2>1, <2>2, <2>3 DEF Resting, Shows
<1>3. ASSUME Resting, chron'.event = chron.event,
             \A e \in Docs : doc[e].state = "current" => doc'[e].state = "current"
      PROVE  Resting'
  BY <1>1, <1>3 DEF Resting
<1>4. ASSUME Resting, NEW d \in Docs, chron' = Retired(chron, d),
             \A e \in Docs : e # d /\ doc[e].state = "current" => doc'[e].state = "current"
      PROVE  Resting'
  <2> DEFINE E == chron.event
             hit == {i \in Live(E) : d \in E[i].evidence}
  <2>1. chron'.event = [i \in DOMAIN E |-> [E[i] EXCEPT !.active = @ /\ i \notin hit]]
    BY <1>4 DEF Retired
  <2>2. \A i \in DOMAIN E : E[i] \in Event
    BY <1>1, EventTypes DEF ChronInv, Sound
  <2>3. \A i \in DOMAIN E :
          /\ chron'.event[i].evidence = E[i].evidence
          /\ chron'.event[i].active => E[i].active /\ i \notin hit
    <3> SUFFICES ASSUME NEW i \in DOMAIN E
                 PROVE  /\ chron'.event[i].evidence = E[i].evidence
                        /\ chron'.event[i].active => E[i].active /\ i \notin hit
      OBVIOUS
    <3> DEFINE on == E[i].active /\ i \notin hit
    <3>1. chron'.event[i] = [E[i] EXCEPT !.active = on]
      BY <2>1
    <3>2. on => E[i].active /\ i \notin hit
      OBVIOUS
    <3> HIDE DEF on, hit
    <3> QED
      BY <2>2, <3>1, <3>2 DEF Event
  <2>4. \A i \in Live(chron'.event) :
          /\ i \in Live(E) /\ d \notin E[i].evidence
          /\ chron'.event[i].evidence = E[i].evidence
    BY <2>1, <2>3 DEF Live
  <2> QED
    BY <1>1, <1>4, <2>4 DEF Resting
<1>5. ASSUME Resting, NEW s \in {Chief, Log}, Upload(s) PROVE Resting'
  BY <1>1, <1>3, <1>5, UploadKeepsDocs DEF Upload
<1>6. ASSUME Resting, NEW d \in Docs, Replace(d) PROVE Resting'
  BY <1>1, <1>4, <1>6, SupersedingKeepsDocs DEF Replace
<1>7. ASSUME Resting, NEW d \in Docs, Delete(d) PROVE Resting'
  <2>1. chron' = Retired(chron, d)
    BY <1>7 DEF Delete
  <2> QED
    BY <1>1, <1>4, <1>7, <2>1, DeleteKeepsDocs
<1>8. ASSUME Resting, NEW d \in Docs, NEW v \in Times \cup {Denied, Nil}, ReviewValue(d, v)
      PROVE  Resting'
  <2>1. UNCHANGED chron
    BY <1>8 DEF ReviewValue
  <2> QED
    BY <1>1, <1>3, <1>8, <2>1, ReviewKeepsDocs
<1>9. ASSUME Resting, UNCHANGED <<doc, chron>> PROVE Resting'
  BY <1>9 DEF Resting, Live
<1>10. ASSUME Resting, NEW u \in Users, NEW s \in Statuses, NEW b \in BOOLEAN, Resolve(u, s, b)
       PROVE  Resting'
  <2>1. chron'.event = chron.event /\ doc' = doc
    BY <1>1, <1>10 DEF Resolve, ChronInv
  <2> QED
    BY <1>3, <1>10, <2>1
<1>11. CASE Resting
  BY <1>2, <1>5, <1>6, <1>7, <1>8, <1>9, <1>10, <1>11
  DEF TimelineNext, ReadConflict, RefuseResolution
<1> QED
  BY <1>2, <1>11

\* What is on the timeline comes from documents in force, whatever is uploaded,
\* replaced, deleted, corrected or rebuilt: only an admission leaves it behind.
THEOREM EventsRest == TimelineSpec => EventsRestOnCurrentEvidence
<1> DEFINE Kind == (Resting \/ Rebuild) /\ ~(\E d \in Docs : Admit(d)) => Resting'
<1>1. TimelineInv /\ [TimelineNext]_timelineVars => [Kind]_timelineVars
  BY RestingStep
<1>2. EventsRestOnCurrentEvidence <=> [][Kind]_timelineVars
  BY DEF EventsRestOnCurrentEvidence
<1> HIDE DEF Kind
<1> QED
  BY <1>1, <1>2, TimelineIsSound, PTL DEF TimelineSpec

(* The register of conflicts.                                              *)

shownBar == {k \in DOMAIN chron.conflict : chron.conflict[k].active}
aboutBar == [k \in DOMAIN chron.conflict |-> chron.conflict[k].state]
versionBar == [k \in DOMAIN chron.conflict |-> chron.conflict[k].version]
dispositionBar == [k \in DOMAIN chron.conflict |-> Disposition(chron.conflict[k])]

LEMMA ResolutionsInit == TimelineInit => Resolutions!Init
<1> SUFFICES ASSUME TimelineInit PROVE Resolutions!Init
  OBVIOUS
<1>1. chron.conflict = <<>>
  BY DEF TimelineInit
<1>2. DOMAIN <<>> = {}
  OBVIOUS
<1> QED
  BY <1>1, <1>2 DEF Resolutions!Init

LEMMA RegisterRebuild ==
    ASSUME TimelineInv, Rebuild
    PROVE  Resolutions!Rebuild
<1> DEFINE U == Upserted(chron.event, Candidates(doc))
           F == Found(doc, U)
           R == chron.conflict
           G == Settled(R, F)
<1>1. TimelineTypeOK /\ VersionsInOrder /\ ChronInv
  BY TimelineParts DEF TimelineInv
<1>2. Sound(U)
  BY <1>1, CandidatesClear, UpsertedRows DEF ChronInv
<1>3. chron'.conflict = G
  BY DEF Rebuild, Rebuilt
<1> HIDE DEF U
<1>4. \A f \in F : f.state \in State
  BY <1>1, <1>2, FoundAre
<1> HIDE DEF F
<1>5. \A k \in DOMAIN R : R[k] \in Conflict
  BY <1>1 DEF ChronInv
<1> HIDE DEF R
<1>6. /\ DOMAIN G = DOMAIN R \cup KeysOf(F)
      /\ \A k \in KeysOf(F) :
           /\ \E f \in F : f.key = k /\ f.state = StateOf(F, k)
           /\ k \in DOMAIN R => G[k] = Refreshed(R[k], StateOf(F, k))
           /\ k \notin DOMAIN R => G[k] = NewConflict(StateOf(F, k))
      /\ \A k \in DOMAIN R \ KeysOf(F) : G[k] = [R[k] EXCEPT !.active = FALSE]
  BY SettledIs
<1>7. /\ \A k \in KeysOf(F) : G[k].active /\ G[k].state = StateOf(F, k)
      /\ \A k \in DOMAIN G \ KeysOf(F) : k \in DOMAIN R /\ ~G[k].active
  BY <1>4, <1>5, SettledTypes
<1> HIDE DEF G
<1>8. ASSUME NEW k \in DOMAIN G \ DOMAIN R
      PROVE  G[k].active /\ G[k].version = 1 /\ Disposition(G[k]) = Nil
  <2>1. k \in KeysOf(F) /\ G[k] = NewConflict(StateOf(F, k))
    BY <1>6, <1>8
  <2> QED
    BY <1>7, <2>1 DEF NewConflict, Disposition
<1>9. ASSUME NEW k \in DOMAIN R, G[k].active, ~R[k].active \/ G[k].state # R[k].state
      PROVE  G[k].version = R[k].version + 1 /\ Disposition(G[k]) = Nil
  <2>1. k \in KeysOf(F) /\ G[k] = Refreshed(R[k], StateOf(F, k)) /\ G[k].state = StateOf(F, k)
    BY <1>6, <1>7, <1>9
  <2>2. G[k] = [R[k] EXCEPT !.state = StateOf(F, k), !.version = R[k].version + 1,
                            !.status = "open", !.active = TRUE]
    BY <1>9, <2>1 DEF Refreshed
  <2>3. R[k] \in Conflict
    BY <1>5
  <2> QED
    BY <2>2, <2>3 DEF Conflict, Disposition
<1>10. ASSUME NEW k \in DOMAIN R, ~(G[k].active /\ (~R[k].active \/ G[k].state # R[k].state))
       PROVE  /\ G[k].version = R[k].version /\ G[k].state = R[k].state
              /\ Disposition(G[k]) = Disposition(R[k])
  <2>1. CASE k \in KeysOf(F)
    <3>1. G[k] = R[k]
      BY <1>6, <1>7, <1>10, <2>1 DEF Refreshed
    <3> QED
      BY <3>1
  <2>2. CASE k \notin KeysOf(F)
    <3>1. G[k] = [R[k] EXCEPT !.active = FALSE] /\ R[k] \in Conflict
      BY <1>5, <1>6, <2>2
    <3>2. /\ G[k].version = R[k].version /\ G[k].state = R[k].state
          /\ G[k].status = R[k].status /\ G[k].last = R[k].last
      BY <3>1 DEF Conflict
    <3> QED
      BY <3>2 DEF Disposition
  <2> QED
    BY <2>1, <2>2
<1>11. /\ DOMAIN R \subseteq DOMAIN G
       /\ chron.conflict = R /\ chron'.conflict = G
  BY <1>3, <1>6 DEF R
<1> QED
  BY <1>8, <1>9, <1>10, <1>11 DEF Resolutions!Rebuild, Resolutions!Known

LEMMA RegisterRetire ==
    ASSUME ChronInv, NEW d, chron' = Retired(chron, d)
    PROVE  Resolutions!Retire
<1> DEFINE R == chron.conflict
           hit == {i \in Live(chron.event) : d \in chron.event[i].evidence}
           on(k) == R[k].active /\ k.report # d /\ ToSet(k.events) \cap hit = {}
           G == [k \in DOMAIN R |-> [R[k] EXCEPT !.active = on(k)]]
<1>1. chron'.conflict = G
  BY DEF Retired
<1>2. \A k \in DOMAIN R : on(k) => R[k].active
  OBVIOUS
<1>3. \A k \in DOMAIN R : R[k] \in Conflict
  BY DEF ChronInv
<1> HIDE DEF on
<1>4. DOMAIN G = DOMAIN R /\ \A k \in DOMAIN R : G[k] = [R[k] EXCEPT !.active = on(k)]
  OBVIOUS
<1> HIDE DEF G
<1>5. \A k \in DOMAIN R :
        /\ G[k].active => R[k].active
        /\ G[k].state = R[k].state /\ G[k].version = R[k].version
        /\ G[k].status = R[k].status /\ G[k].last = R[k].last
  <2> SUFFICES ASSUME NEW k \in DOMAIN R
               PROVE  /\ G[k].active => R[k].active
                      /\ G[k].state = R[k].state /\ G[k].version = R[k].version
                      /\ G[k].status = R[k].status /\ G[k].last = R[k].last
    OBVIOUS
  <2>1. G[k] = [R[k] EXCEPT !.active = on(k)] /\ R[k] \in Conflict
    BY <1>3, <1>4
  <2> HIDE DEF R
  <2> QED
    BY <1>2, <2>1 DEF Conflict
<1>6. \A k \in DOMAIN R : Disposition(G[k]) = Disposition(R[k])
  BY <1>5 DEF Disposition
<1> QED
  BY <1>1, <1>4, <1>5, <1>6 DEF Resolutions!Retire

LEMMA RegisterDispose ==
    ASSUME ~StaleReads, TimelineInv,
           NEW u \in Users, NEW s \in Statuses, NEW confirm \in BOOLEAN, Resolve(u, s, confirm)
    PROVE  Resolutions!Next
<1> DEFINE k == user[u].key
           v == user[u].view
           R == chron.conflict
           G == [R EXCEPT ![k] = Disposed(@, v, u, s)]
<1>1. ChronInv /\ UserInv
  BY TimelineParts
<1>2. /\ k # Nil /\ R[k].active
      /\ chron' = [chron EXCEPT !.conflict = G]
  BY Zenon DEF Resolve
<1>3. user[u] # NothingRead
  BY <1>2 DEF NothingRead
<1>4. k \in DOMAIN R /\ v = R[k] /\ R[k] \in Conflict
  BY <1>1, <1>3 DEF UserInv, RequestsKnown, ChronInv
<1>5. chron'.conflict = G
  BY <1>1, <1>2 DEF ChronInv
<1>6. /\ DOMAIN G = DOMAIN R
      /\ \A j \in DOMAIN R : G[j] = IF j = k THEN Disposed(R[k], R[k], u, s) ELSE R[j]
  BY <1>4
<1> HIDE DEF G, k, v, R
<1>7. /\ G[k].state = R[k].state /\ G[k].version = R[k].version
      /\ G[k].active = R[k].active /\ Disposition(G[k]) = s
  <2>1. Disposed(R[k], R[k], u, s)
          = [R[k] EXCEPT !.status = s, !.last = Made(u, R[k], s)]
    BY <1>4 DEF Disposed, Conflict
  <2>2. /\ G[k].status = s /\ G[k].last = Made(u, R[k], s)
        /\ G[k].state = R[k].state /\ G[k].version = R[k].version
        /\ G[k].active = R[k].active
    BY <1>4, <1>6, <2>1 DEF Conflict
  <2>3. s # "open"
    BY ChronologyAssumption
  <2> QED
    BY <2>2, <2>3 DEF Disposition, Made
<1>8. /\ shownBar' = shownBar /\ aboutBar' = aboutBar /\ versionBar' = versionBar
      /\ dispositionBar' = [dispositionBar EXCEPT ![k] = s] /\ k \in shownBar
  <2>1. \A j \in DOMAIN R :
          /\ G[j].state = R[j].state /\ G[j].version = R[j].version
          /\ G[j].active = R[j].active
          /\ Disposition(G[j]) = IF j = k THEN s ELSE Disposition(R[j])
    BY <1>6, <1>7
  <2>2. /\ shownBar' = {j \in DOMAIN G : G[j].active}
        /\ aboutBar' = [j \in DOMAIN G |-> G[j].state]
        /\ versionBar' = [j \in DOMAIN G |-> G[j].version]
        /\ dispositionBar' = [j \in DOMAIN G |-> Disposition(G[j])]
    BY <1>5 DEF shownBar, aboutBar, versionBar, dispositionBar
  <2>3. /\ shownBar = {j \in DOMAIN R : R[j].active}
        /\ aboutBar = [j \in DOMAIN R |-> R[j].state]
        /\ versionBar = [j \in DOMAIN R |-> R[j].version]
        /\ dispositionBar = [j \in DOMAIN R |-> Disposition(R[j])]
    BY DEF shownBar, aboutBar, versionBar, dispositionBar, R
  <2>4. dispositionBar' = [dispositionBar EXCEPT ![k] = s]
    BY <1>6, <2>1, <2>2, <2>3
  <2> QED
    BY <1>2, <1>4, <1>6, <2>1, <2>2, <2>3, <2>4
<1>9. k \in shownBar /\ Resolutions!Dispose(k, s)
  BY <1>8 DEF Resolutions!Dispose, shownBar, aboutBar, versionBar, dispositionBar
<1> QED
  BY <1>9 DEF Resolutions!Next, shownBar

LEMMA ResolutionsStep ==
    ASSUME ~StaleReads, TimelineInv, [TimelineNext]_timelineVars
    PROVE  [Resolutions!Next]_(Resolutions!vars)
<1>1. ChronInv
  BY TimelineParts
<1>2. ASSUME UNCHANGED chron PROVE UNCHANGED Resolutions!vars
  BY <1>2 DEF Resolutions!vars
<1>3. CASE Rebuild
  BY <1>3, RegisterRebuild DEF Resolutions!Next
<1>4. ASSUME NEW d \in Docs, Replace(d) \/ Delete(d) PROVE Resolutions!Next
  BY <1>1, <1>4, RegisterRetire DEF Replace, Delete, Resolutions!Next
<1>5. CASE \E u \in Users, s \in Statuses, confirm \in BOOLEAN : Resolve(u, s, confirm)
  BY <1>5, RegisterDispose
<1>6. CASE UNCHANGED chron
  BY <1>2, <1>6
<1> QED
  BY <1>3, <1>4, <1>5, <1>6
  DEF TimelineNext, timelineVars, Upload, Admit, ReviewValue, ReadConflict, RefuseResolution

LEMMA NoSilentStep ==
    ASSUME ~StaleReads, TimelineInv, NEW u \in Users, NEW s \in Statuses, Resolve(u, s, FALSE)
    PROVE  chron.conflict[user[u].key].status = "open"
<1>1. UserInv
  BY TimelineParts
<1>2. user[u].key # Nil /\ user[u].view.status = "open"
  BY DEF Resolve
<1>3. chron.conflict[user[u].key] = user[u].view
  BY <1>1, <1>2 DEF UserInv, RequestsKnown, NothingRead
<1> QED
  BY <1>2, <1>3

\* A human disposition is never replaced without a confirmation, when a conflict
\* does not change between its read and the lock (resolve_conflict).
THEOREM NoResolutionIsSilent == ~StaleReads => (TimelineSpec => NoSilentResolution)
<1> SUFFICES ASSUME ~StaleReads PROVE TimelineSpec => NoSilentResolution
  OBVIOUS
<1> DEFINE Kind == \A u \in Users, s \in Statuses :
                     Resolve(u, s, FALSE) => chron.conflict[user[u].key].status = "open"
<1>1. TimelineInv /\ [TimelineNext]_timelineVars => [Kind]_timelineVars
  BY NoSilentStep
<1>2. NoSilentResolution <=> [][Kind]_timelineVars
  BY DEF NoSilentResolution
<1> HIDE DEF Kind
<1> QED
  BY <1>1, <1>2, TimelineIsSound, PTL DEF TimelineSpec

\* When a conflict does not change between its read and the lock, the timeline
\* presents the register of ConflictRegister: what changes or comes back is open
\* at a new version, and a disposition is about the version that stands.
THEOREM ResolutionsAreKept == ~StaleReads => (TimelineSpec => ResolutionsSpec)
<1> SUFFICES ASSUME ~StaleReads PROVE TimelineSpec => ResolutionsSpec
  OBVIOUS
<1>1. TimelineInit => Resolutions!Init
  BY ResolutionsInit
<1>2. TimelineInv /\ [TimelineNext]_timelineVars => [Resolutions!Next]_(Resolutions!vars)
  BY ResolutionsStep
<1> QED
  BY <1>1, <1>2, TimelineIsSound, PTL DEF TimelineSpec, ResolutionsSpec, Resolutions!Spec

=============================================================================
