------------------------ MODULE EvidenceRefreshProofs ------------------------
(***************************************************************************)
(* Proofs about EvidenceRefresh, for any number of handlers, requests,     *)
(* handoffs and versions, and with every fault of the model.               *)
(*                                                                         *)
(* RefreshInv is inductive.  Its parts say what the holder of the rows may *)
(* rely on (HolderInv), what each handler has in hand even after it lost   *)
(* them (HandlerInv), what a handoff records (HandoffInv), where a version *)
(* comes from (VersionInv) and what no lost connection could undo          *)
(* (UndamagedInv).                                                         *)
(***************************************************************************)
EXTENDS EvidenceRefresh, SequenceTheorems, TLAPS

\* What the handlers hold of the rows while they work with them: the version
\* the reviewer saw is current, and what they are about to do is not done yet.
HolderInv ==
    lock # None =>
        LET p == proc[lock]  h == p.handoff IN
        /\ p.pc \in {"reading", "fetched", "stored", "copied", "promoted"}
        /\ handoffs[h].version = Current
        /\ p.pc \in {"reading", "fetched", "stored"} => handoffs[h].staged = None
        /\ p.pc \in {"copied", "promoted"} =>
             handoffs[h].granted /\ ~Admitted(h) /\ Current < MaxDocs

\* What a handler has in hand, with its rows or without them.
HandlerInv ==
    \A p \in Processes :
        LET h == proc[p].handoff  c == proc[p].content IN
        /\ proc[p].pc # "idle" => h \in DOMAIN handoffs /\ handoffs[h].decision = "approved"
        /\ proc[p].pc \in {"anchored", "reading", "fetched", "stored"} =>
             handoffs[h].anchor # None
        /\ proc[p].pc \in {"fetched", "stored"} => c \in handoffs[h].fetched
        /\ proc[p].pc = "stored" => store[h] = c
        /\ proc[p].pc \in {"copied", "promoted"} => c = handoffs[h].staged /\ c # None

\* What is recorded of a handoff was read from its provider for it.
HandoffInv ==
    \A h \in DOMAIN handoffs :
        /\ handoffs[h].token \in DOMAIN source
        /\ handoffs[h].granted => handoffs[h].staged # None
        /\ handoffs[h].staged # None =>
             /\ handoffs[h].decision = "approved"
             /\ store[h] = handoffs[h].staged
             /\ handoffs[h].staged \in handoffs[h].fetched
        /\ handoffs[h].anchor # None /\ store[h] # None => store[h] \in handoffs[h].fetched
        /\ ~SftpItem => \A c \in handoffs[h].fetched : c = source[handoffs[h].token]

\* A refreshed version is of a handoff over the version before it.
VersionInv ==
    \A v \in DOMAIN docs :
        LET h == docs[v].origin IN
        h # 0 => /\ h \in DOMAIN handoffs
                 /\ handoffs[h].decision = "approved"
                 /\ handoffs[h].version = v - 1
                 /\ handoffs[h].staged = docs[v].content
                 /\ \A w \in DOMAIN docs \ {v} : docs[w].origin # h

\* As long as no handler lost its rows, one handler at a time is past its lock,
\* and it reads the provider only when nothing is stored.
UndamagedInv ==
    ~damage.locks =>
        \A p \in Processes :
            /\ proc[p].pc \in {"reading", "fetched", "stored", "copied", "promoted"} =>
                 lock = p
            /\ proc[p].pc = "reading" => store[proc[p].handoff] = None

RefreshInv ==
    /\ TypeOK
    /\ HolderInv
    /\ HandlerInv
    /\ HandoffInv
    /\ VersionInv
    /\ UndamagedInv

-----------------------------------------------------------------------------
(* What the writes of rows have in common.                                 *)

LEMMA IdleType ==
  Idle \in Handler /\ Idle.pc = "idle"
  BY RefreshAssumption DEF Idle, Handler

\* The lengths and the members of the sequences of rows.
LEMMA Rows ==
  ASSUME TypeOK
  PROVE  /\ DOMAIN docs = 1..Len(docs) /\ Len(docs) \in Nat /\ Len(docs) <= MaxDocs
         /\ Len(docs) \in DOMAIN docs
         /\ \A v \in DOMAIN docs : docs[v] \in Document
         /\ DOMAIN handoffs = 1..Len(handoffs) /\ Len(handoffs) \in Nat
         /\ Len(handoffs) <= MaxHandoffs /\ DOMAIN handoffs \subseteq Handoffs
         /\ \A h \in DOMAIN handoffs : handoffs[h] \in Handoff
         /\ DOMAIN source = 1..Len(source) /\ Len(source) \in Nat /\ Len(source) \in DOMAIN source
         /\ \A t \in DOMAIN source : source[t] \in Contents /\ t \in 1..MaxToken
         /\ MaxDocs \in Nat /\ MaxHandoffs \in Nat /\ MaxToken \in Nat
  <1>1. MaxDocs \in Nat /\ MaxHandoffs \in Nat /\ MaxToken \in Nat
    BY RefreshAssumption
  <1>2. /\ docs \in Seq(Document) /\ Len(docs) \in 1..MaxDocs
        /\ handoffs \in Seq(Handoff) /\ Len(handoffs) <= MaxHandoffs
        /\ source \in Seq(Contents) /\ Len(source) \in 1..MaxToken
    BY DEF TypeOK
  <1> QED
    BY <1>1, <1>2, LenProperties, ElementOfSeq DEF Handoffs

\* A handoff is written.
LEMMA SetIs ==
  ASSUME TypeOK, NEW h \in DOMAIN handoffs, NEW row \in Handoff,
         handoffs' = [handoffs EXCEPT ![h] = row]
  PROVE  /\ handoffs' \in Seq(Handoff) /\ Len(handoffs') = Len(handoffs)
         /\ DOMAIN handoffs' = DOMAIN handoffs
         /\ handoffs'[h] = row
         /\ \A g \in DOMAIN handoffs \ {h} : handoffs'[g] = handoffs[g]
  <1>1. handoffs \in Seq(Handoff) /\ h \in 1..Len(handoffs)
    BY Rows DEF TypeOK
  <1> DEFINE t == [handoffs EXCEPT ![h] = row]
  <1>2. /\ t \in Seq(Handoff) /\ Len(t) = Len(handoffs)
        /\ \A j \in 1..Len(handoffs) : t[j] = IF j = h THEN row ELSE handoffs[j]
    BY <1>1, ExceptSeq
  <1>3. DOMAIN handoffs = 1..Len(handoffs) /\ DOMAIN t = DOMAIN handoffs
    BY <1>1, LenProperties
  <1>4. handoffs' = t
    OBVIOUS
  <1> HIDE DEF t
  <1> QED
    BY <1>1, <1>2, <1>3, <1>4

\* A version is added.
LEMMA NextVersionIs ==
  ASSUME TypeOK, Len(docs) < MaxDocs, NEW c \in Contents, NEW t \in Tokens,
         NEW h \in 0..MaxHandoffs, NEW b \in BOOLEAN, NextVersion(c, t, h, b)
  PROVE  /\ docs' \in Seq(Document) /\ Len(docs') \in 1..MaxDocs
         /\ Len(docs') = Len(docs) + 1 /\ DOMAIN docs' = 1..(Len(docs) + 1)
         /\ DOMAIN docs = 1..Len(docs) /\ Len(docs) \in Nat
         /\ \A v \in DOMAIN docs : docs'[v] = docs[v]
         /\ docs'[Len(docs) + 1] = [content |-> c, token |-> t, origin |-> h, bytes |-> b]
  <1> DEFINE row == [content |-> c, token |-> t, origin |-> h, bytes |-> b]
  <1>1. row \in Document /\ docs \in Seq(Document)
    BY DEF Document, TypeOK
  <1>2. docs' = Append(docs, row)
    BY DEF NextVersion
  <1> HIDE DEF row
  <1>3. /\ docs' \in Seq(Document) /\ Len(docs') = Len(docs) + 1
        /\ \A v \in 1..Len(docs) : docs'[v] = docs[v]
        /\ docs'[Len(docs) + 1] = row
    BY <1>1, <1>2, AppendProperties
  <1>4. DOMAIN docs' = 1..Len(docs')
    BY <1>3, LenProperties
  <1> QED
    BY <1>3, <1>4, Rows DEF row

\* A handler goes on to its next step.
LEMMA StepIs ==
  ASSUME TypeOK, NEW p \in Processes, NEW pc, NEW c, Step(p, pc, c),
         pc \in {"idle", "anchored", "reading", "fetched", "stored", "copied", "promoted"},
         c \in Contents \cup {None}
  PROVE  /\ proc' \in [Processes -> Handler]
         /\ proc'[p].pc = pc /\ proc'[p].content = c /\ proc'[p].handoff = proc[p].handoff
         /\ proc'[p].request = proc[p].request
         /\ \A q \in Processes \ {p} : proc'[q] = proc[q]
  <1>1. proc \in [Processes -> Handler]
    BY DEF TypeOK
  <1> QED
    BY <1>1 DEF Step, Handler

\* A handler answers.
LEMMA EndIs ==
  ASSUME TypeOK, NEW p \in Processes, End(p)
  PROVE  /\ proc' \in [Processes -> Handler]
         /\ proc'[p] = Idle
         /\ \A q \in Processes \ {p} : proc'[q] = proc[q]
         /\ lock' = (IF lock = p THEN None ELSE lock)
         /\ lock' \in Processes \cup {None}
  <1>1. proc \in [Processes -> Handler] /\ lock \in Processes \cup {None}
    BY DEF TypeOK
  <1> QED
    BY <1>1, IdleType DEF End, Released

-----------------------------------------------------------------------------
(* Steps that leave the rows alone.                                        *)

\* A refusal, an error or a crash.
LEMMA EndKeeps ==
  ASSUME RefreshInv, NEW p \in Processes, End(p),
         damage' \in [files : 0..MaxCrashes, locks : BOOLEAN],
         damage'.locks = damage.locks,
         UNCHANGED <<source, profile, docs, removed, elsewhere, handoffs, store>>
  PROVE  RefreshInv'
  <1>1. /\ proc' \in [Processes -> Handler] /\ proc'[p] = Idle
        /\ \A q \in Processes \ {p} : proc'[q] = proc[q]
        /\ lock' = (IF lock = p THEN None ELSE lock)
        /\ lock' \in Processes \cup {None}
    BY EndIs DEF RefreshInv
  <1>2. TypeOK'
    BY <1>1 DEF RefreshInv, TypeOK
  <1>3. HolderInv'
    BY <1>1 DEF RefreshInv, HolderInv, TypeOK, Admitted, Current
  <1>4. HandlerInv'
    BY <1>1, IdleType DEF RefreshInv, HandlerInv
  <1>5. HandoffInv' /\ VersionInv'
    BY DEF RefreshInv, HandoffInv, VersionInv, SftpItem
  <1>6. UndamagedInv'
    BY <1>1, IdleType DEF RefreshInv, UndamagedInv
  <1> QED
    BY <1>2, <1>3, <1>4, <1>5, <1>6 DEF RefreshInv

LEMMA DisconnectKeeps ==
  ASSUME RefreshInv, NEW p \in Processes, Disconnect(p)
  PROVE  RefreshInv'
  <1>1. /\ lock' = None /\ damage' = [damage EXCEPT !.locks = TRUE]
        /\ UNCHANGED <<source, profile, docs, removed, elsewhere, handoffs, store, proc>>
    BY DEF Disconnect
  <1>2. damage' \in [files : 0..MaxCrashes, locks : BOOLEAN] /\ damage'.locks
    BY <1>1 DEF RefreshInv, TypeOK
  <1>3. TypeOK'
    BY <1>1, <1>2 DEF RefreshInv, TypeOK
  <1> QED
    BY <1>1, <1>2, <1>3
       DEF RefreshInv, HolderInv, HandlerInv, HandoffInv, VersionInv, UndamagedInv, SftpItem

\* The item, the profile and other documents change.
LEMMA AroundKeeps ==
  ASSUME RefreshInv, UNCHANGED <<docs, handoffs, store, lock, proc, damage>>,
         source' \in Seq(Contents), Len(source') \in 1..MaxToken,
         \A t \in DOMAIN source : t \in DOMAIN source' /\ source'[t] = source[t],
         profile' \in [provider : Providers, active : BOOLEAN],
         profile'.provider = profile.provider,
         removed' \subseteq DOMAIN docs, elsewhere' \subseteq Contents
  PROVE  RefreshInv'
  <1>1. TypeOK'
    BY DEF RefreshInv, TypeOK
  <1>2. HolderInv' /\ HandlerInv' /\ VersionInv' /\ UndamagedInv'
    BY DEF RefreshInv, HolderInv, HandlerInv, VersionInv, UndamagedInv, Admitted, Current
  <1>3. HandoffInv'
    BY DEF RefreshInv, HandoffInv, SftpItem
  <1> QED
    BY <1>1, <1>2, <1>3 DEF RefreshInv

-----------------------------------------------------------------------------
(* Steps on one handoff.                                                   *)

LEMMA SetRow ==
  ASSUME NEW h \in DOMAIN handoffs, NEW v
  PROVE  /\ Set(h, "decision", v) =>
              handoffs' = [handoffs EXCEPT ![h] = [handoffs[h] EXCEPT !.decision = v]]
         /\ Set(h, "anchor", v) =>
              handoffs' = [handoffs EXCEPT ![h] = [handoffs[h] EXCEPT !.anchor = v]]
         /\ Set(h, "fetched", v) =>
              handoffs' = [handoffs EXCEPT ![h] = [handoffs[h] EXCEPT !.fetched = v]]
         /\ Set(h, "staged", v) =>
              handoffs' = [handoffs EXCEPT ![h] = [handoffs[h] EXCEPT !.staged = v]]
         /\ Set(h, "granted", v) =>
              handoffs' = [handoffs EXCEPT ![h] = [handoffs[h] EXCEPT !.granted = v]]
  BY DEF Set

LEMMA DecideKeeps ==
  ASSUME RefreshInv, NEW h \in DOMAIN handoffs, NEW d \in {"dismissed", "approved"},
         Decide(h, d)
  PROVE  RefreshInv'
  <1> DEFINE row == [handoffs[h] EXCEPT !.decision = d]
  <1>1. TypeOK /\ handoffs[h] \in Handoff /\ DOMAIN handoffs = 1..Len(handoffs)
    BY Rows DEF RefreshInv
  <1>2. /\ row \in Handoff
        /\ row.version = handoffs[h].version /\ row.token = handoffs[h].token
        /\ row.decision = d /\ row.anchor = handoffs[h].anchor
        /\ row.fetched = handoffs[h].fetched /\ row.staged = handoffs[h].staged
        /\ row.granted = handoffs[h].granted
    BY <1>1 DEF Handoff
  <1>3. /\ handoffs' = [handoffs EXCEPT ![h] = row] /\ handoffs[h].decision = "open"
        /\ lock = None
        /\ UNCHANGED <<source, profile, docs, removed, elsewhere, store, lock, proc, damage>>
    BY SetRow DEF Decide, Free
  <1> HIDE DEF row
  <1>4. /\ handoffs' \in Seq(Handoff) /\ Len(handoffs') = Len(handoffs)
        /\ DOMAIN handoffs' = DOMAIN handoffs /\ handoffs'[h] = row
        /\ \A g \in DOMAIN handoffs \ {h} : handoffs'[g] = handoffs[g]
    BY <1>1, <1>2, <1>3, SetIs
  <1>5. TypeOK'
    BY <1>1, <1>3, <1>4 DEF TypeOK
  <1>6. HolderInv' /\ UndamagedInv'
    BY <1>3 DEF RefreshInv, HolderInv, UndamagedInv
  <1>7. HandlerInv'
    BY <1>2, <1>3, <1>4 DEF RefreshInv, HandlerInv
  <1>8. HandoffInv'
    BY <1>2, <1>3, <1>4 DEF RefreshInv, HandoffInv, SftpItem
  <1>9. VersionInv'
    BY <1>2, <1>3, <1>4 DEF RefreshInv, VersionInv
  <1> QED
    BY <1>5, <1>6, <1>7, <1>8, <1>9 DEF RefreshInv

LEMMA GrantKeeps ==
  ASSUME RefreshInv, NEW h \in DOMAIN handoffs, Grant(h)
  PROVE  RefreshInv'
  <1> DEFINE row == [handoffs[h] EXCEPT !.granted = TRUE]
  <1>1. TypeOK /\ handoffs[h] \in Handoff
    BY Rows DEF RefreshInv
  <1>2. /\ row \in Handoff
        /\ row.version = handoffs[h].version /\ row.token = handoffs[h].token
        /\ row.decision = handoffs[h].decision /\ row.anchor = handoffs[h].anchor
        /\ row.fetched = handoffs[h].fetched /\ row.staged = handoffs[h].staged
        /\ row.granted
    BY <1>1 DEF Handoff
  <1>3. /\ handoffs' = [handoffs EXCEPT ![h] = row] /\ handoffs[h].staged # None
        /\ lock = None
        /\ UNCHANGED <<source, profile, docs, removed, elsewhere, store, lock, proc, damage>>
    BY SetRow DEF Grant, Free
  <1> HIDE DEF row
  <1>4. /\ handoffs' \in Seq(Handoff) /\ Len(handoffs') = Len(handoffs)
        /\ DOMAIN handoffs' = DOMAIN handoffs /\ handoffs'[h] = row
        /\ \A g \in DOMAIN handoffs \ {h} : handoffs'[g] = handoffs[g]
    BY <1>1, <1>2, <1>3, SetIs
  <1>5. TypeOK'
    BY <1>1, <1>3, <1>4 DEF TypeOK
  <1>6. HolderInv' /\ UndamagedInv'
    BY <1>3 DEF RefreshInv, HolderInv, UndamagedInv
  <1>7. HandlerInv'
    BY <1>2, <1>3, <1>4 DEF RefreshInv, HandlerInv
  <1>8. HandoffInv'
    BY <1>2, <1>3, <1>4 DEF RefreshInv, HandoffInv, SftpItem
  <1>9. VersionInv'
    BY <1>2, <1>3, <1>4 DEF RefreshInv, VersionInv
  <1> QED
    BY <1>5, <1>6, <1>7, <1>8, <1>9 DEF RefreshInv

LEMMA AnchorKeeps ==
  ASSUME RefreshInv, NEW p \in Processes, NEW h \in DOMAIN handoffs, NEW r \in Requests,
         Anchor(p, h, r)
  PROVE  RefreshInv'
  <1> DEFINE row == [handoffs[h] EXCEPT !.anchor = r]
             job == [pc |-> "anchored", handoff |-> h, request |-> r, content |-> None]
  <1>1. TypeOK /\ handoffs[h] \in Handoff /\ h \in 0..MaxHandoffs /\ r # None
        /\ proc \in [Processes -> Handler]
    BY Rows, RefreshAssumption DEF RefreshInv, TypeOK
  <1>2. /\ row \in Handoff
        /\ row.version = handoffs[h].version /\ row.token = handoffs[h].token
        /\ row.decision = handoffs[h].decision /\ row.anchor = r
        /\ row.fetched = handoffs[h].fetched /\ row.staged = handoffs[h].staged
        /\ row.granted = handoffs[h].granted
    BY <1>1 DEF Handoff
  <1>3. /\ handoffs' = [handoffs EXCEPT ![h] = row] /\ handoffs[h].decision = "approved"
        /\ lock = None
        /\ (handoffs[h].anchor = None => store[h] = None)
        /\ proc' = [proc EXCEPT ![p] = job]
        /\ UNCHANGED <<source, profile, docs, removed, elsewhere, store, lock, damage>>
    BY <1>1, SetRow DEF Anchor, Free
  <1>4. job \in Handler /\ job.pc = "anchored" /\ job.handoff = h
    BY <1>1 DEF Handler
  <1> HIDE DEF row, job
  <1>5. /\ handoffs' \in Seq(Handoff) /\ Len(handoffs') = Len(handoffs)
        /\ DOMAIN handoffs' = DOMAIN handoffs /\ handoffs'[h] = row
        /\ \A g \in DOMAIN handoffs \ {h} : handoffs'[g] = handoffs[g]
    BY <1>1, <1>2, <1>3, SetIs
  <1>6. /\ proc' \in [Processes -> Handler] /\ proc'[p] = job
        /\ \A q \in Processes \ {p} : proc'[q] = proc[q]
    BY <1>1, <1>3, <1>4
  <1>7. TypeOK'
    BY <1>1, <1>3, <1>5, <1>6 DEF TypeOK
  <1>8. HolderInv'
    BY <1>3 DEF RefreshInv, HolderInv
  <1>9. UndamagedInv'
    BY <1>3, <1>4, <1>6 DEF RefreshInv, UndamagedInv
  <1>10. HandlerInv'
    BY <1>1, <1>2, <1>3, <1>4, <1>5, <1>6 DEF RefreshInv, HandlerInv
  <1>11. HandoffInv'
    BY <1>1, <1>2, <1>3, <1>5 DEF RefreshInv, HandoffInv, SftpItem
  <1>12. VersionInv'
    BY <1>2, <1>3, <1>5 DEF RefreshInv, VersionInv
  <1> QED
    BY <1>7, <1>8, <1>9, <1>10, <1>11, <1>12 DEF RefreshInv

LEMMA HandOverKeeps ==
  ASSUME RefreshInv, HandOver
  PROVE  RefreshInv'
  <1> DEFINE n == Len(handoffs) + 1
             row == [version |-> Current, token |-> Len(source), decision |-> "open",
                     anchor |-> None, fetched |-> {}, staged |-> None, granted |-> FALSE]
  <1>1. /\ lock = None /\ Len(handoffs) < MaxHandoffs
        /\ handoffs' = Append(handoffs, row)
        /\ UNCHANGED <<source, profile, docs, removed, elsewhere, store, lock, proc, damage>>
    BY DEF HandOver, Free
  <1>2. /\ handoffs \in Seq(Handoff) /\ Len(docs) \in 1..MaxDocs /\ Len(source) \in 1..MaxToken
        /\ Len(handoffs) \in Nat /\ DOMAIN handoffs = 1..Len(handoffs) /\ MaxHandoffs \in Nat
        /\ Len(source) \in DOMAIN source
    BY Rows DEF RefreshInv, TypeOK
  <1>3. row \in Handoff
    BY <1>2 DEF Handoff, Current
  <1>4. /\ row.token = Len(source) /\ row.anchor = None /\ row.staged = None
        /\ row.granted = FALSE /\ row.fetched = {}
    OBVIOUS
  <1> HIDE DEF row
  <1>5. /\ handoffs' \in Seq(Handoff) /\ Len(handoffs') = n
        /\ \A g \in DOMAIN handoffs : handoffs'[g] = handoffs[g]
        /\ handoffs'[n] = row
    BY <1>1, <1>2, <1>3, AppendProperties
  <1>6. DOMAIN handoffs' = 1..n /\ n \in Nat /\ n <= MaxHandoffs
    BY <1>1, <1>2, <1>5, LenProperties
  <1>7. \A g \in DOMAIN handoffs' : g \in DOMAIN handoffs \/ g = n
    BY <1>2, <1>6
  <1>8. DOMAIN handoffs \subseteq DOMAIN handoffs'
    BY <1>2, <1>6
  <1> HIDE DEF n
  <1>9. TypeOK'
    BY <1>1, <1>5, <1>6 DEF RefreshInv, TypeOK
  <1>10. HolderInv' /\ UndamagedInv'
    BY <1>1 DEF RefreshInv, HolderInv, UndamagedInv
  <1>11. HandlerInv'
    BY <1>1, <1>5, <1>8 DEF RefreshInv, HandlerInv
  <1>12. HandoffInv'
    <2> SUFFICES ASSUME NEW g \in DOMAIN handoffs'
                 PROVE  /\ handoffs'[g].token \in DOMAIN source
                        /\ (handoffs'[g].granted => handoffs'[g].staged # None)
                        /\ (handoffs'[g].staged # None =>
                             /\ handoffs'[g].decision = "approved"
                             /\ store[g] = handoffs'[g].staged
                             /\ handoffs'[g].staged \in handoffs'[g].fetched)
                        /\ (handoffs'[g].anchor # None /\ store[g] # None
                              => store[g] \in handoffs'[g].fetched)
                        /\ (~SftpItem => \A c \in handoffs'[g].fetched :
                                              c = source[handoffs'[g].token])
      BY <1>1 DEF HandoffInv, SftpItem
    <2>1. CASE g \in DOMAIN handoffs
      BY <2>1, <1>5 DEF RefreshInv, HandoffInv
    <2>2. CASE g = n
      BY <2>2, <1>2, <1>4, <1>5
    <2> QED
      BY <2>1, <2>2, <1>7
  <1>13. VersionInv'
    BY <1>1, <1>5, <1>8 DEF RefreshInv, VersionInv
  <1> QED
    BY <1>9, <1>10, <1>11, <1>12, <1>13 DEF RefreshInv

-----------------------------------------------------------------------------
(* Steps of a handler.                                                     *)

LEMMA LockKeeps ==
  ASSUME RefreshInv, NEW p \in Processes, Lock(p)
  PROVE  RefreshInv'
  <1> DEFINE h == proc[p].handoff
  <1>1. /\ proc[p].pc = "anchored" /\ lock = None
        /\ \/ /\ GoesOn(h) /\ lock' = p
              /\ \/ store[h] = None /\ Step(p, "reading", None)
                 \/ store[h] # None /\ Step(p, "stored", store[h])
              /\ UNCHANGED <<source, profile, docs, removed, elsewhere, handoffs, store, damage>>
           \/ Refuse(p)
    BY DEF Lock, Free, Recovered
  <1>2. CASE Refuse(p)
    <2>1. damage' = damage /\ damage \in [files : 0..MaxCrashes, locks : BOOLEAN]
      BY <1>2 DEF Refuse, RefreshInv, TypeOK
    <2> QED
      BY <1>2, <2>1, EndKeeps DEF Refuse
  <1>3. CASE /\ GoesOn(h) /\ lock' = p
             /\ \/ store[h] = None /\ Step(p, "reading", None)
                \/ store[h] # None /\ Step(p, "stored", store[h])
             /\ UNCHANGED <<source, profile, docs, removed, elsewhere, handoffs, store, damage>>
    <2>1. /\ h \in DOMAIN handoffs /\ handoffs[h].anchor # None /\ TypeOK
          /\ handoffs[h].decision = "approved"
          /\ (store[h] # None => store[h] \in handoffs[h].fetched)
      BY <1>1 DEF RefreshInv, HandlerInv, HandoffInv
    <2>2. store[h] \in Contents \cup {None}
      BY <2>1, Rows DEF TypeOK
    <2>3. handoffs[h].version = Current /\ handoffs[h].staged = None
      BY <1>3 DEF GoesOn, AuthorityHolds
    <2>4. /\ proc' \in [Processes -> Handler] /\ proc'[p].handoff = h
          /\ \A q \in Processes \ {p} : proc'[q] = proc[q]
          /\ \/ proc'[p].pc = "reading" /\ proc'[p].content = None /\ store[h] = None
             \/ proc'[p].pc = "stored" /\ proc'[p].content = store[h] /\ store[h] # None
      BY <1>3, <2>1, <2>2, StepIs
    <2> HIDE DEF h
    <2>5. TypeOK'
      BY <1>3, <2>1, <2>4 DEF TypeOK
    <2>6. HolderInv'
      BY <1>3, <2>3, <2>4 DEF HolderInv, Current
    <2>7. HandlerInv'
      BY <1>3, <2>1, <2>4 DEF RefreshInv, HandlerInv
    <2>8. HandoffInv' /\ VersionInv'
      BY <1>3 DEF RefreshInv, HandoffInv, VersionInv, SftpItem
    <2>9. UndamagedInv'
      <3>1. ~damage.locks => \A q \in Processes \ {p} :
              proc[q].pc \notin {"reading", "fetched", "stored", "copied", "promoted"}
        BY <1>1, RefreshAssumption DEF RefreshInv, UndamagedInv
      <3> QED
        BY <1>3, <2>4, <3>1 DEF UndamagedInv
    <2> QED
      BY <2>5, <2>6, <2>7, <2>8, <2>9 DEF RefreshInv
  <1> HIDE DEF h
  <1> QED
    BY <1>1, <1>2, <1>3

LEMMA FetchKeeps ==
  ASSUME RefreshInv, NEW p \in Processes, Fetch(p)
  PROVE  RefreshInv'
  <1> DEFINE h == proc[p].handoff
             c == Last(source)
             row == [handoffs[h] EXCEPT !.fetched = handoffs[h].fetched \cup {c}]
  <1>1. /\ proc[p].pc = "reading"
        /\ \/ /\ Accepts(h) /\ Step(p, "fetched", c)
              /\ Set(h, "fetched", handoffs[h].fetched \cup {c})
              /\ UNCHANGED <<source, profile, docs, removed, elsewhere, store, lock, damage>>
           \/ Refuse(p)
    BY DEF Fetch
  <1>2. CASE Refuse(p)
    <2>1. damage' = damage /\ damage \in [files : 0..MaxCrashes, locks : BOOLEAN]
      BY <1>2 DEF Refuse, RefreshInv, TypeOK
    <2> QED
      BY <1>2, <2>1, EndKeeps DEF Refuse
  <1>3. CASE /\ Accepts(h) /\ Step(p, "fetched", c)
             /\ Set(h, "fetched", handoffs[h].fetched \cup {c})
             /\ UNCHANGED <<source, profile, docs, removed, elsewhere, store, lock, damage>>
    <2>1. /\ h \in DOMAIN handoffs /\ handoffs[h].anchor # None /\ TypeOK
          /\ handoffs[h] \in Handoff
      BY <1>1, Rows DEF RefreshInv, HandlerInv
    <2>2. c \in Contents /\ (~SftpItem => c = source[handoffs[h].token])
      BY <1>3, <2>1, Rows DEF Accepts, Last
    <2> HIDE DEF c
    <2>3. /\ row \in Handoff
          /\ row.version = handoffs[h].version /\ row.token = handoffs[h].token
          /\ row.decision = handoffs[h].decision /\ row.anchor = handoffs[h].anchor
          /\ row.fetched = handoffs[h].fetched \cup {c} /\ row.staged = handoffs[h].staged
          /\ row.granted = handoffs[h].granted
      BY <2>1, <2>2 DEF Handoff
    <2>4. handoffs' = [handoffs EXCEPT ![h] = row]
      BY <1>3, <2>1, SetRow
    <2> HIDE DEF row
    <2>5. /\ handoffs' \in Seq(Handoff) /\ Len(handoffs') = Len(handoffs)
          /\ DOMAIN handoffs' = DOMAIN handoffs /\ handoffs'[h] = row
          /\ \A g \in DOMAIN handoffs \ {h} : handoffs'[g] = handoffs[g]
      BY <2>1, <2>3, <2>4, SetIs
    <2>6. /\ proc' \in [Processes -> Handler] /\ proc'[p].handoff = h
          /\ \A q \in Processes \ {p} : proc'[q] = proc[q]
          /\ proc'[p].pc = "fetched" /\ proc'[p].content = c
      BY <1>3, <2>1, <2>2, StepIs
    <2> HIDE DEF h
    <2>7. TypeOK'
      BY <1>3, <2>1, <2>5, <2>6 DEF TypeOK
    <2>8. HolderInv'
      <3>0. lock = p => h = proc[lock].handoff
        BY DEF h
      <3>1. SUFFICES ASSUME lock # None  PROVE HolderInv'
        BY <1>3 DEF HolderInv
      <3>2. lock \in Processes
        BY <3>1, <2>1 DEF TypeOK
      <3>3. CASE lock = p
        BY <1>1, <1>3, <2>3, <2>5, <2>6, <3>0, <3>1, <3>3
           DEF RefreshInv, HolderInv, Current
      <3>4. CASE lock # p
        <4>1. proc'[lock] = proc[lock]
          BY <2>6, <3>2, <3>4
        <4>2. \A g \in DOMAIN handoffs : /\ handoffs'[g].version = handoffs[g].version
                                         /\ handoffs'[g].staged = handoffs[g].staged
                                         /\ handoffs'[g].granted = handoffs[g].granted
          BY <2>3, <2>5
        <4>3. proc[lock].handoff \in DOMAIN handoffs
          BY <3>1, <3>2 DEF RefreshInv, HolderInv, HandlerInv
        <4> QED
          BY <1>3, <3>1, <4>1, <4>2, <4>3 DEF RefreshInv, HolderInv, Current, Admitted
      <3> QED
        BY <3>3, <3>4
    <2>9. HandlerInv'
      BY <1>3, <2>1, <2>3, <2>5, <2>6, <1>1 DEF RefreshInv, HandlerInv, h
    <2>10. HandoffInv'
      BY <1>3, <2>2, <2>3, <2>5 DEF RefreshInv, HandoffInv, SftpItem
    <2>11. VersionInv'
      BY <1>3, <2>3, <2>5 DEF RefreshInv, VersionInv
    <2>12. UndamagedInv'
      BY <1>1, <1>3, <2>6 DEF RefreshInv, UndamagedInv
    <2> QED
      BY <2>7, <2>8, <2>9, <2>10, <2>11, <2>12 DEF RefreshInv
  <1> HIDE DEF h, c
  <1> QED
    BY <1>1, <1>2, <1>3

LEMMA RefuseKeeps ==
  ASSUME RefreshInv, NEW p \in Processes, Refuse(p)
  PROVE  RefreshInv'
  <1>1. damage' = damage /\ damage \in [files : 0..MaxCrashes, locks : BOOLEAN]
    BY DEF Refuse, RefreshInv, TypeOK
  <1> QED
    BY <1>1, EndKeeps DEF Refuse

\* The bytes were stored, or another attempt's were found in their place.
LEMMA PutKeeps ==
  ASSUME RefreshInv, NEW p \in Processes, Put(p)
  PROVE  RefreshInv'
  <1> DEFINE h == proc[p].handoff
             c == proc[p].content
             kept == IF store[h] = None THEN c ELSE store[h]
  <1>1. /\ proc[p].pc = "fetched" /\ store' = [store EXCEPT ![h] = kept]
        /\ \/ kept = c /\ Step(p, "stored", c) /\ lock' = lock
           \/ kept # c /\ End(p)
        /\ UNCHANGED <<source, profile, docs, removed, elsewhere, handoffs, damage>>
    BY DEF Put, Verified
  <1>2. /\ h \in DOMAIN handoffs /\ c \in handoffs[h].fetched /\ handoffs[h].anchor # None
        /\ handoffs[h].decision = "approved"
        /\ h \in Handoffs /\ handoffs[h] \in Handoff /\ TypeOK /\ DOMAIN handoffs \subseteq Handoffs
    BY <1>1, Rows DEF RefreshInv, HandlerInv
  <1>3. c \in Contents /\ c # None /\ store \in [Handoffs -> Contents \cup {None}]
    BY <1>2, RefreshAssumption DEF Handoff, TypeOK
  <1>4. /\ store' \in [Handoffs -> Contents \cup {None}]
        /\ (store[h] # None => store' = store)
        /\ (store[h] = None => store'[h] = c)
        /\ \A g \in Handoffs \ {h} : store'[g] = store[g]
    BY <1>1, <1>2, <1>3
  <1>5. \/ /\ proc'[p].pc = "stored" /\ proc'[p].content = c /\ proc'[p].handoff = h
           /\ lock' = lock /\ store'[h] = c
        \/ proc'[p] = Idle /\ lock' = (IF lock = p THEN None ELSE lock)
    BY <1>1, <1>2, <1>3, <1>4, StepIs, EndIs
  <1>6. /\ proc' \in [Processes -> Handler] /\ lock' \in Processes \cup {None}
        /\ \A q \in Processes \ {p} : proc'[q] = proc[q]
    BY <1>1, <1>2, <1>3, StepIs, EndIs DEF TypeOK
  <1>0. proc[p].handoff = h /\ proc[p].content = c
    OBVIOUS
  <1> HIDE DEF kept, c, h
  <1>7. TypeOK'
    BY <1>1, <1>2, <1>4, <1>6 DEF TypeOK
  <1>8. HolderInv'
    <2>1. SUFFICES ASSUME lock' # None  PROVE HolderInv'
      BY DEF HolderInv
    <2>2. lock' = lock
      BY <1>5, <2>1
    <2>3. CASE lock = p
      BY <1>0, <1>1, <1>5, <2>1, <2>2, <2>3 DEF RefreshInv, HolderInv, Current
    <2>4. CASE lock # p
      BY <1>1, <1>6, <2>1, <2>2, <2>4 DEF RefreshInv, HolderInv, Current, Admitted
    <2> QED
      BY <2>3, <2>4
  <1>9. HandlerInv'
    <2>1. ASSUME NEW q \in Processes, q # p, proc[q].pc = "stored"
          PROVE  store'[proc[q].handoff] = proc[q].content
      <3>1. /\ proc[q].handoff \in Handoffs /\ store[proc[q].handoff] = proc[q].content
            /\ proc[q].content \in handoffs[proc[q].handoff].fetched
            /\ handoffs[proc[q].handoff] \in Handoff
        BY <2>1, <1>2, Rows DEF RefreshInv, HandlerInv
      <3>2. proc[q].content # None
        BY <3>1, RefreshAssumption DEF Handoff
      <3> QED
        BY <3>1, <3>2, <1>4
    <2> QED
      BY <1>0, <1>1, <1>2, <1>5, <1>6, <2>1, IdleType DEF RefreshInv, HandlerInv
  <1>10. HandoffInv'
    <2>1. \A g \in DOMAIN handoffs : store[g] # None => store'[g] = store[g]
      BY <1>2, <1>4
    <2>2. \A g \in DOMAIN handoffs :
            store'[g] # None => store'[g] = store[g] \/ (g = h /\ store'[g] = c)
      BY <1>2, <1>4
    <2>3. \A g \in DOMAIN handoffs : handoffs[g].staged # None => store'[g] = store[g]
      BY <2>1 DEF RefreshInv, HandoffInv
    <2> QED
      BY <1>1, <1>2, <2>1, <2>2, <2>3 DEF RefreshInv, HandoffInv, SftpItem
  <1>11. VersionInv'
    BY <1>1 DEF RefreshInv, VersionInv
  <1>12. UndamagedInv'
    <2>1. SUFFICES ASSUME ~damage.locks  PROVE UndamagedInv'
      BY <1>1 DEF UndamagedInv
    <2>2. lock = p
      BY <1>1, <2>1 DEF RefreshInv, UndamagedInv
    <2>3. \A q \in Processes \ {p} :
              proc[q].pc \notin {"reading", "fetched", "stored", "copied", "promoted"}
      BY <2>1, <2>2 DEF RefreshInv, UndamagedInv
    <2> QED
      BY <1>5, <1>6, <2>2, <2>3, IdleType DEF UndamagedInv
  <1> QED
    BY <1>7, <1>8, <1>9, <1>10, <1>11, <1>12 DEF RefreshInv

LEMMA CompleteKeeps ==
  ASSUME RefreshInv, NEW p \in Processes, Complete(p)
  PROVE  RefreshInv'
  <1> DEFINE h == proc[p].handoff
             c == proc[p].content
             row == [handoffs[h] EXCEPT !.staged = c]
  <1>1. proc[p].pc = "stored" /\ TypeOK
    BY DEF Complete, RefreshInv
  <1>2. CASE lock # p
    BY <1>2, RefuseKeeps DEF Complete
  <1>3. CASE lock = p
    <2>1. /\ Set(h, "staged", c) /\ End(p)
          /\ UNCHANGED <<source, profile, docs, removed, elsewhere, store, damage>>
      BY <1>3 DEF Complete
    <2>2. /\ h \in DOMAIN handoffs /\ c \in handoffs[h].fetched /\ store[h] = c
          /\ handoffs[h].decision = "approved" /\ handoffs[h] \in Handoff
          /\ handoffs[h].staged = None
      BY <1>1, <1>3, Rows, RefreshAssumption DEF RefreshInv, HandlerInv, HolderInv
    <2>3. c \in Contents
      BY <2>2 DEF Handoff
    <2>4. /\ row \in Handoff
          /\ row.version = handoffs[h].version /\ row.token = handoffs[h].token
          /\ row.decision = handoffs[h].decision /\ row.anchor = handoffs[h].anchor
          /\ row.fetched = handoffs[h].fetched /\ row.staged = c
          /\ row.granted = handoffs[h].granted
      BY <2>2, <2>3 DEF Handoff
    <2>5. handoffs' = [handoffs EXCEPT ![h] = row]
      BY <2>1, <2>2, SetRow
    <2>6. /\ proc' \in [Processes -> Handler] /\ proc'[p] = Idle /\ lock' = None
          /\ \A q \in Processes \ {p} : proc'[q] = proc[q]
      BY <1>1, <1>3, <2>1, EndIs
    <2>0. proc[p].handoff = h
      OBVIOUS
    <2> HIDE DEF row, h, c
    <2>7. /\ handoffs' \in Seq(Handoff) /\ Len(handoffs') = Len(handoffs)
          /\ DOMAIN handoffs' = DOMAIN handoffs /\ handoffs'[h] = row
          /\ \A g \in DOMAIN handoffs \ {h} : handoffs'[g] = handoffs[g]
      BY <1>1, <2>2, <2>4, <2>5, SetIs
    <2>8. TypeOK'
      BY <1>1, <2>1, <2>6, <2>7 DEF TypeOK
    <2>9. HolderInv'
      BY <2>6 DEF HolderInv
    <2>10. HandlerInv'
      <3>1. \A q \in Processes : proc[q].pc \in {"copied", "promoted"} => proc[q].handoff # h
        BY <2>2 DEF RefreshInv, HandlerInv
      <3> QED
        BY <2>1, <2>4, <2>6, <2>7, <3>1, IdleType DEF RefreshInv, HandlerInv
    <2>11. HandoffInv'
      BY <2>1, <2>2, <2>3, <2>4, <2>7 DEF RefreshInv, HandoffInv, SftpItem
    <2>12. VersionInv'
      <3>1. \A v \in DOMAIN docs : docs[v].origin # 0 => docs[v].origin # h
        <4>1. \A v \in DOMAIN docs : docs[v].content # None
          BY <1>1, Rows, RefreshAssumption DEF Document
        <4> QED
          BY <2>2, <4>1 DEF RefreshInv, VersionInv
      <3> QED
        BY <2>1, <2>4, <2>7, <3>1 DEF RefreshInv, VersionInv
    <2>13. UndamagedInv'
      BY <1>3, <2>1, <2>6, IdleType DEF RefreshInv, UndamagedInv
    <2> QED
      BY <2>8, <2>9, <2>10, <2>11, <2>12, <2>13 DEF RefreshInv
  <1> QED
    BY <1>2, <1>3

LEMMA CopyKeeps ==
  ASSUME RefreshInv, NEW p \in Processes, NEW h \in DOMAIN handoffs, Copy(p, h)
  PROVE  RefreshInv'
  <1> DEFINE job == [pc |-> "copied", handoff |-> h, request |-> None,
                     content |-> handoffs[h].staged]
  <1>1. /\ lock = None /\ handoffs[h].granted /\ ~Admitted(h) /\ Current < MaxDocs
        /\ handoffs[h].version = Current
        /\ lock' = p /\ proc' = [proc EXCEPT ![p] = job]
        /\ UNCHANGED <<source, profile, docs, removed, elsewhere, handoffs, store, damage>>
    BY DEF Copy, Free, AuthorityHolds
  <1>2. /\ TypeOK /\ handoffs[h] \in Handoff /\ h \in 0..MaxHandoffs
        /\ handoffs[h].staged # None /\ handoffs[h].decision = "approved"
    BY <1>1, Rows DEF RefreshInv, HandoffInv
  <1>3. /\ job \in Handler /\ job.pc = "copied" /\ job.handoff = h
        /\ job.content = handoffs[h].staged
    BY <1>2 DEF Handler, Handoff
  <1> HIDE DEF job
  <1>4. /\ proc' \in [Processes -> Handler] /\ proc'[p] = job
        /\ \A q \in Processes \ {p} : proc'[q] = proc[q]
    BY <1>1, <1>2, <1>3 DEF TypeOK
  <1>5. TypeOK'
    BY <1>1, <1>2, <1>4 DEF TypeOK
  <1>6. HolderInv'
    BY <1>1, <1>3, <1>4 DEF HolderInv, Current, Admitted
  <1>7. HandlerInv'
    BY <1>1, <1>2, <1>3, <1>4 DEF RefreshInv, HandlerInv
  <1>8. HandoffInv' /\ VersionInv'
    BY <1>1 DEF RefreshInv, HandoffInv, VersionInv, SftpItem
  <1>9. UndamagedInv'
    <2>1. ~damage.locks => \A q \in Processes :
              proc[q].pc \notin {"reading", "fetched", "stored", "copied", "promoted"}
      BY <1>1, RefreshAssumption DEF RefreshInv, UndamagedInv
    <2> QED
      BY <1>1, <1>3, <1>4, <2>1 DEF UndamagedInv
  <1> QED
    BY <1>5, <1>6, <1>7, <1>8, <1>9 DEF RefreshInv

LEMMA PromoteKeeps ==
  ASSUME RefreshInv, NEW p \in Processes, Promote(p)
  PROVE  RefreshInv'
  <1>1. /\ proc[p].pc = "copied" /\ Step(p, "promoted", proc[p].content)
        /\ UNCHANGED <<source, profile, docs, removed, elsewhere, handoffs, store, lock, damage>>
    BY DEF Promote
  <1>2. TypeOK /\ proc[p].content \in Contents \cup {None}
    BY DEF RefreshInv, TypeOK, Handler
  <1>3. /\ proc' \in [Processes -> Handler] /\ proc'[p].handoff = proc[p].handoff
        /\ proc'[p].pc = "promoted" /\ proc'[p].content = proc[p].content
        /\ \A q \in Processes \ {p} : proc'[q] = proc[q]
    BY <1>1, <1>2, StepIs
  <1>4. TypeOK'
    BY <1>1, <1>2, <1>3 DEF TypeOK
  <1>5. HolderInv'
    <2>1. SUFFICES ASSUME lock # None  PROVE HolderInv'
      BY <1>1 DEF HolderInv
    <2>2. lock \in Processes
      BY <1>2, <2>1 DEF TypeOK
    <2>3. CASE lock = p
      BY <1>1, <1>3, <2>1, <2>3 DEF RefreshInv, HolderInv, Current, Admitted
    <2>4. CASE lock # p
      BY <1>1, <1>3, <2>1, <2>2, <2>4 DEF RefreshInv, HolderInv, Current, Admitted
    <2> QED
      BY <2>3, <2>4
  <1>6. HandlerInv'
    BY <1>1, <1>3 DEF RefreshInv, HandlerInv
  <1>7. HandoffInv' /\ VersionInv'
    BY <1>1 DEF RefreshInv, HandoffInv, VersionInv, SftpItem
  <1>8. UndamagedInv'
    BY <1>1, <1>3 DEF RefreshInv, UndamagedInv
  <1> QED
    BY <1>4, <1>5, <1>6, <1>7, <1>8 DEF RefreshInv

-----------------------------------------------------------------------------
(* Steps that add a version.                                               *)

LEMMA VersionAdded ==
  ASSUME RefreshInv, Len(docs) < MaxDocs, NEW c \in Contents, NEW t \in Tokens,
         NEW h \in 0..MaxHandoffs, NEW b \in BOOLEAN, NextVersion(c, t, h, b),
         UNCHANGED <<source, profile, removed, elsewhere, handoffs, store, damage>>,
         h # 0 => /\ h \in DOMAIN handoffs /\ handoffs[h].decision = "approved"
                  /\ handoffs[h].version = Current /\ handoffs[h].staged = c
                  /\ ~Admitted(h),
         lock' = None, proc' \in [Processes -> Handler],
         \A q \in Processes : proc'[q] = Idle \/ (proc'[q] = proc[q] /\ lock # q)
  PROVE  RefreshInv'
  <1>1. TypeOK
    BY DEF RefreshInv
  <1>2. /\ docs' \in Seq(Document) /\ Len(docs') \in 1..MaxDocs
        /\ DOMAIN docs' = 1..(Len(docs) + 1)
        /\ DOMAIN docs = 1..Len(docs) /\ Len(docs) \in Nat
        /\ \A v \in DOMAIN docs : docs'[v] = docs[v]
        /\ docs'[Len(docs) + 1] = [content |-> c, token |-> t, origin |-> h, bytes |-> b]
    BY <1>1, NextVersionIs
  <1>3. \A v \in DOMAIN docs' : v \in DOMAIN docs \/ v = Len(docs) + 1
    BY <1>2
  <1>4. Len(docs) + 1 \notin DOMAIN docs /\ DOMAIN docs \subseteq DOMAIN docs'
        /\ (Len(docs) + 1) - 1 = Len(docs)
    BY <1>2
  <1>5. TypeOK'
    BY <1>1, <1>2, <1>4 DEF TypeOK
  <1>6. HolderInv'
    BY DEF HolderInv
  <1>7. HandlerInv'
    BY IdleType DEF RefreshInv, HandlerInv
  <1>8. HandoffInv'
    BY DEF RefreshInv, HandoffInv, SftpItem
  <1>9. VersionInv'
    <2> DEFINE n == Len(docs) + 1
    <2>0. /\ n \notin DOMAIN docs /\ n - 1 = Current
          /\ docs'[n].content = c /\ docs'[n].origin = h
          /\ \A v \in DOMAIN docs' : v \in DOMAIN docs \/ v = n
      BY <1>2, <1>3, <1>4 DEF Current
    <2> HIDE DEF n
    <2>1. \A v \in DOMAIN docs : h # 0 => docs[v].origin # h
      BY DEF Admitted
    <2>2. ASSUME NEW v \in DOMAIN docs', docs'[v].origin # 0
          PROVE  LET g == docs'[v].origin IN
                 /\ g \in DOMAIN handoffs
                 /\ handoffs[g].decision = "approved"
                 /\ handoffs[g].version = v - 1
                 /\ handoffs[g].staged = docs'[v].content
                 /\ \A w \in DOMAIN docs' \ {v} : docs'[w].origin # g
      <3>1. CASE v = n
        BY <1>2, <2>0, <2>1, <2>2, <3>1
      <3>2. CASE v \in DOMAIN docs
        <4>1. docs'[v] = docs[v]
          BY <1>2, <3>2
        <4>2. docs'[n].origin # docs[v].origin
          BY <2>0, <2>1, <2>2, <3>2, <4>1
        <4>3. \A w \in DOMAIN docs \ {v} : docs'[w].origin # docs[v].origin
          BY <1>2, <2>2, <3>2, <4>1 DEF RefreshInv, VersionInv
        <4>4. \A w \in DOMAIN docs' \ {v} : docs'[w].origin # docs[v].origin
          BY <2>0, <4>2, <4>3
        <4>5. /\ docs[v].origin \in DOMAIN handoffs
              /\ handoffs[docs[v].origin].decision = "approved"
              /\ handoffs[docs[v].origin].version = v - 1
              /\ handoffs[docs[v].origin].staged = docs[v].content
          BY <2>2, <3>2, <4>1 DEF RefreshInv, VersionInv
        <4> QED
          BY <4>1, <4>4, <4>5
      <3> QED
        BY <2>0, <3>1, <3>2
    <2> QED
      BY <2>2 DEF VersionInv
  <1>10. UndamagedInv'
    BY IdleType DEF RefreshInv, UndamagedInv
  <1> QED
    BY <1>5, <1>6, <1>7, <1>8, <1>9, <1>10 DEF RefreshInv

\* The admission of what was staged.
LEMMA AdmissionKeeps ==
  ASSUME RefreshInv, NEW p \in Processes, NEW b \in BOOLEAN, proc[p].pc = "promoted", lock = p,
         NextVersion(proc[p].content, 0, proc[p].handoff, b), End(p),
         UNCHANGED <<source, profile, removed, elsewhere, handoffs, store, damage>>
  PROVE  RefreshInv'
  <1> DEFINE h == proc[p].handoff
             c == proc[p].content
  <1>1. TypeOK /\ p # None
    BY RefreshAssumption DEF RefreshInv
  <1>2. /\ h \in DOMAIN handoffs /\ handoffs[h].decision = "approved"
        /\ handoffs[h].version = Current /\ handoffs[h].staged = c
        /\ ~Admitted(h) /\ Len(docs) < MaxDocs /\ c # None
    BY <1>1 DEF RefreshInv, HandlerInv, HolderInv, Current
  <1>3. c \in Contents /\ h \in 0..MaxHandoffs /\ 0 \in Tokens
    BY <1>1, <1>2, Rows DEF Handoff, Tokens, Handoffs
  <1>4. /\ proc' \in [Processes -> Handler] /\ lock' = None
        /\ proc'[p] = Idle /\ \A q \in Processes \ {p} : proc'[q] = proc[q]
    BY <1>1, EndIs
  <1> HIDE DEF h, c
  <1>5. NextVersion(c, 0, h, b)
    BY DEF h, c
  <1> QED
    BY <1>2, <1>3, <1>4, <1>5, VersionAdded

\* A version that came of no refresh.
LEMMA OtherKeeps ==
  ASSUME RefreshInv, lock = None, Len(docs) < MaxDocs, NEW c \in Contents, NEW t \in Tokens,
         NextVersion(c, t, 0, TRUE),
         UNCHANGED <<source, profile, removed, elsewhere, handoffs, store, lock, proc, damage>>
  PROVE  RefreshInv'
  <1>1. /\ proc' \in [Processes -> Handler] /\ 0 \in 0..MaxHandoffs /\ TRUE \in BOOLEAN
        /\ \A q \in Processes : proc'[q] = proc[q] /\ lock # q
    BY Rows, RefreshAssumption DEF RefreshInv, TypeOK
  <1> QED
    BY <1>1, VersionAdded

LEMMA BaselineKeeps ==
  ASSUME RefreshInv, EstablishBaseline
  PROVE  RefreshInv'
  <1> DEFINE d == docs[Current]
             t == handoffs[d.origin].token
             row == [d EXCEPT !.token = t]
  <1>1. /\ lock = None /\ d.origin # 0
        /\ docs' = [docs EXCEPT ![Current].token = t]
        /\ UNCHANGED <<source, profile, removed, elsewhere, handoffs, store, lock, proc, damage>>
    BY DEF EstablishBaseline, Free
  <1>2. TypeOK /\ Current \in DOMAIN docs /\ d \in Document /\ docs \in Seq(Document)
    BY Rows DEF RefreshInv, Current, TypeOK
  <1>3. t \in Tokens
    BY <1>1, <1>2, Rows DEF RefreshInv, VersionInv, Handoff, Tokens
  <1>4. docs' = [docs EXCEPT ![Current] = row]
    BY <1>1
  <1>5. row \in Document /\ row.content = d.content /\ row.origin = d.origin
    BY <1>2, <1>3 DEF Document
  <1> HIDE DEF row, t
  <1> DEFINE s == [docs EXCEPT ![Current] = row]
  <1>6. /\ s \in Seq(Document) /\ Len(s) = Len(docs)
        /\ \A v \in 1..Len(docs) : s[v] = IF v = Current THEN row ELSE docs[v]
    BY <1>2, <1>5, ExceptSeq, Rows
  <1>7. DOMAIN docs = 1..Len(docs) /\ DOMAIN s = DOMAIN docs /\ docs' = s
    BY <1>2, <1>4, <1>6, LenProperties
  <1> HIDE DEF s
  <1>8. /\ docs' \in Seq(Document) /\ Len(docs') = Len(docs) /\ DOMAIN docs' = DOMAIN docs
        /\ \A v \in DOMAIN docs : /\ docs'[v].content = docs[v].content
                                  /\ docs'[v].origin = docs[v].origin
    BY <1>5, <1>6, <1>7
  <1>9. TypeOK'
    BY <1>1, <1>2, <1>8 DEF TypeOK
  <1>10. HolderInv' /\ HandlerInv' /\ HandoffInv' /\ UndamagedInv'
    BY <1>1 DEF RefreshInv, HolderInv, HandlerInv, HandoffInv, UndamagedInv, SftpItem
  <1>11. VersionInv'
    BY <1>1, <1>8 DEF RefreshInv, VersionInv
  <1> QED
    BY <1>9, <1>10, <1>11 DEF RefreshInv

-----------------------------------------------------------------------------
(* The invariant.                                                          *)

LEMMA InitHolds ==
  ASSUME Init
  PROVE  RefreshInv
  <1>1. /\ First \in Contents /\ None \notin Contents \cup Requests \cup Processes
        /\ MaxToken \in Nat /\ MaxDocs \in Nat /\ MaxToken > 0 /\ MaxDocs > 0
        /\ MaxHandoffs \in Nat /\ MaxCrashes \in Nat
    BY RefreshAssumption
  <1>2. /\ source = <<First>> /\ handoffs = <<>> /\ lock = None
        /\ docs = <<[content |-> First, token |-> 1, origin |-> 0, bytes |-> TRUE]>>
        /\ proc = [p \in Processes |-> Idle] /\ damage = [files |-> 0, locks |-> FALSE]
    BY DEF Init
  <1>3. [content |-> First, token |-> 1, origin |-> 0, bytes |-> TRUE] \in Document
    BY <1>1 DEF Document, Tokens
  <1>4. source \in Seq(Contents) /\ Len(source) = 1 /\ docs \in Seq(Document) /\ Len(docs) = 1
    BY <1>1, <1>2, <1>3
  <1>5. handoffs \in Seq(Handoff) /\ Len(handoffs) = 0 /\ DOMAIN handoffs = {}
    BY <1>2, EmptySeq
  <1>6. store \in [Handoffs -> Contents \cup {None}]
    BY <1>1 DEF Init
  <1>7. profile \in [provider : Providers, active : BOOLEAN]
    BY DEF Init
  <1>8. proc \in [Processes -> Handler]
    BY <1>2, IdleType
  <1>9. TypeOK
    BY <1>1, <1>2, <1>4, <1>5, <1>6, <1>7, <1>8 DEF TypeOK, Init
  <1>10. HolderInv /\ HandlerInv /\ HandoffInv /\ UndamagedInv
    BY <1>2, <1>5, IdleType DEF HolderInv, HandlerInv, HandoffInv, UndamagedInv
  <1>11. VersionInv
    <2>1. DOMAIN docs = {1} /\ docs[1].origin = 0
      BY <1>2, <1>4
    <2> QED
      BY <2>1 DEF VersionInv
  <1> QED
    BY <1>9, <1>10, <1>11 DEF RefreshInv

LEMMA NextKeeps ==
  ASSUME RefreshInv, [Next]_vars
  PROVE  RefreshInv'
  <1>1. CASE HandOver
    BY <1>1, HandOverKeeps
  <1>2. ASSUME NEW h \in DOMAIN handoffs, Grant(h)
        PROVE  RefreshInv'
    BY <1>2, GrantKeeps
  <1>3. ASSUME NEW h \in DOMAIN handoffs, NEW d \in {"dismissed", "approved"}, Decide(h, d)
        PROVE  RefreshInv'
    BY <1>3, DecideKeeps
  <1>4. ASSUME NEW p \in Processes, NEW h \in DOMAIN handoffs, Copy(p, h)
        PROVE  RefreshInv'
    BY <1>4, CopyKeeps
  <1>5. ASSUME NEW p \in Processes, NEW h \in DOMAIN handoffs, NEW r \in Requests,
               Anchor(p, h, r)
        PROVE  RefreshInv'
    BY <1>5, AnchorKeeps
  <1>6. ASSUME NEW p \in Processes, Handle(p) \/ LoseReply(p) \/ Crash(p) \/ Disconnect(p)
        PROVE  RefreshInv'
    <2>1. CASE Lock(p)
      BY <2>1, LockKeeps
    <2>2. CASE Fetch(p)
      BY <2>2, FetchKeeps
    <2>3. CASE Put(p)
      BY <2>3, PutKeeps
    <2>4. CASE Complete(p)
      BY <2>4, CompleteKeeps
    <2>5. CASE Promote(p)
      BY <2>5, PromoteKeeps
    <2>6. CASE Reject(p)
      BY <2>6, RefuseKeeps DEF Reject
    <2>7. CASE Admit(p)
      <3>1. CASE Refuse(p)
        BY <3>1, RefuseKeeps
      <3>2. CASE ~Refuse(p)
        <4>1. /\ proc[p].pc = "promoted" /\ lock = p /\ End(p)
              /\ NextVersion(proc[p].content, 0, proc[p].handoff, TRUE)
              /\ UNCHANGED <<source, profile, removed, elsewhere, handoffs, store, damage>>
          BY <2>7, <3>2 DEF Admit
        <4> QED
          BY <4>1, AdmissionKeeps
      <3> QED
        BY <3>1, <3>2
    <2>8. CASE LoseReply(p)
      <3>1. /\ proc[p].pc = "promoted" /\ lock = p /\ End(p)
            /\ NextVersion(proc[p].content, 0, proc[p].handoff, FALSE)
            /\ UNCHANGED <<source, profile, removed, elsewhere, handoffs, store, damage>>
        BY <2>8 DEF LoseReply
      <3>2. FALSE \in BOOLEAN
        OBVIOUS
      <3> QED
        BY <3>1, <3>2, AdmissionKeeps
    <2>9. CASE Crash(p)
      <3> DEFINE n == IF proc[p].pc \in {"copied", "promoted"} THEN 1 ELSE 0
      <3>1. /\ End(p) /\ damage.files + n <= MaxCrashes
            /\ damage' = [damage EXCEPT !.files = damage.files + n]
            /\ UNCHANGED <<source, profile, docs, removed, elsewhere, handoffs, store>>
        BY <2>9 DEF Crash
      <3>2. damage \in [files : 0..MaxCrashes, locks : BOOLEAN] /\ n \in Nat /\ MaxCrashes \in Nat
        BY RefreshAssumption DEF RefreshInv, TypeOK
      <3> HIDE DEF n
      <3>3. damage' \in [files : 0..MaxCrashes, locks : BOOLEAN] /\ damage'.locks = damage.locks
        BY <3>1, <3>2
      <3> QED
        BY <3>1, <3>3, EndKeeps
    <2>10. CASE Disconnect(p)
      BY <2>10, DisconnectKeeps
    <2> QED
      BY <1>6, <2>1, <2>2, <2>3, <2>4, <2>5, <2>6, <2>7, <2>8, <2>9, <2>10 DEF Handle
  <1>7. ASSUME NEW c \in Contents, ChangeItem(c) \/ Upload(c) \/ UploadElsewhere(c)
        PROVE  RefreshInv'
    <2>0. TypeOK /\ profile \in [provider : Providers, active : BOOLEAN]
      BY DEF RefreshInv, TypeOK
    <2>1. CASE ChangeItem(c)
      <3>1. /\ source' = Append(source, c) /\ Len(source) < MaxToken
            /\ UNCHANGED <<profile, docs, removed, elsewhere, handoffs, store, lock, proc, damage>>
        BY <2>1 DEF ChangeItem
      <3>2. source \in Seq(Contents) /\ Len(source) \in 1..MaxToken /\ MaxToken \in Nat
        BY <2>0, Rows DEF TypeOK
      <3>3. /\ source' \in Seq(Contents) /\ Len(source') = Len(source) + 1
            /\ \A t \in 1..Len(source) : source'[t] = source[t]
        BY <3>1, <3>2, AppendProperties
      <3>4. DOMAIN source = 1..Len(source) /\ DOMAIN source' = 1..Len(source')
        BY <3>2, <3>3, LenProperties
      <3>5. /\ Len(source') \in 1..MaxToken
            /\ \A t \in DOMAIN source : t \in DOMAIN source' /\ source'[t] = source[t]
        BY <3>1, <3>2, <3>3, <3>4
      <3>6. removed' \subseteq DOMAIN docs /\ elsewhere' \subseteq Contents
        BY <2>0, <3>1 DEF TypeOK
      <3> QED
        BY <2>0, <3>1, <3>3, <3>5, <3>6, AroundKeeps
    <2>2. CASE Upload(c)
      <3>1. 0 \in Tokens
        BY <2>0, Rows DEF Tokens
      <3> QED
        BY <2>2, <3>1, OtherKeeps DEF Upload, Free, Current
    <2>3. CASE UploadElsewhere(c)
      <3>1. /\ elsewhere' = elsewhere \cup {c}
            /\ UNCHANGED <<source, profile, docs, removed, handoffs, store, lock, proc, damage>>
        BY <2>3 DEF UploadElsewhere
      <3>2. /\ source' \in Seq(Contents) /\ Len(source') \in 1..MaxToken
            /\ removed' \subseteq DOMAIN docs /\ elsewhere' \subseteq Contents
        BY <2>0, <3>1 DEF TypeOK
      <3> QED
        BY <2>0, <3>1, <3>2, AroundKeeps
    <2> QED
      BY <1>7, <2>1, <2>2, <2>3
  <1>8. CASE DisableProfile
    <2>1. /\ profile' = [profile EXCEPT !.active = FALSE]
          /\ UNCHANGED <<source, docs, removed, elsewhere, handoffs, store, lock, proc, damage>>
      BY <1>8 DEF DisableProfile
    <2>2. /\ profile \in [provider : Providers, active : BOOLEAN]
          /\ source' \in Seq(Contents) /\ Len(source') \in 1..MaxToken
          /\ removed' \subseteq DOMAIN docs /\ elsewhere' \subseteq Contents
      BY <2>1 DEF RefreshInv, TypeOK
    <2>3. /\ profile' \in [provider : Providers, active : BOOLEAN]
          /\ profile'.provider = profile.provider
      BY <2>1, <2>2
    <2> QED
      BY <2>1, <2>2, <2>3, AroundKeeps
  <1>9. CASE EstablishBaseline
    BY <1>9, BaselineKeeps
  <1>10. ASSUME NEW t \in DOMAIN source, AdmitLater(t)
         PROVE  RefreshInv'
    <2>1. source[t] \in Contents /\ t \in Tokens
      BY <1>10, Rows DEF RefreshInv, Tokens
    <2> QED
      BY <1>10, <2>1, OtherKeeps DEF AdmitLater, Free, Current
  <1>11. ASSUME NEW v \in DOMAIN docs, DeleteVersion(v)
         PROVE  RefreshInv'
    <2>1. /\ removed' = removed \cup {v}
          /\ UNCHANGED <<source, profile, docs, elsewhere, handoffs, store, lock, proc, damage>>
      BY <1>11 DEF DeleteVersion
    <2>2. /\ profile' \in [provider : Providers, active : BOOLEAN]
          /\ source' \in Seq(Contents) /\ Len(source') \in 1..MaxToken
          /\ removed' \subseteq DOMAIN docs /\ elsewhere' \subseteq Contents
      BY <1>11, <2>1 DEF RefreshInv, TypeOK
    <2> QED
      BY <2>1, <2>2, AroundKeeps
  <1>12. CASE UNCHANGED vars
    BY <1>12 DEF vars, RefreshInv, TypeOK, HolderInv, HandlerInv, HandoffInv, VersionInv,
                 UndamagedInv, SftpItem, Admitted, Current
  <1> QED
    BY <1>1, <1>2, <1>3, <1>4, <1>5, <1>6, <1>7, <1>8, <1>9, <1>10, <1>11, <1>12 DEF Next

LEMMA RefreshInvariant == Spec => []RefreshInv
  BY InitHolds, NextKeeps, PTL DEF Spec

\* Every version that came of an approval follows the version its reviewer saw,
\* no approval gives two, what a refresh records is what lies under its key and
\* was read for it, and the rows are held by a handler at work: whatever crashes,
\* connections and replies are lost (execute_observation_refresh_authorization,
\* execute_observation_refresh_admission).
THEOREM RefreshesAreGoverned == Spec => []EvidenceInv
  <1>1. ASSUME RefreshInv  PROVE EvidenceInv
    <2>1. TypeOK
      BY <1>1 DEF RefreshInv
    <2>2. FollowsReviewed
      BY <1>1 DEF RefreshInv, VersionInv, FollowsReviewed
    <2>3. RecordsStoredBytes
      BY <1>1 DEF RefreshInv, HandoffInv, RecordsStoredBytes
    <2>4. RowsAreHeldByHandlers
      BY <1>1 DEF RefreshInv, HolderInv, RowsAreHeldByHandlers
    <2> QED
      BY <2>1, <2>2, <2>3, <2>4 DEF EvidenceInv
  <1> QED
    BY <1>1, RefreshInvariant, PTL

\* The bytes of a refreshed version are those the reviewed observation saw,
\* whatever the provider does to the item meanwhile
\* (_read_exact_changed_content).
THEOREM AdmittedAsReviewed == Spec => []AdmitsReviewedBytes
  <1>1. ASSUME RefreshInv  PROVE AdmitsReviewedBytes
    <2>1. ASSUME NEW v \in DOMAIN docs, ~SftpItem, docs[v].origin # 0
          PROVE  docs[v].content = source[handoffs[docs[v].origin].token]
      <3> DEFINE h == docs[v].origin
      <3>1. h \in DOMAIN handoffs /\ handoffs[h].staged = docs[v].content
        BY <1>1, <2>1 DEF RefreshInv, VersionInv
      <3>2. handoffs[h].staged # None
        BY <1>1, <3>1, Rows, RefreshAssumption DEF RefreshInv, Document
      <3> QED
        BY <1>1, <2>1, <3>1, <3>2 DEF RefreshInv, HandoffInv
    <2> QED
      BY <2>1 DEF AdmitsReviewedBytes
  <1> QED
    BY <1>1, RefreshInvariant, PTL

\* A restart reads the provider again only when nothing is stored yet, as long
\* as no handler has gone on without its rows (_recover_anchored_storage).
THEOREM OneReadIsStored == Spec => NoReadOnceStored
  <1>1. ASSUME RefreshInv, [Next]_vars
        PROVE  [\A p \in Processes :
                  (proc[p].pc = "reading" /\ proc'[p].pc = "fetched")
                    => store[proc[p].handoff] = None \/ damage.locks]_vars
    BY <1>1 DEF RefreshInv, UndamagedInv
  <1> QED
    BY <1>1, RefreshInvariant, PTL DEF Spec, NoReadOnceStored

-----------------------------------------------------------------------------
(* Refinement: what the reviewers see is a run of GovernedRefresh.         *)

\* A function on 1..n is a sequence, and one that is longer by one row is it
\* with the row appended.
LEMMA Appended ==
  ASSUME NEW S, NEW n \in Nat, NEW s \in [1..n -> S], NEW t \in [1..(n + 1) -> S],
         \A i \in 1..n : t[i] = s[i]
  PROVE  t = Append(s, t[n + 1]) /\ Len(s) = n
  <1>1. s \in Seq(S) /\ Len(s) = n
    BY SeqDef, LenProperties
  <1>2. n + 1 \in Nat /\ n + 1 \in 1..(n + 1)
    OBVIOUS
  <1>3. t \in Seq(S) /\ Len(t) = n + 1 /\ t[n + 1] \in S
    BY <1>2
  <1>4. /\ Append(s, t[n + 1]) \in Seq(S) /\ Len(Append(s, t[n + 1])) = n + 1
        /\ \A i \in 1..n : Append(s, t[n + 1])[i] = s[i]
        /\ Append(s, t[n + 1])[n + 1] = t[n + 1]
    BY <1>1, <1>3, AppendProperties
  <1>5. \A i \in 1..(n + 1) : i \in 1..n \/ i = n + 1
    OBVIOUS
  <1>6. \A i \in 1..Len(t) : t[i] = Append(s, t[n + 1])[i]
    BY <1>3, <1>4, <1>5
  <1> QED
    BY <1>1, <1>3, <1>4, <1>6, SeqEqual

LEMMA SeenIs ==
  ASSUME TypeOK
  PROVE  /\ DOMAIN History = DOMAIN docs /\ \A v \in DOMAIN docs : History[v] = docs[v].content
         /\ DOMAIN Stages = DOMAIN handoffs
         /\ \A h \in DOMAIN handoffs : /\ Stages[h] = StageOf(h)
                                       /\ Bases[h] = handoffs[h].version
                                       /\ StagedBytes[h] = handoffs[h].staged
         /\ Len(History) = Len(docs) /\ Len(Stages) = Len(handoffs)
  <1>1. /\ DOMAIN docs = 1..Len(docs) /\ Len(docs) \in Nat
        /\ DOMAIN handoffs = 1..Len(handoffs) /\ Len(handoffs) \in Nat
    BY Rows
  <1>2. Len(History) = Len(docs)
    BY <1>1 DEF History
  <1>3. Len(Stages) = Len(handoffs)
    BY <1>1 DEF Stages
  <1> QED
    BY <1>2, <1>3 DEF History, Stages, Bases, StagedBytes

\* A step that leaves what decides a stage leaves all a reviewer sees.
LEMMA Unseen ==
  ASSUME DOMAIN docs' = DOMAIN docs, DOMAIN handoffs' = DOMAIN handoffs,
         \A v \in DOMAIN docs : /\ docs'[v].content = docs[v].content
                                /\ docs'[v].origin = docs[v].origin,
         \A h \in DOMAIN handoffs : /\ handoffs'[h].version = handoffs[h].version
                                    /\ handoffs'[h].decision = handoffs[h].decision
                                    /\ handoffs'[h].staged = handoffs[h].staged
                                    /\ handoffs'[h].granted = handoffs[h].granted
  PROVE  UNCHANGED <<History, Stages, Bases, StagedBytes>>
  <1>1. \A h \in DOMAIN handoffs : StageOf(h)' = StageOf(h)
    BY DEF StageOf, Admitted
  <1>2. UNCHANGED Stages
    BY <1>1 DEF Stages
  <1> QED
    BY <1>2 DEF History, Bases, StagedBytes

\* A step on one handoff.
LEMMA OneStage ==
  ASSUME NEW h \in DOMAIN handoffs, docs' = docs, DOMAIN handoffs' = DOMAIN handoffs,
         \A g \in DOMAIN handoffs \ {h} : handoffs'[g] = handoffs[g],
         handoffs'[h].version = handoffs[h].version
  PROVE  /\ History' = History /\ Bases' = Bases
         /\ Stages' = [Stages EXCEPT ![h] = StageOf(h)']
         /\ StagedBytes' = [StagedBytes EXCEPT ![h] = handoffs'[h].staged]
  <1>1. \A g \in DOMAIN handoffs \ {h} : StageOf(g)' = StageOf(g)
    BY DEF StageOf, Admitted
  <1>2. Stages' = [Stages EXCEPT ![h] = StageOf(h)']
    BY <1>1 DEF Stages
  <1> QED
    BY <1>2 DEF History, Bases, StagedBytes

\* Only versions of approved and staged changes have an origin.
LEMMA NotAdmitted ==
  ASSUME RefreshInv, NEW h \in DOMAIN handoffs,
         handoffs[h].version = Current \/ handoffs[h].staged = None
  PROVE  ~Admitted(h)
  <1>1. /\ DOMAIN docs = 1..Len(docs) /\ Len(docs) \in Nat /\ h # 0
        /\ \A v \in DOMAIN docs : docs[v] \in Document
    BY Rows DEF RefreshInv, Handoffs
  <1>2. ASSUME NEW v \in DOMAIN docs, docs[v].origin = h  PROVE FALSE
    <2>1. handoffs[h].version = v - 1 /\ handoffs[h].staged = docs[v].content
      BY <1>1, <1>2 DEF RefreshInv, VersionInv
    <2>2. v \in 1..Len(docs) /\ docs[v].content # None
      BY <1>1, RefreshAssumption DEF Document
    <2> QED
      BY <1>1, <2>1, <2>2 DEF Current
  <1> QED
    BY <1>2 DEF Admitted

LEMMA HandOverIsHandOver ==
  ASSUME RefreshInv, RefreshInv', HandOver
  PROVE  Governed!HandOver
  <1> DEFINE row == [version |-> Current, token |-> Len(source), decision |-> "open",
                     anchor |-> None, fetched |-> {}, staged |-> None, granted |-> FALSE]
             Names == {"open", "dismissed", "approved", "staged", "granted", "admitted"}
  <1>0. PICK n : n = Len(handoffs)
    OBVIOUS
  <1>1. /\ n < MaxHandoffs /\ handoffs' = Append(handoffs, row) /\ docs' = docs
    BY <1>0 DEF HandOver
  <1>2. /\ TypeOK /\ handoffs \in Seq(Handoff) /\ Len(docs) \in 1..MaxDocs
        /\ Len(source) \in 1..MaxToken /\ n \in Nat /\ DOMAIN handoffs = 1..n
        /\ \A h \in DOMAIN handoffs : handoffs[h] \in Handoff
        /\ DOMAIN handoffs \subseteq Handoffs
    BY <1>0, Rows DEF RefreshInv, TypeOK
  <1>3. row \in Handoff
    BY <1>2 DEF Handoff, Current
  <1>4. row.version = Current /\ row.decision = "open" /\ row.staged = None /\ ~row.granted
    OBVIOUS
  <1> HIDE DEF row
  <1>5. /\ handoffs' \in Seq(Handoff) /\ Len(handoffs') = n + 1
        /\ \A g \in DOMAIN handoffs : handoffs'[g] = handoffs[g]
        /\ handoffs'[n + 1] = row
    BY <1>0, <1>1, <1>2, <1>3, AppendProperties
  <1>6. DOMAIN handoffs' = 1..(n + 1) /\ \A h \in 1..(n + 1) : h \in DOMAIN handoffs \/ h = n + 1
    BY <1>2, <1>5, LenProperties
  <1>7. \A h \in DOMAIN handoffs : StageOf(h) \in Names /\ StageOf(h)' = StageOf(h)
    BY <1>1, <1>2, <1>5 DEF StageOf, Admitted, Handoff
  <1>8. StageOf(n + 1)' = "open"
    <2>1. \A v \in DOMAIN docs : docs[v].origin # n + 1
      <3>1. n + 1 \notin DOMAIN handoffs /\ n + 1 # 0
        BY <1>2
      <3> QED
        BY <3>1 DEF RefreshInv, VersionInv
    <2> QED
      BY <1>1, <1>4, <1>5, <2>1 DEF StageOf, Admitted
  <1>9. Stages' = Append(Stages, "open") /\ Len(Stages) = n
    <2>1. /\ Stages \in [1..n -> Names] /\ Stages' \in [1..(n + 1) -> Names]
          /\ \A h \in 1..n : Stages'[h] = Stages[h]
          /\ Stages'[n + 1] = "open"
      BY <1>2, <1>6, <1>7, <1>8 DEF Stages
    <2> HIDE DEF Names
    <2> QED
      BY <1>2, <2>1, Appended
  <1>10. Bases' = Append(Bases, Current)
    <2>1. /\ Bases \in [1..n -> 1..MaxDocs] /\ Bases' \in [1..(n + 1) -> 1..MaxDocs]
          /\ \A h \in 1..n : Bases'[h] = Bases[h]
          /\ Bases'[n + 1] = Current
      <3>1. \A h \in 1..n : handoffs[h].version \in 1..MaxDocs
        BY <1>2 DEF Handoff
      <3>2. \A h \in 1..(n + 1) : handoffs'[h].version \in 1..MaxDocs
        BY <1>2, <1>4, <1>5, <1>6, <3>1 DEF Current
      <3>3. /\ Bases = [h \in 1..n |-> handoffs[h].version]
            /\ Bases' = [h \in 1..(n + 1) |-> handoffs'[h].version]
        BY <1>2, <1>6 DEF Bases
      <3>4. n + 1 \in 1..(n + 1) /\ 1..n \subseteq 1..(n + 1)
        BY <1>2
      <3> QED
        BY <1>2, <1>4, <1>5, <3>1, <3>2, <3>3, <3>4
    <2> QED
      BY <1>2, <2>1, Appended
  <1>11. StagedBytes' = Append(StagedBytes, None)
    <2> DEFINE S == Contents \cup {None}
    <2>1. /\ StagedBytes \in [1..n -> S] /\ StagedBytes' \in [1..(n + 1) -> S]
          /\ \A h \in 1..n : StagedBytes'[h] = StagedBytes[h]
          /\ StagedBytes'[n + 1] = None
      <3>1. \A h \in 1..n : handoffs[h].staged \in S
        BY <1>2 DEF Handoff
      <3>2. \A h \in 1..(n + 1) : handoffs'[h].staged \in S
        BY <1>2, <1>4, <1>5, <1>6, <3>1
      <3>3. /\ StagedBytes = [h \in 1..n |-> handoffs[h].staged]
            /\ StagedBytes' = [h \in 1..(n + 1) |-> handoffs'[h].staged]
        BY <1>2, <1>6 DEF StagedBytes
      <3>4. n + 1 \in 1..(n + 1) /\ 1..n \subseteq 1..(n + 1)
        BY <1>2
      <3> QED
        BY <1>2, <1>4, <1>5, <3>1, <3>2, <3>3, <3>4
    <2> HIDE DEF S
    <2> QED
      BY <1>2, <2>1, Appended
  <1>12. History' = History /\ Len(History) = Current
    BY <1>1, <1>2, SeenIs DEF History, Current
  <1> QED
    BY <1>1, <1>9, <1>10, <1>11, <1>12 DEF Governed!HandOver

LEMMA DecideIsDecide ==
  ASSUME RefreshInv, NEW h \in DOMAIN handoffs, NEW d \in {"dismissed", "approved"}, Decide(h, d)
  PROVE  Governed!Decide(h, d)
  <1> DEFINE row == [handoffs[h] EXCEPT !.decision = d]
  <1>1. TypeOK /\ handoffs[h] \in Handoff
    BY Rows DEF RefreshInv
  <1>2. /\ row \in Handoff /\ row.version = handoffs[h].version /\ row.decision = d
        /\ row.staged = handoffs[h].staged /\ row.granted = handoffs[h].granted
    BY <1>1 DEF Handoff
  <1>3. /\ handoffs' = [handoffs EXCEPT ![h] = row] /\ handoffs[h].decision = "open"
        /\ handoffs[h].version = Current /\ docs' = docs
    BY SetRow DEF Decide, AuthorityHolds
  <1> HIDE DEF row
  <1>4. /\ DOMAIN handoffs' = DOMAIN handoffs /\ handoffs'[h] = row
        /\ \A g \in DOMAIN handoffs \ {h} : handoffs'[g] = handoffs[g]
    BY <1>1, <1>2, <1>3, SetIs
  <1>5. handoffs[h].staged = None /\ handoffs[h].granted = FALSE /\ ~Admitted(h)
    BY <1>1, <1>3, NotAdmitted DEF RefreshInv, HandoffInv, Handoff
  <1>6. StageOf(h) = "open" /\ StageOf(h)' = d
    BY <1>2, <1>3, <1>4, <1>5 DEF StageOf, Admitted
  <1>7. /\ History' = History /\ Bases' = Bases
        /\ Stages' = [Stages EXCEPT ![h] = d]
        /\ StagedBytes' = [StagedBytes EXCEPT ![h] = handoffs[h].staged]
    BY <1>2, <1>3, <1>4, <1>6, OneStage
  <1>8. StagedBytes' = StagedBytes
    BY <1>7 DEF StagedBytes
  <1>9. Stages[h] = "open" /\ Bases[h] = Len(History)
    BY <1>1, <1>3, <1>6, SeenIs DEF Current
  <1> QED
    BY <1>7, <1>8, <1>9 DEF Governed!Decide

LEMMA CompleteIsStage ==
  ASSUME RefreshInv, NEW p \in Processes, Complete(p), lock = p
  PROVE  \E h \in DOMAIN Stages, c \in Contents : Governed!Stage(h, c)
  <1>0. PICK h, c : h = proc[p].handoff /\ c = proc[p].content
    OBVIOUS
  <1> DEFINE row == [handoffs[h] EXCEPT !.staged = c]
  <1>1. proc[p].pc = "stored" /\ TypeOK /\ Set(h, "staged", c) /\ docs' = docs
    BY <1>0 DEF Complete, RefreshInv
  <1>2. /\ h \in DOMAIN handoffs /\ c \in handoffs[h].fetched
        /\ handoffs[h].decision = "approved" /\ handoffs[h] \in Handoff
        /\ handoffs[h].staged = None /\ handoffs[h].version = Current
    BY <1>0, <1>1, Rows, RefreshAssumption DEF RefreshInv, HandlerInv, HolderInv
  <1>3. c \in Contents /\ c # None
    BY <1>2, RefreshAssumption DEF Handoff
  <1>4. /\ row \in Handoff /\ row.version = handoffs[h].version /\ row.staged = c
        /\ row.decision = handoffs[h].decision /\ row.granted = handoffs[h].granted
    BY <1>2, <1>3 DEF Handoff
  <1>5. handoffs' = [handoffs EXCEPT ![h] = row]
    BY <1>1, <1>2, SetRow
  <1> HIDE DEF row
  <1>6. /\ DOMAIN handoffs' = DOMAIN handoffs /\ handoffs'[h] = row
        /\ \A g \in DOMAIN handoffs \ {h} : handoffs'[g] = handoffs[g]
    BY <1>1, <1>2, <1>4, <1>5, SetIs
  <1>7. handoffs[h].granted = FALSE /\ ~Admitted(h)
    BY <1>2, NotAdmitted DEF RefreshInv, HandoffInv, Handoff
  <1>8. StageOf(h) = "approved" /\ StageOf(h)' = "staged"
    BY <1>1, <1>2, <1>3, <1>4, <1>6, <1>7 DEF StageOf, Admitted
  <1>9. /\ History' = History /\ Bases' = Bases
        /\ Stages' = [Stages EXCEPT ![h] = "staged"]
        /\ StagedBytes' = [StagedBytes EXCEPT ![h] = c]
    BY <1>1, <1>2, <1>4, <1>6, <1>8, OneStage
  <1>10. Stages[h] = "approved" /\ Bases[h] = Len(History) /\ h \in DOMAIN Stages
    BY <1>1, <1>2, <1>8, SeenIs DEF Current
  <1>11. Governed!Stage(h, c)
    BY <1>9, <1>10 DEF Governed!Stage
  <1> QED
    BY <1>3, <1>10, <1>11

LEMMA GrantIsGrant ==
  ASSUME RefreshInv, NEW h \in DOMAIN handoffs, Grant(h)
  PROVE  Governed!Grant(h)
  <1> DEFINE row == [handoffs[h] EXCEPT !.granted = TRUE]
  <1>1. TypeOK /\ handoffs[h] \in Handoff /\ Current \in DOMAIN docs
    BY Rows DEF RefreshInv, Current
  <1>2. /\ row \in Handoff /\ row.version = handoffs[h].version
        /\ row.staged = handoffs[h].staged /\ row.granted
    BY <1>1 DEF Handoff
  <1>3. /\ handoffs' = [handoffs EXCEPT ![h] = row] /\ handoffs[h].staged # None
        /\ ~handoffs[h].granted /\ handoffs[h].version = Current /\ docs' = docs
        /\ handoffs[h].staged # docs[Current].content
    BY <1>1, SetRow DEF Grant, AuthorityHolds, Live, Bound
  <1> HIDE DEF row
  <1>4. /\ DOMAIN handoffs' = DOMAIN handoffs /\ handoffs'[h] = row
        /\ \A g \in DOMAIN handoffs \ {h} : handoffs'[g] = handoffs[g]
    BY <1>1, <1>2, <1>3, SetIs
  <1>5. ~Admitted(h)
    BY <1>3, NotAdmitted
  <1>6. StageOf(h) = "staged" /\ StageOf(h)' = "granted"
    BY <1>2, <1>3, <1>4, <1>5 DEF StageOf, Admitted
  <1>7. /\ History' = History /\ Bases' = Bases
        /\ Stages' = [Stages EXCEPT ![h] = "granted"]
        /\ StagedBytes' = [StagedBytes EXCEPT ![h] = handoffs[h].staged]
    BY <1>2, <1>3, <1>4, <1>6, OneStage
  <1>8. StagedBytes' = StagedBytes
    BY <1>7 DEF StagedBytes
  <1>9. /\ Stages[h] = "staged" /\ Bases[h] = Len(History)
        /\ StagedBytes[h] # History[Bases[h]]
    BY <1>1, <1>3, <1>6, SeenIs DEF Current
  <1> QED
    BY <1>7, <1>8, <1>9 DEF Governed!Grant

\* The history grows by what a version was given.
LEMMA HistoryGrows ==
  ASSUME TypeOK, Len(docs) < MaxDocs, NEW c \in Contents, NEW t \in Tokens,
         NEW h \in 0..MaxHandoffs, NEW b \in BOOLEAN, NextVersion(c, t, h, b)
  PROVE  /\ History' = Append(History, c)
         /\ \A g : Admitted(g)' <=> Admitted(g) \/ g = h
  <1> DEFINE n == Len(docs)
  <1>1. /\ n \in Nat /\ DOMAIN docs = 1..n /\ DOMAIN docs' = 1..(n + 1)
        /\ \A v \in DOMAIN docs : docs'[v] = docs[v] /\ docs[v] \in Document
        /\ docs'[n + 1] = [content |-> c, token |-> t, origin |-> h, bytes |-> b]
    BY NextVersionIs, Rows
  <1>2. docs'[n + 1].content = c /\ docs'[n + 1].origin = h
    BY <1>1
  <1> HIDE DEF n
  <1>3. History' = Append(History, c)
    <2>1. /\ History = [v \in 1..n |-> docs[v].content]
          /\ History' = [v \in 1..(n + 1) |-> docs'[v].content]
      BY <1>1 DEF History
    <2>2. /\ History \in [1..n -> Contents] /\ History' \in [1..(n + 1) -> Contents]
          /\ \A v \in 1..n : History'[v] = History[v]
          /\ History'[n + 1] = c
      <3>1. n + 1 \in 1..(n + 1) /\ \A v \in 1..(n + 1) : v \in 1..n \/ v = n + 1
        BY <1>1
      <3>2. \A v \in 1..n : docs[v].content \in Contents /\ docs'[v].content = docs[v].content
        BY <1>1 DEF Document
      <3>3. \A v \in 1..(n + 1) : docs'[v].content \in Contents
        BY <1>2, <3>1, <3>2
      <3> QED
        BY <1>1, <1>2, <2>1, <3>1, <3>2, <3>3
    <2> QED
      BY <1>1, <2>2, Appended
  <1>4. ASSUME NEW g PROVE Admitted(g)' <=> (Admitted(g) \/ g = h)
    <2>1. \A v \in DOMAIN docs' : v \in DOMAIN docs \/ v = n + 1
      BY <1>1
    <2>2. DOMAIN docs \subseteq DOMAIN docs' /\ n + 1 \in DOMAIN docs'
      BY <1>1
    <2> QED
      BY <1>1, <1>2, <2>1, <2>2 DEF Admitted
  <1> QED
    BY <1>3, <1>4

LEMMA OtherIsOther ==
  ASSUME TypeOK, Len(docs) < MaxDocs, NEW c \in Contents, NEW t \in Tokens,
         NextVersion(c, t, 0, TRUE), handoffs' = handoffs
  PROVE  Governed!Other(c)
  <1>1. 0 \in 0..MaxHandoffs /\ TRUE \in BOOLEAN /\ 0 \notin DOMAIN handoffs
    BY Rows, RefreshAssumption DEF Handoffs
  <1>2. History' = Append(History, c) /\ \A g : Admitted(g)' <=> (Admitted(g) \/ g = 0)
    BY <1>1, HistoryGrows
  <1>3. \A g \in DOMAIN handoffs : StageOf(g)' = StageOf(g)
    BY <1>1, <1>2 DEF StageOf
  <1>4. Stages' = Stages
    BY <1>3 DEF Stages
  <1>5. Bases' = Bases /\ StagedBytes' = StagedBytes
    BY DEF Bases, StagedBytes
  <1> QED
    BY <1>2, <1>4, <1>5 DEF Governed!Other

LEMMA AdmissionIsAdmit ==
  ASSUME RefreshInv, NEW p \in Processes, NEW b \in BOOLEAN, proc[p].pc = "promoted", lock = p,
         NextVersion(proc[p].content, 0, proc[p].handoff, b), handoffs' = handoffs
  PROVE  \E h \in DOMAIN Stages : Governed!Admit(h)
  <1>0. PICK h, c : h = proc[p].handoff /\ c = proc[p].content
    OBVIOUS
  <1>1. TypeOK /\ p # None
    BY RefreshAssumption DEF RefreshInv
  <1>2. /\ h \in DOMAIN handoffs /\ handoffs[h].granted
        /\ handoffs[h].version = Current /\ handoffs[h].staged = c
        /\ ~Admitted(h) /\ Len(docs) < MaxDocs /\ c # None
    BY <1>0, <1>1 DEF RefreshInv, HandlerInv, HolderInv, Current
  <1>3. c \in Contents /\ h \in 0..MaxHandoffs /\ 0 \in Tokens
    BY <1>1, <1>2, Rows DEF Handoff, Tokens, Handoffs
  <1>4. NextVersion(c, 0, h, b)
    BY <1>0
  <1>5. History' = Append(History, c) /\ \A g : Admitted(g)' <=> (Admitted(g) \/ g = h)
    BY <1>1, <1>2, <1>3, <1>4, HistoryGrows
  <1>6. /\ StageOf(h) = "granted" /\ StageOf(h)' = "admitted"
        /\ \A g \in DOMAIN handoffs \ {h} : StageOf(g)' = StageOf(g)
    BY <1>2, <1>5 DEF StageOf
  <1>7. Stages' = [Stages EXCEPT ![h] = "admitted"] /\ h \in DOMAIN Stages
    BY <1>2, <1>6 DEF Stages
  <1>8. Bases' = Bases /\ StagedBytes' = StagedBytes
    BY DEF Bases, StagedBytes
  <1>9. Stages[h] = "granted" /\ Bases[h] = Len(History) /\ StagedBytes[h] = c
    BY <1>1, <1>2, <1>6, SeenIs DEF Current
  <1>10. Governed!Admit(h)
    BY <1>5, <1>7, <1>8, <1>9 DEF Governed!Admit
  <1> QED
    BY <1>7, <1>10

\* What moves the reviewers' view, and what does not.
LEMMA GovernedNext ==
  ASSUME RefreshInv, RefreshInv', [Next]_vars
  PROVE  Governed!Next \/ UNCHANGED <<History, Stages, Bases, StagedBytes>>
  <1>0. TypeOK /\ DOMAIN Stages = DOMAIN handoffs
    BY SeenIs DEF RefreshInv
  <1>1. CASE HandOver
    BY <1>1, HandOverIsHandOver DEF Governed!Next
  <1>2. ASSUME NEW h \in DOMAIN handoffs, Grant(h)
        PROVE  Governed!Next
    BY <1>0, <1>2, GrantIsGrant DEF Governed!Next
  <1>3. ASSUME NEW h \in DOMAIN handoffs, NEW d \in {"dismissed", "approved"}, Decide(h, d)
        PROVE  Governed!Next
    BY <1>0, <1>3, DecideIsDecide DEF Governed!Next
  <1>4. ASSUME docs' = docs, handoffs' = handoffs
        PROVE  UNCHANGED <<History, Stages, Bases, StagedBytes>>
    BY <1>4, Unseen
  <1>5. ASSUME NEW p \in Processes, NEW h \in DOMAIN handoffs, NEW r \in Requests,
               Anchor(p, h, r)
        PROVE  UNCHANGED <<History, Stages, Bases, StagedBytes>>
    <2> DEFINE row == [handoffs[h] EXCEPT !.anchor = r]
    <2>1. /\ docs' = docs /\ handoffs[h] \in Handoff
          /\ handoffs' = [handoffs EXCEPT ![h] = row]
      BY <1>0, <1>5, Rows, SetRow DEF Anchor
    <2>2. /\ row \in Handoff /\ row.version = handoffs[h].version
          /\ row.decision = handoffs[h].decision /\ row.staged = handoffs[h].staged
          /\ row.granted = handoffs[h].granted
      BY <2>1 DEF Handoff
    <2> HIDE DEF row
    <2>3. /\ DOMAIN handoffs' = DOMAIN handoffs /\ handoffs'[h] = row
          /\ \A g \in DOMAIN handoffs \ {h} : handoffs'[g] = handoffs[g]
      BY <1>0, <2>1, <2>2, SetIs
    <2> QED
      BY <2>1, <2>2, <2>3, Unseen
  <1>6. ASSUME NEW p \in Processes, Fetch(p)
        PROVE  UNCHANGED <<History, Stages, Bases, StagedBytes>>
    <2>1. CASE Refuse(p)
      BY <2>1, <1>4 DEF Refuse
    <2>2. CASE ~Refuse(p)
      <3> DEFINE h == proc[p].handoff
                 f == handoffs[h].fetched \cup {Last(source)}
                 row == [handoffs[h] EXCEPT !.fetched = f]
      <3>1. proc[p].pc = "reading" /\ Set(h, "fetched", f) /\ docs' = docs
        BY <1>6, <2>2 DEF Fetch
      <3>2. /\ h \in DOMAIN handoffs /\ handoffs[h] \in Handoff /\ Last(source) \in Contents
        BY <1>0, <3>1, Rows DEF RefreshInv, HandlerInv, Last
      <3>3. handoffs' = [handoffs EXCEPT ![h] = row]
        BY <3>1, <3>2, SetRow
      <3>4. /\ row \in Handoff /\ row.version = handoffs[h].version
            /\ row.decision = handoffs[h].decision /\ row.staged = handoffs[h].staged
            /\ row.granted = handoffs[h].granted
        BY <3>2 DEF Handoff
      <3> HIDE DEF row, f, h
      <3>5. /\ DOMAIN handoffs' = DOMAIN handoffs /\ handoffs'[h] = row
            /\ \A g \in DOMAIN handoffs \ {h} : handoffs'[g] = handoffs[g]
        BY <1>0, <3>2, <3>3, <3>4, SetIs
      <3> QED
        BY <3>1, <3>4, <3>5, Unseen
    <2> QED
      BY <2>1, <2>2
  <1>7. ASSUME NEW p \in Processes, Complete(p)
        PROVE  Governed!Next \/ UNCHANGED <<History, Stages, Bases, StagedBytes>>
    <2>1. CASE lock = p
      BY <1>7, <2>1, CompleteIsStage DEF Governed!Next
    <2>2. CASE lock # p
      BY <1>4, <1>7, <2>2 DEF Complete, Refuse
    <2> QED
      BY <2>1, <2>2
  <1>8. ASSUME NEW p \in Processes, Admit(p) \/ LoseReply(p)
        PROVE  Governed!Next \/ UNCHANGED <<History, Stages, Bases, StagedBytes>>
    <2>1. CASE Refuse(p)
      BY <1>4, <2>1 DEF Refuse
    <2>2. CASE ~Refuse(p)
      <3>1. PICK b \in BOOLEAN : /\ proc[p].pc = "promoted" /\ lock = p /\ handoffs' = handoffs
                                 /\ NextVersion(proc[p].content, 0, proc[p].handoff, b)
        <4>1. CASE Admit(p)
          BY <2>2, <4>1 DEF Admit
        <4>2. CASE LoseReply(p)
          <5>1. FALSE \in BOOLEAN
            OBVIOUS
          <5> QED
            BY <4>2, <5>1 DEF LoseReply
        <4> QED
          BY <1>8, <4>1, <4>2
      <3> QED
        BY <3>1, AdmissionIsAdmit DEF Governed!Next
    <2> QED
      BY <2>1, <2>2
  <1>9. ASSUME NEW c \in Contents, Upload(c)
        PROVE  Governed!Next
    <2>1. 0 \in Tokens
      BY <1>0, Rows DEF Tokens
    <2> QED
      BY <1>0, <1>9, <2>1, OtherIsOther DEF Upload, Current, Governed!Next
  <1>10. ASSUME NEW t \in DOMAIN source, AdmitLater(t)
         PROVE  Governed!Next
    <2>1. source[t] \in Contents /\ t \in Tokens
      BY <1>0, <1>10, Rows DEF Tokens
    <2> QED
      BY <1>0, <1>10, <2>1, OtherIsOther DEF AdmitLater, Current, Governed!Next
  <1>11. CASE EstablishBaseline
    <2> DEFINE d == docs[Current]
               row == [d EXCEPT !.token = handoffs[d.origin].token]
    <2>1. /\ Current \in DOMAIN docs /\ d \in Document /\ handoffs' = handoffs
          /\ docs' = [docs EXCEPT ![Current] = row]
      BY <1>0, <1>11, Rows DEF EstablishBaseline, Current
    <2>2. row.content = d.content /\ row.origin = d.origin
      BY <2>1 DEF Document
    <2> HIDE DEF row
    <2>3. /\ DOMAIN docs' = DOMAIN docs
          /\ \A v \in DOMAIN docs : /\ docs'[v].content = docs[v].content
                                    /\ docs'[v].origin = docs[v].origin
      BY <2>1, <2>2
    <2> QED
      BY <2>1, <2>3, Unseen
  <1> QED
    BY <1>1, <1>2, <1>3, <1>4, <1>5, <1>6, <1>7, <1>8, <1>9, <1>10, <1>11
       DEF Next, Handle, Copy, Lock, Put, Promote, Reject, Refuse, Crash, Disconnect, ChangeItem,
           UploadElsewhere, DisableProfile, DeleteVersion, vars

\* What the reviewers see is what they were promised: one version per approval,
\* of the bytes that were staged, over the version it was given for.
THEOREM GovernanceIsKept == Spec => GovernedSpec
  <1>1. Init => Governed!Init
    <2> SUFFICES ASSUME Init PROVE Governed!Init
      OBVIOUS
    <2>1. /\ docs = <<[content |-> First, token |-> 1, origin |-> 0, bytes |-> TRUE]>>
          /\ handoffs = <<>> /\ First \in Contents
      BY RefreshAssumption DEF Init
    <2>2. DOMAIN docs = 1..1 /\ docs[1].content = First /\ DOMAIN handoffs = {}
      BY <2>1
    <2>3. History = <<First>>
      <3>1. /\ History \in [1..1 -> Contents] /\ <<First>> \in Seq(Contents)
            /\ Len(<<First>>) = 1 /\ <<First>>[1] = First
        BY <2>1, <2>2 DEF History
      <3>2. History \in Seq(Contents) /\ Len(History) = 1 /\ History[1] = First
        BY <2>2, <3>1, SeqDef, LenProperties DEF History
      <3> QED
        BY <3>1, <3>2, SeqEqual
    <2>4. Stages = <<>> /\ Bases = <<>> /\ StagedBytes = <<>>
      BY <2>2 DEF Stages, Bases, StagedBytes
    <2> QED
      BY <2>1, <2>3, <2>4 DEF Governed!Init
  <1>2. RefreshInv /\ RefreshInv' /\ [Next]_vars
          => [Governed!Next]_<<History, Stages, Bases, StagedBytes>>
    BY GovernedNext
  <1> QED
    BY <1>1, <1>2, RefreshInvariant, PTL DEF Spec, GovernedSpec, Governed!Spec, Governed!vars

=============================================================================
