---------------------- MODULE RecurringObservationProofs ----------------------
(***************************************************************************)
(* The ticks of RecurringObservation are observed in sequence, once, and   *)
(* under the schedule in force, and its dispatches are bound to them one   *)
(* to one, for any number of families, workers and operators; and it       *)
(* implements TickLedger.                                                  *)
(***************************************************************************)
EXTENDS RecurringObservation, FiniteSetTheorems, SequenceTheorems, TLAPS

(* The range of a sequence.                                                *)

LEMMA RangeOf ==
    ASSUME NEW S, NEW s \in Seq(S)
    PROVE  /\ Range(s) \subseteq S
           /\ IsFiniteSet(Range(s))
<1>1. s \in [1..Len(s) -> S] /\ Len(s) \in Nat
  BY LenProperties
<1>2. s \in Surjection(1..Len(s), Range(s))
  BY <1>1 DEF Surjection, Range
<1>3. IsFiniteSet(1..Len(s))
  BY <1>1, FS_Interval
<1> QED
  BY <1>1, <1>2, <1>3, FS_Surjection DEF Range

LEMMA RangeAppend ==
    ASSUME NEW S, NEW s \in Seq(S), NEW x \in S
    PROVE  /\ Append(s, x) \in Seq(S)
           /\ Len(Append(s, x)) = Len(s) + 1
           /\ Append(s, x)[Len(s) + 1] = x
           /\ \A i \in 1..Len(s) : Append(s, x)[i] = s[i]
           /\ Range(Append(s, x)) = Range(s) \cup {x}
<1>1. /\ Append(s, x) \in Seq(S)
      /\ Len(Append(s, x)) = Len(s) + 1 /\ Len(s) \in Nat
      /\ Append(s, x)[Len(s) + 1] = x
      /\ \A i \in 1..Len(s) : Append(s, x)[i] = s[i]
  BY AppendProperties, LenProperties
<1>2. /\ DOMAIN s = 1..Len(s)
      /\ DOMAIN Append(s, x) = 1..(Len(s) + 1)
  BY <1>1, LenProperties
<1>3. 1..(Len(s) + 1) = (1..Len(s)) \cup {Len(s) + 1}
  BY <1>1
<1> QED
  BY <1>1, <1>2, <1>3 DEF Range

LEMMA RangeTail ==
    ASSUME NEW S, NEW s \in Seq(S), s # <<>>
    PROVE  /\ Tail(s) \in Seq(S)
           /\ Range(Tail(s)) \subseteq Range(s)
           /\ Head(s) \in Range(s)
           /\ s[1] = Head(s)
<1>1. /\ Tail(s) \in Seq(S) /\ Len(Tail(s)) = Len(s) - 1
      /\ \A i \in 1..Len(Tail(s)) : Tail(s)[i] = s[i + 1]
      /\ Head(s) = s[1] /\ Len(s) \in Nat /\ Len(s) # 0
  BY HeadTailProperties, LenProperties, EmptySeq
<1>2. DOMAIN s = 1..Len(s) /\ DOMAIN Tail(s) = 1..Len(Tail(s))
  BY <1>1, LenProperties
<1> QED
  BY <1>1, <1>2 DEF Range

LEMMA RangeFirst ==
    ASSUME NEW S, NEW s \in Seq(S)
    PROVE  FirstOf(s) \in Seq(S) /\ Range(FirstOf(s)) \subseteq Range(s)
<1> DEFINE n == IF Len(s) < CandidateLimit THEN Len(s) ELSE CandidateLimit
<1>1. n \in Nat /\ n <= Len(s) /\ Len(s) \in Nat /\ DOMAIN s = 1..Len(s)
  BY LenProperties, ObservationAssumption
<1>2. FirstOf(s) = [i \in 1..n |-> s[i]]
  BY <1>1 DEF FirstOf
<1> HIDE DEF n
<1>3. \A i \in 1..n : s[i] \in S /\ s[i] \in Range(s)
  BY <1>1, ElementOfSeq DEF Range
<1>4. FirstOf(s) \in Seq(S)
  BY <1>1, <1>2, <1>3
<1> QED
  BY <1>2, <1>3, <1>4 DEF Range

LEMMA SeqsOf ==
    ASSUME NEW S, IsFiniteSet(S), NEW q \in SetToSeqs(S)
    PROVE  q \in Seq(S)
<1>1. Cardinality(S) \in Nat
  BY FS_CardinalityType
<1> QED
  BY <1>1 DEF SetToSeqs

-----------------------------------------------------------------------------
(* The next tick of a revision.                                            *)

Counted(f, r) == {o \in Range(observed) : o.family = f /\ o.rev = r}

LEMMA RowTypes ==
    ASSUME TypeOK
    PROVE  /\ \A f \in Families :
                /\ schedules[f] \in Seq(Schedule) /\ Len(schedules[f]) \in Nat
                /\ DOMAIN schedules[f] = 1..Len(schedules[f])
                /\ DOMAIN schedules[f] \subseteq Revisions
                /\ \A r \in DOMAIN schedules[f] :
                      schedules[f][r] \in Schedule /\ schedules[f][r].effective \in Nat
                /\ versions[f] \in Seq(Version)
                /\ Current(f) \in 1..MaxVersion
           /\ DOMAIN observed = 1..Len(observed) /\ Len(observed) \in Nat
           /\ \A i \in DOMAIN observed : observed[i] \in Observation
           /\ Range(observed) \subseteq Observation /\ IsFiniteSet(Range(observed))
           /\ \A f \in Families, r \in Revisions : Done(f, r) \in Nat
<1>1. ASSUME NEW f \in Families
      PROVE  /\ schedules[f] \in Seq(Schedule) /\ Len(schedules[f]) \in Nat
             /\ DOMAIN schedules[f] = 1..Len(schedules[f])
             /\ DOMAIN schedules[f] \subseteq Revisions
             /\ \A r \in DOMAIN schedules[f] :
                   schedules[f][r] \in Schedule /\ schedules[f][r].effective \in Nat
             /\ versions[f] \in Seq(Version)
             /\ Current(f) \in 1..MaxVersion
  <2>1. schedules[f] \in Seq(Schedule) /\ versions[f] \in Seq(Version)
    BY DEF TypeOK
  <2>2. /\ Len(schedules[f]) \in Nat
        /\ schedules[f] \in [1..Len(schedules[f]) -> Schedule]
    BY <2>1, LenProperties
  <2>3. DOMAIN schedules[f] \subseteq Revisions
    BY <2>2, ObservationAssumption DEF TypeOK, Revisions
  <2>4. \A s \in Schedule : s.effective \in Nat
    BY ObservationAssumption DEF Schedule, Ticks
  <2>5. Current(f) \in 1..MaxVersion
    BY DEF Current, TypeOK
  <2> QED
    BY <2>1, <2>2, <2>3, <2>4, <2>5
<1>2. /\ Len(observed) \in Nat
      /\ observed \in [1..Len(observed) -> Observation]
      /\ Range(observed) \subseteq Observation /\ IsFiniteSet(Range(observed))
  BY RangeOf, LenProperties DEF TypeOK
<1>3. ASSUME NEW f \in Families, NEW r \in Revisions PROVE Done(f, r) \in Nat
  <2>1. Counted(f, r) \in SUBSET Range(observed)
    BY DEF Counted
  <2>2. IsFiniteSet(Counted(f, r))
    BY <1>2, <2>1, FS_Subset
  <2> QED
    BY <2>2, FS_CardinalityType DEF Done, Counted
<1> QED
  BY <1>1, <1>2, <1>3

LEMMA NextDueIs ==
    ASSUME TypeOK, TicksCounted, NEW f \in Families, NEW r \in DOMAIN schedules[f]
    PROVE  LET e == schedules[f][r].effective IN
           /\ NextDue(f, r) = e + Done(f, r)
           /\ e \in Nat /\ NextDue(f, r) \in Nat /\ e <= NextDue(f, r)
           /\ DuesOf(f, r) = e .. (NextDue(f, r) - 1)
<1> DEFINE e == schedules[f][r].effective
           n == Done(f, r)
<1>1. e \in Nat /\ n \in Nat
  BY RowTypes
<1>2. DuesOf(f, r) = e .. (e + n - 1)
  BY DEF TicksCounted
<1> HIDE DEF e, n
<1>3. NextDue(f, r) = e + n
  <2>1. CASE n = 0
    <3>1. DuesOf(f, r) = {}
      BY <1>1, <1>2, <2>1
    <3> QED
      BY <1>1, <2>1, <3>1 DEF NextDue, e
  <2>2. CASE n # 0
    <3>1. /\ e + n - 1 \in DuesOf(f, r)
          /\ \A u \in DuesOf(f, r) : u <= e + n - 1 /\ u \in Int
      BY <1>1, <1>2, <2>2
    <3>2. /\ Latest(DuesOf(f, r)) \in DuesOf(f, r)
          /\ \A u \in DuesOf(f, r) : u <= Latest(DuesOf(f, r))
      BY <3>1 DEF Latest
    <3>3. Latest(DuesOf(f, r)) = e + n - 1
      BY <1>1, <3>1, <3>2
    <3> QED
      BY <1>1, <3>1, <3>3 DEF NextDue
  <2> QED
    BY <2>1, <2>2
<1> QED
  BY <1>1, <1>2, <1>3 DEF e, n

\* What is observed at a family's revision has one of its dues.
LEMMA DuesAre ==
    ASSUME NEW f, NEW r, NEW t
    PROVE  t \in DuesOf(f, r)
             <=> \E o \in Range(observed) : o.family = f /\ o.rev = r /\ o.due = t
  BY DEF DuesOf

\* A committed observation is the next tick, and counts as one.
LEMMA Observing ==
    ASSUME TypeOK, TicksInSequence, TicksCounted, RevisionsKnown,
           NEW f \in Families, NEW r \in DOMAIN schedules[f],
           NEW who \in {"human", "service"}, NEW found \in Results,
           NextDue(f, r) <= clock,
           observed' = Append(observed, Record(f, r, who, found)),
           UNCHANGED schedules
    PROVE  LET o == Record(f, r, who, found) IN
           /\ o \in Observation
           /\ observed' \in Seq(Observation)
           /\ Len(observed') = Len(observed) + 1
           /\ observed'[Len(observed')] = o
           /\ Range(observed') = Range(observed) \cup {o}
           /\ \A x \in Range(observed) : Tick(x) # Tick(o)
           /\ TicksInSequence' /\ TicksCounted'
           /\ Done(f, r)' = Done(f, r) + 1
           /\ \A g \in Families, s \in Revisions : <<g, s>> # <<f, r>> => Done(g, s)' = Done(g, s)
<1> DEFINE o == Record(f, r, who, found)
           e == schedules[f][r].effective
           n == Len(observed)
<1>1. /\ e \in Nat /\ NextDue(f, r) \in Nat /\ e <= NextDue(f, r)
      /\ DuesOf(f, r) = e .. (NextDue(f, r) - 1) /\ NextDue(f, r) = e + Done(f, r)
  BY NextDueIs
<1>2. /\ r \in Revisions /\ Current(f) \in 1..MaxVersion /\ n \in Nat
      /\ DOMAIN observed = 1..n /\ Done(f, r) \in Nat
  BY RowTypes
<1>3. clock \in Ticks /\ NextDue(f, r) \in Ticks
  BY <1>1, ObservationAssumption DEF TypeOK, Ticks
<1>4. /\ o.family = f /\ o.rev = r /\ o.due = NextDue(f, r)
      /\ o \in Observation
  BY <1>2, <1>3 DEF Record, Observation
<1>5. observed' = Append(observed, o)
  OBVIOUS
<1> HIDE DEF o, e, n
<1>6. /\ observed' \in Seq(Observation)
      /\ Len(observed') = n + 1
      /\ observed'[n + 1] = o
      /\ \A i \in 1..n : observed'[i] = observed[i]
      /\ Range(observed') = Range(observed) \cup {o}
  BY <1>4, <1>5, RangeAppend DEF TypeOK, n
<1>7. DOMAIN observed' = 1..(n + 1)
  BY <1>6, LenProperties
<1>8. ASSUME NEW x \in Range(observed) PROVE Tick(x) # Tick(o)
  <2>1. x.family = f /\ x.rev = r => x.due \in DuesOf(f, r)
    BY DuesAre
  <2> QED
    BY <1>1, <1>4, <2>1 DEF Tick
<1>9. o \notin Range(observed)
  BY <1>8
<1>10. TicksInSequence'
  <2> SUFFICES ASSUME NEW i \in 1..(n + 1)
               PROVE  /\ \A t \in schedules[observed'[i].family][observed'[i].rev].effective
                                     .. observed'[i].due :
                            \E j \in 1..i : Tick(observed'[j])
                                              = <<observed'[i].family, observed'[i].rev, t>>
                      /\ \A j \in 1..(i - 1) : Tick(observed'[j]) # Tick(observed'[i])
    BY <1>7 DEF TicksInSequence
  <2>1. CASE i \in 1..n
    <3>1. \A j \in 1..i : j \in 1..n
      BY <1>2, <2>1
    <3>2. /\ \A t \in schedules[observed[i].family][observed[i].rev].effective
                        .. observed[i].due :
                \E j \in 1..i : Tick(observed[j])
                                  = <<observed[i].family, observed[i].rev, t>>
          /\ \A j \in 1..(i - 1) : Tick(observed[j]) # Tick(observed[i])
      BY <1>2, <2>1 DEF TicksInSequence
    <3>3. \A j \in 1..(i - 1) : j \in 1..n
      BY <1>2, <2>1
    <3> QED
      BY <1>6, <2>1, <3>1, <3>2, <3>3
  <2>2. CASE i = n + 1
    <3>1. ASSUME NEW t \in e .. NextDue(f, r)
          PROVE  \E j \in 1..i : Tick(observed'[j]) = <<f, r, t>>
      <4>1. CASE t = NextDue(f, r)
        BY <1>2, <1>4, <1>6, <2>2, <4>1 DEF Tick
      <4>2. CASE t # NextDue(f, r)
        <5>1. t \in DuesOf(f, r)
          BY <1>1, <4>2
        <5>2. PICK x \in Range(observed) : x.family = f /\ x.rev = r /\ x.due = t
          BY <5>1, DuesAre
        <5>3. PICK j \in 1..n : observed[j] = x
          BY <1>2 DEF Range
        <5>4. observed'[j] = x /\ j \in 1..i
          BY <1>2, <1>6, <2>2, <5>3
        <5> QED
          BY <5>2, <5>4 DEF Tick
      <4> QED
        BY <4>1, <4>2
    <3>2. ASSUME NEW j \in 1..(i - 1) PROVE Tick(observed'[j]) # Tick(o)
      <4>1. j \in 1..n
        BY <1>2, <2>2
      <4> QED
        BY <1>2, <1>6, <1>8, <4>1 DEF Range
    <3>3. observed'[i] = o
      BY <1>6, <2>2
    <3>4. schedules[o.family][o.rev].effective .. o.due = e .. NextDue(f, r)
      BY <1>4 DEF e
    <3>5. \A t \in schedules[o.family][o.rev].effective .. o.due :
             \E j \in 1..i : Tick(observed'[j]) = <<o.family, o.rev, t>>
      BY <1>4, <3>1, <3>4
    <3> QED
      BY <3>2, <3>3, <3>5
  <2>3. i \in 1..n \/ i = n + 1
    BY <1>2
  <2> QED
    BY <2>1, <2>2, <2>3
<1>11. \A g \in Families, s \in Revisions :
          Counted(g, s)' = IF <<g, s>> = <<f, r>> THEN Counted(g, s) \cup {o} ELSE Counted(g, s)
  BY <1>4, <1>6 DEF Counted
<1>12. \A g \in Families, s \in Revisions : IsFiniteSet(Counted(g, s))
  <2>1. IsFiniteSet(Range(observed))
    BY RowTypes
  <2>2. \A g \in Families, s \in Revisions : Counted(g, s) \in SUBSET Range(observed)
    BY DEF Counted
  <2> QED
    BY <2>1, <2>2, FS_Subset
<1>13. /\ Done(f, r)' = Done(f, r) + 1
       /\ \A g \in Families, s \in Revisions : <<g, s>> # <<f, r>> => Done(g, s)' = Done(g, s)
  <2>1. \A g \in Families, s \in Revisions :
           Done(g, s) = Cardinality(Counted(g, s)) /\ Done(g, s)' = Cardinality(Counted(g, s)')
    BY DEF Done, Counted
  <2>2. o \notin Counted(f, r)
    BY <1>9 DEF Counted
  <2>3. Cardinality(Counted(f, r) \cup {o}) = Cardinality(Counted(f, r)) + 1
    BY <1>2, <1>12, <2>2, FS_AddElement
  <2> QED
    BY <1>2, <1>11, <2>1, <2>3
<1>14. TicksCounted'
  <2> SUFFICES ASSUME NEW g \in Families, NEW s \in DOMAIN schedules[g]
               PROVE  DuesOf(g, s)' = schedules[g][s].effective
                                        .. (schedules[g][s].effective + Done(g, s)' - 1)
    BY DEF TicksCounted, Done, DuesOf
  <2>1. s \in Revisions
    BY RowTypes
  <2>2. DuesOf(g, s)' = {x.due : x \in Counted(g, s)'}
        /\ DuesOf(g, s) = {x.due : x \in Counted(g, s)}
    BY DEF DuesOf, Counted
  <2>3. CASE <<g, s>> = <<f, r>>
    <3>1. DuesOf(g, s)' = DuesOf(f, r) \cup {NextDue(f, r)}
      BY <1>4, <1>11, <2>1, <2>2, <2>3
    <3>2. e .. (NextDue(f, r) - 1) \cup {NextDue(f, r)} = e .. NextDue(f, r)
      BY <1>1
    <3>3. e + (Done(f, r) + 1) - 1 = NextDue(f, r)
      BY <1>1, <1>2
    <3> QED
      BY <1>1, <1>13, <2>3, <3>1, <3>2, <3>3 DEF e
  <2>4. CASE <<g, s>> # <<f, r>>
    <3>1. DuesOf(g, s)' = DuesOf(g, s)
      BY <1>11, <2>1, <2>2, <2>4
    <3> QED
      BY <1>13, <2>1, <2>4, <3>1 DEF TicksCounted
  <2> QED
    BY <2>3, <2>4
<1> QED
  BY <1>4, <1>6, <1>8, <1>10, <1>13, <1>14 DEF o, n

-----------------------------------------------------------------------------
(* What a step leaves alone.                                               *)

LEMMA Frame ==
    ASSUME TickInv
    PROVE  /\ UNCHANGED <<schedules, observed>> => TicksInSequence' /\ TicksCounted'
           /\ UNCHANGED schedules => OneActive'
           /\ UNCHANGED <<schedules, observed, dispatched>> => RevisionsKnown'
           /\ UNCHANGED <<observed, dispatched, consumed>> => ConsumptionsMatch'
           /\ UNCHANGED <<dispatched, consumed, worker>> => DispatchesOnce'
           /\ UNCHANGED <<schedules, scheduler, human>> => RequestsKnown'
<1>1. UNCHANGED <<schedules, observed>> => TicksInSequence'
  BY DEF TickInv, TicksInSequence
<1>2. UNCHANGED <<schedules, observed>> => TicksCounted'
  BY DEF TickInv, TicksCounted, DuesOf, Done
<1>3. UNCHANGED schedules => OneActive'
  BY DEF TickInv, OneActive, Active
<1>4. UNCHANGED <<schedules, observed, dispatched>> => RevisionsKnown'
  BY DEF TickInv, RevisionsKnown
<1>5. UNCHANGED <<observed, dispatched, consumed>> => ConsumptionsMatch'
  BY DEF TickInv, ConsumptionsMatch
<1>6. UNCHANGED <<dispatched, consumed, worker>> => DispatchesOnce'
  BY DEF TickInv, DispatchesOnce, Consumed
<1>7. UNCHANGED <<schedules, scheduler, human>> => RequestsKnown'
  BY DEF TickInv, RequestsKnown
<1> QED
  BY <1>1, <1>2, <1>3, <1>4, <1>5, <1>6, <1>7

LEMMA InitTicks == Init => TickInv
<1> SUFFICES ASSUME Init PROVE TickInv
  OBVIOUS
<1> DEFINE first == [kind |-> "initial", origin |-> 0, baseline |-> FALSE]
<1>1. first \in Version /\ <<first>> \in Seq(Version) /\ Len(<<first>>) = 1
  BY ObservationAssumption DEF Version
<1>2. \A f \in Families : schedules[f] = <<>> /\ versions[f] = <<first>>
  BY DEF Init
<1>3. \A f \in Families : DOMAIN schedules[f] = {} /\ Len(schedules[f]) = 0
  BY <1>2
<1>4. Range(observed) = {} /\ DOMAIN observed = {} /\ observed = <<>>
  BY DEF Init, Range
<1>5. TypeOK
  <2>1. schedules \in [Families -> Seq(Schedule)] /\ versions \in [Families -> Seq(Version)]
    BY <1>1 DEF Init
  <2>2. \A f \in Families : Len(schedules[f]) <= MaxRevision /\ Len(versions[f]) \in 1..MaxVersion
    <3>1. 0 <= MaxRevision /\ 1 \in 1..MaxVersion
      BY ObservationAssumption
    <3>2. \A f \in Families : Len(versions[f]) = 1
      BY <1>1, <1>2
    <3> QED
      BY <1>3, <3>1, <3>2
  <2>3. clock \in Ticks
    BY ObservationAssumption DEF Init, Ticks
  <2>4. scheduler \in Iteration
    BY DEF Init, Waiting, Iteration
  <2>5. worker \in [Workers -> WorkerState]
    BY DEF Init, Idle, WorkerState
  <2>6. human \in [Humans -> HumanState]
    BY ObservationAssumption DEF Init, NoRequest, HumanState
  <2> QED
    BY <1>4, <2>1, <2>2, <2>3, <2>4, <2>5, <2>6 DEF TypeOK, Init
<1>6. TicksInSequence /\ TicksCounted /\ OneActive
  BY <1>3, <1>4 DEF TicksInSequence, TicksCounted, OneActive
<1>7. RevisionsKnown /\ ConsumptionsMatch
  BY <1>4 DEF RevisionsKnown, ConsumptionsMatch, Init
<1>8. DispatchesOnce
  BY FS_EmptySet DEF DispatchesOnce, Init, Idle, Range
<1>9. RequestsKnown
  BY DEF RequestsKnown, Init, Waiting, Range
<1> QED
  BY <1>5, <1>6, <1>7, <1>8, <1>9 DEF TickInv

-----------------------------------------------------------------------------
(* Schedules.                                                              *)

\* A step that adds revisions or changes their status.
LEMMA ScheduleStep ==
    ASSUME TickInv, NEW f \in Families, NEW s \in Seq(Schedule), Len(s) <= MaxRevision,
           \A r \in DOMAIN schedules[f] :
              r \in DOMAIN s /\ s[r].effective = schedules[f][r].effective,
           \A q, r \in DOMAIN s : s[q].status = "active" /\ s[r].status = "active" => q = r,
           schedules' = [schedules EXCEPT ![f] = s],
           UNCHANGED <<clock, family, rows, processes>>
    PROVE  TickInv'
<1>1. TypeOK
  BY DEF TickInv
<1>2. UNCHANGED <<clock, versions, deleted, observed, dispatched, consumed, handoffs,
                  scheduler, worker, human>>
  BY DEF family, rows, processes
<1>3. /\ schedules' \in [Families -> Seq(Schedule)]
      /\ \A g \in Families : schedules'[g] = IF g = f THEN s ELSE schedules[g]
  BY <1>1 DEF TypeOK
<1>4. TypeOK'
  BY <1>1, <1>2, <1>3 DEF TypeOK, family
<1>5. \A g \in Families : \A r \in DOMAIN schedules[g] :
         /\ r \in DOMAIN schedules'[g]
         /\ schedules'[g][r].effective = schedules[g][r].effective
  BY <1>3
<1>6. \A o \in Range(observed) \cup dispatched :
         o.family \in Families /\ o.rev \in DOMAIN schedules[o.family]
  BY <1>1, RowTypes DEF TickInv, RevisionsKnown, TypeOK, Observation, Dispatch
<1>7. TicksInSequence'
  <2>1. \A i \in DOMAIN observed : observed[i] \in Range(observed)
    BY DEF Range
  <2> QED
    BY <1>2, <1>5, <1>6, <2>1 DEF TickInv, TicksInSequence
<1>8. TicksCounted'
  <2> SUFFICES ASSUME NEW g \in Families, NEW r \in DOMAIN schedules'[g]
               PROVE  DuesOf(g, r)' = schedules'[g][r].effective
                                        .. (schedules'[g][r].effective + Done(g, r)' - 1)
    BY DEF TicksCounted
  <2>1. DuesOf(g, r)' = DuesOf(g, r) /\ Done(g, r)' = Done(g, r)
    BY <1>2 DEF DuesOf, Done
  <2>2. CASE r \in DOMAIN schedules[g]
    BY <1>5, <2>1, <2>2 DEF TickInv, TicksCounted
  <2>3. CASE r \notin DOMAIN schedules[g]
    <3>1. {o \in Range(observed) : o.family = g /\ o.rev = r} = {}
      BY <1>6, <2>3
    <3>2. DuesOf(g, r) = {} /\ Done(g, r) = 0
      BY <3>1, FS_EmptySet DEF DuesOf, Done
    <3>3. schedules'[g][r].effective \in Nat
      <4>1. schedules'[g] \in Seq(Schedule)
        BY <1>3
      <4>2. schedules'[g][r] \in Schedule
        BY <4>1, LenProperties
      <4> QED
        BY <4>2, ObservationAssumption DEF Schedule, Ticks
    <3> QED
      BY <2>1, <3>2, <3>3
  <2> QED
    BY <2>2, <2>3
<1>9. OneActive'
  BY <1>3 DEF TickInv, OneActive, Active
<1>10. RevisionsKnown'
  BY <1>2, <1>5, <1>6 DEF RevisionsKnown
<1>11. RequestsKnown'
  <2>1. \A c \in Range(scheduler.queue) : c[1] \in Families
    <3>1. scheduler.queue \in Seq(Families \X Revisions)
      BY <1>1 DEF TypeOK, Iteration
    <3> QED
      BY <3>1, RangeOf
  <2> QED
    BY <1>2, <1>5, <2>1 DEF TickInv, RequestsKnown
<1> QED
  BY <1>2, <1>4, <1>7, <1>8, <1>9, <1>10, <1>11, Frame DEF TickInv

LEMMA NewScheduleType ==
    ASSUME NEW e \in Ticks
    PROVE  NewSchedule(e) \in Schedule /\ NewSchedule(e).status = "active"
  BY DEF NewSchedule, Schedule

LEMMA DisabledIs ==
    ASSUME NEW s \in Seq(Schedule), NEW r \in DOMAIN s
    PROVE  LET d == [s EXCEPT ![r] = Disabled(@)] IN
           /\ d \in Seq(Schedule) /\ Len(d) = Len(s) /\ DOMAIN d = DOMAIN s
           /\ \A q \in DOMAIN s : /\ d[q].effective = s[q].effective
                                  /\ d[q].status = IF q = r THEN "disabled" ELSE s[q].status
<1> DEFINE d == [s EXCEPT ![r] = Disabled(@)]
<1>1. s \in [1..Len(s) -> Schedule] /\ Len(s) \in Nat
  BY LenProperties
<1>2. \A x \in Schedule : /\ Disabled(x) \in Schedule
                          /\ Disabled(x).effective = x.effective
                          /\ Disabled(x).status = "disabled"
  BY DEF Disabled, Schedule
<1>3. d \in [1..Len(s) -> Schedule] /\ DOMAIN d = DOMAIN s
  BY <1>1, <1>2
<1>4. d \in Seq(Schedule) /\ Len(d) = Len(s)
  BY <1>1, <1>3
<1> QED
  BY <1>1, <1>2, <1>3, <1>4

\* The revisions after an authorization, a replacement and a disable.
LEMMA AuthorizeIs ==
    ASSUME TickInv, NEW f \in Families, NEW e, Authorize(f, e)
    PROVE  LET s == schedules'[f] IN
           /\ TickInv'
           /\ schedules' = [schedules EXCEPT ![f] = s]
           /\ Len(schedules[f]) < MaxRevision /\ Len(s) = Len(schedules[f]) + 1
           /\ ~Scheduled(f)
           /\ s[Len(s)].status = "active"
           /\ \A r \in DOMAIN schedules[f] : s[r].status # "active"
           /\ \A r \in DOMAIN schedules[f] : s[r].effective = schedules[f][r].effective
<1> DEFINE old == schedules[f]
           s == Append(old, NewSchedule(e))
<1>1. /\ old \in Seq(Schedule) /\ Len(old) \in Nat /\ DOMAIN old = 1..Len(old)
      /\ schedules \in [Families -> Seq(Schedule)]
  BY RowTypes DEF TickInv, TypeOK
<1>2. e \in Ticks /\ Len(old) < MaxRevision
  BY DEF Authorize
<1>3. /\ s \in Seq(Schedule) /\ Len(s) = Len(old) + 1 /\ s[Len(old) + 1] = NewSchedule(e)
      /\ \A r \in 1..Len(old) : s[r] = old[r]
      /\ DOMAIN s = 1..Len(s)
  BY <1>1, <1>2, NewScheduleType, RangeAppend, LenProperties
<1>4. /\ schedules' = [schedules EXCEPT ![f] = s]
      /\ UNCHANGED <<clock, family, rows, processes>>
      /\ ~Scheduled(f)
  BY DEF Authorize
<1>5. schedules'[f] = s
  BY <1>1, <1>4
<1> HIDE DEF s
<1>6. \A r \in 1..Len(old) : s[r].status # "active"
  BY <1>1, <1>3, <1>4 DEF Scheduled, Active
<1>7. \A q, r \in DOMAIN s : s[q].status = "active" /\ s[r].status = "active" => q = r
  BY <1>1, <1>3, <1>6
<1>8. Len(s) <= MaxRevision
  BY <1>1, <1>2, <1>3, ObservationAssumption
<1>9. \A r \in DOMAIN old : r \in DOMAIN s /\ s[r].effective = old[r].effective
  BY <1>1, <1>3
<1>10. TickInv'
  BY <1>3, <1>4, <1>7, <1>8, <1>9, ScheduleStep
<1> QED
  BY <1>1, <1>2, <1>3, <1>4, <1>5, <1>6, <1>9, <1>10, NewScheduleType

LEMMA ReplaceIs ==
    ASSUME TickInv, NEW f \in Families, NEW e, Replace(f, e)
    PROVE  LET s == schedules'[f] IN
           /\ TickInv'
           /\ schedules' = [schedules EXCEPT ![f] = s]
           /\ Len(schedules[f]) < MaxRevision /\ Len(s) = Len(schedules[f]) + 1
           /\ s[Len(s)].status = "active"
           /\ \A r \in DOMAIN schedules[f] : s[r].status # "active"
           /\ \A r \in DOMAIN schedules[f] : s[r].effective = schedules[f][r].effective
<1> DEFINE old == schedules[f]
<1>1. /\ old \in Seq(Schedule) /\ Len(old) \in Nat /\ DOMAIN old = 1..Len(old)
      /\ schedules \in [Families -> Seq(Schedule)]
  BY RowTypes DEF TickInv, TypeOK
<1>2. e \in Ticks /\ Len(old) < MaxRevision
  BY DEF Replace
<1>3. PICK p \in DOMAIN old :
         Active(f, p) /\ schedules' = [schedules EXCEPT ![f] = Replaced(@, p, e)]
  BY DEF Replace
<1> DEFINE d == [old EXCEPT ![p] = Disabled(@)]
           s == Append(d, NewSchedule(e))
<1>4. /\ d \in Seq(Schedule) /\ Len(d) = Len(old) /\ DOMAIN d = DOMAIN old
      /\ \A q \in DOMAIN old : /\ d[q].effective = old[q].effective
                               /\ d[q].status = IF q = p THEN "disabled" ELSE old[q].status
  BY <1>1, <1>3, DisabledIs
<1>5. schedules' = [schedules EXCEPT ![f] = s]
  BY <1>3 DEF Replaced
<1> HIDE DEF d
<1>6. /\ s \in Seq(Schedule) /\ Len(s) = Len(old) + 1 /\ s[Len(old) + 1] = NewSchedule(e)
      /\ \A r \in 1..Len(old) : s[r] = d[r]
      /\ DOMAIN s = 1..Len(s)
  <2>1. /\ s \in Seq(Schedule) /\ Len(s) = Len(d) + 1 /\ s[Len(d) + 1] = NewSchedule(e)
        /\ \A r \in 1..Len(d) : s[r] = d[r]
    BY <1>2, <1>4, NewScheduleType, RangeAppend
  <2>2. DOMAIN s = 1..Len(s)
    BY <2>1, LenProperties
  <2> QED
    BY <1>4, <2>1, <2>2
<1>7. UNCHANGED <<clock, family, rows, processes>>
  BY DEF Replace
<1>8. schedules'[f] = s
  BY <1>1, <1>5
<1> HIDE DEF s
<1>9. \A r \in 1..Len(old) : s[r].status # "active"
  <2>1. \A q, r \in DOMAIN old : old[q].status = "active" /\ old[r].status = "active" => q = r
    BY DEF TickInv, OneActive, Active
  <2> QED
    BY <1>1, <1>3, <1>4, <1>6, <2>1 DEF Active
<1>10. \A q, r \in DOMAIN s : s[q].status = "active" /\ s[r].status = "active" => q = r
  BY <1>1, <1>6, <1>9
<1>11. Len(s) <= MaxRevision
  BY <1>1, <1>2, <1>6, ObservationAssumption
<1>12. \A r \in DOMAIN old : r \in DOMAIN s /\ s[r].effective = old[r].effective
  BY <1>1, <1>4, <1>6
<1>13. TickInv'
  BY <1>5, <1>6, <1>7, <1>10, <1>11, <1>12, ScheduleStep
<1> QED
  BY <1>1, <1>2, <1>5, <1>6, <1>8, <1>9, <1>12, <1>13, NewScheduleType

LEMMA DisableIs ==
    ASSUME TickInv, NEW f \in Families, Disable(f)
    PROVE  LET s == schedules'[f] IN
           /\ TickInv'
           /\ schedules' = [schedules EXCEPT ![f] = s]
           /\ Len(s) = Len(schedules[f]) /\ DOMAIN s = DOMAIN schedules[f]
           /\ Scheduled(f)
           /\ \A r \in DOMAIN schedules[f] : s[r].status # "active"
           /\ \A r \in DOMAIN schedules[f] : s[r].effective = schedules[f][r].effective
<1> DEFINE old == schedules[f]
<1>1. /\ old \in Seq(Schedule) /\ Len(old) <= MaxRevision
      /\ schedules \in [Families -> Seq(Schedule)]
  BY DEF TickInv, TypeOK
<1>2. PICK p \in DOMAIN old :
         Active(f, p) /\ schedules' = [schedules EXCEPT ![f][p] = Disabled(@)]
  BY DEF Disable
<1> DEFINE s == [old EXCEPT ![p] = Disabled(@)]
<1>3. /\ s \in Seq(Schedule) /\ Len(s) = Len(old) /\ DOMAIN s = DOMAIN old
      /\ \A q \in DOMAIN old : /\ s[q].effective = old[q].effective
                               /\ s[q].status = IF q = p THEN "disabled" ELSE old[q].status
  BY <1>1, <1>2, DisabledIs
<1>4. schedules' = [schedules EXCEPT ![f] = s] /\ schedules'[f] = s
  BY <1>1, <1>2
<1> HIDE DEF s
<1>5. UNCHANGED <<clock, family, rows, processes>>
  BY DEF Disable
<1>6. \A r \in DOMAIN old : s[r].status # "active"
  <2>1. \A q, r \in DOMAIN old : old[q].status = "active" /\ old[r].status = "active" => q = r
    BY DEF TickInv, OneActive, Active
  <2> QED
    BY <1>2, <1>3, <2>1 DEF Active
<1>7. TickInv'
  <2>1. Len(s) <= MaxRevision
    BY <1>1, <1>3
  <2>2. \A q, r \in DOMAIN s : s[q].status = "active" /\ s[r].status = "active" => q = r
    BY <1>3, <1>6
  <2>3. \A r \in DOMAIN old : r \in DOMAIN s /\ s[r].effective = old[r].effective
    BY <1>3
  <2> QED
    BY <1>3, <1>4, <1>5, <2>1, <2>2, <2>3, ScheduleStep
<1> QED
  BY <1>2, <1>3, <1>4, <1>6, <1>7 DEF Scheduled

-----------------------------------------------------------------------------
(* Evidence, time and the projector.                                       *)

LEMMA OthersKeep ==
    ASSUME TickInv, TypeOK',
           UNCHANGED <<schedules, observed, dispatched, consumed, scheduler, worker, human>>
    PROVE  TickInv'
<1>1. /\ UNCHANGED schedules
      /\ UNCHANGED <<schedules, observed>> /\ UNCHANGED <<schedules, observed, dispatched>>
      /\ UNCHANGED <<observed, dispatched, consumed>>
      /\ UNCHANGED <<dispatched, consumed, worker>>
      /\ UNCHANGED <<schedules, scheduler, human>>
  OBVIOUS
<1> QED
  BY <1>1, Frame DEF TickInv

\* A step that changes the documents of a family.
LEMMA VersionStep ==
    ASSUME TickInv, NEW f \in Families, NEW s \in Seq(Version), Len(s) \in 1..MaxVersion,
           versions' = [versions EXCEPT ![f] = s],
           UNCHANGED <<clock, provider, schedules, deleted, rows, processes>>
    PROVE  TickInv'
<1>1. UNCHANGED <<clock, provider, schedules, deleted, observed, dispatched, consumed,
                  handoffs, scheduler, worker, human>>
  BY DEF rows, processes
<1>2. /\ versions' \in [Families -> Seq(Version)]
      /\ \A g \in Families : versions'[g] = IF g = f THEN s ELSE versions[g]
  BY DEF TickInv, TypeOK
<1>3. TypeOK'
  BY <1>1, <1>2 DEF TickInv, TypeOK
<1> QED
  BY <1>1, <1>3, OthersKeep

LEMMA NewVersionKeeps ==
    ASSUME TickInv, NEW f \in Families, NEW kind \in {"initial", "admitted", "uploaded", "refreshed"},
           NEW r \in 0..MaxRevision, NewVersion(f, kind, r)
    PROVE  TickInv'
<1> DEFINE v == [kind |-> kind, origin |-> r, baseline |-> FALSE]
           s == Append(versions[f], v)
<1>1. /\ versions[f] \in Seq(Version) /\ Len(versions[f]) \in 1..MaxVersion
      /\ Len(versions[f]) < MaxVersion
  BY DEF TickInv, TypeOK, NewVersion, Current
<1>2. v \in Version
  BY DEF Version
<1> HIDE DEF v
<1>3. s \in Seq(Version) /\ Len(s) = Len(versions[f]) + 1
  BY <1>1, <1>2, AppendProperties
<1>4. Len(s) \in 1..MaxVersion
  BY <1>1, <1>3, ObservationAssumption
<1>5. /\ versions' = [versions EXCEPT ![f] = s]
      /\ UNCHANGED <<clock, provider, schedules, deleted, rows, processes>>
  BY DEF NewVersion, v
<1> HIDE DEF s
<1> QED
  BY <1>3, <1>4, <1>5, VersionStep

LEMMA EvidenceKeeps == TickInv /\ Evidence => TickInv'
<1> SUFFICES ASSUME TickInv, Evidence PROVE TickInv'
  OBVIOUS
<1>1. 0 \in 0..MaxRevision
  BY ObservationAssumption
<1>2. ASSUME NEW f \in Families, AdmitVersion(f) PROVE TickInv'
  BY <1>1, <1>2, NewVersionKeeps DEF AdmitVersion
<1>3. ASSUME NEW f \in Families, UploadVersion(f) PROVE TickInv'
  BY <1>1, <1>3, NewVersionKeeps DEF UploadVersion
<1>4. ASSUME NEW o \in handoffs, Refresh(o) PROVE TickInv'
  <2>1. o \in Observation
    BY RowTypes DEF TickInv, TypeOK
  <2>2. o.family \in Families /\ o.rev \in 0..MaxRevision
    BY <2>1, ObservationAssumption DEF Observation, Revisions
  <2> QED
    BY <1>4, <2>2, NewVersionKeeps DEF Refresh
<1>5. ASSUME NEW f \in Families, EstablishBaseline(f) PROVE TickInv'
  <2> DEFINE v == Current(f)
             s == [versions[f] EXCEPT ![v].baseline = TRUE]
  <2>1. /\ versions[f] \in Seq(Version) /\ v \in 1..Len(versions[f])
        /\ v = Len(versions[f]) /\ v \in 1..MaxVersion
    BY RowTypes DEF TickInv, TypeOK, Current
  <2>2. versions[f] \in [1..Len(versions[f]) -> Version] /\ versions[f][v] \in Version
    BY <2>1, LenProperties
  <2>3. [versions[f][v] EXCEPT !.baseline = TRUE] \in Version
    BY <2>2 DEF Version
  <2>4. s \in [1..Len(versions[f]) -> Version]
    BY <2>2, <2>3
  <2>5. s \in Seq(Version) /\ Len(s) = Len(versions[f])
    BY <2>1, <2>4
  <2>6. /\ versions' = [versions EXCEPT ![f] = s]
        /\ UNCHANGED <<clock, provider, schedules, deleted, rows, processes>>
    BY <1>5 DEF EstablishBaseline
  <2> HIDE DEF s
  <2> QED
    BY <2>1, <2>5, <2>6, VersionStep
<1>6. ASSUME NEW f \in Families, DeleteDocument(f) PROVE TickInv'
  <2>1. UNCHANGED <<clock, provider, schedules, versions, observed, dispatched, consumed,
                    handoffs, scheduler, worker, human>>
    BY <1>6 DEF DeleteDocument, rows, processes
  <2>2. TypeOK'
    BY <1>6, <2>1 DEF TickInv, TypeOK, DeleteDocument
  <2> QED
    BY <2>1, <2>2, OthersKeep
<1> QED
  BY <1>2, <1>3, <1>4, <1>5, <1>6 DEF Evidence

LEMMA TickClockKeeps == TickInv /\ TickClock => TickInv'
<1> SUFFICES ASSUME TickInv, TickClock PROVE TickInv'
  OBVIOUS
<1>1. UNCHANGED <<provider, schedules, versions, deleted, observed, dispatched, consumed,
                  handoffs, scheduler, worker, human>>
  BY DEF TickClock, family, rows, processes
<1>2. clock' \in Ticks
  BY ObservationAssumption DEF TickClock, TickInv, TypeOK, Ticks
<1>3. TypeOK'
  BY <1>1, <1>2 DEF TickInv, TypeOK
<1> QED
  BY <1>1, <1>3, OthersKeep

LEMMA ProjectKeeps == TickInv /\ Project => TickInv'
<1> SUFFICES ASSUME TickInv, Project PROVE TickInv'
  OBVIOUS
<1>1. UNCHANGED <<clock, provider, schedules, versions, deleted, observed, dispatched,
                  consumed, scheduler, worker, human>>
  BY DEF Project, family, processes
<1>2. handoffs' \subseteq Range(observed)
  BY DEF TickInv, TypeOK, Project, Unprojected, Range
<1>3. TypeOK'
  BY <1>1, <1>2 DEF TickInv, TypeOK
<1> QED
  BY <1>1, <1>3, OthersKeep

-----------------------------------------------------------------------------
(* Operators.                                                              *)

LEMMA HumanReadKeeps ==
    ASSUME TickInv, NEW h \in Humans, NEW f \in Families, NEW r \in Revisions, HumanRead(h, f, r)
    PROVE  TickInv'
<1> DEFINE req == [family |-> f, rev |-> r]
<1>1. UNCHANGED <<clock, provider, schedules, versions, deleted, observed, dispatched,
                  consumed, handoffs, scheduler, worker>>
  BY DEF HumanRead, family, rows
<1>2. /\ human' = [human EXCEPT ![h] = req] /\ r \in DOMAIN schedules[f]
      /\ human \in [Humans -> HumanState]
  BY DEF HumanRead, Active, TickInv, TypeOK
<1>3. req \in HumanState
  BY ObservationAssumption DEF HumanState, Revisions
<1>4. TypeOK'
  BY <1>1, <1>2, <1>3 DEF TickInv, TypeOK
<1>5. RequestsKnown'
  BY <1>1, <1>2 DEF TickInv, RequestsKnown
<1> QED
  BY <1>1, <1>4, <1>5, Frame DEF TickInv

\* What an operator observes is the next tick of the revision that is active.
LEMMA HumanObserves ==
    ASSUME TickInv, NEW h \in Humans, NEW found \in Results, HumanExecute(h, found),
           observed' # observed
    PROVE  LET f == human[h].family
               r == human[h].rev
           IN
           /\ f \in Families /\ r \in DOMAIN schedules[f] /\ MayObserve(f, r, TRUE)
           /\ Active(f, r)
           /\ observed' = Append(observed, Record(f, r, "human", found))
<1>1. human[h].family \in Families /\ human[h].rev \in DOMAIN schedules[human[h].family]
  BY DEF HumanExecute, TickInv, RequestsKnown
<1>2. MayObserve(human[h].family, human[h].rev, TRUE)
      => Active(human[h].family, human[h].rev)
  BY DEF MayObserve, LifecycleHolds, Receipts
<1> QED
  BY <1>1, <1>2 DEF HumanExecute

LEMMA HumanExecuteKeeps ==
    ASSUME TickInv, NEW h \in Humans, NEW found \in Results, HumanExecute(h, found)
    PROVE  TickInv'
<1>1. UNCHANGED <<clock, provider, schedules, versions, deleted, dispatched, consumed,
                  handoffs, scheduler, worker>>
  BY DEF HumanExecute, family
<1>2. human' = [human EXCEPT ![h] = NoRequest] /\ human \in [Humans -> HumanState]
  BY DEF HumanExecute, TickInv, TypeOK
<1>3. NoRequest \in HumanState
  BY ObservationAssumption DEF NoRequest, HumanState
<1>4. human' \in [Humans -> HumanState]
  BY <1>2, <1>3
<1>5. RequestsKnown'
  BY <1>1, <1>2 DEF TickInv, RequestsKnown
<1>6. CASE observed' = observed
  <2>1. TypeOK'
    BY <1>1, <1>4, <1>6 DEF TickInv, TypeOK
  <2> QED
    BY <1>1, <1>5, <1>6, <2>1, Frame DEF TickInv
<1>7. CASE observed' # observed
  <2> DEFINE f == human[h].family
             r == human[h].rev
             o == Record(f, r, "human", found)
  <2>1. /\ f \in Families /\ r \in DOMAIN schedules[f] /\ NextDue(f, r) <= clock
        /\ observed' = Append(observed, Record(f, r, "human", found))
    BY <1>7, HumanObserves DEF MayObserve
  <2>2. /\ observed' \in Seq(Observation) /\ Range(observed') = Range(observed) \cup {o}
        /\ TicksInSequence' /\ TicksCounted' /\ o.family = f /\ o.rev = r
    BY <1>1, <2>1, Observing DEF TickInv, Record
  <2> HIDE DEF f, r, o
  <2>3. TypeOK'
    BY <1>1, <1>4, <2>2 DEF TickInv, TypeOK
  <2>4. RevisionsKnown'
    BY <1>1, <2>1, <2>2 DEF TickInv, RevisionsKnown
  <2>5. ConsumptionsMatch'
    BY <1>1, <2>2 DEF TickInv, ConsumptionsMatch
  <2> QED
    BY <1>1, <1>5, <2>2, <2>3, <2>4, <2>5, Frame DEF TickInv
<1> QED
  BY <1>6, <1>7

-----------------------------------------------------------------------------
(* The scheduler.                                                          *)

LEMMA IterateType ==
    ASSUME NEW q \in Seq(Families \X Revisions)
    PROVE  Iterate(q) \in Iteration /\ Iterate(q).queue = q
<1>1. (q # <<>> /\ Active(q[1][1], q[1][2])) \in BOOLEAN
  OBVIOUS
<1> QED
  BY <1>1 DEF Iterate, Iteration

LEMMA CandidatesFinite == IsFiniteSet(Candidates)
<1>1. IsFiniteSet(Revisions)
  BY ObservationAssumption, FS_Interval DEF Revisions
<1>2. IsFiniteSet(Families \X Revisions)
  BY <1>1, ObservationAssumption, FS_Product
<1>3. Candidates \in SUBSET (Families \X Revisions)
  BY DEF Candidates
<1> QED
  BY <1>2, <1>3, FS_Subset

LEMMA ScanKeeps == TickInv /\ Scan => TickInv'
<1> SUFFICES ASSUME TickInv, Scan PROVE TickInv'
  OBVIOUS
<1>1. UNCHANGED <<clock, provider, schedules, versions, deleted, observed, dispatched,
                  consumed, handoffs, worker, human>>
  BY DEF Scan, family, rows
<1>2. PICK q \in SetToSeqs(Candidates) : scheduler' = Iterate(FirstOf(q))
  BY DEF Scan, SortedCandidates
<1>3. q \in Seq(Candidates)
  BY CandidatesFinite, SeqsOf
<1>4. FirstOf(q) \in Seq(Candidates) /\ Range(FirstOf(q)) \subseteq Candidates
  BY <1>3, RangeFirst, RangeOf
<1>5. \A c \in Candidates : c \in Families \X Revisions /\ c[2] \in DOMAIN schedules[c[1]]
  BY DEF Candidates, Active
<1>6. FirstOf(q) \in Seq(Families \X Revisions)
  BY <1>4, <1>5
<1>7. scheduler' \in Iteration /\ scheduler'.queue = FirstOf(q)
  BY <1>2, <1>6, IterateType
<1>8. TypeOK'
  BY <1>1, <1>7 DEF TickInv, TypeOK
<1>9. RequestsKnown'
  BY <1>1, <1>4, <1>5, <1>7 DEF TickInv, RequestsKnown
<1> QED
  BY <1>1, <1>8, <1>9, Frame DEF TickInv

LEMMA VisitKeeps == TickInv /\ Visit => TickInv'
<1> SUFFICES ASSUME TickInv, Visit PROVE TickInv'
  OBVIOUS
<1> DEFINE q == scheduler.queue
           f == q[1][1]
           r == q[1][2]
           d == [family |-> f, rev |-> r, due |-> NextDue(f, r), version |-> Current(f)]
<1>1. UNCHANGED <<clock, provider, schedules, versions, deleted, observed,
                  consumed, handoffs, worker, human>>
  BY DEF Visit, family
<1>2. q \in Seq(Families \X Revisions) /\ q # <<>>
  BY DEF TickInv, TypeOK, Iteration, Visit
<1>3. /\ Tail(q) \in Seq(Families \X Revisions) /\ Range(Tail(q)) \subseteq Range(q)
      /\ q[1] \in Range(q) /\ Range(q) \subseteq Families \X Revisions
  BY <1>2, RangeTail, RangeOf
<1>4. f \in Families /\ r \in DOMAIN schedules[f]
  BY <1>3 DEF TickInv, RequestsKnown
<1>5. Iterate(Tail(q)) \in Iteration /\ Iterate(Tail(q)).queue = Tail(q)
  BY <1>3, IterateType
<1>6. Waiting \in Iteration /\ Range(Waiting.queue) = {}
  BY DEF Waiting, Iteration, Range
<1>7. scheduler' \in {Waiting, Iterate(Tail(q))}
  BY DEF Visit
<1>8. scheduler' \in Iteration /\ Range(scheduler'.queue) \subseteq Range(q)
  BY <1>3, <1>5, <1>6, <1>7
<1>9. RequestsKnown'
  BY <1>1, <1>8 DEF TickInv, RequestsKnown
<1>10. CASE dispatched' = dispatched
  <2>1. TypeOK'
    BY <1>1, <1>8, <1>10 DEF TickInv, TypeOK
  <2> QED
    BY <1>1, <1>9, <1>10, <2>1, Frame DEF TickInv
<1>11. CASE dispatched' # dispatched
  <2>1. /\ dispatched' = dispatched \cup {d} /\ ~(NextDue(f, r) > clock)
        /\ ~ \E x \in dispatched : At(d, x)
    BY <1>11 DEF Visit
  <2>2. /\ NextDue(f, r) \in Nat /\ r \in Revisions /\ Current(f) \in 1..MaxVersion
    BY <1>4, NextDueIs, RowTypes DEF TickInv
  <2>3. NextDue(f, r) \in Ticks
    BY <2>1, <2>2, ObservationAssumption DEF TickInv, TypeOK, Ticks
  <2>4. d \in Dispatch /\ d.family = f /\ d.rev = r
    BY <1>4, <2>2, <2>3 DEF Dispatch
  <2> HIDE DEF d, f, r
  <2>5. TypeOK'
    BY <1>1, <1>8, <2>1, <2>4 DEF TickInv, TypeOK
  <2>6. RevisionsKnown'
    BY <1>1, <1>4, <2>1, <2>4 DEF TickInv, RevisionsKnown
  <2>7. ConsumptionsMatch'
    BY <1>1, <2>1 DEF TickInv, ConsumptionsMatch
  <2>8. DispatchesOnce'
    <3>1. IsFiniteSet(dispatched')
      BY <2>1, FS_AddElement DEF TickInv, DispatchesOnce
    <3>2. \A x, y \in dispatched' : At(x, y) => x = y
      BY <2>1 DEF TickInv, DispatchesOnce, At
    <3> QED
      BY <1>1, <2>1, <3>1, <3>2 DEF TickInv, DispatchesOnce, Consumed
  <2> QED
    BY <1>1, <1>9, <2>5, <2>6, <2>7, <2>8, Frame DEF TickInv
<1> QED
  BY <1>10, <1>11

-----------------------------------------------------------------------------
(* The observation workers.                                                *)

LEMMA DispatchTypes ==
    ASSUME TickInv
    PROVE  /\ dispatched \subseteq Dispatch /\ None \notin Families
           /\ \A w \in Workers : /\ worker[w].queue \in Seq(Dispatch)
                                 /\ worker[w].holding \in Dispatch \cup {None}
                                 /\ worker[w].live \in BOOLEAN
  BY ObservationAssumption DEF TickInv, TypeOK, WorkerState

LEMMA ObservationAtIs ==
    ASSUME NEW d, Observed(d)
    PROVE  ObservationAt(d) \in Range(observed) /\ At(d, ObservationAt(d))
  BY DEF Observed, ObservationAt

\* A worker consumes a dispatch that nobody consumed and nobody else holds.
LEMMA Consuming ==
    ASSUME TickInv, NEW w \in Workers, NEW d \in dispatched, ~Consumed(d),
           \A v \in Workers \ {w} : worker[v].holding # d,
           NEW o \in Observation, NEW s \in {"executed", "linked_existing"},
           Tick(o) = Tick(d), o.version = d.version, s = "executed" => o.actor = "service",
           o \in Range(observed'), Range(observed) \subseteq Range(observed'),
           UNCHANGED dispatched, Consume(w, d, o, s)
    PROVE  /\ consumed' = consumed \cup {[dispatch |-> d, observation |-> o, status |-> s]}
           /\ consumed' \subseteq Consumption /\ worker' \in [Workers -> WorkerState]
           /\ ConsumptionsMatch' /\ DispatchesOnce'
<1> DEFINE c == [dispatch |-> d, observation |-> o, status |-> s]
<1>1. consumed' = consumed \cup {c} /\ worker' = [worker EXCEPT ![w] = Idle]
  BY DEF Consume
<1>2. /\ c \in Consumption /\ c.dispatch = d /\ c.observation = o /\ c.status = s
  BY DispatchTypes DEF Consumption
<1> HIDE DEF c
<1>3. consumed' \subseteq Consumption
  BY <1>1, <1>2 DEF TickInv, TypeOK
<1>4. Idle \in WorkerState /\ Range(Idle.queue) = {} /\ Idle.holding = None
  BY DEF Idle, WorkerState, Range
<1>5. /\ worker' \in [Workers -> WorkerState]
      /\ \A v \in Workers : worker'[v] = IF v = w THEN Idle ELSE worker[v]
  BY <1>1, <1>4 DEF TickInv, TypeOK
<1>6. \A x \in consumed : x.dispatch # d
  BY DEF Consumed
<1>7. ConsumptionsMatch'
  <2>1. ASSUME NEW x \in consumed'
        PROVE  /\ x.dispatch \in dispatched' /\ x.observation \in Range(observed')
               /\ Tick(x.observation) = Tick(x.dispatch)
               /\ x.observation.version = x.dispatch.version
               /\ x.status = "executed" => x.observation.actor = "service"
    BY <1>1, <1>2 DEF TickInv, ConsumptionsMatch
  <2>2. ASSUME NEW x \in consumed', NEW y \in consumed', y.dispatch = x.dispatch PROVE y = x
    BY <1>1, <1>2, <1>6, <2>2 DEF TickInv, ConsumptionsMatch
  <2> QED
    BY <2>1, <2>2 DEF ConsumptionsMatch
<1>8. DispatchesOnce'
  <2>1. ASSUME NEW v \in Workers, worker'[v].holding # None
        PROVE  /\ v # w /\ worker'[v] = worker[v]
               /\ worker[v].queue # <<>> /\ worker[v].holding \in dispatched
               /\ ~Consumed(worker[v].holding) /\ worker[v].holding # d
               /\ \A u \in Workers \ {v} : worker[u].holding # worker[v].holding
    BY <1>4, <1>5, <2>1 DEF TickInv, DispatchesOnce
  <2>2. \A x : (\E y \in consumed' : y.dispatch = x) <=> Consumed(x) \/ x = d
    BY <1>1, <1>2 DEF Consumed
  <2>3. ASSUME NEW v \in Workers, worker'[v].holding # None
        PROVE  /\ worker'[v].queue # <<>> /\ worker'[v].holding \in dispatched
               /\ ~ \E y \in consumed' : y.dispatch = worker'[v].holding
               /\ \A u \in Workers \ {v} : worker'[u].holding # worker'[v].holding
    BY <1>4, <1>5, <2>1, <2>2, <2>3
  <2>4. \A v \in Workers : Range(worker'[v].queue) \subseteq dispatched
    BY <1>4, <1>5 DEF TickInv, DispatchesOnce
  <2>5. IsFiniteSet(dispatched) /\ \A x, y \in dispatched : At(x, y) => x = y
    BY DEF TickInv, DispatchesOnce
  <2> QED
    BY <2>3, <2>4, <2>5 DEF DispatchesOnce, Consumed
<1> QED
  BY <1>1, <1>3, <1>5, <1>7, <1>8 DEF c

\* A worker leaves a dispatch and goes on with the next of its queue.
LEMMA GoingOn ==
    ASSUME TickInv, NEW w \in Workers, worker[w].queue # <<>>, GoOn(w),
           UNCHANGED <<dispatched, consumed>>
    PROVE  worker' \in [Workers -> WorkerState] /\ DispatchesOnce'
<1> DEFINE row == [Idle EXCEPT !.queue = Tail(worker[w].queue)]
<1>1. /\ Tail(worker[w].queue) \in Seq(Dispatch)
      /\ Range(Tail(worker[w].queue)) \subseteq dispatched
  BY DispatchTypes, RangeTail DEF TickInv, DispatchesOnce
<1>2. row \in WorkerState /\ row.queue = Tail(worker[w].queue) /\ row.holding = None
  BY <1>1 DEF Idle, WorkerState
<1>3. worker' = [worker EXCEPT ![w] = row]
  BY DEF GoOn
<1> HIDE DEF row
<1>4. /\ worker' \in [Workers -> WorkerState]
      /\ \A v \in Workers : worker'[v] = IF v = w THEN row ELSE worker[v]
  BY <1>2, <1>3 DEF TickInv, TypeOK
<1>5. DispatchesOnce'
  BY <1>1, <1>2, <1>4 DEF TickInv, DispatchesOnce, Consumed
<1> QED
  BY <1>4, <1>5

\* A step of a worker that observes nothing.
LEMMA WorkerStep ==
    ASSUME TickInv, consumed' \subseteq Consumption, worker' \in [Workers -> WorkerState],
           ConsumptionsMatch', DispatchesOnce',
           UNCHANGED <<clock, schedules, family, observed, dispatched, handoffs, scheduler, human>>
    PROVE  TickInv'
<1>1. TypeOK'
  BY DEF TickInv, TypeOK, family
<1> QED
  BY <1>1, Frame DEF TickInv

LEMMA Linking ==
    ASSUME TickInv, NEW w \in Workers, NEW d \in dispatched, ~Consumed(d), Observed(d),
           \A v \in Workers \ {w} : worker[v].holding # d, worker[w].queue # <<>>,
           Link(w, d),
           UNCHANGED <<clock, schedules, family, observed, dispatched, handoffs, scheduler, human>>
    PROVE  /\ TickInv'
           /\ \/ UNCHANGED consumed
              \/ \E o \in Range(observed) :
                    /\ Tick(o) = Tick(d)
                    /\ consumed' = consumed \cup {[dispatch |-> d, observation |-> o,
                                                   status |-> "linked_existing"]}
<1> DEFINE o == ObservationAt(d)
<1>1. o \in Range(observed) /\ o \in Observation /\ At(d, o) /\ Tick(o) = Tick(d)
  BY ObservationAtIs, RowTypes DEF TickInv, At, Tick
<1> HIDE DEF o
<1>2. CASE Match(d, o) /\ Intact(o) /\ Consume(w, d, o, "linked_existing")
  <2>1. o.version = d.version
    BY <1>2 DEF Match
  <2>2. /\ consumed' = consumed \cup {[dispatch |-> d, observation |-> o,
                                       status |-> "linked_existing"]}
        /\ consumed' \subseteq Consumption /\ worker' \in [Workers -> WorkerState]
        /\ ConsumptionsMatch' /\ DispatchesOnce'
    BY <1>1, <1>2, <2>1, Consuming
  <2> QED
    BY <1>1, <2>2, WorkerStep
<1>3. CASE GoOn(w) /\ UNCHANGED consumed
  <2>1. worker' \in [Workers -> WorkerState] /\ DispatchesOnce'
    BY <1>3, GoingOn
  <2>2. ConsumptionsMatch' /\ consumed' \subseteq Consumption
    BY <1>3, Frame DEF TickInv, TypeOK
  <2> QED
    BY <1>3, <2>1, <2>2, WorkerStep
<1> QED
  BY <1>2, <1>3 DEF Link, o

LEMMA PollKeeps ==
    ASSUME TickInv, NEW w \in Workers, Poll(w)
    PROVE  TickInv'
<1>1. PICK q \in Orders(Outstanding) : worker' = [worker EXCEPT ![w].queue = FirstOf(q)]
  BY DEF Poll
<1>2. IsFiniteSet(Outstanding) /\ Outstanding \subseteq dispatched
  <2>1. Outstanding \in SUBSET dispatched
    BY DEF Outstanding
  <2> QED
    BY <2>1, FS_Subset DEF TickInv, DispatchesOnce
<1>3. q \in Seq(Outstanding)
  BY <1>1, <1>2, SeqsOf DEF Orders
<1>4. FirstOf(q) \in Seq(Outstanding) /\ Range(FirstOf(q)) \subseteq dispatched
  BY <1>2, <1>3, RangeFirst, RangeOf
<1>5. FirstOf(q) \in Seq(Dispatch)
  BY <1>2, <1>4, DispatchTypes
<1> DEFINE row == [Idle EXCEPT !.queue = FirstOf(q)]
<1>6. worker[w] = Idle /\ worker[w] \in WorkerState
  BY DEF Poll, TickInv, TypeOK
<1>7. row \in WorkerState /\ row.queue = FirstOf(q) /\ row.holding = None
  BY <1>5 DEF WorkerState, Idle
<1>8. worker' = [worker EXCEPT ![w] = row]
  BY <1>1, <1>6 DEF TickInv, TypeOK
<1> HIDE DEF row
<1>9. /\ worker' \in [Workers -> WorkerState]
      /\ \A v \in Workers : worker'[v] = IF v = w THEN row ELSE worker[v]
  BY <1>7, <1>8 DEF TickInv, TypeOK
<1>10. UNCHANGED <<clock, schedules, family, observed, dispatched, consumed, handoffs,
                   scheduler, human>>
  BY DEF Poll, rows
<1>11. DispatchesOnce'
  BY <1>4, <1>7, <1>9, <1>10 DEF TickInv, DispatchesOnce, Consumed
<1>12. ConsumptionsMatch' /\ consumed' \subseteq Consumption
  BY <1>10, Frame DEF TickInv, TypeOK
<1> QED
  BY <1>9, <1>10, <1>11, <1>12, WorkerStep

\* What a worker has open, it consumes at most.
LEMMA OpenIs ==
    ASSUME TickInv, NEW w \in Workers, Open(w)
    PROVE  LET d == Head(worker[w].queue) IN
           /\ TickInv'
           /\ UNCHANGED <<schedules, observed>>
           /\ \/ UNCHANGED consumed
              \/ /\ d \in dispatched /\ ~Consumed(d)
                 /\ \E o \in Range(observed) :
                       /\ Tick(o) = Tick(d)
                       /\ consumed' = consumed \cup {[dispatch |-> d, observation |-> o,
                                                      status |-> "linked_existing"]}
<1> DEFINE d == Head(worker[w].queue)
<1>1. /\ worker[w].queue # <<>> /\ worker[w].holding = None
      /\ \A v \in Workers : worker[v].holding # d
      /\ UNCHANGED <<clock, schedules, family, observed, dispatched, handoffs, scheduler, human>>
  BY DEF Open
<1>2. d \in dispatched /\ d \in Dispatch
  BY <1>1, DispatchTypes, RangeTail DEF TickInv, DispatchesOnce
<1> HIDE DEF d
<1>3. ASSUME UNCHANGED consumed, worker' \in [Workers -> WorkerState], DispatchesOnce'
      PROVE  TickInv'
  <2>1. ConsumptionsMatch' /\ consumed' \subseteq Consumption
    BY <1>1, <1>3, Frame DEF TickInv, TypeOK
  <2> QED
    BY <1>1, <1>3, <2>1, WorkerStep
<1>4. CASE worker' = [worker EXCEPT ![w] = Idle] /\ UNCHANGED consumed
  <2>1. Idle \in WorkerState /\ Range(Idle.queue) = {} /\ Idle.holding = None
    BY DEF Idle, WorkerState, Range
  <2>2. /\ worker' \in [Workers -> WorkerState]
        /\ \A v \in Workers : worker'[v] = IF v = w THEN Idle ELSE worker[v]
    BY <1>4, <2>1 DEF TickInv, TypeOK
  <2>3. DispatchesOnce'
    BY <1>1, <1>4, <2>1, <2>2 DEF TickInv, DispatchesOnce, Consumed
  <2> QED
    BY <1>1, <1>3, <1>4, <2>2, <2>3
<1>5. CASE GoOn(w) /\ UNCHANGED consumed
  BY <1>1, <1>3, <1>5, GoingOn
<1>6. CASE ~Consumed(d) /\ Observed(d) /\ Link(w, d)
  BY <1>1, <1>2, <1>6, Linking DEF d
<1>7. CASE /\ ~Consumed(d) /\ UNCHANGED consumed
           /\ worker' = [worker EXCEPT ![w].holding = d, ![w].live = Active(d.family, d.rev)]
  <2> DEFINE row == [worker[w] EXCEPT !.holding = d, !.live = Active(d.family, d.rev)]
  <2>1. Active(d.family, d.rev) \in BOOLEAN
    BY DEF Active
  <2>2. /\ row \in WorkerState /\ row.queue = worker[w].queue /\ row.holding = d
    BY <1>2, <2>1 DEF TickInv, TypeOK, WorkerState
  <2>3. worker' = [worker EXCEPT ![w] = row]
    BY <1>7 DEF TickInv, TypeOK, WorkerState
  <2> HIDE DEF row
  <2>4. /\ worker' \in [Workers -> WorkerState]
        /\ \A v \in Workers : worker'[v] = IF v = w THEN row ELSE worker[v]
    BY <2>2, <2>3 DEF TickInv, TypeOK
  <2>5. DispatchesOnce'
    <3>1. \A x : Consumed(x)' <=> Consumed(x)
      BY <1>7 DEF Consumed
    <3>2. /\ IsFiniteSet(dispatched) /\ \A x, y \in dispatched : At(x, y) => x = y
          /\ \A v \in Workers : Range(worker'[v].queue) \subseteq dispatched
      BY <2>2, <2>4 DEF TickInv, DispatchesOnce
    <3>3. ASSUME NEW v \in Workers, worker'[v].holding # None
          PROVE  /\ worker'[v].queue # <<>> /\ worker'[v].holding \in dispatched
                 /\ ~Consumed(worker'[v].holding)
                 /\ \A u \in Workers \ {v} : worker'[u].holding # worker'[v].holding
      <4>1. CASE v = w
        BY <1>1, <1>2, <1>7, <2>2, <2>4, <4>1
      <4>2. CASE v # w
        BY <1>1, <2>2, <2>4, <3>3, <4>2 DEF TickInv, DispatchesOnce
      <4> QED
        BY <4>1, <4>2
    <3> QED
      BY <1>1, <3>1, <3>2, <3>3 DEF DispatchesOnce, Consumed
  <2> QED
    BY <1>1, <1>3, <1>7, <2>4, <2>5
<1> QED
  BY <1>1, <1>2, <1>4, <1>5, <1>6, <1>7, Linking DEF Open, d

\* What a worker observes is the tick of the dispatch it holds.
LEMMA ExecuteIs ==
    ASSUME TickInv, NEW w \in Workers, NEW found \in Results, Execute(w, found)
    PROVE  LET d == worker[w].holding
               o == Record(d.family, d.rev, "service", found)
           IN
           /\ d \in dispatched /\ d.family \in Families
           /\ d.rev \in DOMAIN schedules[d.family]
           /\ ~Consumed(d) /\ \A v \in Workers \ {w} : worker[v].holding # d
           /\ MayObserve(d.family, d.rev, worker[w].live) /\ Active(d.family, d.rev)
           /\ Tick(o) = Tick(d) /\ o.version = d.version /\ o.actor = "service"
<1> DEFINE d == worker[w].holding
<1>1. /\ d # None /\ MayObserve(d.family, d.rev, worker[w].live)
      /\ d.due = NextDue(d.family, d.rev) /\ d.version = Current(d.family)
  BY DEF Execute, MayExecute
<1>2. d \in dispatched /\ ~Consumed(d) /\ \A v \in Workers \ {w} : worker[v].holding # d
  BY <1>1 DEF TickInv, DispatchesOnce
<1>3. d \in Dispatch /\ d.family \in Families
  BY <1>2, DispatchTypes DEF Dispatch
<1>4. d.rev \in DOMAIN schedules[d.family]
  BY <1>2 DEF TickInv, RevisionsKnown
<1>5. worker[w].live = TRUE /\ Active(d.family, d.rev)
  BY <1>1, DispatchTypes DEF MayObserve, LifecycleHolds, Receipts
<1> QED
  BY <1>1, <1>2, <1>3, <1>4, <1>5 DEF Record, Tick

LEMMA ExecuteKeeps ==
    ASSUME TickInv, NEW w \in Workers, NEW found \in Results, Execute(w, found)
    PROVE  TickInv'
<1> DEFINE d == worker[w].holding
           o == Record(d.family, d.rev, "service", found)
<1>1. /\ d \in dispatched /\ d.family \in Families /\ d.rev \in DOMAIN schedules[d.family]
      /\ ~Consumed(d) /\ \A v \in Workers \ {w} : worker[v].holding # d
      /\ NextDue(d.family, d.rev) <= clock
      /\ Tick(o) = Tick(d) /\ o.version = d.version /\ o.actor = "service"
  BY ExecuteIs DEF MayObserve
<1>2. /\ observed' = Append(observed, o) /\ Consume(w, d, o, "executed")
      /\ UNCHANGED <<clock, provider, schedules, versions, deleted, dispatched, handoffs,
                     scheduler, human>>
  BY DEF Execute, family
<1>3. /\ o \in Observation /\ observed' \in Seq(Observation)
      /\ Range(observed') = Range(observed) \cup {o}
      /\ TicksInSequence' /\ TicksCounted'
  BY <1>1, <1>2, Observing DEF TickInv
<1>4. o.family = d.family /\ o.rev = d.rev
  BY DEF Record
<1> HIDE DEF d, o
<1>5. /\ consumed' \subseteq Consumption /\ worker' \in [Workers -> WorkerState]
      /\ ConsumptionsMatch' /\ DispatchesOnce'
  BY <1>1, <1>2, <1>3, Consuming
<1>6. TypeOK'
  BY <1>2, <1>3, <1>5 DEF TickInv, TypeOK
<1>7. RevisionsKnown'
  BY <1>1, <1>2, <1>3, <1>4 DEF TickInv, RevisionsKnown
<1> QED
  BY <1>2, <1>3, <1>5, <1>6, <1>7, Frame DEF TickInv

LEMMA ConflictIs ==
    ASSUME TickInv, NEW w \in Workers, Conflict(w)
    PROVE  LET d == worker[w].holding IN
           /\ TickInv'
           /\ UNCHANGED <<schedules, observed>>
           /\ \/ UNCHANGED consumed
              \/ /\ d \in dispatched /\ ~Consumed(d)
                 /\ \E o \in Range(observed) :
                       /\ Tick(o) = Tick(d)
                       /\ consumed' = consumed \cup {[dispatch |-> d, observation |-> o,
                                                      status |-> "linked_existing"]}
<1> DEFINE d == worker[w].holding
<1>1. /\ d \in dispatched /\ ~Consumed(d) /\ \A v \in Workers \ {w} : worker[v].holding # d
      /\ worker[w].queue # <<>>
  BY DEF Conflict, TickInv, DispatchesOnce
<1>2. UNCHANGED <<clock, schedules, family, observed, dispatched, handoffs, scheduler, human>>
  BY DEF Conflict
<1> HIDE DEF d
<1>3. CASE Observed(d) /\ Link(w, d)
  BY <1>1, <1>2, <1>3, Linking DEF d
<1>4. CASE GoOn(w) /\ UNCHANGED consumed
  <2>1. worker' \in [Workers -> WorkerState] /\ DispatchesOnce'
    BY <1>1, <1>2, <1>4, GoingOn
  <2>2. ConsumptionsMatch' /\ consumed' \subseteq Consumption
    BY <1>2, <1>4, Frame DEF TickInv, TypeOK
  <2> QED
    BY <1>2, <1>4, <2>1, <2>2, WorkerStep
<1> QED
  BY <1>3, <1>4 DEF Conflict, d

-----------------------------------------------------------------------------
(* The invariant.                                                          *)

LEMMA NextTicks == TickInv /\ [Next]_vars => TickInv'
<1> SUFFICES ASSUME TickInv, [Next]_vars PROVE TickInv'
  OBVIOUS
<1>1. CASE TickClock
  BY <1>1, TickClockKeeps
<1>2. CASE Lifecycle
  BY <1>2, AuthorizeIs, ReplaceIs, DisableIs DEF Lifecycle
<1>3. CASE Evidence
  BY <1>3, EvidenceKeeps
<1>4. CASE \E h \in Humans : Operator(h)
  BY <1>4, HumanReadKeeps, HumanExecuteKeeps DEF Operator
<1>5. CASE Scan \/ Visit
  BY <1>5, ScanKeeps, VisitKeeps
<1>6. CASE \E w \in Workers : Service(w)
  BY <1>6, PollKeeps, OpenIs, ExecuteKeeps, ConflictIs DEF Service
<1>7. CASE Project
  BY <1>7, ProjectKeeps
<1>8. CASE UNCHANGED vars
  <2>1. UNCHANGED <<clock, provider, schedules, versions, deleted, observed, dispatched,
                    consumed, handoffs, scheduler, worker, human>>
    BY <1>8 DEF vars
  <2>2. TypeOK'
    BY <2>1 DEF TickInv, TypeOK
  <2> QED
    BY <2>1, <2>2, OthersKeep
<1> QED
  BY <1>1, <1>2, <1>3, <1>4, <1>5, <1>6, <1>7, <1>8 DEF Next

\* The ticks of a schedule revision are observed in sequence, none skipped and
\* none twice, whoever observes them, and a dispatch is consumed once, with the
\* observation of its tick on its version (due_tick_observation_service.py,
\* due_tick_dispatch_consumption_service.py).
THEOREM TicksAreInSequence == Spec => []TickInv
<1> QED
  BY InitTicks, NextTicks, PTL DEF Spec

\* An observation is committed only under the active revision and for the
\* current document, whatever was committed while its request waited for the
\* binding lock.
THEOREM ObservationsHaveAuthority == Spec => ObservesUnderAuthority
<1> DEFINE Guarded == observed' # observed =>
                        LET o == observed'[Len(observed')] IN
                        /\ Active(o.family, o.rev)
                        /\ o.version = Current(o.family)
                        /\ o.family \notin deleted
                        /\ o.due <= clock
<1>1. TickInv /\ [Next]_vars => [Guarded]_vars
  <2> SUFFICES ASSUME TickInv, [Next]_vars, observed' # observed
               PROVE  LET o == observed'[Len(observed')] IN
                      /\ Active(o.family, o.rev)
                      /\ o.version = Current(o.family)
                      /\ o.family \notin deleted
                      /\ o.due <= clock
    OBVIOUS
  <2>1. ASSUME NEW f \in Families, NEW r \in DOMAIN schedules[f], NEW live,
               NEW who \in {"human", "service"}, NEW found \in Results,
               Active(f, r), MayObserve(f, r, live), UNCHANGED schedules,
               observed' = Append(observed, Record(f, r, who, found))
        PROVE  LET o == observed'[Len(observed')] IN
               /\ Active(o.family, o.rev)
               /\ o.version = Current(o.family)
               /\ o.family \notin deleted
               /\ o.due <= clock
    <3> DEFINE o == Record(f, r, who, found)
    <3>1. NextDue(f, r) <= clock /\ f \notin deleted
      BY <2>1 DEF MayObserve, Bound
    <3>2. observed'[Len(observed')] = o
      BY <2>1, <3>1, Observing DEF TickInv
    <3>3. /\ o.family = f /\ o.rev = r /\ o.due = NextDue(f, r) /\ o.version = Current(f)
      BY DEF Record
    <3> HIDE DEF o
    <3> QED
      BY <2>1, <3>1, <3>2, <3>3
  <2>2. CASE \E h \in Humans : Operator(h)
    <3>1. PICK h \in Humans, found \in Results : HumanExecute(h, found)
      BY <2>2 DEF Operator, HumanRead, rows
    <3>2. /\ human[h].family \in Families
          /\ human[h].rev \in DOMAIN schedules[human[h].family]
          /\ MayObserve(human[h].family, human[h].rev, TRUE)
          /\ Active(human[h].family, human[h].rev)
          /\ observed' = Append(observed,
                                Record(human[h].family, human[h].rev, "human", found))
      BY <3>1, HumanObserves
    <3>3. UNCHANGED schedules
      BY <3>1 DEF HumanExecute
    <3> QED
      BY <2>1, <3>2, <3>3
  <2>3. CASE \E w \in Workers : Service(w)
    <3>1. PICK w \in Workers, found \in Results : Execute(w, found)
      BY <2>3 DEF Service, Poll, Open, Conflict, rows
    <3> DEFINE d == worker[w].holding
    <3>2. /\ d.family \in Families /\ d.rev \in DOMAIN schedules[d.family]
          /\ MayObserve(d.family, d.rev, worker[w].live) /\ Active(d.family, d.rev)
      BY <3>1, ExecuteIs
    <3>3. /\ UNCHANGED schedules
          /\ observed' = Append(observed, Record(d.family, d.rev, "service", found))
      BY <3>1 DEF Execute
    <3> HIDE DEF d
    <3> QED
      BY <2>1, <3>2, <3>3
  <2>4. CASE TickClock \/ Lifecycle \/ Evidence
    BY <2>4 DEF TickClock, Lifecycle, Authorize, Replace, Disable, Evidence, AdmitVersion,
                UploadVersion, Refresh, EstablishBaseline, DeleteDocument, NewVersion, rows
  <2>5. CASE Scan \/ Visit \/ Project \/ UNCHANGED vars
    BY <2>5 DEF Scan, Visit, Project, vars, rows
  <2> QED
    BY <2>2, <2>3, <2>4, <2>5 DEF Next
<1> QED
  BY <1>1, TicksAreInSequence, PTL DEF Spec, ObservesUnderAuthority

-----------------------------------------------------------------------------
(* The schedules, processes and documents implement TickLedger: every step *)
(* opens or closes a revision, counts or settles a tick, or is a stutter.  *)

\* The place of a dispatched tick among the ticks of its revision.
Place(d) == <<d.family, d.rev, d.due - schedules[d.family][d.rev].effective + 1>>
Settled == {Place(c.dispatch) : c \in consumed}
Counts == [f \in Families |-> [r \in Revisions |-> Done(f, r)]]
Lengths == [f \in Families |-> Len(schedules[f])]
Opens == [f \in Families |-> OpenRevision(f)]

LEMMA SettledIs ==
    Settled = {<<c.dispatch.family, c.dispatch.rev,
                 c.dispatch.due - schedules[c.dispatch.family][c.dispatch.rev].effective + 1>>
                 : c \in consumed}
  BY DEF Settled, Place

LEMMA OpenIsActive ==
    ASSUME OneActive, NEW f \in Families
    PROVE  /\ \A r \in DOMAIN schedules[f] : Active(f, r) => OpenRevision(f) = r
           /\ ~Scheduled(f) => OpenRevision(f) = 0
           /\ Scheduled(f) => /\ OpenRevision(f) \in DOMAIN schedules[f]
                              /\ Active(f, OpenRevision(f))
  BY DEF OneActive, OpenRevision, Scheduled

LEMMA LedgerStutter ==
    ASSUME UNCHANGED <<schedules, observed, consumed>>
    PROVE  UNCHANGED Ledger!vars
<1>1. \A f, r : Active(f, r)' <=> Active(f, r)
  BY DEF Active
<1>2. Opens' = Opens
  BY DEF Opens, OpenRevision, Scheduled, Active
<1>3. Lengths' = Lengths /\ Settled' = Settled
  BY DEF Lengths, Settled, Place
<1>4. Counts' = Counts
  BY DEF Counts, Done
<1> QED
  BY <1>2, <1>3, <1>4 DEF Ledger!vars, Opens, Lengths, Settled, Place, Counts

LEMMA LedgerInit == Init => Ledger!Init
<1> SUFFICES ASSUME Init PROVE Ledger!Init
  OBVIOUS
<1>1. \A f \in Families : DOMAIN schedules[f] = {} /\ Len(schedules[f]) = 0
  BY DEF Init
<1>2. \A f \in Families : OpenRevision(f) = 0
  BY <1>1 DEF OpenRevision, Scheduled
<1>3. Range(observed) = {}
  BY DEF Init, Range
<1>4. \A f, r : Done(f, r) = 0
  <2>1. \A f, r : {o \in Range(observed) : o.family = f /\ o.rev = r} = {}
    BY <1>3
  <2> QED
    BY <2>1, FS_EmptySet DEF Done
<1> QED
  BY <1>1, <1>2, <1>4 DEF Ledger!Init, Init, Revisions

\* A step of the schedules of one family.
LEMMA LedgerSchedules ==
    ASSUME TickInv, NEW f \in Families, NEW s, schedules' = [schedules EXCEPT ![f] = s],
           \A r \in DOMAIN schedules[f] : s[r].effective = schedules[f][r].effective,
           UNCHANGED <<observed, consumed>>
    PROVE  /\ Counts' = Counts /\ Settled' = Settled
           /\ Lengths' = [Lengths EXCEPT ![f] = Len(s)]
           /\ Opens' = [Opens EXCEPT ![f] = OpenRevision(f)']
<1>1. \A g \in Families : schedules'[g] = IF g = f THEN s ELSE schedules[g]
  BY DEF TickInv, TypeOK
<1>2. Counts' = Counts
  BY DEF Counts, Done
<1>3. Lengths' = [Lengths EXCEPT ![f] = Len(s)]
  <2>1. \A g \in Families : Len(schedules'[g]) = IF g = f THEN Len(s) ELSE Len(schedules[g])
    BY <1>1
  <2> QED
    BY <2>1 DEF Lengths
<1>4. Opens' = [Opens EXCEPT ![f] = OpenRevision(f)']
  <2>1. \A g \in Families \ {f} : OpenRevision(g)' = OpenRevision(g)
    BY <1>1 DEF OpenRevision, Scheduled, Active
  <2> QED
    BY <2>1 DEF Opens
<1>5. \A c \in consumed : /\ c.dispatch.family \in Families
                          /\ c.dispatch.rev \in DOMAIN schedules[c.dispatch.family]
  <2>1. \A c \in consumed : c.dispatch \in dispatched
    BY DEF TickInv, ConsumptionsMatch
  <2>2. \A d \in dispatched : d.family \in Families /\ d.rev \in DOMAIN schedules[d.family]
    BY DispatchTypes DEF Dispatch, TickInv, RevisionsKnown
  <2> QED
    BY <2>1, <2>2
<1>6. Settled' = Settled
  BY <1>1, <1>5 DEF Settled, Place
<1> QED
  BY <1>2, <1>3, <1>4, <1>6

LEMMA LedgerOpens ==
    ASSUME TickInv, NEW f \in Families, \E e : Authorize(f, e) \/ Replace(f, e)
    PROVE  Ledger!OpenRevision(f)
<1> DEFINE s == schedules'[f]
<1>1. /\ TickInv'
      /\ schedules' = [schedules EXCEPT ![f] = s]
      /\ Len(schedules[f]) < MaxRevision /\ Len(s) = Len(schedules[f]) + 1
      /\ s[Len(s)].status = "active"
      /\ \A r \in DOMAIN schedules[f] : s[r].effective = schedules[f][r].effective
  BY AuthorizeIs, ReplaceIs
<1>2. UNCHANGED <<observed, consumed>>
  BY DEF Authorize, Replace, rows
<1>3. /\ s \in Seq(Schedule) /\ OneActive' /\ Len(schedules[f]) \in Nat
  BY <1>1, RowTypes DEF TickInv, TypeOK
<1>4. Len(s) \in DOMAIN s
  BY <1>1, <1>3, LenProperties
<1>5. OpenRevision(f)' = Len(s)
  BY <1>1, <1>3, <1>4 DEF OneActive, OpenRevision, Scheduled, Active
<1>6. /\ Counts' = Counts /\ Settled' = Settled
      /\ Lengths' = [Lengths EXCEPT ![f] = Len(s)]
      /\ Opens' = [Opens EXCEPT ![f] = OpenRevision(f)']
  BY <1>1, <1>2, LedgerSchedules
<1>7. /\ Lengths[f] < MaxRevision
      /\ Lengths' = [Lengths EXCEPT ![f] = @ + 1]
      /\ Opens' = [Opens EXCEPT ![f] = Lengths[f] + 1]
  BY <1>1, <1>5, <1>6 DEF Lengths
<1> QED
  BY <1>6, <1>7 DEF Ledger!OpenRevision, Opens, Lengths, Settled, Place, Counts

LEMMA LedgerCloses ==
    ASSUME TickInv, NEW f \in Families, Disable(f)
    PROVE  Ledger!CloseRevision(f)
<1> DEFINE s == schedules'[f]
<1>1. /\ schedules' = [schedules EXCEPT ![f] = s]
      /\ Len(s) = Len(schedules[f]) /\ DOMAIN s = DOMAIN schedules[f]
      /\ Scheduled(f)
      /\ \A r \in DOMAIN schedules[f] : s[r].status # "active"
      /\ \A r \in DOMAIN schedules[f] : s[r].effective = schedules[f][r].effective
  BY DisableIs
<1>2. UNCHANGED <<observed, consumed>>
  BY DEF Disable, rows
<1>3. OpenRevision(f)' = 0
  BY <1>1 DEF OpenRevision, Scheduled, Active
<1>4. OpenRevision(f) # 0
  <2>1. OpenRevision(f) \in Revisions
    BY <1>1, OpenIsActive, RowTypes DEF TickInv
  <2> QED
    BY <2>1 DEF Revisions
<1>5. /\ Counts' = Counts /\ Settled' = Settled
      /\ Lengths' = [Lengths EXCEPT ![f] = Len(s)]
      /\ Opens' = [Opens EXCEPT ![f] = OpenRevision(f)']
  BY <1>1, <1>2, LedgerSchedules
<1>6. Lengths' = Lengths
  BY <1>1, <1>5 DEF Lengths
<1>7. Opens[f] # 0 /\ Opens' = [Opens EXCEPT ![f] = 0]
  BY <1>3, <1>4, <1>5 DEF Opens
<1> QED
  BY <1>5, <1>6, <1>7 DEF Ledger!CloseRevision, Opens, Lengths, Settled, Place, Counts

\* An observation counts the next tick of the open revision.
LEMMA LedgerCounts ==
    ASSUME TickInv, NEW f \in Families, NEW r \in DOMAIN schedules[f], Active(f, r),
           NEW who \in {"human", "service"}, NEW found \in Results,
           NextDue(f, r) <= clock,
           observed' = Append(observed, Record(f, r, who, found)),
           UNCHANGED schedules
    PROVE  /\ Opens[f] = r /\ r # 0
           /\ Opens' = Opens /\ Lengths' = Lengths
           /\ Counts' = [Counts EXCEPT ![f][r] = @ + 1]
           /\ Counts[f][r] = NextDue(f, r) - schedules[f][r].effective
<1>1. r \in Revisions /\ r # 0
  BY RowTypes DEF TickInv, Revisions
<1>2. OpenRevision(f) = r
  BY OpenIsActive DEF TickInv
<1>3. Opens' = Opens /\ Lengths' = Lengths
  BY DEF Opens, OpenRevision, Scheduled, Active, Lengths
<1>4. /\ Done(f, r)' = Done(f, r) + 1
      /\ \A g \in Families, s \in Revisions : <<g, s>> # <<f, r>> => Done(g, s)' = Done(g, s)
  BY Observing DEF TickInv
<1>5. Counts' = [Counts EXCEPT ![f][r] = @ + 1]
  BY <1>1, <1>4 DEF Counts
<1>6. Counts[f][r] = NextDue(f, r) - schedules[f][r].effective
  <2>1. /\ NextDue(f, r) = schedules[f][r].effective + Done(f, r)
        /\ schedules[f][r].effective \in Nat /\ Done(f, r) \in Nat
    BY <1>1, NextDueIs, RowTypes DEF TickInv
  <2> QED
    BY <1>1, <2>1 DEF Counts
<1> QED
  BY <1>1, <1>2, <1>3, <1>5, <1>6 DEF Opens

LEMMA LedgerHuman ==
    ASSUME TickInv, NEW h \in Humans, NEW found \in Results, HumanExecute(h, found)
    PROVE  [Ledger!Next]_(Ledger!vars)
<1>1. UNCHANGED <<schedules, consumed>>
  BY DEF HumanExecute
<1>2. CASE observed' = observed
  BY <1>1, <1>2, LedgerStutter
<1>3. CASE observed' # observed
  <2> DEFINE f == human[h].family
             r == human[h].rev
  <2>1. /\ f \in Families /\ r \in DOMAIN schedules[f] /\ Active(f, r)
        /\ NextDue(f, r) <= clock
        /\ observed' = Append(observed, Record(f, r, "human", found))
    BY <1>3, HumanObserves DEF MayObserve
  <2> HIDE DEF f, r
  <2>2. /\ Opens[f] = r /\ r # 0
        /\ Opens' = Opens /\ Lengths' = Lengths
        /\ Counts' = [Counts EXCEPT ![f][r] = @ + 1]
    BY <1>1, <2>1, LedgerCounts
  <2>3. Settled' = Settled
    BY <1>1 DEF Settled, Place
  <2>4. Ledger!Observe(f)
    BY <2>2, <2>3
    DEF Ledger!Observe, Ledger!Count, Opens, Lengths, Settled, Place, Counts
  <2> QED
    BY <2>1, <2>4 DEF Ledger!Next
<1> QED
  BY <1>2, <1>3

LEMMA SettledGrows ==
    ASSUME NEW c, consumed' = consumed \cup {c}, UNCHANGED schedules
    PROVE  Settled' = Settled \cup {Place(c.dispatch)}
<1>1. \A x : Place(x)' = Place(x)
  BY DEF Place
<1>2. Settled' = {Place(x.dispatch) : x \in consumed \cup {c}}
  BY <1>1 DEF Settled
<1> QED
  BY <1>2 DEF Settled

LEMMA LedgerExecute ==
    ASSUME TickInv, NEW w \in Workers, NEW found \in Results, Execute(w, found)
    PROVE  Ledger!Next
<1> DEFINE d == worker[w].holding
           f == d.family
           r == d.rev
           o == Record(f, r, "service", found)
<1>1. /\ d \in dispatched /\ f \in Families /\ r \in DOMAIN schedules[f]
      /\ Active(f, r) /\ NextDue(f, r) <= clock /\ d.due = NextDue(f, r)
  BY ExecuteIs DEF MayObserve, Execute, MayExecute
<1>2. /\ UNCHANGED schedules /\ observed' = Append(observed, o)
      /\ consumed' = consumed \cup {[dispatch |-> d, observation |-> o, status |-> "executed"]}
  BY DEF Execute, Consume
<1> HIDE DEF d, o
<1>3. /\ Opens[f] = r /\ r # 0
      /\ Opens' = Opens /\ Lengths' = Lengths
      /\ Counts' = [Counts EXCEPT ![f][r] = @ + 1]
      /\ Counts[f][r] = NextDue(f, r) - schedules[f][r].effective
  BY <1>1, <1>2, LedgerCounts DEF o
<1>4. Settled' = Settled \cup {Place(d)}
  <2> DEFINE c == [dispatch |-> d, observation |-> o, status |-> "executed"]
  <2>1. consumed' = consumed \cup {c} /\ c.dispatch = d
    BY <1>2
  <2> HIDE DEF c
  <2> QED
    BY <1>2, <2>1, SettledGrows
<1>5. Place(d) = <<f, Opens[f], Counts[f][Opens[f]] + 1>>
  BY <1>1, <1>3 DEF Place
<1>6. Ledger!ObserveAndSettle(f)
  BY <1>3, <1>4, <1>5
  DEF Ledger!ObserveAndSettle, Ledger!Count, Opens, Lengths, Settled, Place, Counts
<1>7. \E g \in Families : Ledger!ObserveAndSettle(g)
  BY <1>1, <1>6 DEF Ledger!ObserveAndSettle
<1> QED
  BY <1>7 DEF Ledger!Next

\* A worker that links a dispatch settles a tick that was counted.
LEMMA LedgerLink ==
    ASSUME TickInv, NEW d \in dispatched, ~Consumed(d), NEW o \in Range(observed),
           Tick(o) = Tick(d), UNCHANGED <<schedules, observed>>,
           consumed' = consumed \cup {[dispatch |-> d, observation |-> o,
                                       status |-> "linked_existing"]}
    PROVE  Ledger!Next
<1> DEFINE f == d.family
           r == d.rev
           e == schedules[f][r].effective
           n == d.due - e + 1
<1>1. /\ d \in Dispatch /\ f \in Families /\ r \in Revisions /\ d.due \in Nat
  BY DispatchTypes, ObservationAssumption DEF Dispatch, Ticks
<1>2. r \in DOMAIN schedules[f]
  BY DEF TickInv, RevisionsKnown
<1>3. e \in Nat /\ Done(f, r) \in Nat /\ DuesOf(f, r) = e .. (e + Done(f, r) - 1)
  BY <1>1, <1>2, RowTypes DEF TickInv, TicksCounted
<1>4. d.due \in DuesOf(f, r)
  BY DuesAre DEF Tick
<1>5. n \in 1..Counts[f][r]
  BY <1>1, <1>3, <1>4 DEF Counts
<1>6. Opens' = Opens /\ Lengths' = Lengths /\ Counts' = Counts
  BY DEF Opens, OpenRevision, Scheduled, Active, Lengths, Counts, Done
<1>7. Settled' = Settled \cup {<<f, r, n>>}
  <2> DEFINE c == [dispatch |-> d, observation |-> o, status |-> "linked_existing"]
  <2>1. consumed' = consumed \cup {c} /\ c.dispatch = d
    OBVIOUS
  <2> HIDE DEF c
  <2>2. Settled' = Settled \cup {Place(d)}
    BY <2>1, SettledGrows
  <2> QED
    BY <2>2 DEF Place
<1>8. <<f, r, n>> \notin Settled
  <2> SUFFICES ASSUME NEW c \in consumed, Place(c.dispatch) = <<f, r, n>> PROVE FALSE
    BY DEF Settled
  <2>1. c.dispatch \in dispatched /\ c.dispatch.due \in Nat
    BY DispatchTypes, ObservationAssumption DEF TickInv, ConsumptionsMatch, Dispatch, Ticks
  <2>2. c.dispatch.family = f /\ c.dispatch.rev = r /\ c.dispatch.due = d.due
    BY <1>1, <1>3, <2>1 DEF Place
  <2>3. c.dispatch = d
    BY <2>1, <2>2 DEF TickInv, DispatchesOnce, At
  <2> QED
    BY <2>3 DEF Consumed
<1> HIDE DEF n, f, r
<1>9. Ledger!Settle(f, r, n)
  BY <1>5, <1>6, <1>7, <1>8
  DEF Ledger!Settle, Opens, Lengths, Settled, Place, Counts
<1>10. \E q \in Revisions : \E m \in 1..Counts[f][q] : Ledger!Settle(f, q, m)
  BY <1>1, <1>5, <1>9 DEF Ledger!Settle
<1> QED
  BY <1>1, <1>10 DEF Ledger!Next, Revisions, Counts

LEMMA LedgerStep ==
    ASSUME TickInv, [Next]_vars
    PROVE  [Ledger!Next]_(Ledger!vars)
<1>1. CASE Lifecycle
  BY <1>1, LedgerOpens, LedgerCloses DEF Lifecycle, Ledger!Next
<1>2. ASSUME NEW h \in Humans, Operator(h) PROVE [Ledger!Next]_(Ledger!vars)
  <2>1. CASE \E f \in Families, r \in Revisions : HumanRead(h, f, r)
    BY <2>1, LedgerStutter DEF HumanRead, rows
  <2>2. CASE \E found \in Results : HumanExecute(h, found)
    BY <2>2, LedgerHuman
  <2> QED
    BY <1>2, <2>1, <2>2 DEF Operator
<1>3. ASSUME NEW w \in Workers, Service(w) PROVE [Ledger!Next]_(Ledger!vars)
  <2>1. CASE Poll(w)
    BY <2>1, LedgerStutter DEF Poll, rows
  <2>2. CASE Open(w)
    BY <2>2, OpenIs, LedgerLink, LedgerStutter
  <2>3. CASE \E found \in Results : Execute(w, found)
    BY <2>3, LedgerExecute
  <2>4. CASE Conflict(w)
    BY <2>4, ConflictIs, LedgerLink, LedgerStutter
  <2> QED
    BY <1>3, <2>1, <2>2, <2>3, <2>4 DEF Service
<1>4. CASE TickClock \/ Evidence
  BY <1>4, LedgerStutter
  DEF TickClock, Evidence, AdmitVersion, UploadVersion, Refresh, EstablishBaseline,
      DeleteDocument, NewVersion, rows
<1>5. CASE Scan \/ Visit \/ Project \/ UNCHANGED vars
  BY <1>5, LedgerStutter DEF Scan, Visit, Project, vars, rows
<1> QED
  BY <1>1, <1>2, <1>3, <1>4, <1>5 DEF Next

\* Seen from its schedules, observations and consumptions, recurring
\* observation is the ledger of ticks: at most one open revision, ticks counted
\* one by one under it, each settled at most once and only once counted.
THEOREM LedgerIsKept == Spec => LedgerSpec
<1>1. TickInv /\ [Next]_vars => [Ledger!Next]_(Ledger!vars)
  BY LedgerStep
<1> QED
  BY <1>1, LedgerInit, TicksAreInSequence, PTL DEF Spec, LedgerSpec, Ledger!Spec

=============================================================================
