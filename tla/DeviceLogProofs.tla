--------------------------- MODULE DeviceLogProofs ---------------------------
(***************************************************************************)
(* What is proved of DeviceLog for every set of writers, every mishap and  *)
(* every bound: the types, that what was acknowledged is never lost, that  *)
(* the closed segments have no gap and are never touched again, and that   *)
(* only the lock's holder is inside a call.  And, of the contents of the   *)
(* files while none of the mishaps happen that Calm names: that every seal *)
(* answers for exactly what stands before it, that a closed segment counts *)
(* itself, and that the stamps grow.  And again whatever the mishaps: that *)
(* to a reader the log only grows at its end, as AppendLog has it.         *)
(***************************************************************************)
EXTENDS DeviceLogReading, FiniteSetTheorems, SequenceTheorems, NaturalsInduction,
        WellFoundedInduction, TLAPS

LEMMA FileType ==
    ASSUME closed \in [SegNos -> Seq(Line)], NEW active \in Seq(Line), NEW s
    PROVE  File(s, active) \in Seq(Line)
BY DEF File

LEMMA LinesType ==
    ASSUME NEW lines \in Seq(Line)
    PROVE  /\ Ids(lines) \subseteq Nat
           /\ Events(lines) \subseteq Event
           /\ EventCount(lines) \in Nat
           /\ ClosingOf(lines) \in Nat
<1>1. ASSUME NEW i \in DOMAIN lines PROVE lines[i] \in Line
  BY DEF Line
<1>2. ASSUME NEW l \in Line PROVE /\ l.id \in Nat
                                  /\ l.k = "event" => l \in Event
                                  /\ l.k = "seal" => l \in Seal
  BY DEF Line, Event, Seal
<1>3. Ids(lines) \subseteq Nat
  BY <1>1, <1>2 DEF Ids
<1>4. Events(lines) \subseteq Event
  BY <1>1, <1>2 DEF Events
<1>5. EventCount(lines) \in Nat
  <2>1. IsFiniteSet(1..Len(lines))
    BY FS_Interval
  <2>2. IsFiniteSet({i \in DOMAIN lines : lines[i].k = "event"})
    BY <2>1, FS_Subset
  <2> QED BY <2>2, FS_CardinalityType DEF EventCount
<1>6. ClosingOf(lines) \in Nat
  <2>1. CASE lines # <<>> /\ lines[Len(lines)].k = "seal" /\ lines[Len(lines)].closed
    <3>1. lines[Len(lines)] \in Line
      BY <1>1, <2>1
    <3>2. lines[Len(lines)] \in Seal
      BY <1>2, <2>1, <3>1
    <3> QED BY <2>1, <3>2 DEF ClosingOf, Seal
  <2>2. CASE ~(lines # <<>> /\ lines[Len(lines)].k = "seal" /\ lines[Len(lines)].closed)
    BY <2>2 DEF ClosingOf
  <2> QED BY <2>1, <2>2
<1> QED BY <1>3, <1>4, <1>5, <1>6

LEMMA NewestType ==
    ASSUME NEW events, events \subseteq Event
    PROVE  Newest(events) \in Stamps
<1> DEFINE last == {e \in events : \A f \in events : ~Before(e.at, f.at)}
<1>1. CASE last = {}
  BY <1>1 DEF Newest, Epoch, Stamps
<1>2. CASE last # {}
  <2>1. (CHOOSE e \in last : TRUE) \in Event
    BY <1>2
  <2> QED BY <1>2, <2>1 DEF Newest, Event
<1> QED BY <1>1, <1>2

LEMMA NextType ==
    ASSUME NEW dir
    PROVE  NextSegmentNumber(dir) \in Nat \ {0}
<1> DEFINE high == {s \in SegNos : dir[s] # <<>> /\ \A t \in SegNos : t > s => dir[t] = <<>>}
<1>1. CASE high = {}
  BY <1>1 DEF NextSegmentNumber
<1>2. CASE high # {}
  <2>1. (CHOOSE s \in high : TRUE) \in 1..MaxSegments
    BY <1>2 DEF SegNos
  <2> QED BY <1>2, <2>1, BoundsAssumption DEF NextSegmentNumber
<1> QED BY <1>1, <1>2

LEMMA TipType ==
    ASSUME closed \in [SegNos -> Seq(Line)], NEW active \in Seq(Line)
    PROVE  TipNow(active) \subseteq Nat
<1> DEFINE answered == {s \in Places :
                          /\ AnsweredAt(File(s, active)) # 0
                          /\ \A t \in Places : t > s => AnsweredAt(File(t, active)) = 0}
           since(s) == UNION {Ids(File(t, active)) : t \in {u \in Places : u > s}}
           from == CHOOSE s \in answered : TRUE
           file == File(from, active)
           at   == AnsweredAt(file)
<1>1. ASSUME NEW t PROVE File(t, active) \in Seq(Line) /\ Ids(File(t, active)) \subseteq Nat
  BY FileType, LinesType
<1>2. ASSUME NEW s PROVE since(s) \subseteq Nat
  BY <1>1
<1>3. CASE answered = {}
  BY <1>2, <1>3 DEF TipNow
<1>4. CASE answered # {}
  <2>1. file \in Seq(Line) /\ at # 0
    BY <1>1, <1>4
  <2>2. at \in DOMAIN file /\ file[at].k = "seal"
    BY <2>1 DEF AnsweredAt
  <2>3. file[at] \in Line
    BY <2>1, <2>2
  <2>4. file[at].tip \subseteq Nat
    BY <2>2, <2>3 DEF Line, Seal, Event
  <2>5. {file[i].id : i \in at..Len(file)} \subseteq Nat
    <3> SUFFICES ASSUME NEW i \in at..Len(file) PROVE file[i].id \in Nat
      OBVIOUS
    <3>1. i \in DOMAIN file
      BY <2>1, <2>2
    <3>2. file[i] \in Line
      BY <2>1, <3>1
    <3> QED BY <3>2 DEF Line, Event, Seal
  <2>6. TipNow(active) = file[at].tip \cup {file[i].id : i \in at..Len(file)} \cup since(from)
    BY <1>4 DEF TipNow
  <2> QED BY <1>2, <2>4, <2>5, <2>6
<1> QED BY <1>3, <1>4

\* The parts of TypeOK that speak of the files.
LEMMA MendedType ==
    ASSUME TypeOK
    PROVE  /\ Mended \in Seq(Line)
           /\ MendedOnOpening \in Seq(Line)
BY SentinelAssumption DEF TypeOK, Mended, MendedOnOpening

LEMMA KnowsType ==
    ASSUME TypeOK, NEW p, NEW active \in Seq(Line)
    PROVE  KnowsWhereItStands(p, active) \in Covers
BY TipType DEF KnowsWhereItStands, Covers, TypeOK

LEMMA CaughtUpType ==
    ASSUME TypeOK, NEW p, NEW s \in StoreFields, NEW active \in Seq(Line)
    PROVE  CaughtUp(p, s, active) \in StoreFields
<1>1. KnowsWhereItStands(p, active) \in Covers
  BY KnowsType
<1>2. Newest(Events(active)) \in Stamps
  BY LinesType, NewestType
<1>3. Later(s.head, Newest(Events(active))) \in Stamps
  BY <1>2 DEF Later, StoreFields
<1>4. CASE SeenMatches(s)
  BY <1>1, <1>4 DEF CaughtUp, StoreFields
<1>5. CASE ~SeenMatches(s)
  BY <1>1, <1>3, <1>5, LinesType, NextType DEF CaughtUp, StoreFields, MarkOf
<1> QED BY <1>4, <1>5

LEMMA OpenedType ==
    ASSUME TypeOK, NEW active \in Seq(Line)
    PROVE  Opened(active) \in StoreFields
<1>1. Newest(Events(active)) \in Stamps
  BY LinesType, NewestType
<1>2. HeadOnOpening(active) \in Stamps
  <2>1. CASE EventCount(active) = 0 /\ NextSegmentNumber(closed) > 1
    <3> DEFINE high == {s \in SegNos : closed[s] # <<>> /\ \A t \in SegNos : t > s => closed[t] = <<>>}
    <3>1. high # {}
      BY <2>1 DEF NextSegmentNumber
    <3>2. (CHOOSE s \in high : TRUE) \in SegNos
      BY <3>1
    <3>3. NextSegmentNumber(closed) - 1 \in SegNos
      BY <3>1, <3>2, BoundsAssumption DEF NextSegmentNumber, SegNos
    <3>4. Newest(Events(closed[NextSegmentNumber(closed) - 1])) \in Stamps
      BY <3>3, LinesType, NewestType DEF TypeOK
    <3> QED BY <2>1, <3>4 DEF HeadOnOpening
  <2>2. CASE ~(EventCount(active) = 0 /\ NextSegmentNumber(closed) > 1)
    BY <1>1, <2>2 DEF HeadOnOpening
  <2> QED BY <2>1, <2>2
<1> QED BY <1>2, LinesType, NextType DEF Opened, StoreFields, MarkOf, Covers

LEMMA OutdatedType ==
    ASSUME NEW stores \in [Writers -> StoreFields]
    PROVE  Outdated(stores) \in [Writers -> StoreFields]
BY DEF Outdated, StoreFields

LEMMA StampedType ==
    ASSUME TypeOK, NEW head \in Stamps, NEW n \in Nat \ {0}
    PROVE  Stamped(head, n) \in [1..n -> Stamps]
BY DEF Stamped, Stamps, TypeOK

LEMMA LotType ==
    ASSUME TypeOK, NEW p \in Writers, Writing(p)
    PROVE  /\ Lot(p) \in Seq(Event)
           /\ Len(Lot(p)) <= Len(job.todo)
           /\ \A i \in 1..Len(Lot(p)) : Lot(p)[i] = job.todo[i]
<1>1. job.todo \in Seq(Event) /\ store[p].count \in Nat
  BY DEF TypeOK, StoreFields
<1> DEFINE left == SegmentMax - store[p].count
<1>2. CASE IsFull(p) \/ Len(job.todo) <= left
  BY <1>1, <1>2 DEF Lot
<1>3. CASE ~(IsFull(p) \/ Len(job.todo) <= left)
  <2>1. left \in Nat /\ left <= Len(job.todo)
    BY <1>1, <1>3, BoundsAssumption DEF IsFull
  <2>2. Lot(p) = SubSeq(job.todo, 1, left)
    BY <1>3 DEF Lot
  <2>3. \A i \in 1..left : job.todo[i] \in Event
    BY <1>1, <2>1
  <2> QED BY <1>1, <2>1, <2>2, <2>3, SubSeqProperties
<1> QED BY <1>2, <1>3

LEMMA SealType ==
    ASSUME TypeOK, NEW p \in Writers, NEW said \in Seq(Event), NEW n \in Nat
    PROVE  /\ SealOver(p, said, n, TRUE) \in Seq(Line)
           /\ SealOver(p, said, n, FALSE) \in Seq(Line)
<1>1. CASE ~CanSeal(p)
  BY <1>1 DEF SealOver
<1>2. CASE CanSeal(p)
  <2>1. store[p].covers \in [tip : SUBSET Nat, at : Nat] /\ store[p].seg \in Nat
    BY <1>2 DEF CanSeal, TypeOK, StoreFields, Covers
  <2>2. Ids(said) \subseteq Nat
    <3>1. said \in Seq(Line)
      BY DEF Line
    <3> QED BY <3>1, LinesType
  <2> DEFINE seal(end) == [k |-> "seal", id |-> minted + 1, seg |-> store[p].seg,
                           at |-> store[p].covers.at + Len(said),
                           tip |-> store[p].covers.tip \cup Ids(said), n |-> n, closed |-> end]
  <2>3. seal(TRUE) \in Line /\ seal(FALSE) \in Line
    <3>1. minted + 1 \in Nat /\ store[p].covers.at + Len(said) \in Nat
          /\ store[p].covers.tip \cup Ids(said) \in SUBSET Nat
      BY <2>1, <2>2 DEF TypeOK
    <3>2. seal(TRUE) \in Seal
      BY <2>1, <3>1 DEF Seal
    <3>3. seal(FALSE) \in Seal
      BY <2>1, <3>1 DEF Seal
    <3> QED BY <3>2, <3>3 DEF Line
  <2>4. <<seal(TRUE)>> \in Seq(Line) /\ <<seal(FALSE)>> \in Seq(Line)
    BY <2>3
  <2> QED BY <1>2, <2>4 DEF SealOver
<1> QED BY <1>1, <1>2

LEMMA SaidType ==
    ASSUME TypeOK, NEW p \in Writers, Writing(p)
    PROVE  Said(p) \in Seq(Line)
<1>0. store[p].count \in Nat
  BY DEF TypeOK, StoreFields
<1>1. Lot(p) \in Seq(Event) /\ Lot(p) \in Seq(Line) /\ store[p].count \in Nat
  BY <1>0, LotType DEF Line
<1>2. <<>> \in Seq(Event) /\ store[p].count + Len(Lot(p)) \in Nat
  BY <1>1
<1>3. CASE IsFull(p) /\ CanSeal(p)
  <2>1. SealOver(p, <<>>, store[p].count, TRUE) \in Seq(Line)
    BY <1>1, <1>2, SealType
  <2> QED BY <1>3, <2>1 DEF Said
<1>4. CASE ~(IsFull(p) /\ CanSeal(p))
  <2>1. SealOver(p, Lot(p), store[p].count + Len(Lot(p)), FALSE) \in Seq(Line)
    BY <1>1, <1>2, SealType
  <2> QED BY <1>1, <1>4, <2>1, ConcatProperties DEF Said
<1> QED BY <1>3, <1>4

LEMMA CoversPastType ==
    ASSUME TypeOK, NEW p \in Writers, Writing(p)
    PROVE  CoversPast(p, Said(p)) \in Covers
<1>1. Said(p) \in Seq(Line) /\ Ids(Said(p)) \subseteq Nat
  BY SaidType, LinesType
<1> QED BY <1>1 DEF CoversPast, Covers, TypeOK, StoreFields

LEMMA CutType ==
    ASSUME TypeOK, NEW p \in Writers, Writing(p), CutShort(p)
    PROVE  /\ live' \in Seq(Line)
           /\ torn' \in Line \cup {None, Half}
           /\ present' = TRUE
           /\ minted' \in Nat
           /\ closed' = closed
           /\ \E n \in 0..Len(Said(p)) : live' = live \o SubSeq(Said(p), 1, n)
<1>1. Said(p) \in Seq(Line)
  BY SaidType
<1>2. PICK cut \in Cuts(Said(p)) : /\ live' = live \o SubSeq(Said(p), 1, cut[1])
                                   /\ torn' = cut[2]
  BY DEF CutShort
<1>3. cut[1] \in 0..Len(Said(p)) /\ cut[2] \in Line \cup {None, Half}
  BY <1>1 DEF Cuts
<1>4. SubSeq(Said(p), 1, cut[1]) \in Seq(Line)
  BY <1>1, <1>3
<1>5. live' \in Seq(Line)
  BY <1>2, <1>4, ConcatProperties DEF TypeOK
<1>6. minted' \in Nat /\ present' = TRUE /\ closed' = closed
  BY DEF CutShort, TypeOK
<1> QED BY <1>2, <1>3, <1>5, <1>6

-----------------------------------------------------------------------------
(* Types                                                                   *)

LEMMA TypeInit == Init => TypeOK
<1> SUFFICES ASSUME Init PROVE TypeOK
  OBVIOUS
<1>1. NoStore \in StoreFields
  BY DEF NoStore, StoreFields, Covers, Epoch, Stamps
<1>2. <<>> \in Seq(Line) /\ <<>> \in Seq(Event)
  OBVIOUS
<1> QED BY <1>1, <1>2 DEF Init, TypeOK, NoJob

LEMMA FieldTypes ==
    ASSUME NEW s \in StoreFields
    PROVE  /\ \A h \in Stamps : [s EXCEPT !.head = h] \in StoreFields
           /\ \A c \in Covers : [s EXCEPT !.covers = c] \in StoreFields
           /\ \A b \in BOOLEAN : [s EXCEPT !.seen = MarkOf(b)] \in StoreFields
           /\ \A b \in BOOLEAN, n \in Nat :
                [s EXCEPT !.seen = MarkOf(b), !.seg = n] \in StoreFields
           /\ \A n \in Nat : StartedOver(s, n) \in StoreFields
<1>1. ASSUME NEW b \in BOOLEAN PROVE MarkOf(b) \in {"now", "absent", "old"}
  BY DEF MarkOf
<1>2. (IF s.covers = None THEN None ELSE [s.covers EXCEPT !.at = 0]) \in Covers
  BY DEF StoreFields, Covers
<1>3. \A n \in Nat : StartedOver(s, n) \in StoreFields
  BY <1>2 DEF StartedOver, StoreFields
<1> QED BY <1>1, <1>3 DEF StoreFields

LEMMA NoJobType == NoJob \in [todo : Seq(Event), asked : SUBSET Nat]
BY DEF NoJob

\* The steps that leave the files alone.
LEMMA TypeMemory ==
    ASSUME TypeOK, NEW p \in Writers,
           \/ OpenMark(p) \/ Drop(p) \/ FailToCatchUp(p) \/ AcquireAgain(p) \/ Settled(p)
           \/ StartOver(p) \/ RefuseToClose(p) \/ FailToClose(p) \/ Done(p)
    PROVE  TypeOK'
<1> USE DEF disk, Release, NoJob
<1>1. CASE OpenMark(p)
  <2>1. [store[p] EXCEPT !.seen = MarkOf(present), !.seg = NextSegmentNumber(closed)] \in StoreFields
    BY NextType, FieldTypes DEF TypeOK
  <2>2. store' \in [Writers -> StoreFields]
    BY <1>1, <2>1 DEF OpenMark, TypeOK
  <2> QED BY <1>1, <2>2 DEF OpenMark, TypeOK
<1>2. CASE Drop(p)
  <2>1. NoStore \in StoreFields
    BY DEF NoStore, StoreFields, Covers, Epoch, Stamps
  <2> QED BY <1>2, <2>1 DEF Drop, TypeOK
<1>3. CASE FailToCatchUp(p)
  <2>1. KnowsWhereItStands(p, live) \in Covers
    BY KnowsType DEF TypeOK
  <2>2. [store[p] EXCEPT !.covers = KnowsWhereItStands(p, live)] \in StoreFields
    BY <2>1, FieldTypes DEF TypeOK
  <2>3. store' \in [Writers -> StoreFields]
    BY <1>3, <2>2 DEF FailToCatchUp, TypeOK
  <2> QED BY <1>3, <2>3 DEF FailToCatchUp, Mishap, TypeOK
<1>4. CASE AcquireAgain(p)
  BY <1>4 DEF AcquireAgain, TypeOK
<1>5. CASE Settled(p)
  BY <1>5 DEF Settled, TypeOK
<1>6. CASE StartOver(p)
  <2>1. StartedOver(store[p], NextSegmentNumber(closed)) \in StoreFields
    BY NextType, FieldTypes DEF TypeOK
  <2> QED BY <1>6, <2>1 DEF StartOver, TypeOK
<1>7. CASE RefuseToClose(p)
  BY <1>7 DEF RefuseToClose, TypeOK
<1>8. CASE FailToClose(p)
  BY <1>8 DEF FailToClose, Mishap, TypeOK
<1>9. CASE Done(p)
  <2>1. [store[p] EXCEPT !.seen = MarkOf(present)] \in StoreFields
    BY FieldTypes DEF TypeOK
  <2>2. store' \in [Writers -> StoreFields]
    BY <1>9, <2>1 DEF Done, TypeOK
  <2> QED BY <1>9, <2>2 DEF Done, TypeOK
<1> QED BY <1>1, <1>2, <1>3, <1>4, <1>5, <1>6, <1>7, <1>8, <1>9

LEMMA TypeMint ==
    ASSUME TypeOK, NEW p \in Writers, NEW head \in Stamps, NEW n \in 1..MaxBatch, Mint(p, head, n)
    PROVE  TypeOK'
<1>1. n \in Nat \ {0}
  BY BoundsAssumption
<1>2. Stamped(head, n) \in [1..n -> Stamps]
  BY <1>1, StampedType
<1>3. [i \in 1..n |-> [k |-> "event", id |-> minted + i, at |-> Stamped(head, n)[i]]] \in Seq(Event)
  BY <1>1, <1>2 DEF Event, TypeOK
<1>4. job' \in [todo : Seq(Event), asked : SUBSET Nat]
  BY <1>1, <1>3 DEF Mint, TypeOK
<1>5. store' \in [Writers -> StoreFields]
  <2>1. Stamped(head, n)[n] \in Stamps
    BY <1>1, <1>2
  <2>2. [store[p] EXCEPT !.head = Stamped(head, n)[n]] \in StoreFields
    BY <2>1, FieldTypes DEF TypeOK
  <2> QED BY <2>2 DEF Mint, TypeOK
<1> QED BY <1>1, <1>4, <1>5 DEF Mint, TypeOK, disk

LEMMA TypeOpen ==
    ASSUME TypeOK, NEW p \in Writers, Open(p) \/ OpenTail(p) \/ Acquire(p)
    PROVE  TypeOK'
<1>1. Outdated(store) \in [Writers -> StoreFields] /\ store \in [Writers -> StoreFields]
  BY OutdatedType DEF TypeOK
<1>2. Opened(MendedOnOpening) \in StoreFields
  BY MendedType, OpenedType
<1>3. CASE Open(p)
  <2>1. store' \in [Writers -> StoreFields]
    BY <1>1, <1>2, <1>3 DEF Open
  <2> QED BY <1>3, <2>1, MendedType DEF Open, MendOnOpening, TypeOK
<1>4. CASE OpenTail(p)
  <2>1. store' \in [Writers -> StoreFields]
    BY <1>1, <1>2, <1>4 DEF OpenTail
  <2> QED BY <1>4, <2>1, MendedType DEF OpenTail, MendOnOpening, Mishap, TypeOK
<1>5. CASE Acquire(p)
  <2> DEFINE stores == IF torn = None THEN store ELSE Outdated(store)
  <2>1. stores \in [Writers -> StoreFields]
    BY <1>1
  <2>2. CaughtUp(p, stores[p], Mended) \in StoreFields
    BY <2>1, MendedType, CaughtUpType
  <2>3. store' \in [Writers -> StoreFields]
    BY <1>5, <2>1, <2>2 DEF Acquire
  <2> QED BY <1>5, <2>3, MendedType DEF Acquire, TypeOK
<1> QED BY <1>3, <1>4, <1>5

LEMMA TypeWrite ==
    ASSUME TypeOK, NEW p \in Writers,
           \/ WriteLot(p) \/ WriteClosingSeal(p) \/ CloseSegment(p) \/ FailWrite(p) \/ Crash(p)
    PROVE  TypeOK'
<1>1. Outdated(store) \in [Writers -> StoreFields]
  BY OutdatedType DEF TypeOK
<1>2. NoStore \in StoreFields
  BY DEF NoStore, StoreFields, Covers, Epoch, Stamps
<1>3. ASSUME Writing(p) PROVE live \o Said(p) \in Seq(Line)
  BY <1>3, SaidType, ConcatProperties DEF TypeOK
<1>4. CASE WriteLot(p)
  <2>1. Writing(p)
    BY <1>4 DEF WriteLot
  <2>2. store' \in [Writers -> StoreFields]
    <3>1. Outdated(store)[p].count + Len(Lot(p)) \in Nat
      BY <1>1, <2>1, LotType DEF StoreFields
    <3>2. CoversPast(p, Said(p)) \in Covers
      BY <2>1, CoversPastType
    <3> QED BY <1>1, <1>4, <3>1, <3>2 DEF WriteLot, StoreFields
  <2>3. SubSeq(job.todo, Len(Lot(p)) + 1, Len(job.todo)) \in Seq(Event)
    BY <2>1, LotType DEF TypeOK
  <2>4. live' \in Seq(Line) /\ minted' \in Nat
    BY <1>3, <1>4, <2>1 DEF WriteLot, Appended, TypeOK
  <2>5. job' \in [todo : Seq(Event), asked : SUBSET Nat]
    BY <1>4, <2>3 DEF WriteLot, TypeOK
  <2> QED BY <1>4, <2>2, <2>4, <2>5 DEF WriteLot, Appended, TypeOK
<1>5. CASE WriteClosingSeal(p)
  <2>1. Writing(p)
    BY <1>5 DEF WriteClosingSeal
  <2>2. store' \in [Writers -> StoreFields]
    <3>1. CoversPast(p, Said(p)) \in Covers
      BY <2>1, CoversPastType
    <3> QED BY <1>1, <1>5, <3>1 DEF WriteClosingSeal, StoreFields
  <2>3. live' \in Seq(Line) /\ minted' \in Nat
    BY <1>3, <1>5, <2>1 DEF WriteClosingSeal, Appended, TypeOK
  <2> QED BY <1>5, <2>2, <2>3 DEF WriteClosingSeal, Appended, TypeOK
<1>6. CASE CloseSegment(p)
  <2>1. StartedOver(Outdated(store)[p], NextSegmentNumber(closed')) \in StoreFields
    BY <1>1, NextType DEF StartedOver, StoreFields, Covers
  <2>2. store' \in [Writers -> StoreFields]
    BY <1>1, <1>6, <2>1 DEF CloseSegment
  <2>3. closed' \in [SegNos -> Seq(Line)] /\ live' \in Seq(Line)
    BY <1>6 DEF CloseSegment, TypeOK
  <2> QED BY <1>6, <2>2, <2>3 DEF CloseSegment, TypeOK
<1>7. CASE FailWrite(p)
  <2>1. Writing(p)
    BY <1>7 DEF FailWrite
  <2>2. store' \in [Writers -> StoreFields]
    BY <1>1, <1>7 DEF FailWrite, TypeOK
  <2>3. /\ live' \in Seq(Line) /\ torn' \in Line \cup {None, Half} /\ present' \in BOOLEAN
        /\ minted' \in Nat /\ closed' \in [SegNos -> Seq(Line)]
    BY <1>7, <2>1, CutType DEF FailWrite, TypeOK, disk
  <2>4. /\ lock' \in Writers \cup {None} /\ job' \in [todo : Seq(Event), asked : SUBSET Nat]
        /\ pc' \in [Writers -> {"off", "opening", "idle", "held", "writing", "renaming"}]
    BY <1>7, NoJobType DEF FailWrite, Release, TypeOK
  <2>5. mishaps' \in Nat /\ clock' \in Nat /\ acked' \subseteq Nat
    BY <1>7 DEF FailWrite, Mishap, TypeOK
  <2> QED BY <2>2, <2>3, <2>4, <2>5 DEF TypeOK
<1>8. CASE Crash(p)
  <2>1. store' \in [Writers -> StoreFields]
    BY <1>1, <1>2, <1>8 DEF Crash, TypeOK
  <2>2. /\ live' \in Seq(Line) /\ torn' \in Line \cup {None, Half} /\ present' \in BOOLEAN
        /\ minted' \in Nat /\ closed' \in [SegNos -> Seq(Line)]
    BY <1>8, CutType DEF Crash, TypeOK, disk
  <2>3. /\ lock' \in Writers \cup {None} /\ job' \in [todo : Seq(Event), asked : SUBSET Nat]
        /\ pc' \in [Writers -> {"off", "opening", "idle", "held", "writing", "renaming"}]
    BY <1>8, NoJobType DEF Crash, TypeOK
  <2>4. mishaps' \in Nat /\ clock' \in Nat /\ acked' \subseteq Nat
    BY <1>8 DEF Crash, Mishap, TypeOK
  <2> QED BY <2>1, <2>2, <2>3, <2>4 DEF TypeOK
<1> QED BY <1>4, <1>5, <1>6, <1>7, <1>8

LEMMA TypeStep == TypeOK /\ [Next]_vars => TypeOK'
<1> SUFFICES ASSUME TypeOK, [Next]_vars PROVE TypeOK'
  OBVIOUS
<1>1. CASE Tick
  BY <1>1 DEF Tick, TypeOK, disk
<1>2. CASE SetBack
  BY <1>2 DEF SetBack, Mishap, TypeOK, disk
<1>3. ASSUME NEW p \in Writers, Begin(p) PROVE TypeOK'
  <2>1. store[p].head \in Stamps
    BY DEF TypeOK, StoreFields
  <2> QED BY <1>3, <2>1, TypeMint DEF Begin
<1>4. ASSUME NEW p \in Writers, BeginAfter(p) PROVE TypeOK'
  <2>1. store[p].head \in Stamps
    BY DEF TypeOK, StoreFields
  <2>2. Newest(AllEvents(live))[1] \in Nat
    <3>1. AllEvents(live) \subseteq Event
      BY FileType, LinesType DEF AllEvents, TypeOK
    <3> QED BY <3>1, NewestType DEF Stamps
  <2>3. PICK newest \in Newest(AllEvents(live))[1]..(MaxTime - 1), n \in 1..MaxBatch :
          Mint(p, IF newest >= store[p].head[1] THEN <<newest + 1, 0>> ELSE store[p].head, n)
    BY <1>4 DEF BeginAfter
  <2>4. (IF newest >= store[p].head[1] THEN <<newest + 1, 0>> ELSE store[p].head) \in Stamps
    BY <2>1, <2>2, BoundsAssumption DEF Stamps
  <2> QED BY <2>3, <2>4, TypeMint
<1>5. CASE UNCHANGED vars
  BY <1>5 DEF vars, disk, TypeOK
<1> QED BY <1>1, <1>2, <1>3, <1>4, <1>5, TypeMemory, TypeOpen, TypeWrite DEF Next

\* Type correctness of the device's log: the files, every Store's memory and the call in progress.
THEOREM TypeCorrect == Spec => []TypeOK
BY TypeInit, TypeStep, PTL DEF Spec

-----------------------------------------------------------------------------
(* Who is inside a call                                                    *)

LEMMA HolderStep == TypeOK /\ HolderInside /\ [Next]_vars => HolderInside'
<1> SUFFICES ASSUME TypeOK, HolderInside, [Next]_vars PROVE HolderInside'
  OBVIOUS
<1> USE DEF HolderInside
<1>1. CASE Tick \/ SetBack
  BY <1>1 DEF Tick, SetBack, disk
<1>2. ASSUME NEW p \in Writers, Open(p) \/ OpenTail(p) \/ OpenMark(p) \/ Drop(p) PROVE HolderInside'
  BY <1>2 DEF Open, OpenTail, OpenMark, Drop, TypeOK
<1>3. ASSUME NEW p \in Writers, Acquire(p) \/ FailToCatchUp(p) \/ AcquireAgain(p) PROVE HolderInside'
  BY <1>3, WritersAssumption DEF Acquire, FailToCatchUp, AcquireAgain, TypeOK
<1>4. ASSUME NEW p \in Writers, Begin(p) \/ BeginAfter(p) \/ Settled(p) PROVE HolderInside'
  BY <1>4, WritersAssumption DEF Begin, BeginAfter, Mint, Settled, Release, TypeOK
<1>5. ASSUME NEW p \in Writers, WriteLot(p) \/ WriteClosingSeal(p) \/ StartOver(p) PROVE HolderInside'
  BY <1>5 DEF WriteLot, WriteClosingSeal, StartOver, Writing, TypeOK
<1>6. ASSUME NEW p \in Writers, CloseSegment(p) \/ RefuseToClose(p) \/ FailToClose(p)
      PROVE  HolderInside'
  BY <1>6, WritersAssumption
     DEF CloseSegment, RefuseToClose, FailToClose, Closing, Release, TypeOK
<1>7. ASSUME NEW p \in Writers, Done(p) \/ FailWrite(p) \/ Crash(p) PROVE HolderInside'
  BY <1>7, WritersAssumption DEF Done, FailWrite, Crash, Writing, Release, TypeOK
<1>8. CASE UNCHANGED vars
  BY <1>8 DEF vars
<1> QED BY <1>1, <1>2, <1>3, <1>4, <1>5, <1>6, <1>7, <1>8 DEF Next

-----------------------------------------------------------------------------
(* What is on disk stays there                                             *)

LEMMA EventIdsOfConcat ==
    ASSUME NEW a \in Seq(Line), NEW b \in Seq(Line)
    PROVE  EventIds(a \o b) = EventIds(a) \cup EventIds(b)
<1>1. \A i \in 1..Len(a) : (a \o b)[i] = a[i]
  BY ConcatProperties
<1>2. \A i \in 1..Len(b) : (a \o b)[Len(a) + i] = b[i]
  BY ConcatProperties
<1>3. Len(a \o b) = Len(a) + Len(b) /\ a \o b \in Seq(Line)
  BY ConcatProperties
<1>4. ASSUME NEW x \in EventIds(a) PROVE x \in EventIds(a \o b)
  <2>1. PICK i \in 1..Len(a) : a[i].k = "event" /\ x = a[i].id
    BY <1>4 DEF EventIds, Events
  <2>2. i \in DOMAIN (a \o b) /\ (a \o b)[i] = a[i]
    BY <1>1, <1>3
  <2> QED BY <2>1, <2>2 DEF EventIds, Events
<1>5. ASSUME NEW x \in EventIds(b) PROVE x \in EventIds(a \o b)
  <2>1. PICK i \in 1..Len(b) : b[i].k = "event" /\ x = b[i].id
    BY <1>5 DEF EventIds, Events
  <2>2. Len(a) + i \in DOMAIN (a \o b) /\ (a \o b)[Len(a) + i] = b[i]
    BY <1>2, <1>3
  <2> QED BY <2>1, <2>2 DEF EventIds, Events
<1>6. ASSUME NEW x \in EventIds(a \o b) PROVE x \in EventIds(a) \cup EventIds(b)
  <2>1. PICK i \in 1..(Len(a) + Len(b)) : (a \o b)[i].k = "event" /\ x = (a \o b)[i].id
    BY <1>3, <1>6 DEF EventIds, Events
  <2>2. CASE i <= Len(a)
    <3>1. i \in DOMAIN a /\ (a \o b)[i] = a[i]
      BY <1>1, <2>2
    <3> QED BY <2>1, <3>1 DEF EventIds, Events
  <2>3. CASE i > Len(a)
    <3>1. i - Len(a) \in DOMAIN b /\ (a \o b)[i] = b[i - Len(a)]
      <4>1. i - Len(a) \in 1..Len(b)
        BY <2>3
      <4> QED BY <1>2, <4>1
    <3> QED BY <2>1, <3>1 DEF EventIds, Events
  <2> QED BY <2>2, <2>3
<1> QED BY <1>4, <1>5, <1>6

LEMMA AppendKeepsDisk ==
    ASSUME TypeOK, NEW said \in Seq(Line), live' = live \o said, closed' = closed
    PROVE  OnDisk' = OnDisk \cup EventIds(said)
<1>1. EventIds(live') = EventIds(live) \cup EventIds(said)
  BY EventIdsOfConcat DEF TypeOK
<1>2. UNION {EventIds(closed'[s]) : s \in SegNos} = UNION {EventIds(closed[s]) : s \in SegNos}
  OBVIOUS
<1> QED BY <1>1, <1>2 DEF OnDisk

LEMMA MendKeepsDisk ==
    ASSUME TypeOK, live' \in {live, Mended}, closed' = closed
    PROVE  OnDisk \subseteq OnDisk'
<1>1. CASE live' = live
  BY <1>1 DEF OnDisk
<1>2. CASE live' = live \o <<torn>> /\ torn \in Line
  <2>1. <<torn>> \in Seq(Line)
    BY <1>2
  <2> QED BY <1>2, <2>1, AppendKeepsDisk
<1>3. torn \in Line => Mended = live \o <<torn>>
  BY AppendIsConcat DEF Mended, TypeOK
<1>4. torn \notin Line => Mended = live
  BY DEF Mended
<1> QED BY <1>1, <1>2, <1>3, <1>4

LEMMA CloseKeepsDisk ==
    ASSUME TypeOK, NEW p \in Writers, CloseSegment(p)
    PROVE  OnDisk \subseteq OnDisk'
<1> DEFINE s == ToClose(p)
<1>1. s \in SegNos /\ closed[s] \in {<<>>, live} /\ closed' = [closed EXCEPT ![s] = live]
  BY DEF CloseSegment
<1>2. EventIds(<<>>) = {}
  BY DEF EventIds, Events
<1>3. closed'[s] = live /\ \A t \in SegNos : t # s => closed'[t] = closed[t]
  BY <1>1 DEF TypeOK
<1>4. ASSUME NEW t \in SegNos PROVE EventIds(closed[t]) \subseteq OnDisk'
  <2>1. CASE t = s
    BY <1>1, <1>2, <1>3, <2>1 DEF OnDisk
  <2>2. CASE t # s
    BY <1>3, <2>2 DEF OnDisk
  <2> QED BY <2>1, <2>2
<1>5. EventIds(live) \subseteq OnDisk'
  BY <1>1, <1>3 DEF OnDisk
<1>6. UNION {EventIds(closed[t]) : t \in SegNos} \subseteq OnDisk'
  BY <1>4
<1> QED BY <1>5, <1>6 DEF OnDisk

\* No step takes an event off the disk, whatever goes wrong.
LEMMA DiskGrows == TypeOK /\ [Next]_vars => OnDisk \subseteq OnDisk'
<1> SUFFICES ASSUME TypeOK, [Next]_vars PROVE OnDisk \subseteq OnDisk'
  OBVIOUS
<1>1. ASSUME live' = live, closed' = closed PROVE OnDisk \subseteq OnDisk'
  BY <1>1 DEF OnDisk
<1>2. CASE Tick \/ SetBack \/ UNCHANGED vars
  BY <1>1, <1>2 DEF Tick, SetBack, vars, disk
<1>3. ASSUME NEW p \in Writers, Open(p) \/ OpenTail(p) \/ Acquire(p) PROVE OnDisk \subseteq OnDisk'
  BY <1>3, MendKeepsDisk DEF Open, OpenTail, Acquire, MendOnOpening, MendedOnOpening
<1>4. ASSUME NEW p \in Writers,
             \/ OpenMark(p) \/ Drop(p) \/ FailToCatchUp(p) \/ AcquireAgain(p)
             \/ Begin(p) \/ BeginAfter(p) \/ Settled(p) \/ StartOver(p)
             \/ RefuseToClose(p) \/ FailToClose(p) \/ Done(p)
      PROVE  OnDisk \subseteq OnDisk'
  BY <1>1, <1>4 DEF OpenMark, Drop, FailToCatchUp, AcquireAgain, Begin, BeginAfter, Mint, Settled,
                    StartOver, RefuseToClose, FailToClose, Done, disk
<1>5. ASSUME NEW p \in Writers, WriteLot(p) \/ WriteClosingSeal(p) PROVE OnDisk \subseteq OnDisk'
  <2>1. Said(p) \in Seq(Line) /\ live' = live \o Said(p) /\ closed' = closed
    BY <1>5, SaidType DEF WriteLot, WriteClosingSeal, Appended
  <2> QED BY <2>1, AppendKeepsDisk
<1>6. ASSUME NEW p \in Writers, CutShort(p), Writing(p) PROVE OnDisk \subseteq OnDisk'
  <2>1. PICK n \in 0..Len(Said(p)) : live' = live \o SubSeq(Said(p), 1, n)
    BY <1>6, CutType
  <2>2. SubSeq(Said(p), 1, n) \in Seq(Line) /\ closed' = closed
    BY <1>6, SaidType DEF CutShort
  <2> QED BY <2>1, <2>2, AppendKeepsDisk
<1>7. ASSUME NEW p \in Writers, FailWrite(p) \/ Crash(p) PROVE OnDisk \subseteq OnDisk'
  BY <1>1, <1>6, <1>7 DEF FailWrite, Crash, disk
<1> QED BY <1>2, <1>3, <1>4, <1>5, <1>7, CloseKeepsDisk DEF Next

-----------------------------------------------------------------------------
(* What was acknowledged                                                   *)

\* A lot written is off the list of what is left to write, and on disk.
LEMMA LotLands ==
    ASSUME TypeOK, NEW p \in Writers, WriteLot(p)
    PROVE  Ids(job.todo) \subseteq OnDisk' \cup Ids(job'.todo)
<1>1. Writing(p) /\ ~(IsFull(p) /\ CanSeal(p))
  BY DEF WriteLot
<1>2. /\ Lot(p) \in Seq(Event) /\ Len(Lot(p)) <= Len(job.todo)
      /\ \A i \in 1..Len(Lot(p)) : Lot(p)[i] = job.todo[i]
  BY <1>1, LotType
<1>3. job'.todo = SubSeq(job.todo, Len(Lot(p)) + 1, Len(job.todo)) /\ job.todo \in Seq(Event)
  BY DEF WriteLot, TypeOK
<1> DEFINE seal == SealOver(p, Lot(p), store[p].count + Len(Lot(p)), FALSE)
<1>4. Lot(p) \in Seq(Line) /\ seal \in Seq(Line) /\ Said(p) = Lot(p) \o seal
  <2>1. store[p].count + Len(Lot(p)) \in Nat
    BY <1>2 DEF TypeOK, StoreFields
  <2>2. Lot(p) \in Seq(Line)
    BY <1>2 DEF Line
  <2>3. seal \in Seq(Line)
    BY <1>2, <2>1, SealType
  <2>4. Said(p) = Lot(p) \o seal
    BY <1>1 DEF Said
  <2> QED BY <2>2, <2>3, <2>4
<1>5. OnDisk' = OnDisk \cup EventIds(Said(p))
  BY <1>1, SaidType, AppendKeepsDisk DEF WriteLot, Appended
<1> HIDE DEF seal
<1>6. EventIds(Lot(p)) \subseteq OnDisk'
  <2>1. EventIds(Lot(p) \o seal) = EventIds(Lot(p)) \cup EventIds(seal)
    BY <1>4, EventIdsOfConcat
  <2> QED BY <1>4, <1>5, <2>1
<1>7. ASSUME NEW i \in 1..Len(job.todo) PROVE job.todo[i].id \in OnDisk' \cup Ids(job'.todo)
  <2>1. CASE i <= Len(Lot(p))
    <3>1. Lot(p)[i] = job.todo[i] /\ Lot(p)[i] \in Event /\ i \in DOMAIN Lot(p)
      BY <1>2, <2>1
    <3>2. Lot(p)[i].id \in EventIds(Lot(p))
      BY <3>1 DEF EventIds, Events, Event
    <3> QED BY <1>6, <3>1, <3>2
  <2>2. CASE i > Len(Lot(p))
    <3> DEFINE j == i - Len(Lot(p))
    <3>1. j \in 1..(Len(job.todo) - Len(Lot(p)))
      BY <1>2, <1>3, <2>2
    <3>2. j \in DOMAIN job'.todo /\ job'.todo[j] = job.todo[i]
      BY <1>2, <1>3, <2>2, <3>1
    <3> QED BY <3>2 DEF Ids
  <2> QED BY <1>2, <1>3, <2>1, <2>2
<1>8. Ids(job.todo) = {job.todo[i].id : i \in 1..Len(job.todo)}
  BY <1>3 DEF Ids
<1> QED BY <1>7, <1>8

LEMMA JobStep == TypeOK /\ HolderInside /\ JobOnItsWay /\ [Next]_vars => JobOnItsWay'
<1> SUFFICES ASSUME TypeOK, HolderInside, JobOnItsWay, [Next]_vars,
                    NEW q \in Writers, pc'[q] \in {"writing", "renaming"}
             PROVE  job'.asked \subseteq OnDisk' \cup Ids(job'.todo)
  BY DEF JobOnItsWay
<1>1. OnDisk \subseteq OnDisk'
  BY DiskGrows
<1>2. ASSUME job' = job, pc[q] \in {"writing", "renaming"} PROVE job'.asked \subseteq OnDisk' \cup Ids(job'.todo)
  BY <1>1, <1>2 DEF JobOnItsWay
<1>3. ASSUME NEW p \in Writers, Release(p), lock = p PROVE FALSE
  BY <1>3 DEF Release, HolderInside, TypeOK
<1>4. CASE Tick \/ SetBack \/ UNCHANGED vars
  BY <1>2, <1>4 DEF Tick, SetBack, vars
<1>5. ASSUME NEW p \in Writers,
             \/ Open(p) \/ OpenTail(p) \/ OpenMark(p) \/ Drop(p)
             \/ Acquire(p) \/ FailToCatchUp(p) \/ AcquireAgain(p)
             \/ StartOver(p)
      PROVE  job'.asked \subseteq OnDisk' \cup Ids(job'.todo)
  BY <1>2, <1>5 DEF Open, OpenTail, OpenMark, Drop, Acquire, FailToCatchUp, AcquireAgain,
                    StartOver, TypeOK
<1>6. ASSUME NEW p \in Writers, WriteClosingSeal(p) \/ CloseSegment(p) PROVE job'.asked \subseteq OnDisk' \cup Ids(job'.todo)
  BY <1>2, <1>6 DEF WriteClosingSeal, Writing, CloseSegment, Closing, TypeOK
<1>7. ASSUME NEW p \in Writers, NEW head, NEW n \in 1..MaxBatch, Mint(p, head, n)
      PROVE  job'.asked \subseteq OnDisk' \cup Ids(job'.todo)
  <2>2. n \in Nat /\ minted \in Nat
    BY BoundsAssumption DEF TypeOK
  <2>3. ASSUME NEW x \in job'.asked PROVE x \in Ids(job'.todo)
    <3>1. x \in (minted + 1)..(minted + n)
      BY <1>7, <2>3 DEF Mint
    <3>2. x - minted \in 1..n
      BY <2>2, <3>1
    <3>3. /\ DOMAIN job'.todo = 1..n
          /\ job'.todo[x - minted].id = minted + (x - minted)
      BY <1>7, <3>2 DEF Mint
    <3> QED BY <2>2, <3>1, <3>2, <3>3 DEF Ids
  <2> QED BY <2>3
<1>8. ASSUME NEW p \in Writers, WriteLot(p) PROVE job'.asked \subseteq OnDisk' \cup Ids(job'.todo)
  <2>1. job.asked \subseteq OnDisk \cup Ids(job.todo)
    BY <1>8 DEF WriteLot, Writing, JobOnItsWay
  <2>2. job'.asked = job.asked
    BY <1>8 DEF WriteLot, TypeOK
  <2> QED BY <1>1, <1>8, <2>1, <2>2, LotLands
<1>9. ASSUME NEW p \in Writers,
             Settled(p) \/ RefuseToClose(p) \/ FailToClose(p) \/ Done(p) \/ FailWrite(p)
      PROVE  job'.asked \subseteq OnDisk' \cup Ids(job'.todo)
  <2>1. Release(p) /\ lock = p
    BY <1>9 DEF Settled, RefuseToClose, FailToClose, Closing, Done, FailWrite, Writing, HolderInside
  <2> QED BY <1>3, <2>1
<1>10. ASSUME NEW p \in Writers, Crash(p) PROVE job'.asked \subseteq OnDisk' \cup Ids(job'.todo)
  <2>1. q # p /\ pc[q] \in {"writing", "renaming"}
    BY <1>10 DEF Crash, TypeOK
  <2>2. lock # p
    BY <2>1 DEF HolderInside
  <2> QED BY <1>2, <1>10, <2>1, <2>2 DEF Crash
<1>11. ASSUME NEW p \in Writers, Begin(p) \/ BeginAfter(p)
       PROVE  job'.asked \subseteq OnDisk' \cup Ids(job'.todo)
  BY <1>7, <1>11 DEF Begin, BeginAfter
<1> QED BY <1>4, <1>5, <1>6, <1>8, <1>9, <1>10, <1>11 DEF Next

LEMMA DurableStep == TypeOK /\ JobOnItsWay /\ Durable /\ [Next]_vars => Durable'
<1> SUFFICES ASSUME TypeOK, JobOnItsWay, Durable, [Next]_vars PROVE Durable'
  OBVIOUS
<1>1. OnDisk \subseteq OnDisk'
  BY DiskGrows
<1>2. ASSUME acked' = acked PROVE Durable'
  BY <1>1, <1>2 DEF Durable
<1>3. CASE Tick \/ SetBack \/ UNCHANGED vars
  BY <1>2, <1>3 DEF Tick, SetBack, vars
<1>4. ASSUME NEW p \in Writers, Done(p) PROVE Durable'
  <2>1. job.asked \subseteq OnDisk \cup Ids(job.todo) /\ job.todo = <<>>
    BY <1>4 DEF Done, JobOnItsWay
  <2>2. Ids(job.todo) = {}
    BY <2>1 DEF Ids
  <2>3. acked' = acked \cup job.asked
    BY <1>4 DEF Done
  <2> QED BY <1>1, <2>1, <2>2, <2>3 DEF Durable
<1>5. ASSUME NEW p \in Writers,
             \/ Open(p) \/ OpenTail(p) \/ OpenMark(p) \/ Drop(p)
             \/ Acquire(p) \/ FailToCatchUp(p) \/ AcquireAgain(p)
             \/ Begin(p) \/ BeginAfter(p) \/ Settled(p)
             \/ WriteLot(p) \/ WriteClosingSeal(p) \/ StartOver(p)
             \/ CloseSegment(p) \/ RefuseToClose(p) \/ FailToClose(p)
             \/ FailWrite(p) \/ Crash(p)
      PROVE  acked' = acked
  BY <1>5 DEF Open, OpenTail, OpenMark, Drop, Acquire, FailToCatchUp, AcquireAgain, Begin,
              BeginAfter, Mint, Settled, WriteLot, WriteClosingSeal, StartOver, CloseSegment,
              RefuseToClose, FailToClose, FailWrite, Crash
<1> QED BY <1>2, <1>3, <1>4, <1>5 DEF Next

-----------------------------------------------------------------------------
(* The numbers of the segments                                             *)

\* The first free number is reached when there is no gap.
LEMMA NextReached ==
    ASSUME NEW dir, \A s, t \in SegNos : t < s /\ dir[s] # <<>> => dir[t] # <<>>
    PROVE  Reached(dir, NextSegmentNumber(dir))
<1> DEFINE high == {s \in SegNos : dir[s] # <<>> /\ \A t \in SegNos : t > s => dir[t] = <<>>}
<1>1. CASE high = {}
  BY <1>1, BoundsAssumption DEF NextSegmentNumber, Reached, SegNos
<1>2. CASE high # {}
  <2> DEFINE s == CHOOSE s \in high : TRUE
  <2>1. s \in high /\ NextSegmentNumber(dir) = s + 1
    BY <1>2 DEF NextSegmentNumber
  <2>2. ASSUME NEW t \in SegNos, t < s + 1 PROVE dir[t] # <<>>
    BY <2>1, <2>2, BoundsAssumption DEF SegNos
  <2> QED BY <2>1, <2>2 DEF Reached
<1> QED BY <1>1, <1>2

LEMMA SealsReachedOfConcat ==
    ASSUME NEW dir, NEW a \in Seq(Line), NEW b \in Seq(Line),
           SealsReached(dir, a), SealsReached(dir, b)
    PROVE  SealsReached(dir, a \o b)
<1>1. Len(a \o b) = Len(a) + Len(b) /\ a \o b \in Seq(Line)
  BY ConcatProperties
<1> SUFFICES ASSUME NEW i \in 1..(Len(a) + Len(b)), (a \o b)[i].k = "seal"
             PROVE  Reached(dir, (a \o b)[i].seg)
  BY <1>1 DEF SealsReached
<1>2. CASE i <= Len(a)
  <2>1. i \in DOMAIN a /\ (a \o b)[i] = a[i]
    BY <1>2, ConcatProperties
  <2> QED BY <2>1 DEF SealsReached
<1>3. CASE i > Len(a)
  <2>1. i - Len(a) \in 1..Len(b)
    BY <1>3
  <2>2. (a \o b)[i] = b[i - Len(a)]
    BY <1>3, <2>1, ConcatProperties
  <2> QED BY <2>1, <2>2 DEF SealsReached
<1> QED BY <1>2, <1>3

LEMMA SaidReached ==
    ASSUME TypeOK, SegmentsReached, NEW p \in Writers, Writing(p)
    PROVE  SealsReached(closed, Said(p))
<1>0. store[p].count \in Nat
  BY DEF TypeOK, StoreFields
<1>1. Lot(p) \in Seq(Event) /\ Lot(p) \in Seq(Line) /\ store[p].count + Len(Lot(p)) \in Nat
  BY <1>0, LotType DEF Line
<1>2. SealsReached(closed, Lot(p))
  <2>1. ASSUME NEW i \in DOMAIN Lot(p) PROVE Lot(p)[i].k # "seal"
    <3>1. Lot(p)[i] \in Event
      BY <1>1
    <3> QED BY <3>1 DEF Event
  <2> QED BY <2>1 DEF SealsReached
<1>3. ASSUME NEW said, NEW n, NEW end PROVE SealsReached(closed, SealOver(p, said, n, end))
  BY DEF SealsReached, SealOver, SegmentsReached, StoresReached
<1>4. SealOver(p, Lot(p), store[p].count + Len(Lot(p)), FALSE) \in Seq(Line)
  BY <1>1, SealType
<1>5. CASE IsFull(p) /\ CanSeal(p)
  BY <1>3, <1>5 DEF Said
<1>6. CASE ~(IsFull(p) /\ CanSeal(p))
  <2>1. SealsReached(closed, SealOver(p, Lot(p), store[p].count + Len(Lot(p)), FALSE))
    BY <1>3
  <2>2. SealsReached(closed, Lot(p) \o SealOver(p, Lot(p), store[p].count + Len(Lot(p)), FALSE))
    BY <1>1, <1>2, <1>4, <2>1, SealsReachedOfConcat
  <2> QED BY <1>6, <2>2 DEF Said
<1> QED BY <1>5, <1>6

LEMMA MendedReached ==
    ASSUME TypeOK, SegmentsReached
    PROVE  SealsReached(closed, Mended) /\ Mended \in Seq(Line)
<1>1. CASE torn \in Line
  <2>1. SealsReached(closed, <<torn>>)
    BY <1>1 DEF SealsReached, SegmentsReached, Line, Event
  <2>2. Mended = live \o <<torn>> /\ <<torn>> \in Seq(Line)
    BY <1>1, AppendIsConcat DEF Mended, TypeOK
  <2> QED BY <2>1, <2>2, SealsReachedOfConcat, MendedType DEF SegmentsReached, TypeOK
<1>2. CASE torn \notin Line
  BY <1>2, MendedType DEF Mended, SegmentsReached
<1> QED BY <1>1, <1>2

LEMMA ClosingReached ==
    ASSUME NEW dir, NEW lines \in Seq(Line), SealsReached(dir, lines)
    PROVE  Reached(dir, ClosingOf(lines))
<1>1. Reached(dir, 0)
  BY BoundsAssumption DEF Reached, SegNos
<1>2. lines # <<>> => Len(lines) \in DOMAIN lines
  OBVIOUS
<1> QED BY <1>1, <1>2 DEF SealsReached, ClosingOf

LEMMA CutReached ==
    ASSUME TypeOK, SegmentsReached, NEW p \in Writers, Writing(p), CutShort(p)
    PROVE  SealsReached(closed, live') /\ (torn' \in Seal => Reached(closed, torn'.seg))
<1>1. Said(p) \in Seq(Line) /\ SealsReached(closed, Said(p))
  BY SaidType, SaidReached
<1>2. PICK cut \in Cuts(Said(p)) : /\ live' = live \o SubSeq(Said(p), 1, cut[1])
                                   /\ torn' = cut[2]
  BY DEF CutShort
<1>3. cut[1] \in 0..Len(Said(p))
  BY <1>1 DEF Cuts
<1>4. SubSeq(Said(p), 1, cut[1]) \in Seq(Line) /\ SealsReached(closed, SubSeq(Said(p), 1, cut[1]))
  BY <1>1, <1>3 DEF SealsReached
<1>5. SealsReached(closed, live')
  BY <1>2, <1>4, SealsReachedOfConcat DEF TypeOK, SegmentsReached
<1>6. cut[2] \in {None, Half} \/ \E n \in 0..(Len(Said(p)) - 1) : cut[2] = Said(p)[n + 1]
  BY DEF Cuts
<1>7. ASSUME torn' \in Seal PROVE Reached(closed, torn'.seg)
  <2>1. torn' \notin {None, Half}
    BY <1>7, SentinelAssumption DEF Line
  <2>2. PICK n \in 0..(Len(Said(p)) - 1) : torn' = Said(p)[n + 1]
    BY <1>2, <1>6, <2>1
  <2>3. n + 1 \in DOMAIN Said(p)
    BY <1>1, <2>2
  <2> QED BY <1>1, <1>7, <2>2, <2>3 DEF SealsReached, Seal
<1> QED BY <1>5, <1>7

LEMMA OutdatedReached ==
    ASSUME NEW dir, NEW stores \in [Writers -> StoreFields], StoresReached(dir, stores)
    PROVE  StoresReached(dir, Outdated(stores))
BY DEF StoresReached, Outdated, StoreFields

\* One Store's fields set anew, the others' left as they were.
LEMMA OneStoreReached ==
    ASSUME NEW dir, NEW stores \in [Writers -> StoreFields], StoresReached(dir, stores),
           NEW p \in Writers, NEW s, Reached(dir, s.seg), Reached(dir, s.closing)
    PROVE  StoresReached(dir, [stores EXCEPT ![p] = s])
BY DEF StoresReached

\* The steps that leave the files alone keep every number where it was or take a free one.
LEMMA NumbersMemory ==
    ASSUME TypeOK, Contiguous, SegmentsReached, NEW p \in Writers,
           \/ OpenMark(p) \/ Drop(p) \/ FailToCatchUp(p) \/ AcquireAgain(p)
           \/ Begin(p) \/ BeginAfter(p) \/ Settled(p)
           \/ StartOver(p) \/ RefuseToClose(p) \/ FailToClose(p) \/ Done(p)
    PROVE  StoresReached(closed, store')
<1> USE DEF TypeOK, SegmentsReached
<1>1. Reached(closed, NextSegmentNumber(closed))
  BY NextReached DEF Contiguous
<1>2. Reached(closed, 0) /\ Reached(closed, 1)
  BY BoundsAssumption DEF Reached, SegNos
<1>3. CASE OpenMark(p)
  BY <1>1, <1>3 DEF OpenMark, StoresReached, StoreFields
<1>4. CASE Drop(p)
  BY <1>2, <1>4 DEF Drop, StoresReached, NoStore
<1>5. CASE FailToCatchUp(p) \/ Done(p)
  <2>1. ASSUME NEW q \in Writers
        PROVE  store'[q].seg = store[q].seg /\ store'[q].closing = store[q].closing
    <3>1. CASE FailToCatchUp(p)
      BY <3>1 DEF FailToCatchUp, StoreFields
    <3>2. CASE Done(p)
      BY <3>2 DEF Done, StoreFields
    <3> QED BY <1>5, <3>1, <3>2
  <2> QED BY <2>1 DEF StoresReached
<1>6. CASE AcquireAgain(p) \/ Settled(p) \/ RefuseToClose(p) \/ FailToClose(p)
  BY <1>6 DEF AcquireAgain, Settled, RefuseToClose, FailToClose
<1>7. ASSUME NEW head, NEW n, Mint(p, head, n) PROVE StoresReached(closed, store')
  BY <1>7 DEF Mint, StoresReached, StoreFields
<1>8. CASE Begin(p) \/ BeginAfter(p)
  BY <1>7, <1>8 DEF Begin, BeginAfter
<1>9. CASE StartOver(p)
  <2>1. /\ StartedOver(store[p], NextSegmentNumber(closed)).seg = NextSegmentNumber(closed)
        /\ StartedOver(store[p], NextSegmentNumber(closed)).closing = 0
    BY DEF StartedOver, StoreFields
  <2> QED BY <1>1, <1>2, <1>9, <2>1, OneStoreReached DEF StartOver
<1> QED BY <1>3, <1>4, <1>5, <1>6, <1>8, <1>9

LEMMA NumbersOpen ==
    ASSUME TypeOK, Contiguous, SegmentsReached, NEW p \in Writers,
           Open(p) \/ OpenTail(p) \/ Acquire(p)
    PROVE  StoresReached(closed, store') /\ SealsReached(closed, live') /\ torn' \in {torn, None}
<1>1. Reached(closed, NextSegmentNumber(closed))
  BY NextReached DEF Contiguous
<1>2. StoresReached(closed, store) /\ StoresReached(closed, Outdated(store))
      /\ store \in [Writers -> StoreFields] /\ Outdated(store) \in [Writers -> StoreFields]
  BY OutdatedReached, OutdatedType DEF SegmentsReached, TypeOK
<1>3. CASE Open(p) \/ OpenTail(p)
  <2>1. SealsReached(closed, MendedOnOpening) /\ MendedOnOpening \in Seq(Line)
    BY MendedReached, MendedType DEF MendedOnOpening, SegmentsReached
  <2>2. /\ Reached(closed, Opened(MendedOnOpening).seg)
        /\ Reached(closed, Opened(MendedOnOpening).closing)
    BY <1>1, <2>1, ClosingReached DEF Opened
  <2>3. StoresReached(closed, store')
    BY <1>2, <1>3, <2>2, OneStoreReached DEF Open, OpenTail
  <2> QED BY <1>3, <2>1, <2>3 DEF Open, OpenTail, MendOnOpening
<1>4. CASE Acquire(p)
  <2> DEFINE stores == IF torn = None THEN store ELSE Outdated(store)
             s == CaughtUp(p, stores[p], Mended)
  <2>1. SealsReached(closed, Mended) /\ Mended \in Seq(Line)
    BY MendedReached
  <2>2. stores \in [Writers -> StoreFields] /\ StoresReached(closed, stores)
    BY <1>2
  <2>3. Reached(closed, s.seg) /\ Reached(closed, s.closing)
    <3>1. CASE SeenMatches(stores[p])
      BY <2>2, <3>1 DEF CaughtUp, StoresReached, StoreFields
    <3>2. CASE ~SeenMatches(stores[p])
      BY <1>1, <2>1, <3>2, ClosingReached DEF CaughtUp
    <3> QED BY <3>1, <3>2
  <2>4. store' = [stores EXCEPT ![p] = s]
    BY <1>4 DEF Acquire
  <2>5. StoresReached(closed, store')
    BY <2>2, <2>3, <2>4, OneStoreReached
  <2> QED BY <1>4, <2>1, <2>5 DEF Acquire
<1> QED BY <1>3, <1>4

LEMMA NumbersWrite ==
    ASSUME TypeOK, SegmentsReached, NEW p \in Writers,
           WriteLot(p) \/ WriteClosingSeal(p) \/ FailWrite(p) \/ Crash(p)
    PROVE  closed' = closed /\ SegmentsReached'
<1>1. StoresReached(closed, store) /\ StoresReached(closed, Outdated(store))
      /\ store \in [Writers -> StoreFields] /\ Outdated(store) \in [Writers -> StoreFields]
  BY OutdatedReached, OutdatedType DEF SegmentsReached, TypeOK
<1>2. Reached(closed, NoStore.seg) /\ Reached(closed, NoStore.closing)
  BY BoundsAssumption DEF Reached, SegNos, NoStore
<1>3. /\ StoresReached(closed, [store EXCEPT ![p] = NoStore])
      /\ StoresReached(closed, [Outdated(store) EXCEPT ![p] = NoStore])
  BY <1>1, <1>2, OneStoreReached
<1>4. closed' = closed
  BY DEF WriteLot, WriteClosingSeal, Appended, FailWrite, Crash, CutShort, disk
<1>5. ASSUME Writing(p) PROVE SealsReached(closed, live \o Said(p))
  BY <1>5, SaidReached, SaidType, SealsReachedOfConcat DEF SegmentsReached, TypeOK
<1>6. CASE WriteLot(p)
  <2>1. StoresReached(closed, store')
    BY <1>1, <1>6 DEF WriteLot, StoresReached, StoreFields
  <2>2. SealsReached(closed, live') /\ torn' = torn
    BY <1>5, <1>6 DEF WriteLot, Appended
  <2> QED BY <1>4, <2>1, <2>2 DEF SegmentsReached
<1>7. CASE WriteClosingSeal(p)
  <2>1. StoresReached(closed, store')
    BY <1>1, <1>7 DEF WriteClosingSeal, StoresReached, StoreFields
  <2>2. SealsReached(closed, live') /\ torn' = torn
    BY <1>5, <1>7 DEF WriteClosingSeal, Appended
  <2> QED BY <1>4, <2>1, <2>2 DEF SegmentsReached
<1>8. ASSUME FailWrite(p) \/ Crash(p)
      PROVE  SealsReached(closed, live') /\ (torn' \in Seal => Reached(closed, torn'.seg))
  <2>1. CASE live' = live /\ torn' = torn
    BY <2>1 DEF SegmentsReached
  <2>2. CASE Writing(p) /\ CutShort(p)
    BY <2>2, CutReached
  <2> QED BY <1>8, <2>1, <2>2 DEF FailWrite, Crash, disk
<1>9. CASE FailWrite(p)
  <2>1. StoresReached(closed, store')
    BY <1>1, <1>9 DEF FailWrite
  <2> QED BY <1>4, <1>8, <1>9, <2>1 DEF SegmentsReached
<1>10. CASE Crash(p)
  <2>1. StoresReached(closed, store')
    BY <1>3, <1>10 DEF Crash
  <2> QED BY <1>4, <1>8, <1>10, <2>1 DEF SegmentsReached
<1> QED BY <1>4, <1>6, <1>7, <1>9, <1>10

LEMMA NumbersClose ==
    ASSUME TypeOK, Contiguous, SegmentsReached, NEW p \in Writers, CloseSegment(p)
    PROVE  Contiguous' /\ SegmentsReached'
<1> DEFINE n == ToClose(p)
<1>1. n \in SegNos /\ closed[n] \in {<<>>, live} /\ closed' = [closed EXCEPT ![n] = live]
  BY DEF CloseSegment
<1>2. closed'[n] = live /\ \A t \in SegNos : t # n => closed'[t] = closed[t]
  BY <1>1 DEF TypeOK
<1>3. \A t \in SegNos : closed[t] # <<>> => closed'[t] # <<>>
  BY <1>1, <1>2
<1>4. ASSUME NEW m, Reached(closed, m) PROVE Reached(closed', m)
  BY <1>3, <1>4 DEF Reached
<1>5. Reached(closed, n)
  BY DEF CloseSegment, Closing, ToClose, SegmentsReached, StoresReached
<1>6. Contiguous'
  <2> SUFFICES ASSUME NEW s \in SegNos, NEW t \in SegNos, t < s, closed'[s] # <<>>
               PROVE  closed'[t] # <<>>
    BY DEF Contiguous
  <2>1. CASE s = n
    BY <1>3, <1>5, <2>1 DEF Reached
  <2>2. CASE s # n
    BY <1>2, <1>3, <2>2 DEF Contiguous
  <2> QED BY <2>1, <2>2
<1>7. Reached(closed', NextSegmentNumber(closed'))
  BY <1>6, NextReached DEF Contiguous
<1>8. StoresReached(closed', Outdated(store)) /\ Outdated(store) \in [Writers -> StoreFields]
  <2>1. StoresReached(closed, Outdated(store)) /\ Outdated(store) \in [Writers -> StoreFields]
    BY OutdatedReached, OutdatedType DEF SegmentsReached, TypeOK
  <2> QED BY <1>4, <2>1 DEF StoresReached
<1>9. StoresReached(closed', store')
  <2> DEFINE s == StartedOver(Outdated(store)[p], NextSegmentNumber(closed'))
  <2>1. s.seg = NextSegmentNumber(closed') /\ s.closing = 0
    BY <1>8 DEF StartedOver, StoreFields
  <2>2. Reached(closed', 0)
    BY BoundsAssumption DEF Reached, SegNos
  <2>3. store' = [Outdated(store) EXCEPT ![p] = s]
    BY DEF CloseSegment
  <2> QED BY <1>7, <1>8, <2>1, <2>2, <2>3, OneStoreReached
<1>10. SealsReached(closed', live') /\ (torn' \in Seal => Reached(closed', torn'.seg))
  <2>1. live' = <<>> /\ torn' = torn
    BY DEF CloseSegment
  <2>2. SealsReached(closed', <<>>)
    BY DEF SealsReached
  <2>3. torn \in Seal => Reached(closed', torn.seg)
    BY <1>4 DEF SegmentsReached
  <2> QED BY <2>1, <2>2, <2>3
<1> QED BY <1>6, <1>9, <1>10 DEF SegmentsReached

LEMMA NumbersStep ==
    TypeOK /\ Contiguous /\ SegmentsReached /\ [Next]_vars => Contiguous' /\ SegmentsReached'
<1> SUFFICES ASSUME TypeOK, Contiguous, SegmentsReached, [Next]_vars
             PROVE  Contiguous' /\ SegmentsReached'
  OBVIOUS
<1>1. ASSUME closed' = closed PROVE Contiguous'
  BY <1>1 DEF Contiguous
<1>2. CASE Tick \/ SetBack \/ UNCHANGED vars
  BY <1>2 DEF Tick, SetBack, vars, disk, Contiguous, SegmentsReached
<1>3. ASSUME NEW p \in Writers,
             \/ OpenMark(p) \/ Drop(p) \/ FailToCatchUp(p) \/ AcquireAgain(p)
             \/ Begin(p) \/ BeginAfter(p) \/ Settled(p)
             \/ StartOver(p) \/ RefuseToClose(p) \/ FailToClose(p) \/ Done(p)
      PROVE  Contiguous' /\ SegmentsReached'
  <2>1. UNCHANGED <<present, live, torn, closed>>
    BY <1>3 DEF OpenMark, Drop, FailToCatchUp, AcquireAgain, Begin, BeginAfter, Mint, Settled,
                StartOver, RefuseToClose, FailToClose, Done, disk
  <2>2. StoresReached(closed, store')
    BY <1>3, NumbersMemory
  <2> QED BY <1>1, <2>1, <2>2 DEF SegmentsReached
<1>4. ASSUME NEW p \in Writers, Open(p) \/ OpenTail(p) \/ Acquire(p)
      PROVE  Contiguous' /\ SegmentsReached'
  <2>1. closed' = closed
    BY <1>4 DEF Open, OpenTail, Acquire, MendOnOpening
  <2>2. StoresReached(closed, store') /\ SealsReached(closed, live') /\ torn' \in {torn, None}
    BY <1>4, NumbersOpen
  <2>3. torn' \in Seal => Reached(closed, torn'.seg)
    BY <2>2, SentinelAssumption DEF SegmentsReached, Line
  <2> QED BY <1>1, <2>1, <2>2, <2>3 DEF SegmentsReached
<1>5. ASSUME NEW p \in Writers, WriteLot(p) \/ WriteClosingSeal(p) \/ FailWrite(p) \/ Crash(p)
      PROVE  Contiguous' /\ SegmentsReached'
  BY <1>1, <1>5, NumbersWrite
<1> QED BY <1>2, <1>3, <1>4, <1>5, NumbersClose DEF Next

-----------------------------------------------------------------------------
(* The theorems                                                            *)

LEMMA InitIInv == Init => IInv
<1> SUFFICES ASSUME Init PROVE IInv
  OBVIOUS
<1>1. TypeOK
  BY TypeInit
<1>2. HolderInside /\ Durable /\ JobOnItsWay
  BY DEF Init, HolderInside, Durable, JobOnItsWay
<1>3. Contiguous
  BY DEF Init, Contiguous
<1>4. SegmentsReached
  BY BoundsAssumption, SentinelAssumption
     DEF Init, SegmentsReached, StoresReached, SealsReached, Reached, SegNos, NoStore, Line
<1> QED BY <1>1, <1>2, <1>3, <1>4 DEF IInv

LEMMA StepIInv == IInv /\ [Next]_vars => IInv'
BY TypeStep, HolderStep, DurableStep, JobStep, NumbersStep DEF IInv

\* Whoever is inside a call holds the lock; what the call was asked for is on disk or still to be
\* written; and no number a Store remembers, or a closing seal says, is past the next free one: the
\* invariant of lock, append, rotate and mend together, for any number of Stores.
THEOREM AlwaysIInv == Spec => []IInv
BY InitIInv, StepIInv, PTL DEF Spec

\* An acknowledged event is never lost, for every number of writers and whatever the mishaps: a
\* write only ever adds lines, a mending only drops what no append had answered for, and a segment
\* closed keeps the lines the active one held.
THEOREM NothingAcknowledgedIsLost == Spec => []Durable
<1>1. IInv => Durable
  BY DEF IInv
<1> QED BY <1>1, AlwaysIInv, PTL

\* The closed segments never have a gap, because nobody ever closes one under a number past the
\* first free one, however stale its own count of them.
THEOREM NoGapInTheSegments == Spec => []Contiguous
<1>1. IInv => Contiguous
  BY DEF IInv
<1> QED BY <1>1, AlwaysIInv, PTL

\* A closed segment is never written to again, nor replaced, by any step of any Store.
THEOREM ClosedSegmentsStay == Spec => ClosedStay
<1>1. IInv /\ [Next]_vars => [\A s \in SegNos : closed[s] # <<>> => closed'[s] = closed[s]]_vars
  <2> SUFFICES ASSUME IInv, Next, NEW s \in SegNos, closed[s] # <<>>
               PROVE  closed'[s] = closed[s]
    OBVIOUS
  <2>1. ASSUME NEW p \in Writers, CloseSegment(p) PROVE closed'[s] = closed[s]
    BY <2>1 DEF CloseSegment, IInv, TypeOK
  <2>2. CASE Tick \/ SetBack
    BY <2>2 DEF Tick, SetBack, disk
  <2>3. ASSUME NEW p \in Writers,
               \/ Open(p) \/ OpenTail(p) \/ OpenMark(p) \/ Drop(p)
               \/ Acquire(p) \/ FailToCatchUp(p) \/ AcquireAgain(p)
               \/ Begin(p) \/ BeginAfter(p) \/ Settled(p) \/ StartOver(p)
               \/ RefuseToClose(p) \/ FailToClose(p) \/ Done(p)
               \/ WriteLot(p) \/ WriteClosingSeal(p) \/ FailWrite(p) \/ Crash(p)
        PROVE  closed' = closed
    BY <2>3 DEF Open, OpenTail, OpenMark, Drop, Acquire, FailToCatchUp, AcquireAgain, Begin,
                BeginAfter, Mint, Settled, StartOver, RefuseToClose, FailToClose, Done, WriteLot,
                WriteClosingSeal, Appended, FailWrite, Crash, CutShort, MendOnOpening, disk
  <2> QED BY <2>1, <2>2, <2>3 DEF Next
<1> QED BY <1>1, AlwaysIInv, PTL DEF Spec, ClosedStay


-----------------------------------------------------------------------------
(* The last of some numbers                                                *)

LEMMA HasLast ==
    ASSUME NEW n \in Int, NEW s \in SUBSET (1..n), s # {}
    PROVE  \E x \in s : \A y \in s : y <= x
<1> DEFINE beyond(x) == {y \in s : y > x}
           tails == {beyond(x) : x \in s}
<1>0. s \subseteq Int
  OBVIOUS
<1>1. IsFiniteSet(s)
  <2>1. IsFiniteSet(1..n)
    BY FS_Interval
  <2> QED BY <2>1, FS_Subset
<1>2. tails \subseteq FiniteSubsetsOf(s) /\ tails # {}
  <2>1. \A x : beyond(x) \in SUBSET s /\ IsFiniteSet(beyond(x))
    BY <1>1, FS_Subset
  <2> QED BY <2>1 DEF FiniteSubsetsOf
<1>3. PICK t \in tails : \A u \in tails : ~(<<u, t>> \in StrictSubsetOrdering(s))
  <2>1. IsWellFoundedOn(StrictSubsetOrdering(s), FiniteSubsetsOf(s))
    BY FS_StrictSubsetOrderingWellFounded
  <2> HIDE DEF tails
  <2> QED BY <1>2, <2>1, WFMin
<1>4. PICK x \in s : t = beyond(x)
  BY <1>3
<1>5. ASSUME NEW y \in s, y > x PROVE FALSE
  <2>0. x \in Int /\ y \in Int /\ \A z \in s : z \in Int
    BY <1>0
  <2>1. beyond(y) \in SUBSET s /\ y \in beyond(x) /\ y \notin beyond(y)
    BY <1>5, <2>0
  <2>3. \A z \in beyond(y) : z \in beyond(x)
    BY <1>5, <2>0
  <2>2. <<beyond(y), beyond(x)>> \in StrictSubsetOrdering(s)
    BY <2>1, <2>3 DEF StrictSubsetOrdering
  <2> QED BY <1>3, <1>4, <2>2
<1> QED BY <1>5

-----------------------------------------------------------------------------
(* Files                                                                   *)

Dirs  == [SegNos -> Seq(Line)]
Lines == Seq(Line)

\* What File is, of any directory.
FileIn(dir, active, s) == IF s \in SegNos THEN dir[s] ELSE active

LEMMA FilesAre ==
    /\ \A s, active : File(s, active) = FileIn(closed, active, s)
    /\ \A s \in Places : s \in SegNos \/ s = MaxSegments + 1
    /\ SegNos \subseteq Places /\ MaxSegments + 1 \in Places /\ MaxSegments + 1 \notin SegNos
    /\ \A s \in SegNos : s < MaxSegments + 1 /\ s \in Nat
    /\ Places \subseteq Nat /\ MaxSegments \in Nat
BY BoundsAssumption DEF File, FileIn, Places, SegNos

LEMMA FileInType ==
    ASSUME NEW dir \in Dirs, NEW active \in Lines, NEW s
    PROVE  FileIn(dir, active, s) \in Lines
BY DEF FileIn, Dirs, Lines

LEMMA LineKinds ==
    /\ \A l \in Line : l.k = "event" \/ l.k = "seal"
    /\ \A l \in Event : l.k = "event" /\ l \in Line /\ l.at \in Stamps
    /\ \A l \in Seal : l.k = "seal" /\ l \in Line
    /\ \A l \in Line : l.k = "event" => l \in Event
    /\ \A l \in Line : l.k = "seal" => l \in Seal
BY DEF Line, Event, Seal

\* Every line of the log, in its file.
AllIds(dir, active) == UNION {Ids(FileIn(dir, active, t)) : t \in Places}

LEMMA NextIsFree ==
    ASSUME NEW dir \in Dirs
    PROVE  /\ \A s \in SegNos : s >= NextSegmentNumber(dir) => dir[s] = <<>>
           /\ NextSegmentNumber(dir) > 1 =>
                 /\ NextSegmentNumber(dir) - 1 \in SegNos
                 /\ dir[NextSegmentNumber(dir) - 1] # <<>>
<1> DEFINE used == {s \in SegNos : dir[s] # <<>>}
           high == {s \in SegNos : dir[s] # <<>> /\ \A t \in SegNos : t > s => dir[t] = <<>>}
<1>1. CASE used = {}
  <2>1. high = {}
    BY <1>1
  <2> QED BY <1>1, <2>1 DEF NextSegmentNumber
<1>2. CASE used # {}
  <2>1. used \in SUBSET (1..MaxSegments) /\ MaxSegments \in Int
    BY BoundsAssumption DEF SegNos
  <2>2. PICK x \in used : \A y \in used : y <= x
    BY <1>2, <2>1, HasLast
  <2>3. x \in high
    BY <2>1, <2>2 DEF SegNos
  <2> DEFINE s == CHOOSE s \in high : TRUE
  <2>4. s \in high /\ NextSegmentNumber(dir) = s + 1
    BY <2>3 DEF NextSegmentNumber
  <2>5. s \in Nat /\ SegNos \subseteq Nat
    BY <2>4 DEF SegNos
  <2> HIDE DEF s
  <2> QED BY <2>4, <2>5
<1> QED BY <1>1, <1>2

\* A first free number taken makes the one after it the next.
LEMMA NextIsTaken ==
    ASSUME NEW dir \in Dirs, NEW lines \in Lines, lines # <<>>, NextSegmentNumber(dir) \in SegNos
    PROVE  NextSegmentNumber([dir EXCEPT ![NextSegmentNumber(dir)] = lines])
               = NextSegmentNumber(dir) + 1
<1> DEFINE n == NextSegmentNumber(dir)
           next == [dir EXCEPT ![n] = lines]
           high == {s \in SegNos : next[s] # <<>> /\ \A t \in SegNos : t > s => next[t] = <<>>}
<1>1. next[n] = lines /\ \A s \in SegNos \ {n} : next[s] = dir[s]
  BY DEF Dirs
<1>2. \A s \in SegNos : s > n => next[s] = <<>>
  BY <1>1, NextIsFree DEF SegNos
<1>3. high = {n}
  BY <1>1, <1>2 DEF SegNos
<1>4. (CHOOSE s \in high : TRUE) = n
  BY <1>3
<1> QED BY <1>3, <1>4 DEF NextSegmentNumber

LEMMA ConcatLines ==
    ASSUME NEW a \in Lines, NEW b \in Lines
    PROVE  /\ a \o b \in Lines
           /\ Len(a \o b) = Len(a) + Len(b)
           /\ \A i \in 1..Len(a) : i \in DOMAIN (a \o b) /\ (a \o b)[i] = a[i]
           /\ \A i \in 1..Len(b) : Len(a) + i \in DOMAIN (a \o b) /\ (a \o b)[Len(a) + i] = b[i]
           /\ \A i \in DOMAIN (a \o b) :
                 i \in 1..Len(a) \/ \E j \in 1..Len(b) : i = Len(a) + j /\ (a \o b)[i] = b[j]
<1>1. /\ a \o b \in Seq(Line) /\ Len(a \o b) = Len(a) + Len(b)
      /\ \A i \in 1 .. Len(a) + Len(b) :
            (a \o b)[i] = IF i <= Len(a) THEN a[i] ELSE b[i - Len(a)]
  BY ConcatProperties DEF Lines
<1>2. Len(a) \in Nat /\ Len(b) \in Nat /\ DOMAIN (a \o b) = 1..(Len(a) + Len(b))
  BY <1>1 DEF Lines
<1>3. ASSUME NEW i \in 1..Len(a) PROVE i \in DOMAIN (a \o b) /\ (a \o b)[i] = a[i]
  BY <1>1, <1>2
<1>4. ASSUME NEW i \in 1..Len(b) PROVE Len(a) + i \in DOMAIN (a \o b) /\ (a \o b)[Len(a) + i] = b[i]
  <2>1. Len(a) + i \in 1..(Len(a) + Len(b)) /\ ~(Len(a) + i <= Len(a)) /\ Len(a) + i - Len(a) = i
    BY <1>2
  <2> QED BY <1>1, <1>2, <2>1
<1>5. ASSUME NEW i \in DOMAIN (a \o b), i \notin 1..Len(a)
      PROVE  \E j \in 1..Len(b) : i = Len(a) + j /\ (a \o b)[i] = b[j]
  <2>1. i - Len(a) \in 1..Len(b) /\ i = Len(a) + (i - Len(a))
    BY <1>2, <1>5
  <2> QED BY <1>4, <2>1
<1> QED BY <1>1, <1>3, <1>4, <1>5 DEF Lines

LEMMA ConcatType ==
    ASSUME NEW a \in Lines, NEW b \in Lines
    PROVE  a \o b \in Lines /\ Len(a \o b) = Len(a) + Len(b)
BY ConcatLines

LEMMA InConcat ==
    ASSUME NEW a \in Lines, NEW b \in Lines, NEW i \in DOMAIN (a \o b)
    PROVE  i \in 1..Len(a) \/ \E j \in 1..Len(b) : i = Len(a) + j /\ (a \o b)[i] = b[j]
BY ConcatLines

LEMMA ConcatOfLines ==
    ASSUME NEW a \in Lines, NEW b \in Lines, NEW c \in Lines
    PROVE  (a \o b) \o c = a \o (b \o c)
BY ConcatAssociative DEF Lines

LEMMA LinesAre ==
    ASSUME NEW a \in Lines
    PROVE  /\ Len(a) \in Nat /\ DOMAIN a = 1..Len(a)
           /\ \A i \in DOMAIN a : a[i] \in Line
           /\ a # <<>> => Len(a) \in DOMAIN a
BY DEF Lines

LEMMA IdsOfConcat ==
    ASSUME NEW a \in Lines, NEW b \in Lines
    PROVE  Ids(a \o b) = Ids(a) \cup Ids(b)
<1>0. DOMAIN a = 1..Len(a) /\ DOMAIN b = 1..Len(b)
  BY LinesAre
<1>1. Ids(a) \subseteq Ids(a \o b) /\ Ids(b) \subseteq Ids(a \o b)
  <2>1. ASSUME NEW i \in 1..Len(a) PROVE a[i].id \in Ids(a \o b)
    <3>1. i \in DOMAIN (a \o b) /\ (a \o b)[i] = a[i]
      BY ConcatLines
    <3>2. (a \o b)[i].id \in Ids(a \o b)
      BY <3>1 DEF Ids
    <3> QED BY <3>1, <3>2
  <2>2. ASSUME NEW i \in 1..Len(b) PROVE b[i].id \in Ids(a \o b)
    <3>1. Len(a) + i \in DOMAIN (a \o b) /\ (a \o b)[Len(a) + i] = b[i]
      BY ConcatLines
    <3>2. (a \o b)[Len(a) + i].id \in Ids(a \o b)
      BY <3>1 DEF Ids
    <3> QED BY <3>1, <3>2
  <2>3. /\ \A x \in Ids(a) : \E i \in 1..Len(a) : x = a[i].id
        /\ \A x \in Ids(b) : \E i \in 1..Len(b) : x = b[i].id
    BY <1>0 DEF Ids
  <2> QED BY <2>1, <2>2, <2>3
<1>2. ASSUME NEW i \in DOMAIN (a \o b) PROVE (a \o b)[i].id \in Ids(a) \cup Ids(b)
  <2>1. CASE i \in 1..Len(a)
    <3>1. (a \o b)[i] = a[i] /\ i \in DOMAIN a
      BY <1>0, <2>1, ConcatLines
    <3> QED BY <3>1 DEF Ids
  <2>2. CASE \E j \in 1..Len(b) : i = Len(a) + j /\ (a \o b)[i] = b[j]
    BY <1>0, <2>2 DEF Ids
  <2> QED BY <2>1, <2>2, InConcat
<1> QED BY <1>1, <1>2 DEF Ids

LEMMA AllIdsOfConcat ==
    ASSUME NEW dir \in Dirs, NEW a \in Lines, NEW b \in Lines
    PROVE  AllIds(dir, a \o b) = AllIds(dir, a) \cup Ids(b)
<1>1. \A t \in SegNos : FileIn(dir, a \o b, t) = FileIn(dir, a, t)
  BY DEF FileIn
<1>2. \A t \in Places \ SegNos : Ids(FileIn(dir, a \o b, t)) = Ids(FileIn(dir, a, t)) \cup Ids(b)
  BY IdsOfConcat DEF FileIn
<1>3. MaxSegments + 1 \in Places \ SegNos
  BY FilesAre
<1>4. ASSUME NEW t \in Places
      PROVE  Ids(FileIn(dir, a \o b, t)) \subseteq AllIds(dir, a) \cup Ids(b)
  BY <1>1, <1>2 DEF AllIds
<1>5. ASSUME NEW t \in Places
      PROVE  Ids(FileIn(dir, a, t)) \subseteq AllIds(dir, a \o b)
  <2>1. Ids(FileIn(dir, a, t)) \subseteq Ids(FileIn(dir, a \o b, t))
    BY <1>1, <1>2
  <2> QED BY <2>1 DEF AllIds
<1>6. Ids(b) \subseteq AllIds(dir, a \o b)
  BY <1>2, <1>3 DEF AllIds
<1>7. AllIds(dir, a \o b) \subseteq AllIds(dir, a) \cup Ids(b)
  BY <1>4 DEF AllIds
<1>8. AllIds(dir, a) \subseteq AllIds(dir, a \o b)
  BY <1>5 DEF AllIds
<1> QED BY <1>6, <1>7, <1>8

-----------------------------------------------------------------------------
(* Counting events                                                         *)

LEMMA EventCountIs ==
    ASSUME NEW a \in Lines
    PROVE  /\ IsFiniteSet({i \in DOMAIN a : a[i].k = "event"})
           /\ EventCount(a) \in Nat
           /\ EventCount(a) = 0 <=> \A i \in DOMAIN a : a[i].k # "event"
<1> DEFINE evs == {i \in DOMAIN a : a[i].k = "event"}
<1>1. IsFiniteSet(1..Len(a))
  BY LinesAre, FS_Interval
<1>2. IsFiniteSet(evs)
  BY <1>1, LinesAre, FS_Subset
<1>3. Cardinality(evs) \in Nat /\ (Cardinality(evs) = 0 <=> evs = {})
  BY <1>2, FS_CardinalityType, FS_EmptySet
<1> QED BY <1>2, <1>3 DEF EventCount

LEMMA EventsCount ==
    ASSUME NEW a \in Lines, NEW b \in Seq(Event)
    PROVE  EventCount(a \o b) = EventCount(a) + Len(b)
<1>1. b \in Lines /\ Len(b) \in Nat /\ Len(a) \in Nat
  BY LinesAre DEF Lines, Line
<1>2. ASSUME NEW i \in 1..Len(b) PROVE b[i].k = "event"
  <2>1. b[i] \in Event
    OBVIOUS
  <2> QED BY <2>1 DEF Event
<1> DEFINE evs == {i \in DOMAIN a : a[i].k = "event"}
           new == (Len(a) + 1)..(Len(a) + Len(b))
           all == {i \in DOMAIN (a \o b) : (a \o b)[i].k = "event"}
<1>3. all = evs \cup new
  <2>1. ASSUME NEW i \in evs PROVE i \in all
    <3>1. i \in 1..Len(a)
      BY LinesAre
    <3>2. i \in DOMAIN (a \o b) /\ (a \o b)[i] = a[i]
      BY <1>1, <3>1, ConcatLines
    <3> QED BY <3>2
  <2>2. ASSUME NEW i \in new PROVE i \in all
    <3>1. i - Len(a) \in 1..Len(b) /\ Len(a) + (i - Len(a)) = i
      BY <1>1
    <3>2. i \in DOMAIN (a \o b) /\ (a \o b)[i] = b[i - Len(a)]
      BY <1>1, <3>1, ConcatLines
    <3> QED BY <1>2, <3>1, <3>2
  <2>3. ASSUME NEW i \in all PROVE i \in evs \cup new
    <3>1. CASE i \in 1..Len(a)
      BY <1>1, <3>1, ConcatLines, LinesAre
    <3>2. CASE \E j \in 1..Len(b) : i = Len(a) + j
      BY <1>1, <3>2
    <3> QED BY <1>1, <3>1, <3>2, ConcatLines
  <2> QED BY <2>1, <2>2, <2>3
<1>4. IsFiniteSet(evs) /\ IsFiniteSet(new) /\ Cardinality(new) = Len(b)
  <2>1. IsFiniteSet(evs)
    BY EventCountIs
  <2>2. Len(a) + 1 \in Int /\ Len(a) + Len(b) \in Int
    BY <1>1
  <2>3. /\ IsFiniteSet(new)
        /\ Cardinality(new) = IF Len(a) + 1 > Len(a) + Len(b) THEN 0
                              ELSE Len(a) + Len(b) - (Len(a) + 1) + 1
    BY <2>2, FS_Interval
  <2> QED BY <1>1, <2>1, <2>3
<1>5. evs \cap new = {}
  BY <1>1, LinesAre
<1>6. Cardinality(evs) \in Nat /\ Cardinality({}) = 0
  BY <1>4, FS_CardinalityType, FS_EmptySet
<1>7. Cardinality(evs \cup new) = Cardinality(evs) + Cardinality(new)
  <2> HIDE DEF evs, new
  <2>1. Cardinality(evs \cup new) = Cardinality(evs) + Cardinality(new) - Cardinality(evs \cap new)
    BY <1>4, FS_Union
  <2>2. Cardinality(new) \in Nat
    BY <1>1, <1>4
  <2>3. Cardinality(evs \cap new) = 0
    BY <1>5, <1>6, Zenon
  <2> QED BY <1>6, <2>1, <2>2, <2>3
<1> QED BY <1>3, <1>4, <1>7 DEF EventCount

LEMMA ASealDoesNotCount ==
    ASSUME NEW a \in Lines, NEW l \in Seal
    PROVE  EventCount(a \o <<l>>) = EventCount(a)
<1>1. <<l>> \in Lines /\ Len(<<l>>) = 1 /\ <<l>>[1] = l /\ l.k = "seal" /\ Len(a) \in Nat
  BY LineKinds, LinesAre DEF Lines
<1> DEFINE evs == {i \in DOMAIN a : a[i].k = "event"}
           all == {i \in DOMAIN (a \o <<l>>) : (a \o <<l>>)[i].k = "event"}
<1>2. ASSUME NEW i \in DOMAIN (a \o <<l>>) PROVE i \in all <=> i \in evs
  <2>1. CASE i \in 1..Len(a)
    BY <1>1, <2>1, ConcatLines, LinesAre
  <2>2. CASE \E j \in 1..Len(<<l>>) : i = Len(a) + j /\ (a \o <<l>>)[i] = <<l>>[j]
    BY <1>1, <2>2, LinesAre
  <2> QED BY <1>1, <2>1, <2>2, ConcatLines
<1>3. evs \subseteq DOMAIN (a \o <<l>>)
  BY <1>1, ConcatLines, LinesAre
<1>4. all = evs
  BY <1>2, <1>3
<1> QED BY <1>4 DEF EventCount

-----------------------------------------------------------------------------
(* What the files promise, of any directory and active file                *)

\* Everything that stands before a line of a file.
IdsBefore(dir, active, s, i) ==
    {FileIn(dir, active, s)[j].id : j \in 1..(i - 1)}
    \cup UNION {Ids(FileIn(dir, active, t)) : t \in {u \in Places : u < s}}

\* A seal answers for it, from where it stands.
AnswersAt(dir, active, s, i) ==
    /\ FileIn(dir, active, s)[i].at = i - 1
    /\ FileIn(dir, active, s)[i].seg = IF s \in SegNos THEN s ELSE NextSegmentNumber(dir)
    /\ FileIn(dir, active, s)[i].tip = IdsBefore(dir, active, s, i)

Answers(dir, active) ==
    \A s \in Places : \A i \in DOMAIN FileIn(dir, active, s) :
        FileIn(dir, active, s)[i].k = "seal" => AnswersAt(dir, active, s, i)

\* Two events in the order they are read.
InTurn(s, i, a, t, j, b) == (s < t \/ (s = t /\ i < j)) /\ a.k = "event" /\ b.k = "event"

Grows(dir, active) ==
    \A s, t \in Places : \A i \in DOMAIN FileIn(dir, active, s), j \in DOMAIN FileIn(dir, active, t) :
        InTurn(s, i, FileIn(dir, active, s)[i], t, j, FileIn(dir, active, t)[j])
            => Before(FileIn(dir, active, s)[i].at, FileIn(dir, active, t)[j].at)

Closes(lines) == lines # <<>> /\ lines[Len(lines)].k = "seal" /\ lines[Len(lines)].closed

CountsItself(lines) ==
    Closes(lines) => lines[Len(lines)].n = EventCount(lines) /\ EventCount(lines) > 0

ClosedAsTheyShould(dir) == \A s \in SegNos : dir[s] # <<>> => Closes(dir[s]) /\ CountsItself(dir[s])

Sound(dir, active) ==
    Answers(dir, active) /\ Grows(dir, active) /\ CountsItself(active) /\ ClosedAsTheyShould(dir)

\* Every event of the log is before a stamp, or none is after it.
AllBefore(dir, active, at) ==
    \A s \in Places : \A i \in DOMAIN FileIn(dir, active, s) :
        FileIn(dir, active, s)[i].k = "event" => Before(FileIn(dir, active, s)[i].at, at)
HeadAbove(head, dir, active) ==
    \A s \in Places : \A i \in DOMAIN FileIn(dir, active, s) :
        FileIn(dir, active, s)[i].k = "event" => ~Before(head, FileIn(dir, active, s)[i].at)

LEMMA BeforeOrders ==
    ASSUME NEW a \in Stamps, NEW b \in Stamps, NEW c \in Stamps
    PROVE  /\ ~Before(a, a)
           /\ Before(a, b) => ~Before(b, a)
           /\ Before(a, b) /\ Before(b, c) => Before(a, c)
           /\ ~Before(b, a) /\ Before(b, c) => Before(a, c)
           /\ ~Before(b, a) /\ ~Before(c, b) => ~Before(c, a)
BY DEF Stamps, Before

\* What a line says of the lines before it does not change by what is written after it.
LEMMA IdsBeforeStay ==
    ASSUME NEW dir \in Dirs, NEW a \in Lines, NEW b \in Lines, NEW s \in Places,
           NEW i \in DOMAIN FileIn(dir, a, s)
    PROVE  /\ i \in DOMAIN FileIn(dir, a \o b, s)
           /\ FileIn(dir, a \o b, s)[i] = FileIn(dir, a, s)[i]
           /\ IdsBefore(dir, a \o b, s, i) = IdsBefore(dir, a, s, i)
<1>1. FileIn(dir, a, s) \in Lines
  BY FileInType
<1>2. i \in 1..Len(FileIn(dir, a, s)) /\ Len(FileIn(dir, a, s)) \in Nat
  BY <1>1, LinesAre
<1>3. ASSUME NEW j \in 1..i
      PROVE  j \in DOMAIN FileIn(dir, a \o b, s) /\ FileIn(dir, a \o b, s)[j] = FileIn(dir, a, s)[j]
  <2>1. j \in 1..Len(FileIn(dir, a, s)) /\ j \in DOMAIN FileIn(dir, a, s)
    BY <1>1, <1>2, LinesAre
  <2>2. CASE s \in SegNos
    BY <2>1, <2>2 DEF FileIn
  <2>3. CASE s \notin SegNos
    BY <2>1, <2>3, ConcatLines DEF FileIn
  <2> QED BY <2>2, <2>3
<1>4. i \in 1..i /\ 1..(i - 1) \subseteq 1..i
  BY <1>2
<1>5. {FileIn(dir, a \o b, s)[j].id : j \in 1..(i - 1)} = {FileIn(dir, a, s)[j].id : j \in 1..(i - 1)}
  BY <1>3, <1>4
<1>6. \A t \in {u \in Places : u < s} : FileIn(dir, a \o b, t) = FileIn(dir, a, t)
  <2>1. \A t \in {u \in Places : u < s} : t \in SegNos
    BY FilesAre DEF SegNos
  <2> QED BY <2>1 DEF FileIn
<1>7. UNION {Ids(FileIn(dir, a \o b, t)) : t \in {u \in Places : u < s}}
        = UNION {Ids(FileIn(dir, a, t)) : t \in {u \in Places : u < s}}
  BY <1>6
<1> QED BY <1>3, <1>4, <1>5, <1>7 DEF IdsBefore

\* A line of the log with lines written after it is one of the old ones or one of the new.
LEMMA OldOrNew ==
    ASSUME NEW dir \in Dirs, NEW a \in Lines, NEW b \in Lines, NEW s \in Places,
           NEW i \in DOMAIN FileIn(dir, a \o b, s)
    PROVE  \/ i \in DOMAIN FileIn(dir, a, s) /\ FileIn(dir, a \o b, s)[i] = FileIn(dir, a, s)[i]
           \/ /\ s = MaxSegments + 1 /\ FileIn(dir, a, s) = a
              /\ \E j \in 1..Len(b) : i = Len(a) + j /\ FileIn(dir, a \o b, s)[i] = b[j]
<1>1. CASE s \in SegNos
  BY <1>1 DEF FileIn
<1>2. CASE s \notin SegNos
  <2>1. FileIn(dir, a \o b, s) = a \o b /\ FileIn(dir, a, s) = a /\ s = MaxSegments + 1
    BY <1>2, FilesAre DEF FileIn
  <2>2. CASE i \in 1..Len(a)
    BY <2>1, <2>2, ConcatLines, LinesAre
  <2>3. CASE \E j \in 1..Len(b) : i = Len(a) + j /\ (a \o b)[i] = b[j]
    BY <2>1, <2>3
  <2>4. i \in 1..Len(a) \/ \E j \in 1..Len(b) : i = Len(a) + j /\ (a \o b)[i] = b[j]
    <3>1. i \in DOMAIN (a \o b)
      BY <2>1
    <3> QED BY <3>1, ConcatLines
  <2> QED BY <2>2, <2>3, <2>4
<1> QED BY <1>1, <1>2

\* Events after all that is there, one after the other.
LEMMA EventsFollow ==
    ASSUME NEW dir \in Dirs, NEW a \in Lines, NEW b \in Seq(Event), Sound(dir, a),
           \A i, j \in 1..Len(b) : i < j => Before(b[i].at, b[j].at),
           \A i \in 1..Len(b) : AllBefore(dir, a, b[i].at)
    PROVE  Sound(dir, a \o b)
<1>1. b \in Lines /\ DOMAIN b = 1..Len(b) /\ Len(b) \in Nat /\ Len(a) \in Nat
  BY LinesAre DEF Lines, Line
<1>2. ASSUME NEW j \in 1..Len(b) PROVE b[j].k = "event"
  <2>1. b[j] \in Event
    OBVIOUS
  <2> QED BY <2>1, LineKinds
<1>3. Answers(dir, a \o b)
  <2> SUFFICES ASSUME NEW s \in Places, NEW i \in DOMAIN FileIn(dir, a \o b, s),
                      FileIn(dir, a \o b, s)[i].k = "seal"
               PROVE  AnswersAt(dir, a \o b, s, i)
    BY DEF Answers
  <2>1. i \in DOMAIN FileIn(dir, a, s) /\ FileIn(dir, a \o b, s)[i] = FileIn(dir, a, s)[i]
    BY <1>1, <1>2, OldOrNew
  <2>2. AnswersAt(dir, a, s, i)
    BY <2>1 DEF Sound, Answers
  <2>3. IdsBefore(dir, a \o b, s, i) = IdsBefore(dir, a, s, i)
    BY <1>1, <2>1, IdsBeforeStay
  <2> QED BY <2>1, <2>2, <2>3 DEF AnswersAt
<1>4. Grows(dir, a \o b)
  <2> SUFFICES ASSUME NEW s \in Places, NEW t \in Places,
                      NEW i \in DOMAIN FileIn(dir, a \o b, s), NEW j \in DOMAIN FileIn(dir, a \o b, t),
                      InTurn(s, i, FileIn(dir, a \o b, s)[i], t, j, FileIn(dir, a \o b, t)[j])
               PROVE  Before(FileIn(dir, a \o b, s)[i].at, FileIn(dir, a \o b, t)[j].at)
    BY DEF Grows
  <2> DEFINE old(x, k) == k \in DOMAIN FileIn(dir, a, x)
                          /\ FileIn(dir, a \o b, x)[k] = FileIn(dir, a, x)[k]
             new(x, k) == /\ x = MaxSegments + 1 /\ FileIn(dir, a, x) = a
                          /\ \E n \in 1..Len(b) : k = Len(a) + n /\ FileIn(dir, a \o b, x)[k] = b[n]
  <2>1. (old(s, i) \/ new(s, i)) /\ (old(t, j) \/ new(t, j))
    BY <1>1, OldOrNew
  <2>2. CASE old(s, i) /\ old(t, j)
    <3>1. InTurn(s, i, FileIn(dir, a, s)[i], t, j, FileIn(dir, a, t)[j])
      BY <2>2
    <3>2. Before(FileIn(dir, a, s)[i].at, FileIn(dir, a, t)[j].at)
      BY <2>2, <3>1 DEF Sound, Grows
    <3> QED BY <2>2, <3>2
  <2>3. CASE old(s, i) /\ new(t, j)
    <3>1. PICK n \in 1..Len(b) : FileIn(dir, a \o b, t)[j] = b[n]
      BY <2>3
    <3>2. FileIn(dir, a, s)[i].k = "event"
      BY <2>3 DEF InTurn
    <3>3. Before(FileIn(dir, a, s)[i].at, b[n].at)
      BY <2>3, <3>2 DEF AllBefore
    <3> QED BY <2>3, <3>1, <3>3
  <2>4. CASE new(s, i) /\ old(t, j)
    <3>1. t <= MaxSegments + 1 /\ t \in Nat /\ MaxSegments \in Nat
      BY FilesAre DEF Places
    <3>2. t = s /\ i < j
      BY <2>4, <3>1 DEF InTurn
    <3>3. j \in DOMAIN a
      BY <2>4, <3>2
    <3>4. j <= Len(a) /\ j \in Nat
      BY <3>3, LinesAre
    <3> QED BY <1>1, <2>4, <3>2, <3>4
  <2>5. CASE new(s, i) /\ new(t, j)
    <3>1. PICK m \in 1..Len(b) : i = Len(a) + m /\ FileIn(dir, a \o b, s)[i] = b[m]
      BY <2>5
    <3>2. PICK n \in 1..Len(b) : j = Len(a) + n /\ FileIn(dir, a \o b, t)[j] = b[n]
      BY <2>5
    <3>3. s = t /\ s \in Nat
      BY <2>5, FilesAre
    <3>4. m < n
      BY <1>1, <3>1, <3>2, <3>3 DEF InTurn
    <3> QED BY <3>1, <3>2, <3>4
  <2> HIDE DEF old, new
  <2> QED BY <2>1, <2>2, <2>3, <2>4, <2>5
<1>5. CountsItself(a \o b)
  <2>1. CASE b = <<>>
    BY <2>1, ConcatEmptySeq DEF Sound, Lines
  <2>2. CASE b # <<>>
    <3>1. Len(b) \in 1..Len(b)
      BY <1>1, <2>2
    <3>2. (a \o b)[Len(a \o b)] = b[Len(b)]
      BY <1>1, <3>1, ConcatLines
    <3>3. (a \o b)[Len(a \o b)].k = "event"
      BY <1>2, <3>1, <3>2
    <3> QED BY <3>3 DEF CountsItself, Closes
  <2> QED BY <2>1, <2>2
<1> QED BY <1>3, <1>4, <1>5 DEF Sound

\* A seal over all that is there.
LEMMA ASealFollows ==
    ASSUME NEW dir \in Dirs, NEW a \in Lines, NEW l \in Seal, Sound(dir, a),
           l.at = Len(a), l.seg = NextSegmentNumber(dir), l.tip = AllIds(dir, a),
           l.closed => l.n = EventCount(a) /\ EventCount(a) > 0
    PROVE  Sound(dir, a \o <<l>>)
<1> DEFINE b == <<l>>
           last == MaxSegments + 1
<1>1. b \in Lines /\ Len(b) = 1 /\ b[1] = l /\ l.k = "seal" /\ Len(a) \in Nat
  BY LineKinds, LinesAre DEF Lines
<1> HIDE DEF b
<1>2. \A j \in 1..Len(b) : j = 1
  BY <1>1
<1>3. Answers(dir, a \o b)
  <2> SUFFICES ASSUME NEW s \in Places, NEW i \in DOMAIN FileIn(dir, a \o b, s),
                      FileIn(dir, a \o b, s)[i].k = "seal"
               PROVE  AnswersAt(dir, a \o b, s, i)
    BY DEF Answers
  <2>1. CASE i \in DOMAIN FileIn(dir, a, s) /\ FileIn(dir, a \o b, s)[i] = FileIn(dir, a, s)[i]
    <3>1. AnswersAt(dir, a, s, i)
      BY <2>1 DEF Sound, Answers
    <3>2. IdsBefore(dir, a \o b, s, i) = IdsBefore(dir, a, s, i)
      BY <1>1, <2>1, IdsBeforeStay
    <3> QED BY <2>1, <3>1, <3>2 DEF AnswersAt
  <2>2. CASE /\ s = last /\ FileIn(dir, a, s) = a
             /\ \E j \in 1..Len(b) : i = Len(a) + j /\ FileIn(dir, a \o b, s)[i] = b[j]
    <3>1. i = Len(a) + 1 /\ FileIn(dir, a \o b, s)[i] = l /\ s \notin SegNos
      BY <1>1, <1>2, <2>2, FilesAre
    <3>2. FileIn(dir, a \o b, s) = a \o b /\ i - 1 = Len(a)
      BY <1>1, <3>1 DEF FileIn
    <3>3. {FileIn(dir, a \o b, s)[j].id : j \in 1..(i - 1)} = Ids(a)
      <4>1. \A j \in 1..Len(a) : (a \o b)[j] = a[j]
        BY <1>1, ConcatLines
      <4>2. DOMAIN a = 1..Len(a)
        BY LinesAre
      <4> QED BY <3>2, <4>1, <4>2 DEF Ids
    <3>4. \A t \in {u \in Places : u < s} : FileIn(dir, a \o b, t) = FileIn(dir, a, t)
      <4>1. \A t \in {u \in Places : u < s} : t \in SegNos
        BY <2>2, FilesAre DEF SegNos
      <4> QED BY <4>1 DEF FileIn
    <3>5. UNION {Ids(FileIn(dir, a \o b, t)) : t \in {u \in Places : u < s}}
            = UNION {Ids(FileIn(dir, a, t)) : t \in {u \in Places : u < s}}
      BY <3>4
    <3>6. Places = {u \in Places : u < s} \cup {s}
      BY <2>2, FilesAre DEF Places
    <3> DEFINE earlier == UNION {Ids(FileIn(dir, a, t)) : t \in {u \in Places : u < s}}
    <3>7. earlier \cup Ids(a) = AllIds(dir, a)
      <4>1. Ids(a) \subseteq AllIds(dir, a)
        BY <2>2, FilesAre DEF AllIds
      <4>2. earlier \subseteq AllIds(dir, a)
        BY DEF AllIds
      <4>3. ASSUME NEW t \in Places PROVE Ids(FileIn(dir, a, t)) \subseteq earlier \cup Ids(a)
        BY <2>2, <3>6
      <4>4. AllIds(dir, a) \subseteq earlier \cup Ids(a)
        BY <4>3 DEF AllIds
      <4> QED BY <4>1, <4>2, <4>4
    <3>9. IdsBefore(dir, a \o b, s, i) = Ids(a) \cup earlier
      BY <3>3, <3>5 DEF IdsBefore
    <3> HIDE DEF earlier
    <3>8. IdsBefore(dir, a \o b, s, i) = AllIds(dir, a)
      BY <3>7, <3>9
    <3> QED BY <3>1, <3>2, <3>8 DEF AnswersAt
  <2> QED BY <1>1, <2>1, <2>2, OldOrNew
<1>4. Grows(dir, a \o b)
  <2> SUFFICES ASSUME NEW s \in Places, NEW t \in Places,
                      NEW i \in DOMAIN FileIn(dir, a \o b, s), NEW j \in DOMAIN FileIn(dir, a \o b, t),
                      InTurn(s, i, FileIn(dir, a \o b, s)[i], t, j, FileIn(dir, a \o b, t)[j])
               PROVE  Before(FileIn(dir, a \o b, s)[i].at, FileIn(dir, a \o b, t)[j].at)
    BY DEF Grows
  <2>1. FileIn(dir, a \o b, s)[i].k # "seal" /\ FileIn(dir, a \o b, t)[j].k # "seal"
    BY DEF InTurn
  <2>2. i \in DOMAIN FileIn(dir, a, s) /\ FileIn(dir, a \o b, s)[i] = FileIn(dir, a, s)[i]
    BY <1>1, <1>2, <2>1, OldOrNew
  <2>3. j \in DOMAIN FileIn(dir, a, t) /\ FileIn(dir, a \o b, t)[j] = FileIn(dir, a, t)[j]
    BY <1>1, <1>2, <2>1, OldOrNew
  <2>4. InTurn(s, i, FileIn(dir, a, s)[i], t, j, FileIn(dir, a, t)[j])
    BY <2>2, <2>3
  <2>5. Before(FileIn(dir, a, s)[i].at, FileIn(dir, a, t)[j].at)
    BY <2>2, <2>3, <2>4 DEF Sound, Grows
  <2> QED BY <2>2, <2>3, <2>5
<1>5. CountsItself(a \o b)
  <2>1. 1 \in 1..Len(b)
    BY <1>1
  <2>5. Len(a \o b) = Len(a) + 1
    BY <1>1, ConcatType
  <2>4. Len(a \o b) = Len(a) + 1 /\ (a \o b)[Len(a) + 1] = b[1]
    BY <1>1, <2>1, <2>5, ConcatLines
  <2>2. (a \o b)[Len(a \o b)] = l
    BY <1>1, <2>4
  <2>3. EventCount(a \o b) = EventCount(a)
    BY ASealDoesNotCount DEF b
  <2> QED BY <2>2, <2>3 DEF CountsItself, Closes
<1> QED BY <1>3, <1>4, <1>5 DEF Sound, b

\* The active file takes the first free number: the log reads as before.
LEMMA ClosingKeepsTheLog ==
    ASSUME NEW dir \in Dirs, NEW a \in Lines, Sound(dir, a), Closes(a),
           NextSegmentNumber(dir) \in SegNos
    PROVE  LET next == [dir EXCEPT ![NextSegmentNumber(dir)] = a]
           IN  /\ next \in Dirs
               /\ Sound(next, <<>>)
               /\ AllIds(next, <<>>) = AllIds(dir, a)
               /\ \A head : HeadAbove(head, dir, a) => HeadAbove(head, next, <<>>)
               /\ \A at : AllBefore(dir, a, at) => AllBefore(next, <<>>, at)
<1> DEFINE n == NextSegmentNumber(dir)
           next == [dir EXCEPT ![n] = a]
           last == MaxSegments + 1
           was(s) == IF s = n THEN last ELSE s
<1>0. n \in SegNos /\ n \in Nat /\ last \in Nat /\ n < last /\ a # <<>>
  BY FilesAre DEF Closes
<1>1. next \in Dirs /\ next[n] = a /\ \A s \in SegNos \ {n} : next[s] = dir[s]
  BY DEF Dirs, Lines
<1>2. \A s \in SegNos : s >= n => dir[s] = <<>>
  BY NextIsFree
<1>3. NextSegmentNumber(next) = n + 1
  BY <1>0, NextIsTaken
<1> HIDE DEF n, next, last
<1>4. last \in Places /\ last \notin SegNos /\ SegNos \subseteq Places /\ Places \subseteq Nat
      /\ \A s \in Places : s \in SegNos \/ s = last
  BY FilesAre DEF last
<1>5. ASSUME NEW s \in Places, NEW i \in DOMAIN FileIn(next, <<>>, s)
      PROVE  s <= n /\ s \in SegNos
  <2>1. CASE s \notin SegNos
    BY <2>1 DEF FileIn
  <2>2. CASE s \in SegNos /\ s > n
    <3>1. FileIn(next, <<>>, s) = <<>>
      BY <1>0, <1>1, <1>2, <1>4, <2>2 DEF FileIn
    <3> QED BY <3>1
  <2> QED BY <1>0, <1>4, <2>1, <2>2
<1>6. ASSUME NEW s \in Places, s <= n, s \in SegNos
      PROVE  was(s) \in Places /\ FileIn(next, <<>>, s) = FileIn(dir, a, was(s))
  <2>1. CASE s = n
    BY <1>0, <1>1, <1>4, <2>1 DEF FileIn
  <2>2. CASE s # n
    BY <1>1, <1>4, <1>6, <2>2 DEF FileIn
  <2> QED BY <2>1, <2>2
<1>7. AllIds(next, <<>>) = AllIds(dir, a)
  <2>1. ASSUME NEW s \in Places PROVE Ids(FileIn(next, <<>>, s)) \subseteq AllIds(dir, a)
    <3>1. CASE s <= n /\ s \in SegNos
      BY <1>6, <3>1 DEF AllIds
    <3>2. CASE ~(s <= n /\ s \in SegNos)
      <4>1. DOMAIN FileIn(next, <<>>, s) = {}
        BY <1>5, <3>2
      <4> QED BY <4>1 DEF Ids
    <3> QED BY <3>1, <3>2
  <2>2. ASSUME NEW s \in Places PROVE Ids(FileIn(dir, a, s)) \subseteq AllIds(next, <<>>)
    <3>1. CASE s = last
      <4>1. FileIn(dir, a, s) = FileIn(next, <<>>, n) /\ n \in Places
        BY <1>0, <1>1, <1>4, <3>1 DEF FileIn
      <4> QED BY <4>1 DEF AllIds
    <3>2. CASE s \in SegNos /\ s < n
      <4>1. FileIn(dir, a, s) = FileIn(next, <<>>, s)
        BY <1>0, <1>1, <1>4, <3>2 DEF FileIn
      <4> QED BY <4>1 DEF AllIds
    <3>3. CASE s \in SegNos /\ s >= n
      <4>1. FileIn(dir, a, s) = <<>>
        BY <1>2, <3>3 DEF FileIn
      <4> QED BY <4>1 DEF Ids
    <3> QED BY <1>0, <1>4, <3>1, <3>2, <3>3
  <2>3. AllIds(next, <<>>) \subseteq AllIds(dir, a)
    BY <2>1 DEF AllIds
  <2>4. AllIds(dir, a) \subseteq AllIds(next, <<>>)
    BY <2>2 DEF AllIds
  <2> QED BY <2>3, <2>4
<1>8. ASSUME NEW s \in SegNos, s <= n, NEW i
      PROVE  IdsBefore(next, <<>>, s, i) = IdsBefore(dir, a, was(s), i)
  <2>1. FileIn(next, <<>>, s) = FileIn(dir, a, was(s))
    BY <1>4, <1>6, <1>8
  <2> DEFINE before(d, f, m) == UNION {Ids(FileIn(d, f, t)) : t \in {u \in Places : u < m}}
  <2>2. ASSUME NEW t \in Places, t < s
        PROVE  t < was(s) /\ FileIn(next, <<>>, t) = FileIn(dir, a, t)
    <3>1. t \in SegNos /\ t < n /\ t < was(s)
      BY <1>0, <1>4, <1>8, <2>2 DEF SegNos
    <3> QED BY <1>0, <1>1, <3>1 DEF FileIn
  <2>3. ASSUME NEW t \in Places, t < was(s), ~(t < s)
        PROVE  Ids(FileIn(dir, a, t)) = {}
    <3>1. s = n /\ t \in SegNos /\ t >= n
      BY <1>0, <1>4, <1>8, <2>3
    <3>2. FileIn(dir, a, t) = <<>>
      BY <1>2, <3>1 DEF FileIn
    <3> QED BY <3>2 DEF Ids
  <2>4. before(next, <<>>, s) \subseteq before(dir, a, was(s))
    BY <2>2
  <2>5. before(dir, a, was(s)) \subseteq before(next, <<>>, s)
    BY <2>2, <2>3
  <2>6. before(next, <<>>, s) = before(dir, a, was(s))
    BY <2>4, <2>5
  <2> QED BY <2>1, <2>6 DEF IdsBefore
<1>9. Answers(next, <<>>)
  <2> SUFFICES ASSUME NEW s \in Places, NEW i \in DOMAIN FileIn(next, <<>>, s),
                      FileIn(next, <<>>, s)[i].k = "seal"
               PROVE  AnswersAt(next, <<>>, s, i)
    BY DEF Answers
  <2>1. s <= n /\ s \in SegNos
    BY <1>5
  <2>2. was(s) \in Places /\ FileIn(next, <<>>, s) = FileIn(dir, a, was(s))
    BY <1>6, <2>1
  <2>3. AnswersAt(dir, a, was(s), i)
    BY <2>2 DEF Sound, Answers
  <2>4. IdsBefore(next, <<>>, s, i) = IdsBefore(dir, a, was(s), i)
    BY <1>8, <2>1
  <2>5. (IF was(s) \in SegNos THEN was(s) ELSE NextSegmentNumber(dir)) = s
    BY <1>4, <2>1 DEF n
  <2> QED BY <2>1, <2>2, <2>3, <2>4, <2>5 DEF AnswersAt
<1>10. Grows(next, <<>>)
  <2> SUFFICES ASSUME NEW s \in Places, NEW t \in Places,
                      NEW i \in DOMAIN FileIn(next, <<>>, s), NEW j \in DOMAIN FileIn(next, <<>>, t),
                      InTurn(s, i, FileIn(next, <<>>, s)[i], t, j, FileIn(next, <<>>, t)[j])
               PROVE  Before(FileIn(next, <<>>, s)[i].at, FileIn(next, <<>>, t)[j].at)
    BY DEF Grows
  <2>1. s <= n /\ s \in SegNos /\ t <= n /\ t \in SegNos
    BY <1>5
  <2>2. /\ was(s) \in Places /\ FileIn(next, <<>>, s) = FileIn(dir, a, was(s))
        /\ was(t) \in Places /\ FileIn(next, <<>>, t) = FileIn(dir, a, was(t))
    BY <1>6, <2>1
  <2>3. (s < t => was(s) < was(t)) /\ (s = t => was(s) = was(t))
    BY <1>0, <1>4, <2>1
  <2>4. InTurn(was(s), i, FileIn(dir, a, was(s))[i], was(t), j, FileIn(dir, a, was(t))[j])
    BY <2>2, <2>3 DEF InTurn
  <2> HIDE DEF was
  <2> QED BY <2>2, <2>4 DEF Sound, Grows
<1>11. CountsItself(<<>>) /\ ClosedAsTheyShould(next)
  BY <1>1 DEF CountsItself, Closes, ClosedAsTheyShould, Sound
<1>12. ASSUME NEW s \in Places, NEW i \in DOMAIN FileIn(next, <<>>, s)
       PROVE  was(s) \in Places /\ FileIn(next, <<>>, s) = FileIn(dir, a, was(s))
  BY <1>5, <1>6
<1>13. \A head : HeadAbove(head, dir, a) => HeadAbove(head, next, <<>>)
  <2> HIDE DEF was
  <2> QED BY <1>12 DEF HeadAbove
<1>14. \A at : AllBefore(dir, a, at) => AllBefore(next, <<>>, at)
  <2> HIDE DEF was
  <2> QED BY <1>12 DEF AllBefore
<1>15. Sound(next, <<>>)
  BY <1>9, <1>10, <1>11 DEF Sound
<1> QED BY <1>1, <1>7, <1>13, <1>14, <1>15 DEF next, n

-----------------------------------------------------------------------------
(* What a Store makes of the files                                         *)

\* The chain folded on from the last seal that answers is the chain of all there is.
LEMMA TipIsAll ==
    ASSUME closed \in Dirs, NEW a \in Lines, Answers(closed, a)
    PROVE  TipNow(a) = AllIds(closed, a)
<1> DEFINE answered == {s \in Places :
                          /\ AnsweredAt(File(s, a)) # 0
                          /\ \A t \in Places : t > s => AnsweredAt(File(t, a)) = 0}
           since(s) == UNION {Ids(File(t, a)) : t \in {u \in Places : u > s}}
           from == CHOOSE s \in answered : TRUE
           file == File(from, a)
           at   == AnsweredAt(file)
<1>0. Places \subseteq Nat \ {0} /\ \A s : File(s, a) = FileIn(closed, a, s)
  BY FilesAre DEF Places
<1>1. CASE answered = {}
  <2>1. TipNow(a) = since(0)
    BY <1>1 DEF TipNow
  <2>2. {u \in Places : u > 0} = Places
    <3>1. \A u \in Places : u > 0
      BY FilesAre DEF Places
    <3> QED BY <3>1
  <2>3. since(0) = AllIds(closed, a)
    BY <1>0, <2>2 DEF AllIds
  <2> QED BY <2>1, <2>3
<1>2. CASE answered # {}
  <2>1. from \in Places /\ at # 0
    BY <1>2
  <2>2. TipNow(a) = file[at].tip \cup {file[i].id : i \in at..Len(file)} \cup since(from)
    BY <1>2 DEF TipNow
  <2>3. at \in DOMAIN file /\ file[at].k = "seal"
    BY <2>1 DEF AnsweredAt
  <2>4. file = FileIn(closed, a, from) /\ file \in Lines
    BY <1>0, FileInType
  <2> HIDE DEF answered, from, at
  <2>5. file[at].tip = IdsBefore(closed, a, from, at)
    BY <2>1, <2>3, <2>4 DEF Answers, AnswersAt
  <2>6. DOMAIN file = 1..Len(file) /\ Len(file) \in Nat /\ at \in Nat
    BY <2>3, <2>4, LinesAre
  <2>7. Ids(file) = {file[i].id : i \in 1..(at - 1)} \cup {file[i].id : i \in at..Len(file)}
    <3>1. \A i \in DOMAIN file : i \in 1..(at - 1) \/ i \in at..Len(file)
      BY <2>6
    <3>2. 1..(at - 1) \subseteq DOMAIN file /\ at..Len(file) \subseteq DOMAIN file
      BY <2>3, <2>6
    <3> QED BY <3>1, <3>2 DEF Ids
  <2> DEFINE upto == UNION {Ids(FileIn(closed, a, t)) : t \in {u \in Places : u < from}}
  <2>8. AllIds(closed, a) = upto \cup Ids(file) \cup since(from)
    <3>1. ASSUME NEW t \in Places
          PROVE  Ids(FileIn(closed, a, t)) \subseteq upto \cup Ids(file) \cup since(from)
      <4>1. t < from \/ t = from \/ t > from
        BY <1>0, <2>1
      <4>2. CASE t > from
        BY <1>0, <4>2
      <4> QED BY <2>4, <4>1, <4>2
    <3>2. AllIds(closed, a) \subseteq upto \cup Ids(file) \cup since(from)
      BY <3>1 DEF AllIds
    <3>3. upto \subseteq AllIds(closed, a)
      BY DEF AllIds
    <3>4. since(from) \subseteq AllIds(closed, a)
      BY <1>0 DEF AllIds
    <3>5. Ids(file) \subseteq AllIds(closed, a)
      BY <2>1, <2>4 DEF AllIds
    <3> QED BY <3>2, <3>3, <3>4, <3>5
  <2>9. IdsBefore(closed, a, from, at) = {file[i].id : i \in 1..(at - 1)} \cup upto
    BY <2>4 DEF IdsBefore
  <2> HIDE DEF upto, since, file
  <2> QED BY <2>2, <2>5, <2>7, <2>8, <2>9
<1> QED BY <1>1, <1>2

LEMMA EventStamps ==
    ASSUME NEW a \in Lines, NEW i \in DOMAIN a, a[i].k = "event"
    PROVE  a[i].at \in Stamps /\ a[i] \in Events(a)
BY LinesAre, LineKinds DEF Events

\* The newest stamp of the last file with an event in it is the newest of the log.
LEMMA NewestAbove ==
    ASSUME NEW dir \in Dirs, NEW a \in Lines, Grows(dir, a), NEW s \in Places,
           EventCount(FileIn(dir, a, s)) # 0,
           \A t \in Places : t > s => EventCount(FileIn(dir, a, t)) = 0
    PROVE  HeadAbove(Newest(Events(FileIn(dir, a, s))), dir, a)
<1> DEFINE file == FileIn(dir, a, s)
           said == {i \in DOMAIN file : file[i].k = "event"}
           last == {e \in Events(file) : \A f \in Events(file) : ~Before(e.at, f.at)}
           head == Newest(Events(file))
<1>1. file \in Lines
  BY FileInType
<1>2. Len(file) \in Nat /\ DOMAIN file = 1..Len(file)
  BY <1>1, LinesAre
<1>3. said \in SUBSET (1..Len(file)) /\ said # {}
  BY <1>1, <1>2, EventCountIs
<1>4. PICK x \in said : \A y \in said : y <= x
  <2>1. Len(file) \in Int
    BY <1>2
  <2> HIDE DEF said, file
  <2> QED BY <1>3, <2>1, HasLast
<1>5. ASSUME NEW i \in said, NEW j \in said, i < j PROVE Before(file[i].at, file[j].at)
  BY <1>5 DEF Grows, InTurn
<1>6. \A i \in said : file[i].at \in Stamps
  BY <1>1, EventStamps
<1>7. \A f \in Events(file) : \E i \in said : f = file[i]
  BY DEF Events
<1>8. \A i \in said : file[i] \in Events(file)
  BY DEF Events
<1>9. file[x] \in last
  <2>1. ASSUME NEW i \in said PROVE ~Before(file[x].at, file[i].at)
    <3>1. i = x \/ i < x
      BY <1>2, <1>3, <1>4
    <3> QED BY <1>5, <1>6, <3>1, BeforeOrders
  <2> QED BY <1>7, <1>8, <2>1
<1>10. PICK e \in last : head = e.at
  BY <1>9 DEF Newest
<1>11. PICK k \in said : e = file[k]
  BY <1>7, <1>10
<1>12. ASSUME NEW t \in Places, NEW i \in DOMAIN FileIn(dir, a, t), FileIn(dir, a, t)[i].k = "event"
       PROVE  ~Before(head, FileIn(dir, a, t)[i].at)
  <2>0. FileIn(dir, a, t) \in Lines /\ FileIn(dir, a, t)[i].at \in Stamps
    BY <1>12, FileInType, EventStamps
  <2>1. ~(t > s)
    BY <1>12, <2>0, EventCountIs
  <2>2. CASE t = s
    BY <1>8, <1>10, <1>12, <2>2
  <2>3. CASE t < s
    <3>1. Before(FileIn(dir, a, t)[i].at, file[k].at)
      BY <1>12, <2>3 DEF Grows, InTurn
    <3> QED BY <1>6, <1>10, <1>11, <2>0, <3>1, BeforeOrders
  <2> QED BY <2>1, <2>2, <2>3, FilesAre
<1> QED BY <1>12 DEF HeadAbove

\* A log with nothing in it is behind any stamp.
LEMMA AboveNothing ==
    ASSUME NEW dir \in Dirs, NEW a \in Lines, \A s \in Places : EventCount(FileIn(dir, a, s)) = 0, NEW h
    PROVE  HeadAbove(h, dir, a)
<1>1. \A s \in Places : \A i \in DOMAIN FileIn(dir, a, s) : FileIn(dir, a, s)[i].k # "event"
  BY FileInType, EventCountIs
<1> QED BY <1>1 DEF HeadAbove

LEMMA NoLines == EventCount(<<>>) = 0 /\ <<>> \in Lines
<1>1. <<>> \in Lines /\ DOMAIN <<>> = {}
  BY DEF Lines
<1> QED BY <1>1, EventCountIs

\* What a Store opens with is the newest of the log, or newer than nothing.
LEMMA OpensAbove ==
    ASSUME closed \in Dirs, NEW a \in Lines, Sound(closed, a)
    PROVE  HeadAbove(HeadOnOpening(a), closed, a)
<1> DEFINE n == NextSegmentNumber(closed)
           last == MaxSegments + 1
<1>0. /\ last \in Places /\ last \notin SegNos /\ SegNos \subseteq Places /\ Places \subseteq Nat
      /\ \A s \in Places : s \in SegNos \/ s = last
  BY FilesAre
<1>1. \A s \in SegNos : s >= n => closed[s] = <<>>
  BY NextIsFree
<1>2. \A s \in SegNos : s >= n => EventCount(FileIn(closed, a, s)) = 0
  BY <1>1, NoLines DEF FileIn
<1>3. FileIn(closed, a, last) = a
  BY <1>0 DEF FileIn
<1>4. EventCount(a) \in Nat /\ n \in Nat \ {0}
  BY EventCountIs, NextType
<1> HIDE DEF n, last
<1>5. CASE EventCount(a) = 0 /\ n > 1
  <2>1. n - 1 \in SegNos /\ closed[n - 1] # <<>>
    BY <1>5, NextIsFree DEF n
  <2>2. FileIn(closed, a, n - 1) = closed[n - 1] /\ EventCount(closed[n - 1]) # 0
    <3>1. EventCount(closed[n - 1]) > 0
      BY <2>1 DEF Sound, ClosedAsTheyShould, CountsItself
    <3> QED BY <2>1, <3>1 DEF FileIn
  <2>3. \A t \in Places : t > n - 1 => EventCount(FileIn(closed, a, t)) = 0
    BY <1>0, <1>2, <1>3, <1>4, <1>5
  <2>4. HeadAbove(Newest(Events(FileIn(closed, a, n - 1))), closed, a)
    BY <1>0, <2>1, <2>2, <2>3, NewestAbove DEF Sound
  <2> QED BY <1>5, <2>2, <2>4 DEF HeadOnOpening, n
<1>6. CASE EventCount(a) = 0 /\ ~(n > 1)
  <2>1. n = 1 /\ \A s \in SegNos : s >= n
    BY <1>4, <1>6 DEF SegNos
  <2>2. \A s \in Places : EventCount(FileIn(closed, a, s)) = 0
    BY <1>0, <1>2, <1>3, <1>6, <2>1
  <2> QED BY <2>2, AboveNothing
<1>7. CASE EventCount(a) # 0
  <2>1. \A t \in Places : ~(t > last)
    BY <1>0, FilesAre DEF last
  <2>2. HeadAbove(Newest(Events(a)), closed, a)
    BY <1>0, <1>3, <1>7, <2>1, NewestAbove DEF Sound
  <2> QED BY <1>7, <2>2 DEF HeadOnOpening
<1> QED BY <1>5, <1>6, <1>7

\* A log with no event in its active file and none closed since a head was above it.
LEMMA CatchesUpAbove ==
    ASSUME closed \in Dirs, NEW a \in Lines, Sound(closed, a), NEW h \in Stamps,
           EventCount(a) = 0 => HeadAbove(h, closed, a)
    PROVE  /\ Later(h, Newest(Events(a))) \in Stamps
           /\ HeadAbove(Later(h, Newest(Events(a))), closed, a)
<1> DEFINE newest == Newest(Events(a))
           last == MaxSegments + 1
<1>1. newest \in Stamps
  BY LinesType, NewestType DEF Lines
<1>2. HeadAbove(h, closed, a) \/ HeadAbove(newest, closed, a)
  <2>1. CASE EventCount(a) # 0
    <3>1. last \in Places /\ FileIn(closed, a, last) = a /\ \A t \in Places : ~(t > last)
      BY FilesAre DEF FileIn
    <3> QED BY <2>1, <3>1, NewestAbove DEF Sound
  <2> QED BY <2>1
<1> HIDE DEF newest
<1>3. ASSUME NEW s \in Places, NEW i \in DOMAIN FileIn(closed, a, s), FileIn(closed, a, s)[i].k = "event"
      PROVE  ~Before(Later(h, newest), FileIn(closed, a, s)[i].at)
  <2>1. FileIn(closed, a, s)[i].at \in Stamps
    BY <1>3, FileInType, EventStamps
  <2>2. ~Before(h, FileIn(closed, a, s)[i].at) \/ ~Before(newest, FileIn(closed, a, s)[i].at)
    BY <1>2, <1>3 DEF HeadAbove
  <2>3. CASE Before(h, newest)
    BY <1>1, <2>1, <2>2, <2>3, BeforeOrders DEF Later
  <2>4. CASE ~Before(h, newest)
    BY <1>1, <2>1, <2>2, <2>4, BeforeOrders DEF Later
  <2> QED BY <2>3, <2>4
<1>4. Later(h, newest) \in Stamps
  BY <1>1 DEF Later
<1> QED BY <1>3, <1>4 DEF HeadAbove, newest

LEMMA AboveOfConcat ==
    ASSUME NEW dir \in Dirs, NEW a \in Lines, NEW b \in Lines, NEW h, HeadAbove(h, dir, a),
           \A i \in 1..Len(b) : b[i].k = "event" => ~Before(h, b[i].at)
    PROVE  HeadAbove(h, dir, a \o b)
<1> SUFFICES ASSUME NEW s \in Places, NEW i \in DOMAIN FileIn(dir, a \o b, s),
                    FileIn(dir, a \o b, s)[i].k = "event"
             PROVE  ~Before(h, FileIn(dir, a \o b, s)[i].at)
  BY DEF HeadAbove
<1>1. CASE i \in DOMAIN FileIn(dir, a, s) /\ FileIn(dir, a \o b, s)[i] = FileIn(dir, a, s)[i]
  BY <1>1 DEF HeadAbove
<1>2. CASE \E j \in 1..Len(b) : FileIn(dir, a \o b, s)[i] = b[j]
  BY <1>2
<1> QED BY <1>1, <1>2, OldOrNew

LEMMA BeforeOfConcat ==
    ASSUME NEW dir \in Dirs, NEW a \in Lines, NEW b \in Lines, NEW at, AllBefore(dir, a, at),
           \A i \in 1..Len(b) : b[i].k = "event" => Before(b[i].at, at)
    PROVE  AllBefore(dir, a \o b, at)
<1> SUFFICES ASSUME NEW s \in Places, NEW i \in DOMAIN FileIn(dir, a \o b, s),
                    FileIn(dir, a \o b, s)[i].k = "event"
             PROVE  Before(FileIn(dir, a \o b, s)[i].at, at)
  BY DEF AllBefore
<1>1. CASE i \in DOMAIN FileIn(dir, a, s) /\ FileIn(dir, a \o b, s)[i] = FileIn(dir, a, s)[i]
  BY <1>1 DEF AllBefore
<1>2. CASE \E j \in 1..Len(b) : FileIn(dir, a \o b, s)[i] = b[j]
  BY <1>2
<1> QED BY <1>1, <1>2, OldOrNew

LEMMA StampsFollow ==
    ASSUME TypeOK, NEW head \in Stamps, NEW n \in Nat \ {0}
    PROVE  /\ \A i \in 1..n : Stamped(head, n)[i] \in Stamps /\ Before(head, Stamped(head, n)[i])
           /\ \A i, j \in 1..n : i < j => Before(Stamped(head, n)[i], Stamped(head, n)[j])
           /\ Stamped(head, n)[n] \in Stamps
           /\ \A i \in 1..n : ~Before(Stamped(head, n)[n], Stamped(head, n)[i])
<1> DEFINE first == IF clock > head[1] THEN <<clock, 0>> ELSE <<head[1], head[2] + 1>>
<1>1. clock \in Nat /\ head[1] \in Nat /\ head[2] \in Nat
  BY DEF TypeOK, Stamps
<1>2. first[1] \in Nat /\ first[2] \in Nat /\ (first[1] > head[1] \/ (first[1] = head[1] /\ first[2] > head[2]))
  BY <1>1
<1>3. \A i \in 1..n : Stamped(head, n)[i] = <<first[1], first[2] + i - 1>>
  BY DEF Stamped
<1> HIDE DEF first
<1>4. \A i \in 1..n : /\ first[2] + i - 1 \in Nat /\ first[2] + i - 1 >= first[2] /\ i \in Nat
  BY <1>2
<1>5. \A i \in 1..n : Stamped(head, n)[i] \in Stamps /\ Before(head, Stamped(head, n)[i])
  BY <1>1, <1>2, <1>3, <1>4 DEF Stamps, Before
<1>6. \A i, j \in 1..n : i < j => Before(Stamped(head, n)[i], Stamped(head, n)[j])
  BY <1>2, <1>3, <1>4 DEF Before
<1>7. \A i \in 1..n : ~Before(Stamped(head, n)[n], Stamped(head, n)[i])
  BY <1>2, <1>3, <1>4 DEF Before
<1> QED BY <1>5, <1>6, <1>7

\* What is stamped after a head above the log is after the log.
LEMMA StampedAfterAll ==
    ASSUME NEW dir \in Dirs, NEW a \in Lines, NEW h \in Stamps, NEW at \in Stamps,
           HeadAbove(h, dir, a), Before(h, at)
    PROVE  AllBefore(dir, a, at) /\ HeadAbove(at, dir, a)
<1> SUFFICES ASSUME NEW s \in Places, NEW i \in DOMAIN FileIn(dir, a, s), FileIn(dir, a, s)[i].k = "event"
             PROVE  Before(FileIn(dir, a, s)[i].at, at) /\ ~Before(at, FileIn(dir, a, s)[i].at)
  BY DEF AllBefore, HeadAbove
<1>1. FileIn(dir, a, s)[i].at \in Stamps
  BY FileInType, EventStamps
<1>2. ~Before(h, FileIn(dir, a, s)[i].at)
  BY DEF HeadAbove
<1> QED BY <1>1, <1>2, BeforeOrders

-----------------------------------------------------------------------------
(* What a write says                                                       *)

\* A Store that is up to date with the files: its count, its number and its tip.
Standing(s, dir, whole) ==
    /\ s.count = EventCount(whole)
    /\ s.seg = NextSegmentNumber(dir)
    /\ s.covers # None => s.covers.tip = AllIds(dir, whole) /\ s.covers.at = Len(whole)

\* Events still to write, after all that is there and none after the head.
TodoFollows(todo, head, dir, whole) ==
    /\ \A i \in 1..Len(todo) : ~Before(head, todo[i].at) /\ AllBefore(dir, whole, todo[i].at)
    /\ \A i, j \in 1..Len(todo) : i < j => Before(todo[i].at, todo[j].at)

\* A seal that answers for all there is, and counts it when it closes.
SealFits(l, dir, a) ==
    /\ l \in Seal
    /\ l.at = Len(a) /\ l.seg = NextSegmentNumber(dir) /\ l.tip = AllIds(dir, a)
    /\ l.closed => l.n = EventCount(a) /\ EventCount(a) > 0

SealsFit(seals, dir, a) == seals = <<>> \/ \E l \in Seal : seals = <<l>> /\ SealFits(l, dir, a)

SaidEvents(p) == IF IsFull(p) /\ CanSeal(p) THEN <<>> ELSE Lot(p)
SaidSeals(p) ==
    IF IsFull(p) /\ CanSeal(p)
    THEN SealOver(p, <<>>, store[p].count, TRUE)
    ELSE SealOver(p, Lot(p), store[p].count + Len(Lot(p)), FALSE)

LEMMA NoEvents == <<>> \in Seq(Event) /\ <<>> \in Lines /\ Len(<<>>) = 0
BY DEF Lines

LEMMA EventsAreLines ==
    ASSUME NEW b \in Seq(Event)
    PROVE  b \in Lines /\ Len(b) \in Nat /\ \A i \in 1..Len(b) : b[i] \in Event /\ b[i].k = "event"
<1>1. \A i \in 1..Len(b) : b[i] \in Event
  OBVIOUS
<1>2. b \in Seq(Line)
  BY DEF Line
<1> QED BY <1>1, <1>2, LineKinds DEF Lines

LEMMA SaidIs ==
    ASSUME TypeOK, NEW p \in Writers, Writing(p), Standing(store[p], closed, live),
           TodoFollows(job.todo, store[p].head, closed, live)
    PROVE  /\ Said(p) = SaidEvents(p) \o SaidSeals(p)
           /\ SaidEvents(p) \in Seq(Event) /\ SaidSeals(p) \in Lines
           /\ TodoFollows(SaidEvents(p), store[p].head, closed, live)
           /\ SealsFit(SaidSeals(p), closed, live \o SaidEvents(p))
<1>0. live \in Lines /\ closed \in Dirs /\ store[p].count \in Nat /\ store[p].seg \in Nat
      /\ store[p].covers \in Covers /\ minted \in Nat
  BY DEF TypeOK, Lines, Dirs, StoreFields
<1>1. /\ Lot(p) \in Seq(Event)
      /\ Len(Lot(p)) <= Len(job.todo)
      /\ \A i \in 1..Len(Lot(p)) : Lot(p)[i] = job.todo[i]
  BY LotType
<1>2. Len(job.todo) \in Nat /\ Len(Lot(p)) \in Nat
  BY <1>1 DEF TypeOK
<1>3. \A i \in 1..Len(Lot(p)) : i \in 1..Len(job.todo)
  BY <1>1, <1>2
<1>4. TodoFollows(Lot(p), store[p].head, closed, live)
  BY <1>1, <1>3 DEF TodoFollows
<1>5. CASE IsFull(p) /\ CanSeal(p)
  <2> DEFINE l == [k |-> "seal", id |-> minted + 1, seg |-> store[p].seg,
                   at |-> store[p].covers.at + Len(<<>>), tip |-> store[p].covers.tip \cup Ids(<<>>),
                   n |-> store[p].count, closed |-> TRUE]
  <2>1. SaidEvents(p) = <<>> /\ SaidSeals(p) = <<l>> /\ Said(p) = <<l>>
    BY <1>5 DEF SaidEvents, SaidSeals, Said, SealOver
  <2>2. store[p].covers # None
    BY <1>5 DEF CanSeal
  <2>3. Ids(<<>>) = {} /\ live \o <<>> = live
    BY <1>0, ConcatEmptySeq DEF Ids, Lines
  <2>4. l.at = Len(live) /\ l.tip = AllIds(closed, live)
    BY <1>0, <2>2, <2>3, LinesAre DEF Standing
  <2>5. l.n = EventCount(live) /\ EventCount(live) > 0 /\ l.seg = NextSegmentNumber(closed)
    BY <1>0, <1>5, BoundsAssumption DEF Standing, IsFull
  <2>6. l \in Seal
    <3>1. AllIds(closed, live) \in SUBSET Nat /\ Len(live) \in Nat
      <4>1. \A t : Ids(FileIn(closed, live, t)) \subseteq Nat
        BY <1>0, FileInType, LinesType DEF Lines
      <4> QED BY <1>0, <4>1, LinesAre DEF AllIds
    <3>2. /\ l.k = "seal" /\ l.id \in Nat /\ l.seg \in Nat /\ l.at \in Nat /\ l.tip \in SUBSET Nat
          /\ l.n \in Nat /\ l.closed \in BOOLEAN
      BY <1>0, <2>4, <3>1
    <3> QED BY <3>2 DEF Seal
  <2> HIDE DEF l
  <2>7. SealFits(l, closed, live)
    BY <2>4, <2>5, <2>6 DEF SealFits
  <2>8. <<l>> \in Lines /\ <<>> \o <<l>> = <<l>>
    BY <2>6, LineKinds, ConcatEmptySeq DEF Lines
  <2>9. TodoFollows(<<>>, store[p].head, closed, live)
    BY DEF TodoFollows
  <2>10. SealsFit(<<l>>, closed, live)
    BY <2>6, <2>7 DEF SealsFit
  <2> QED BY <2>1, <2>3, <2>8, <2>9, <2>10, NoEvents
<1>6. CASE ~(IsFull(p) /\ CanSeal(p))
  <2>1. SaidEvents(p) = Lot(p) /\ Said(p) = Lot(p) \o SaidSeals(p)
        /\ SaidSeals(p) = SealOver(p, Lot(p), store[p].count + Len(Lot(p)), FALSE)
    BY <1>6 DEF SaidEvents, SaidSeals, Said
  <2>2. store[p].count + Len(Lot(p)) \in Nat
    BY <1>0, <1>2
  <2>3. SaidSeals(p) \in Lines
    BY <1>1, <2>1, <2>2, SealType DEF Lines
  <2>4. SealsFit(SaidSeals(p), closed, live \o Lot(p))
    <3>1. CASE ~CanSeal(p)
      BY <2>1, <3>1 DEF SealsFit, SealOver
    <3>2. CASE CanSeal(p)
      <4> DEFINE l == [k |-> "seal", id |-> minted + 1, seg |-> store[p].seg,
                       at |-> store[p].covers.at + Len(Lot(p)), tip |-> store[p].covers.tip \cup Ids(Lot(p)),
                       n |-> store[p].count + Len(Lot(p)), closed |-> FALSE]
      <4>1. SaidSeals(p) = <<l>>
        BY <2>1, <3>2 DEF SealOver
      <4>2. store[p].covers # None
        BY <3>2 DEF CanSeal
      <4>3. Lot(p) \in Lines
        BY <1>1, EventsAreLines
      <4>4. l.at = Len(live \o Lot(p))
        <5>1. Len(live \o Lot(p)) = Len(live) + Len(Lot(p))
          BY <1>0, <4>3, ConcatLines
        <5>2. store[p].covers.at = Len(live)
          BY <4>2 DEF Standing
        <5> QED BY <5>1, <5>2
      <4>5. l.tip = AllIds(closed, live \o Lot(p))
        BY <1>0, <4>2, <4>3, AllIdsOfConcat DEF Standing
      <4>6. l \in Seal
        <5>1. <<l>> \in Lines /\ Len(<<l>>) = 1 /\ <<l>>[1] = l
          BY <2>3, <4>1
        <5>2. <<l>>[1] \in Line
          BY <5>1, LinesAre
        <5> QED BY <5>1, <5>2, LineKinds
      <4>7. l.seg = NextSegmentNumber(closed) /\ ~l.closed
        BY DEF Standing
      <4> HIDE DEF l
      <4>8. SealFits(l, closed, live \o Lot(p))
        BY <4>4, <4>5, <4>6, <4>7 DEF SealFits
      <4> QED BY <4>1, <4>6, <4>8 DEF SealsFit
    <3> QED BY <3>1, <3>2
  <2> QED BY <1>1, <1>4, <2>1, <2>3, <2>4
<1> QED BY <1>5, <1>6

\* Whatever part of it a cut leaves follows as well.
LEMMA CutFollows ==
    ASSUME TypeOK, NEW p \in Writers, Writing(p), Standing(store[p], closed, live),
           TodoFollows(job.todo, store[p].head, closed, live), Sound(closed, live),
           NEW k \in 0..Len(Said(p))
    PROVE  /\ live \o SubSeq(Said(p), 1, k) \in Lines
           /\ Sound(closed, live \o SubSeq(Said(p), 1, k))
<1> DEFINE evs == SaidEvents(p)
           seals == SaidSeals(p)
           cut == SubSeq(Said(p), 1, k)
<1>0. live \in Lines /\ closed \in Dirs
  BY DEF TypeOK, Lines, Dirs
<1>1. /\ Said(p) = evs \o seals /\ evs \in Seq(Event) /\ seals \in Lines
      /\ TodoFollows(evs, store[p].head, closed, live)
      /\ SealsFit(seals, closed, live \o evs)
  BY SaidIs
<1>2. evs \in Lines /\ Len(evs) \in Nat /\ (\A i \in 1..Len(evs) : evs[i] \in Event)
  BY <1>1, EventsAreLines
<1> HIDE DEF evs, seals
<1>3. Said(p) \in Lines /\ Len(Said(p)) = Len(evs) + Len(seals) /\ Len(seals) \in Nat
  BY <1>1, <1>2, ConcatLines, LinesAre
<1>4. \A i \in 1..Len(evs) : Said(p)[i] = evs[i]
  BY <1>1, <1>2, ConcatLines
<1>5. CASE k <= Len(evs)
  <2>1. \A i \in 1..k : i \in 1..Len(evs)
    BY <1>2, <1>5
  <2>2. \A i \in 1..k : Said(p)[i] \in Event
    BY <1>2, <1>4, <2>1
  <2>3. k \in Int /\ k \in Nat
    BY <1>3
  <2>4. /\ cut \in Seq(Event)
        /\ Len(cut) = IF 1 <= k THEN k - 1 + 1 ELSE 0
        /\ \A i \in 1..(k - 1 + 1) : cut[i] = Said(p)[1 + i - 1]
    BY <2>2, <2>3, SubSeqProperties
  <2>5. Len(cut) = k /\ \A i \in 1..k : cut[i] = evs[i]
    <3>1. \A i \in 1..k : i \in 1..(k - 1 + 1) /\ 1 + i - 1 = i
      BY <2>3
    <3> QED BY <1>4, <2>1, <2>3, <2>4, <3>1
  <2> HIDE DEF cut
  <2>6. \A i, j \in 1..Len(cut) : i < j => Before(cut[i].at, cut[j].at)
    BY <1>1, <2>1, <2>5 DEF TodoFollows
  <2>7. \A i \in 1..Len(cut) : AllBefore(closed, live, cut[i].at)
    BY <1>1, <2>1, <2>5 DEF TodoFollows
  <2>8. Sound(closed, live \o cut)
    BY <1>0, <2>4, <2>6, <2>7, EventsFollow
  <2>9. live \o cut \in Lines
    BY <1>0, <2>4, EventsAreLines, ConcatLines
  <2> QED BY <2>8, <2>9 DEF cut
<1>6. CASE k > Len(evs)
  <2>1. PICK l \in Seal : seals = <<l>> /\ SealFits(l, closed, live \o evs)
    <3>1. seals # <<>>
      <4>1. Len(seals) # 0
        BY <1>2, <1>3, <1>6
      <4> QED BY <4>1
    <3> QED BY <1>1, <3>1 DEF SealsFit
  <2>2. Len(<<l>>) = 1
    OBVIOUS
  <2>3. k = Len(Said(p))
    BY <1>2, <1>3, <1>6, <2>1, <2>2
  <2>4. cut = evs \o <<l>>
    BY <1>1, <1>3, <2>1, <2>3, SubSeqFull DEF Lines
  <2>5. live \o cut = (live \o evs) \o <<l>>
    <3>1. <<l>> \in Lines
      BY <1>1, <2>1
    <3>2. (live \o evs) \o <<l>> = live \o (evs \o <<l>>)
      BY <1>0, <1>2, <3>1, ConcatOfLines
    <3> QED BY <2>4, <3>2
  <2>6. Sound(closed, live \o evs)
    BY <1>0, <1>1, EventsFollow DEF TodoFollows
  <2>7. live \o evs \in Lines
    BY <1>0, <1>2, ConcatLines
  <2>8. Sound(closed, (live \o evs) \o <<l>>)
    BY <1>0, <2>1, <2>6, <2>7, ASealFollows DEF SealFits
  <2>9. (live \o evs) \o <<l>> \in Lines
    BY <1>1, <2>1, <2>7, ConcatLines
  <2> QED BY <2>5, <2>8, <2>9
<1> QED BY <1>2, <1>3, <1>5, <1>6

\* A write that went through, and what is left of the call's.
LEMMA SaidLands ==
    ASSUME TypeOK, NEW p \in Writers, Writing(p), Standing(store[p], closed, live),
           TodoFollows(job.todo, store[p].head, closed, live), Sound(closed, live),
           HeadAbove(store[p].head, closed, live)
    PROVE  /\ live \o Said(p) \in Lines /\ Sound(closed, live \o Said(p))
           /\ HeadAbove(store[p].head, closed, live \o Said(p))
           /\ EventCount(live \o Said(p)) = EventCount(live) + Len(SaidEvents(p))
           /\ AllIds(closed, live \o Said(p)) = AllIds(closed, live) \cup Ids(Said(p))
           /\ Len(live \o Said(p)) = Len(live) + Len(Said(p))
<1> DEFINE evs == SaidEvents(p)
           seals == SaidSeals(p)
<1>0. live \in Lines /\ closed \in Dirs
  BY DEF TypeOK, Lines, Dirs
<1>1. /\ Said(p) = evs \o seals /\ evs \in Seq(Event) /\ seals \in Lines
      /\ TodoFollows(evs, store[p].head, closed, live)
      /\ SealsFit(seals, closed, live \o evs)
  BY SaidIs
<1>2. evs \in Lines /\ Len(evs) \in Nat
  BY <1>1, EventsAreLines
<1> HIDE DEF evs, seals
<1>3. Said(p) \in Lines /\ Len(Said(p)) \in Nat
  BY <1>1, <1>2, ConcatLines, LinesAre
<1>4. SubSeq(Said(p), 1, Len(Said(p))) = Said(p)
  BY <1>3, SubSeqFull DEF Lines
<1>5. live \o Said(p) \in Lines /\ Sound(closed, live \o Said(p))
  <2>1. Len(Said(p)) \in 0..Len(Said(p))
    BY <1>3
  <2> QED BY <1>4, <2>1, CutFollows
<1>6. live \o Said(p) = (live \o evs) \o seals /\ live \o evs \in Lines
  <2>1. live \in Lines /\ evs \in Lines /\ seals \in Lines /\ Said(p) = evs \o seals
    BY <1>0, <1>1, <1>2
  <2>2. live \o evs \in Lines
    BY <2>1, ConcatType
  <2>3. (live \o evs) \o seals = live \o (evs \o seals)
    BY <2>1, ConcatOfLines
  <2> QED BY <2>1, <2>2, <2>3
<1>7. \A i \in 1..Len(seals) : seals[i].k = "seal"
  <2>1. CASE seals = <<>>
    BY <2>1
  <2>2. ASSUME NEW l \in Seal, seals = <<l>> PROVE \A i \in 1..Len(seals) : seals[i].k = "seal"
    BY <2>2, LineKinds
  <2> QED BY <1>1, <2>1, <2>2 DEF SealsFit
<1>8. HeadAbove(store[p].head, closed, live \o Said(p))
  <2>1. HeadAbove(store[p].head, closed, live \o evs)
    BY <1>0, <1>1, <1>2, AboveOfConcat DEF TodoFollows
  <2> QED BY <1>0, <1>1, <1>6, <1>7, <2>1, AboveOfConcat
<1>9. EventCount(live \o Said(p)) = EventCount(live) + Len(evs)
  <2>1. EventCount(live \o evs) = EventCount(live) + Len(evs)
    BY <1>0, <1>1, EventsCount
  <2>2. CASE seals = <<>>
    BY <1>6, <2>1, <2>2, ConcatEmptySeq DEF Lines
  <2>3. ASSUME NEW l \in Seal, seals = <<l>> PROVE EventCount(live \o Said(p)) = EventCount(live \o evs)
    BY <1>6, <2>3, ASealDoesNotCount
  <2> QED BY <1>1, <2>1, <2>2, <2>3 DEF SealsFit
<1>10. AllIds(closed, live \o Said(p)) = AllIds(closed, live) \cup Ids(Said(p))
  BY <1>0, <1>3, AllIdsOfConcat
<1>11. Len(live \o Said(p)) = Len(live) + Len(Said(p))
  BY <1>0, <1>3, ConcatLines
<1> QED BY <1>5, <1>8, <1>9, <1>10, <1>11 DEF evs

LEMMA LastOfConcat ==
    ASSUME NEW a \in Lines, NEW b \in Lines, b # <<>>
    PROVE  /\ a \o b # <<>>
           /\ (a \o b)[Len(a \o b)] = b[Len(b)]
<1>1. Len(a) \in Nat /\ Len(b) \in Nat /\ DOMAIN b = 1..Len(b) /\ Len(b) \in DOMAIN b
  BY LinesAre
<1>2. Len(a \o b) = Len(a) + Len(b) /\ Len(a) + Len(b) \in DOMAIN (a \o b)
      /\ (a \o b)[Len(a) + Len(b)] = b[Len(b)]
  BY <1>1, ConcatLines
<1> QED BY <1>2

\* A closing seal names the segment its writer takes the file for.
LEMMA ClosingSealSays ==
    ASSUME TypeOK, NEW p \in Writers, Writing(p), IsFull(p), CanSeal(p)
    PROVE  ClosingOf(live \o Said(p)) = store[p].seg
<1> DEFINE l == [k |-> "seal", id |-> minted + 1, seg |-> store[p].seg,
                 at |-> store[p].covers.at + Len(<<>>), tip |-> store[p].covers.tip \cup Ids(<<>>),
                 n |-> store[p].count, closed |-> TRUE]
<1>1. Said(p) = <<l>>
  BY DEF Said, SealOver
<1>2. live \in Lines /\ Said(p) \in Lines
  BY SaidType DEF TypeOK, Lines
<1>3. Said(p) # <<>> /\ Said(p)[Len(Said(p))] = l
  BY <1>1
<1>4. live \o Said(p) # <<>> /\ (live \o Said(p))[Len(live \o Said(p))] = l
  BY <1>2, <1>3, LastOfConcat
<1>5. l.k = "seal" /\ l.closed /\ l.seg = store[p].seg
  OBVIOUS
<1> HIDE DEF l
<1> QED BY <1>4, <1>5 DEF ClosingOf

\* After a lot the file holds an event and ends in no closing seal, and what is left follows.
LEMMA LotLeaves ==
    ASSUME TypeOK, NEW p \in Writers, Writing(p), ~(IsFull(p) /\ CanSeal(p)),
           TodoFollows(job.todo, store[p].head, closed, live)
    PROVE  /\ Len(Lot(p)) > 0
           /\ ClosingOf(live \o Said(p)) = 0
           /\ TodoFollows(SubSeq(job.todo, Len(Lot(p)) + 1, Len(job.todo)), store[p].head,
                          closed, live \o Said(p))
<1> DEFINE lot == Lot(p)
           seals == SealOver(p, Lot(p), store[p].count + Len(Lot(p)), FALSE)
           rest == SubSeq(job.todo, Len(lot) + 1, Len(job.todo))
<1>0. live \in Lines /\ closed \in Dirs /\ store[p].count \in Nat /\ job.todo \in Seq(Event)
  BY DEF TypeOK, Lines, Dirs, StoreFields
<1>1. /\ lot \in Seq(Event) /\ Len(lot) <= Len(job.todo)
      /\ \A i \in 1..Len(lot) : lot[i] = job.todo[i]
  BY LotType
<1>2. Said(p) = lot \o seals
  BY DEF Said
<1>3. lot \in Lines /\ Len(lot) \in Nat /\ \A i \in 1..Len(lot) : lot[i] \in Event /\ lot[i].k = "event"
  BY <1>1, EventsAreLines
<1>4. Len(job.todo) \in Nat /\ Len(job.todo) > 0
  BY <1>0 DEF Writing
<1>5. Len(lot) > 0
  <2>1. CASE IsFull(p) \/ Len(job.todo) <= SegmentMax - store[p].count
    BY <1>4, <2>1 DEF Lot
  <2>2. CASE ~(IsFull(p) \/ Len(job.todo) <= SegmentMax - store[p].count)
    <3>1. SegmentMax - store[p].count \in Nat \ {0} /\ SegmentMax - store[p].count <= Len(job.todo)
      BY <1>0, <1>4, <2>2, BoundsAssumption DEF IsFull
    <3>2. lot = SubSeq(job.todo, 1, SegmentMax - store[p].count)
      BY <2>2 DEF Lot
    <3>3. \A i \in 1..(SegmentMax - store[p].count) : job.todo[i] \in Event
      BY <1>0, <3>1
    <3>4. Len(lot) = SegmentMax - store[p].count - 1 + 1
      BY <3>1, <3>2, <3>3, SubSeqProperties
    <3> QED BY <3>1, <3>4
  <2> QED BY <2>1, <2>2
<1>6. seals \in Lines
  <2>1. store[p].count + Len(lot) \in Nat
    BY <1>0, <1>3
  <2> QED BY <1>1, <2>1, SealType DEF Lines
<1>7. seals = <<>> \/ \E l \in Line : seals = <<l>> /\ l.k = "seal" /\ ~l.closed
  <2>1. CASE ~CanSeal(p)
    BY <2>1 DEF SealOver
  <2>2. CASE CanSeal(p)
    <3> DEFINE l == [k |-> "seal", id |-> minted + 1, seg |-> store[p].seg,
                     at |-> store[p].covers.at + Len(lot), tip |-> store[p].covers.tip \cup Ids(lot),
                     n |-> store[p].count + Len(lot), closed |-> FALSE]
    <3>1. seals = <<l>>
      BY <2>2 DEF SealOver
    <3>2. <<l>>[1] = l /\ Len(<<l>>) = 1 /\ l.k = "seal" /\ ~l.closed
      OBVIOUS
    <3> HIDE DEF l
    <3>3. l \in Line
      BY <1>6, <3>1, <3>2, LinesAre
    <3> QED BY <3>1, <3>2, <3>3
  <2> QED BY <2>1, <2>2
<1> HIDE DEF lot, seals
<1>8. ClosingOf(live \o Said(p)) = 0
  <2>1. CASE seals = <<>>
    <3>1. Said(p) = lot /\ lot # <<>> /\ Len(lot) \in 1..Len(lot)
      BY <1>2, <1>3, <1>5, <2>1, ConcatEmptySeq DEF Lines
    <3>2. (live \o Said(p))[Len(live \o Said(p))] = lot[Len(lot)]
      BY <1>0, <1>3, <3>1, LastOfConcat
    <3>3. (live \o Said(p))[Len(live \o Said(p))].k = "event"
      BY <1>3, <3>1, <3>2
    <3> QED BY <3>3 DEF ClosingOf
  <2>2. ASSUME NEW l \in Line, seals = <<l>>, ~l.closed
        PROVE  ClosingOf(live \o Said(p)) = 0
    <3>1. seals # <<>> /\ seals[Len(seals)] = l
      BY <2>2
    <3>4. Said(p) \in Lines
      BY <1>2, <1>3, <1>6, ConcatType
    <3>2. Said(p) \in Lines /\ Said(p) # <<>> /\ Said(p)[Len(Said(p))] = l
      BY <1>2, <1>3, <1>6, <3>1, <3>4, LastOfConcat
    <3>3. (live \o Said(p))[Len(live \o Said(p))] = l
      BY <1>0, <3>2, LastOfConcat
    <3> QED BY <2>2, <3>3 DEF ClosingOf
  <2> QED BY <1>7, <2>1, <2>2
<1>9. /\ Len(rest) = Len(job.todo) - Len(lot)
      /\ \A i \in 1..Len(rest) : rest[i] = job.todo[Len(lot) + i] /\ Len(lot) + i \in 1..Len(job.todo)
  <2>1. Len(lot) + 1 \in Int /\ Len(job.todo) \in Int
    BY <1>3, <1>4
  <2>2. \A i \in (Len(lot) + 1)..Len(job.todo) : job.todo[i] \in Event
    BY <1>0, <1>3
  <2>3. /\ Len(rest) = IF Len(lot) + 1 <= Len(job.todo) THEN Len(job.todo) - (Len(lot) + 1) + 1 ELSE 0
        /\ \A i \in 1..(Len(job.todo) - (Len(lot) + 1) + 1) : rest[i] = job.todo[Len(lot) + 1 + i - 1]
    BY <2>1, <2>2, SubSeqProperties
  <2>4. Len(rest) = Len(job.todo) - Len(lot)
    BY <1>1, <1>3, <1>4, <2>3
  <2> HIDE DEF rest
  <2>5. ASSUME NEW i \in 1..Len(rest)
        PROVE  rest[i] = job.todo[Len(lot) + i] /\ Len(lot) + i \in 1..Len(job.todo)
    <3>1. i \in 1..(Len(job.todo) - (Len(lot) + 1) + 1) /\ Len(lot) + 1 + i - 1 = Len(lot) + i
      BY <1>3, <1>4, <2>4
    <3>2. Len(lot) + i \in 1..Len(job.todo)
      BY <1>3, <1>4, <2>4
    <3> QED BY <2>3, <3>1, <3>2
  <2> QED BY <2>4, <2>5
<1> HIDE DEF rest
<1>10. ASSUME NEW i \in 1..Len(rest)
       PROVE  /\ ~Before(store[p].head, rest[i].at)
              /\ AllBefore(closed, live \o Said(p), rest[i].at)
  <2>1. /\ Len(lot) + i \in 1..Len(job.todo) /\ rest[i] = job.todo[Len(lot) + i]
        /\ ~Before(store[p].head, rest[i].at) /\ AllBefore(closed, live, rest[i].at)
    BY <1>9 DEF TodoFollows
  <2>2. ASSUME NEW j \in 1..Len(Said(p)), Said(p)[j].k = "event"
        PROVE  Before(Said(p)[j].at, rest[i].at)
    <3>1. Said(p) \in Lines /\ j \in DOMAIN (lot \o seals)
      BY <1>2, <1>3, <1>6, ConcatLines, LinesAre
    <3>2. CASE j \in 1..Len(lot)
      <4>1. Said(p)[j] = job.todo[j]
        BY <1>1, <1>2, <1>3, <1>6, <3>2, ConcatLines
      <4>2. j \in 1..Len(job.todo) /\ j < Len(lot) + i
        BY <1>1, <1>3, <1>4, <3>2
      <4> QED BY <2>1, <4>1, <4>2 DEF TodoFollows
    <3>3. CASE \E n \in 1..Len(seals) : Said(p)[j] = seals[n]
      <4>1. \A n \in 1..Len(seals) : seals[n].k = "seal"
        BY <1>7
      <4> QED BY <2>2, <3>3, <4>1
    <3>4. j \in 1..Len(lot) \/ \E n \in 1..Len(seals) : j = Len(lot) + n /\ (lot \o seals)[j] = seals[n]
      BY <1>3, <1>6, <3>1, InConcat
    <3> QED BY <1>2, <3>2, <3>3, <3>4
  <2>3. Said(p) \in Lines
    BY <1>2, <1>3, <1>6, ConcatLines
  <2>4. AllBefore(closed, live \o Said(p), rest[i].at)
    BY <1>0, <2>1, <2>2, <2>3, BeforeOfConcat
  <2> QED BY <2>1, <2>4
<1>11. ASSUME NEW i \in 1..Len(rest), NEW j \in 1..Len(rest), i < j
       PROVE  Before(rest[i].at, rest[j].at)
  <2>1. Len(lot) + i \in 1..Len(job.todo) /\ Len(lot) + j \in 1..Len(job.todo) /\ Len(lot) + i < Len(lot) + j
    BY <1>3, <1>9, <1>11
  <2> QED BY <1>9, <2>1 DEF TodoFollows
<1>12. TodoFollows(rest, store[p].head, closed, live \o Said(p))
  BY <1>10, <1>11 DEF TodoFollows
<1> QED BY <1>5, <1>8, <1>12 DEF rest, lot

-----------------------------------------------------------------------------
(* The inductive invariant                                                 *)

\* The mishaps after which another Store may stamp or seal by what no longer stands: open read the
\* tail while somebody wrote, the read of catch_up failed with the lock kept, or a rotation was
\* cut between its rename and the next line with others open.
Calm == Mishaps \cap {"crash_after_rename", "read_fails", "open_overlaps"} = {}

InCall(p) == pc[p] \in {"held", "writing", "renaming"}
Quiet == \A p \in Writers : ~AfterRename(p)

\* The lock is let go with the call, nothing stays torn under it, and a file that is not there is empty.
Around ==
    /\ lock # None => torn = None /\ InCall(lock)
    /\ ~present => live = <<>> /\ torn = None
    /\ \A p \in Writers : pc[p] # "opening"

\* The mark a Store between two calls took of the active file still matches it.
UpToDate(q) == store[q].seen = "now" \/ (store[q].seen = "absent" /\ ~present /\ Quiet)

\* A Store between two calls knows the files if its mark matches, and is behind no event of a
\* closed segment when the active one has none that it could catch up with.
IdleOk(q) ==
    pc[q] = "idle" =>
        /\ UpToDate(q) => /\ torn = None
                          /\ Standing(store[q], closed, Mended)
                          /\ store[q].closing = ClosingOf(Mended)
                          /\ HeadAbove(store[q].head, closed, Mended)
        /\ Quiet /\ EventCount(Mended) = 0 => HeadAbove(store[q].head, closed, Mended)

\* A Store inside a call knows the files, and what it still has to write follows them.
CallOk(p) ==
    InCall(p) =>
        /\ Standing(store[p], closed, Mended)
        /\ HeadAbove(store[p].head, closed, Mended)
        /\ pc[p] # "renaming" => store[p].closing = ClosingOf(Mended)
        /\ pc[p] # "held" =>
             /\ TodoFollows(job.todo, store[p].head, closed, Mended)
             /\ ~present \/ store[p].closing # 0 \/ pc[p] = "renaming" => job.todo # <<>>
        /\ pc[p] = "renaming" =>
             present /\ store[p].closing = 0 /\ store[p].seg = ClosingOf(Mended) /\ store[p].seen # "now"

Chain == Sound(closed, Mended) /\ Around /\ \A p \in Writers : IdleOk(p) /\ CallOk(p)

\* Kept by every step when it is calm.
CInv == IInv /\ Chain

LEMMA Typed ==
    ASSUME TypeOK
    PROVE  /\ live \in Lines /\ closed \in Dirs /\ Mended \in Lines
           /\ \A p \in Writers : /\ store[p] \in StoreFields
                                 /\ store[p].head \in Stamps /\ store[p].count \in Nat
                                 /\ store[p].seg \in Nat /\ store[p].closing \in Nat
                                 /\ store[p].covers \in Covers
                                 /\ store[p].seen \in {"now", "absent", "old"}
<1>1. live \in Lines /\ closed \in Dirs /\ Mended \in Lines
  BY MendedType DEF TypeOK, Lines, Dirs
<1>2. \A s \in StoreFields : /\ s.head \in Stamps /\ s.count \in Nat /\ s.seg \in Nat
                             /\ s.closing \in Nat /\ s.covers \in Covers
                             /\ s.seen \in {"now", "absent", "old"}
  BY DEF StoreFields
<1>3. \A p \in Writers : store[p] \in StoreFields
  BY DEF TypeOK
<1> QED BY <1>1, <1>2, <1>3

\* A Store's memory, its mark at most left behind.
Kept(s, t) ==
    /\ t.head = s.head /\ t.count = s.count /\ t.seg = s.seg
    /\ t.closing = s.closing /\ t.covers = s.covers
    /\ t.seen \in {s.seen, "old"}

LEMMA OutdatedKeeps ==
    ASSUME TypeOK, NEW q \in Writers
    PROVE  /\ Outdated(store)[q] \in StoreFields
           /\ Kept(store[q], Outdated(store)[q])
           /\ Outdated(store)[q].seen # "now"
           /\ Outdated(store) \in [Writers -> StoreFields]
<1>1. store[q] \in StoreFields
  BY DEF TypeOK
<1>2. Outdated(store)[q] = [store[q] EXCEPT !.seen = IF @ = "now" THEN "old" ELSE @]
  BY DEF Outdated
<1>3. Outdated(store) \in [Writers -> StoreFields]
  BY OutdatedType DEF TypeOK
<1> QED BY <1>1, <1>2, <1>3 DEF Kept, StoreFields

LEMMA OthersStay ==
    ASSUME CInv, NEW q \in Writers, pc'[q] = pc[q], Mended' = Mended, closed' = closed,
           present' = present, Quiet' => Quiet, torn' \in {torn, None},
           Kept(store[q], store'[q]), InCall(q) => job' = job
    PROVE  IdleOk(q)' /\ CallOk(q)'
<1>0. IdleOk(q) /\ CallOk(q)
  BY DEF CInv, Chain
<1>1. IdleOk(q)'
  <2> SUFFICES ASSUME pc[q] = "idle"
               PROVE  /\ UpToDate(q)' => /\ torn' = None
                                         /\ Standing(store'[q], closed', Mended')
                                         /\ store'[q].closing = ClosingOf(Mended')
                                         /\ HeadAbove(store'[q].head, closed', Mended')
                      /\ Quiet' /\ EventCount(Mended') = 0 => HeadAbove(store'[q].head, closed', Mended')
    BY DEF IdleOk
  <2>1. UpToDate(q)' => UpToDate(q)
    BY DEF UpToDate, Kept
  <2> QED BY <1>0, <2>1 DEF IdleOk, Kept, Standing
<1>2. CallOk(q)'
  BY <1>0 DEF CallOk, InCall, Kept, Standing
<1> QED BY <1>1, <1>2

-----------------------------------------------------------------------------
(* Every step keeps it                                                     *)

LEMMA ChainInit == Init => Chain
<1> SUFFICES ASSUME Init PROVE Chain
  OBVIOUS
<1>1. TypeOK
  BY TypeInit
<1>2. closed \in Dirs /\ Mended = <<>> /\ <<>> \in Lines
  BY <1>1, Typed, SentinelAssumption DEF Init, Mended, Lines
<1>3. \A s \in Places : FileIn(closed, <<>>, s) = <<>>
  BY DEF Init, FileIn
<1>4. \A s \in Places : DOMAIN FileIn(closed, <<>>, s) = {}
  BY <1>3
<1>5. Answers(closed, <<>>) /\ Grows(closed, <<>>) /\ CountsItself(<<>>)
  BY <1>4 DEF Answers, Grows, CountsItself, Closes
<1>6. ClosedAsTheyShould(closed)
  BY DEF Init, ClosedAsTheyShould
<1>7. Sound(closed, Mended)
  BY <1>2, <1>5, <1>6 DEF Sound
<1>8. Around /\ \A p \in Writers : IdleOk(p) /\ CallOk(p)
  BY DEF Init, Around, IdleOk, CallOk, InCall
<1> QED BY <1>7, <1>8 DEF Chain

LEMMA NobodyInside ==
    ASSUME CInv
    PROVE  /\ \A p \in Writers : InCall(p) => lock = p /\ torn = None
           /\ lock = None => Quiet /\ \A p \in Writers : ~InCall(p)
           /\ \A p \in Writers : lock = p => InCall(p) /\ torn = None /\ (~AfterRename(p) => Quiet)
           /\ torn = None => Mended = live
<1>1. None \notin Writers
  BY WritersAssumption
<1>2. \A p \in Writers : InCall(p) => lock = p
  BY DEF CInv, IInv, HolderInside, InCall
<1>3. Around
  BY DEF CInv, Chain
<1>4. \A p \in Writers : AfterRename(p) => lock = p
  BY DEF AfterRename
<1>5. torn = None => Mended = live
  BY SentinelAssumption DEF Mended
<1> QED BY <1>1, <1>2, <1>3, <1>4, <1>5 DEF Around, Quiet

LEMMA ChainStill ==
    ASSUME CInv, UNCHANGED <<lock, disk, pc, store, job>>
    PROVE  Chain'
<1>1. Mended' = Mended /\ closed' = closed /\ present' = present /\ torn' = torn /\ live' = live
      /\ pc' = pc /\ lock' = lock /\ store' = store /\ job' = job
  BY DEF disk, Mended
<1>2. Quiet' => Quiet
  BY <1>1 DEF Quiet, AfterRename
<1>3. \A q \in Writers : Kept(store[q], store'[q])
  BY <1>1 DEF Kept
<1>4. \A q \in Writers : IdleOk(q)' /\ CallOk(q)'
  BY <1>1, <1>2, <1>3, OthersStay
<1>5. Around'
  BY <1>1 DEF CInv, Chain, Around, InCall
<1>6. Sound(closed', Mended')
  BY <1>1 DEF CInv, Chain
<1> QED BY <1>4, <1>5, <1>6 DEF Chain

LEMMA ChainOpen ==
    ASSUME CInv, NEW p \in Writers, Open(p)
    PROVE  Chain'
<1>0. TypeOK /\ Sound(closed, Mended) /\ Around
  BY DEF CInv, IInv, Chain
<1>1. /\ pc[p] = "off" /\ pc' = [pc EXCEPT ![p] = "idle"] /\ lock' = lock /\ job' = job
      /\ live' = MendedOnOpening /\ torn' = (IF lock = None THEN None ELSE torn)
      /\ present' = present /\ closed' = closed
      /\ store' = [(IF torn' = torn THEN store ELSE Outdated(store)) EXCEPT ![p] = Opened(MendedOnOpening)]
  BY DEF Open, MendOnOpening
<1>2. MendedOnOpening = Mended /\ torn' = None /\ Mended' = Mended
  <2>1. lock # None => torn = None
    BY <1>0 DEF Around
  <2>2. MendedOnOpening = Mended /\ torn' = None
    BY <1>1, <2>1, SentinelAssumption DEF MendedOnOpening, Mended
  <2>3. Mended' = live'
    BY <2>2, SentinelAssumption DEF Mended
  <2> QED BY <1>1, <2>2, <2>3
<1>3. pc \in [Writers -> {"off", "opening", "idle", "held", "writing", "renaming"}]
      /\ store \in [Writers -> StoreFields] /\ Outdated(store) \in [Writers -> StoreFields]
  BY <1>0, OutdatedKeeps DEF TypeOK
<1>4. /\ pc'[p] = "idle" /\ \A q \in Writers \ {p} : pc'[q] = pc[q]
      /\ store'[p] = Opened(Mended)
      /\ \A q \in Writers \ {p} : store'[q] = store[q] \/ store'[q] = Outdated(store)[q]
  BY <1>1, <1>2, <1>3
<1>5. Quiet' => Quiet
  <2>1. \A q \in Writers : AfterRename(q) => AfterRename(q)'
    BY <1>1, <1>4 DEF AfterRename
  <2> QED BY <2>1 DEF Quiet
<1>6. \A q \in Writers \ {p} : Kept(store[q], store'[q])
  <2>1. \A q \in Writers : Kept(store[q], store[q])
    BY DEF Kept
  <2> QED BY <1>0, <1>4, <2>1, OutdatedKeeps
<1>7. \A q \in Writers \ {p} : IdleOk(q)' /\ CallOk(q)'
  BY <1>1, <1>2, <1>4, <1>5, <1>6, OthersStay
<1>8. IdleOk(p)' /\ CallOk(p)'
  <2>1. HeadAbove(HeadOnOpening(Mended), closed, Mended)
    BY <1>0, Typed, OpensAbove
  <2>2. /\ store'[p].head = HeadOnOpening(Mended) /\ store'[p].count = EventCount(Mended)
        /\ store'[p].seg = NextSegmentNumber(closed) /\ store'[p].closing = ClosingOf(Mended)
        /\ store'[p].covers = None
    BY <1>4 DEF Opened
  <2>3. Standing(store'[p], closed', Mended')
    BY <1>1, <1>2, <2>2 DEF Standing
  <2> QED BY <1>1, <1>2, <1>4, <2>1, <2>2, <2>3 DEF IdleOk, CallOk, InCall
<1>9. Around'
  <2>1. \A q \in Writers : pc'[q] # "opening"
    BY <1>0, <1>1, <1>4 DEF Around
  <2>2. lock' # None => InCall(lock)'
    <3>1. lock' # None => lock \in Writers /\ lock # p
      BY <1>0, <1>1 DEF Around, InCall, TypeOK
    <3> QED BY <1>0, <1>1, <1>4, <3>1 DEF Around, InCall
  <2>3. ~present' => live' = <<>>
    BY <1>0, <1>1, <1>2, SentinelAssumption DEF Around, Mended
  <2> QED BY <1>1, <1>2, <2>1, <2>2, <2>3 DEF Around
<1> QED BY <1>0, <1>1, <1>2, <1>7, <1>8, <1>9 DEF Chain

LEMMA ChainDrop ==
    ASSUME CInv, NEW p \in Writers, Drop(p)
    PROVE  Chain'
<1>0. TypeOK /\ Sound(closed, Mended) /\ Around
  BY DEF CInv, IInv, Chain
<1>1. /\ pc[p] = "idle" /\ pc' = [pc EXCEPT ![p] = "off"] /\ job' = job
      /\ store' = [store EXCEPT ![p] = NoStore]
      /\ live' = live /\ torn' = torn /\ present' = present /\ closed' = closed
  BY DEF Drop, disk
<1>2. lock # p /\ lock' = lock
  BY <1>1, NobodyInside DEF InCall, Drop
<1>3. Mended' = Mended
  BY <1>1 DEF Mended
<1>4. /\ pc'[p] = "off" /\ \A q \in Writers \ {p} : pc'[q] = pc[q] /\ store'[q] = store[q]
  BY <1>0, <1>1 DEF TypeOK
<1>5. Quiet' => Quiet
  <2>1. \A q \in Writers : AfterRename(q) => AfterRename(q)'
    BY <1>1, <1>2, <1>4 DEF AfterRename
  <2> QED BY <2>1 DEF Quiet
<1>6. \A q \in Writers \ {p} : Kept(store[q], store'[q])
  BY <1>4 DEF Kept
<1>7. \A q \in Writers \ {p} : IdleOk(q)' /\ CallOk(q)'
  BY <1>1, <1>3, <1>4, <1>5, <1>6, OthersStay
<1>8. IdleOk(p)' /\ CallOk(p)'
  BY <1>4 DEF IdleOk, CallOk, InCall
<1>9. Around'
  <2>1. lock' # None => lock \in Writers \ {p}
    BY <1>0, <1>2 DEF TypeOK
  <2> QED BY <1>0, <1>1, <1>2, <1>4, <2>1 DEF Around, InCall
<1> QED BY <1>0, <1>1, <1>3, <1>7, <1>8, <1>9 DEF Chain

LEMMA ChainAcquire ==
    ASSUME CInv, NEW p \in Writers, Acquire(p)
    PROVE  Chain'
<1> DEFINE stores == IF torn = None THEN store ELSE Outdated(store)
           whole == Mended
<1>0. TypeOK /\ Sound(closed, Mended) /\ Around /\ IdleOk(p) /\ whole \in Lines /\ closed \in Dirs
  BY Typed DEF CInv, IInv, Chain
<1>1. /\ pc[p] = "idle" /\ lock = None /\ pc' = [pc EXCEPT ![p] = "held"] /\ lock' = p /\ job' = job
      /\ live' = Mended /\ torn' = None /\ present' = present /\ closed' = closed
      /\ store' = [stores EXCEPT ![p] = CaughtUp(p, stores[p], Mended)]
  BY DEF Acquire
<1>2. Mended' = Mended
  <2>1. Mended' = live'
    BY <1>1, SentinelAssumption DEF Mended
  <2> QED BY <1>1, <2>1
<1>3. pc \in [Writers -> {"off", "opening", "idle", "held", "writing", "renaming"}]
      /\ stores \in [Writers -> StoreFields]
  BY <1>0, OutdatedKeeps DEF TypeOK
<1>4. /\ pc'[p] = "held" /\ \A q \in Writers \ {p} : pc'[q] = pc[q] /\ store'[q] = stores[q]
      /\ store'[p] = CaughtUp(p, stores[p], Mended)
  BY <1>1, <1>3
<1>5. Quiet /\ (\A q \in Writers : ~InCall(q)) /\ p # None
  BY <1>1, NobodyInside, WritersAssumption
<1>6. \A q \in Writers : Kept(store[q], stores[q])
  <2>1. \A q \in Writers : Kept(store[q], store[q])
    BY DEF Kept
  <2> QED BY <1>0, <2>1, OutdatedKeeps
<1>7. \A q \in Writers \ {p} : IdleOk(q)' /\ CallOk(q)'
  <2> HIDE DEF stores
  <2> QED BY <1>1, <1>2, <1>4, <1>5, <1>6, OthersStay
<1>8. stores[p] \in StoreFields /\ (stores[p].seen = "now" => torn = None)
  BY <1>0, <1>3, OutdatedKeeps
<1>9. \A active : KnowsWhereItStands(p, active) # None =>
                     KnowsWhereItStands(p, active) = [tip |-> TipNow(active), at |-> Len(active)]
  BY DEF KnowsWhereItStands
<1>10. TipNow(Mended) = AllIds(closed, Mended)
  BY <1>0, TipIsAll DEF Sound
<1> DEFINE s == stores[p]
           t == CaughtUp(p, stores[p], Mended)
<1>11. Kept(store[p], s) /\ s \in StoreFields
  BY <1>6, <1>8
<1>12. ASSUME SeenMatches(s) PROVE IdleOk(p)' /\ CallOk(p)'
  <2>1. UpToDate(p)
    BY <1>5, <1>11, <1>12 DEF SeenMatches, UpToDate, Kept
  <2>2. /\ Standing(store[p], closed, Mended) /\ store[p].closing = ClosingOf(Mended)
        /\ HeadAbove(store[p].head, closed, Mended)
    BY <1>0, <1>1, <2>1 DEF IdleOk
  <2>3. t = [s EXCEPT !.covers = IF @ = None THEN KnowsWhereItStands(p, Mended) ELSE @]
    BY <1>12 DEF CaughtUp
  <2> HIDE DEF s, t
  <2>4. /\ t.head = s.head /\ t.count = s.count /\ t.seg = s.seg /\ t.closing = s.closing
        /\ t.covers = IF s.covers = None THEN KnowsWhereItStands(p, Mended) ELSE s.covers
    BY <1>11, <2>3 DEF StoreFields
  <2>5. t.covers # None => t.covers.tip = AllIds(closed, Mended) /\ t.covers.at = Len(Mended)
    BY <1>9, <1>10, <1>11, <2>2, <2>4 DEF Kept, Standing
  <2>6. Standing(t, closed, Mended)
    BY <1>11, <2>2, <2>4, <2>5 DEF Kept, Standing
  <2>7. t.closing = ClosingOf(Mended) /\ HeadAbove(t.head, closed, Mended)
    BY <1>11, <2>2, <2>4 DEF Kept
  <2>8. store'[p] = t
    BY <1>4 DEF t
  <2> QED BY <1>1, <1>2, <1>4, <2>6, <2>7, <2>8 DEF IdleOk, CallOk, InCall
<1>13. ASSUME ~SeenMatches(s) PROVE IdleOk(p)' /\ CallOk(p)'
  <2>1. t = [head    |-> Later(s.head, Newest(Events(Mended))),
             count   |-> EventCount(Mended),
             seg     |-> NextSegmentNumber(closed),
             closing |-> ClosingOf(Mended),
             covers  |-> KnowsWhereItStands(p, Mended),
             seen    |-> MarkOf(present)]
    BY <1>13 DEF CaughtUp
  <2>2. EventCount(Mended) = 0 => HeadAbove(store[p].head, closed, Mended)
    BY <1>0, <1>1, <1>5 DEF IdleOk
  <2>3. store[p].head \in Stamps /\ s.head = store[p].head
    BY <1>0, <1>11, Typed DEF Kept
  <2> HIDE DEF s, t
  <2>4. HeadAbove(Later(s.head, Newest(Events(Mended))), closed, Mended)
    BY <1>0, <2>2, <2>3, CatchesUpAbove
  <2>5. t.covers # None => t.covers.tip = AllIds(closed, Mended) /\ t.covers.at = Len(Mended)
    BY <1>9, <1>10, <2>1
  <2>6. Standing(t, closed, Mended)
    BY <2>1, <2>5 DEF Standing
  <2>7. t.closing = ClosingOf(Mended) /\ HeadAbove(t.head, closed, Mended)
    BY <2>1, <2>4
  <2>8. store'[p] = t
    BY <1>4 DEF t
  <2> QED BY <1>1, <1>2, <1>4, <2>6, <2>7, <2>8 DEF IdleOk, CallOk, InCall
<1>14. Around'
  <2>1. \A q \in Writers : pc'[q] # "opening"
    BY <1>0, <1>4 DEF Around
  <2>2. ~present' => live' = <<>>
    BY <1>0, <1>1, SentinelAssumption DEF Around, Mended
  <2> QED BY <1>1, <1>4, <2>1, <2>2 DEF Around, InCall
<1>15. IdleOk(p)' /\ CallOk(p)'
  BY <1>12, <1>13
<1> QED BY <1>0, <1>1, <1>2, <1>7, <1>14, <1>15 DEF Chain

\* The lock is let go with the files as they are.
LEMMA ReleaseKeeps ==
    ASSUME CInv, NEW p \in Writers, lock = p, Release(p), UNCHANGED disk,
           \A q \in Writers \ {p} : store'[q] = store[q],
           Quiet \/ \A q \in Writers \ {p} : pc[q] = "off",
           IdleOk(p)'
    PROVE  Chain'
<1>0. TypeOK /\ Sound(closed, Mended) /\ Around
  BY DEF CInv, IInv, Chain
<1>1. /\ lock' = None /\ pc' = [pc EXCEPT ![p] = "idle"]
      /\ live' = live /\ torn' = torn /\ present' = present /\ closed' = closed
  BY DEF Release, disk
<1>2. Mended' = Mended
  BY <1>1 DEF Mended
<1>3. /\ pc'[p] = "idle" /\ \A q \in Writers \ {p} : pc'[q] = pc[q]
  BY <1>0, <1>1 DEF TypeOK
<1>4. \A q \in Writers \ {p} : ~InCall(q)
  BY NobodyInside
<1>5. ASSUME NEW q \in Writers \ {p} PROVE IdleOk(q)' /\ CallOk(q)'
  <2>1. CASE pc[q] = "off"
    BY <1>3, <2>1 DEF IdleOk, CallOk, InCall
  <2>2. CASE Quiet
    <3>1. Kept(store[q], store'[q])
      BY DEF Kept
    <3> QED BY <1>1, <1>2, <1>3, <1>4, <2>2, <3>1, OthersStay
  <2> QED BY <2>1, <2>2
<1>6. CallOk(p)'
  BY <1>3 DEF CallOk, InCall
<1>7. Around'
  BY <1>0, <1>1, <1>3 DEF Around
<1> QED BY <1>0, <1>1, <1>2, <1>5, <1>6, <1>7 DEF Chain

LEMMA ChainRelease ==
    ASSUME CInv, NEW p \in Writers, Settled(p) \/ RefuseToClose(p) \/ FailToClose(p) \/ Done(p)
    PROVE  Chain'
<1>0. TypeOK /\ CallOk(p)
  BY DEF CInv, IInv, Chain
<1>1. Release(p) /\ UNCHANGED disk
  BY DEF Settled, RefuseToClose, FailToClose, Done, disk
<1>2. InCall(p) /\ lock = p
  <2>1. InCall(p)
    BY DEF Settled, RefuseToClose, FailToClose, Done, Closing, InCall
  <2> QED BY <2>1, NobodyInside
<1>3. torn = None /\ (~AfterRename(p) => Quiet)
  BY <1>2, NobodyInside
<1>4. Mended' = Mended /\ closed' = closed /\ present' = present /\ torn' = torn /\ pc'[p] = "idle"
  BY <1>0, <1>1 DEF disk, Mended, Release, TypeOK
<1>5. HeadAbove(store[p].head, closed, Mended) /\ Standing(store[p], closed, Mended)
  BY <1>0, <1>2 DEF CallOk
<1>6. CASE Settled(p)
  <2>1. pc[p] = "held" /\ store' = store
    BY <1>6 DEF Settled
  <2>2. Quiet
    BY <1>3, <2>1 DEF AfterRename
  <2>3. store[p].closing = ClosingOf(Mended)
    BY <1>0, <1>2, <2>1 DEF CallOk
  <2>4. IdleOk(p)'
    BY <1>3, <1>4, <1>5, <2>1, <2>3 DEF IdleOk
  <2> QED BY <1>1, <1>2, <2>1, <2>2, <2>4, ReleaseKeeps
<1>7. CASE RefuseToClose(p) \/ FailToClose(p)
  <2>1. Closing(p) /\ store' = store
    BY <1>7 DEF RefuseToClose, FailToClose
  <2>2. CASE pc[p] = "renaming"
    <3>1. present /\ store[p].seen # "now"
      BY <1>0, <1>2, <2>2 DEF CallOk
    <3>2. Quiet
      BY <1>3, <3>1 DEF AfterRename
    <3>3. IdleOk(p)'
      BY <1>4, <1>5, <2>1, <3>1 DEF IdleOk, UpToDate
    <3> QED BY <1>1, <1>2, <2>1, <3>2, <3>3, ReleaseKeeps
  <2>3. CASE pc[p] = "writing" /\ store[p].closing # 0
    <3>1. store[p].closing = ClosingOf(Mended)
      BY <1>0, <1>2, <2>3 DEF CallOk
    <3>2. present
      <4>1. SUFFICES ASSUME ~present PROVE FALSE
        OBVIOUS
      <4>2. Mended = <<>>
        BY <1>3, <4>1, NobodyInside DEF CInv, Chain, Around
      <4> QED BY <2>3, <3>1, <4>2 DEF ClosingOf
    <3>3. Quiet
      BY <1>3, <3>2 DEF AfterRename
    <3>4. IdleOk(p)'
      BY <1>3, <1>4, <1>5, <2>1, <3>1 DEF IdleOk
    <3> QED BY <1>1, <1>2, <2>1, <3>3, <3>4, ReleaseKeeps
  <2> QED BY <2>1, <2>2, <2>3 DEF Closing
<1>8. CASE Done(p)
  <2>1. pc[p] = "writing" /\ job.todo = <<>> /\ store' = [store EXCEPT ![p].seen = MarkOf(present)]
    BY <1>8 DEF Done
  <2>2. present
    BY <1>0, <1>2, <2>1 DEF CallOk
  <2>3. Quiet
    BY <1>3, <2>2 DEF AfterRename
  <2>4. /\ \A q \in Writers \ {p} : store'[q] = store[q]
        /\ store'[p].head = store[p].head /\ store'[p].count = store[p].count
        /\ store'[p].seg = store[p].seg /\ store'[p].closing = store[p].closing
        /\ store'[p].covers = store[p].covers
    BY <1>0, <2>1 DEF TypeOK, StoreFields
  <2>5. store[p].closing = ClosingOf(Mended)
    BY <1>0, <1>2, <2>1 DEF CallOk
  <2>6. IdleOk(p)'
    BY <1>3, <1>4, <1>5, <2>4, <2>5 DEF IdleOk, Standing
  <2> QED BY <1>1, <1>2, <2>3, <2>4, <2>6, ReleaseKeeps
<1> QED BY <1>6, <1>7, <1>8

LEMMA ChainMint ==
    ASSUME CInv, NEW p \in Writers, NEW head \in Stamps, NEW n \in Nat \ {0}, Mint(p, head, n),
           HeadAbove(head, closed, Mended)
    PROVE  Chain'
<1> DEFINE stamps == Stamped(head, n)
           todo == [i \in 1..n |-> [k |-> "event", id |-> minted + i, at |-> stamps[i]]]
<1>0. TypeOK /\ Sound(closed, Mended) /\ Around /\ CallOk(p) /\ Mended \in Lines /\ closed \in Dirs
  BY Typed DEF CInv, IInv, Chain
<1>1. /\ pc[p] = "held" /\ pc' = [pc EXCEPT ![p] = "writing"] /\ lock' = lock
      /\ live' = live /\ torn' = torn /\ present' = present /\ closed' = closed
      /\ job'.todo = todo
      /\ store' = [store EXCEPT ![p].head = stamps[n]]
  BY DEF Mint, disk
<1>2. InCall(p) /\ lock = p /\ torn = None /\ Quiet
  BY <1>1, NobodyInside DEF InCall, AfterRename
<1>3. Mended' = Mended
  BY <1>1 DEF Mended
<1>4. /\ \A i \in 1..n : stamps[i] \in Stamps /\ Before(head, stamps[i])
      /\ \A i, j \in 1..n : i < j => Before(stamps[i], stamps[j])
      /\ stamps[n] \in Stamps
      /\ \A i \in 1..n : ~Before(stamps[n], stamps[i])
  BY <1>0, StampsFollow
<1> HIDE DEF stamps
<1>5. /\ pc'[p] = "writing" /\ \A q \in Writers \ {p} : pc'[q] = pc[q] /\ store'[q] = store[q]
      /\ store'[p].head = stamps[n] /\ store'[p].count = store[p].count
      /\ store'[p].seg = store[p].seg /\ store'[p].closing = store[p].closing
      /\ store'[p].covers = store[p].covers
  BY <1>0, <1>1 DEF TypeOK, StoreFields
<1>6. Len(todo) = n /\ \A i \in 1..n : todo[i].at = stamps[i]
  OBVIOUS
<1>7. \A i \in 1..n : AllBefore(closed, Mended, stamps[i])
  BY <1>0, <1>4, StampedAfterAll
<1>8. HeadAbove(stamps[n], closed, Mended)
  <2>1. n \in 1..n
    OBVIOUS
  <2> QED BY <1>0, <1>4, <2>1, StampedAfterAll
<1>9. TodoFollows(todo, stamps[n], closed, Mended)
  <2> HIDE DEF todo
  <2> QED BY <1>4, <1>6, <1>7 DEF TodoFollows
<1>10. todo # <<>>
  <2> HIDE DEF todo
  <2> QED BY <1>6
<1> HIDE DEF todo
<1>11. IdleOk(p)' /\ CallOk(p)'
  <2>1. Standing(store[p], closed, Mended) /\ store[p].closing = ClosingOf(Mended)
    BY <1>0, <1>1, <1>2 DEF CallOk
  <2>2. Standing(store'[p], closed', Mended') /\ store'[p].closing = ClosingOf(Mended')
    BY <1>1, <1>3, <1>5, <2>1 DEF Standing
  <2>3. HeadAbove(store'[p].head, closed', Mended') /\ TodoFollows(job'.todo, store'[p].head, closed', Mended')
    BY <1>1, <1>3, <1>5, <1>8, <1>9
  <2> QED BY <1>1, <1>5, <1>10, <2>2, <2>3 DEF IdleOk, CallOk, InCall
<1>12. ASSUME NEW q \in Writers \ {p} PROVE IdleOk(q)' /\ CallOk(q)'
  <2>1. ~InCall(q) /\ Kept(store[q], store'[q])
    BY <1>2, <1>5, NobodyInside DEF Kept
  <2> QED BY <1>1, <1>2, <1>3, <1>5, <2>1, OthersStay
<1>13. Around'
  BY <1>0, <1>1, <1>2, <1>5 DEF Around, InCall
<1> QED BY <1>0, <1>1, <1>3, <1>11, <1>12, <1>13 DEF Chain

LEMMA ChainBegin ==
    ASSUME CInv, NEW p \in Writers, Begin(p) \/ BeginAfter(p)
    PROVE  Chain'
<1>0. TypeOK /\ CallOk(p) /\ store[p].head \in Stamps /\ Mended \in Lines /\ closed \in Dirs
      /\ live \in Lines
  BY Typed DEF CInv, IInv, Chain
<1>1. pc[p] = "held"
  BY DEF Begin, BeginAfter, Mint
<1>2. HeadAbove(store[p].head, closed, Mended)
  BY <1>0, <1>1 DEF CallOk, InCall
<1>3. \A n \in 1..MaxBatch : n \in Nat \ {0}
  BY BoundsAssumption
<1>4. CASE Begin(p)
  BY <1>0, <1>2, <1>3, <1>4, ChainMint DEF Begin
<1>5. CASE BeginAfter(p)
  <2>1. Newest(AllEvents(live)) \in Stamps
    <3>1. \A s : Events(File(s, live)) \subseteq Event
      BY <1>0, FileType, LinesType DEF Lines, Dirs
    <3>2. AllEvents(live) \subseteq Event
      BY <3>1 DEF AllEvents
    <3> QED BY <3>2, NewestType
  <2>2. PICK newest \in Newest(AllEvents(live))[1]..(MaxTime - 1), n \in 1..MaxBatch :
            Mint(p, IF newest >= store[p].head[1] THEN <<newest + 1, 0>> ELSE store[p].head, n)
    BY <1>5 DEF BeginAfter
  <2>3. newest \in Nat
    BY <2>1 DEF Stamps
  <2>4. CASE newest >= store[p].head[1]
    <3>1. <<newest + 1, 0>> \in Stamps /\ Before(store[p].head, <<newest + 1, 0>>)
      BY <1>0, <2>3, <2>4 DEF Stamps, Before
    <3>2. HeadAbove(<<newest + 1, 0>>, closed, Mended)
      BY <1>0, <1>2, <3>1, StampedAfterAll
    <3> QED BY <1>3, <2>2, <2>4, <3>1, <3>2, ChainMint
  <2>5. CASE ~(newest >= store[p].head[1])
    BY <1>0, <1>2, <1>3, <2>2, <2>5, ChainMint
  <2> QED BY <2>4, <2>5
<1> QED BY <1>4, <1>5

\* A Store that somebody has written past is up to date no more.
LEMMA OthersFallBehind ==
    ASSUME CInv, NEW p \in Writers, NEW q \in Writers, q # p, lock = p, pc'[q] = pc[q],
           store'[q] = Outdated(store)[q], present', closed' = closed,
           pc[q] = "idle" /\ EventCount(Mended') = 0 => HeadAbove(store[q].head, closed, Mended')
    PROVE  IdleOk(q)' /\ CallOk(q)'
<1>1. ~InCall(q)
  BY NobodyInside
<1>2. Kept(store[q], store'[q]) /\ store'[q].seen # "now"
  BY OutdatedKeeps DEF CInv, IInv
<1>3. ~UpToDate(q)'
  BY <1>2 DEF UpToDate
<1> QED BY <1>1, <1>2, <1>3 DEF IdleOk, CallOk, InCall, Kept

\* What holds of a call whose next write is due.
LEMMA WritingIs ==
    ASSUME CInv, NEW p \in Writers, Writing(p)
    PROVE  /\ TypeOK /\ InCall(p) /\ torn = None /\ Mended = live
           /\ Sound(closed, live) /\ Standing(store[p], closed, live)
           /\ HeadAbove(store[p].head, closed, live)
           /\ TodoFollows(job.todo, store[p].head, closed, live)
<1>1. InCall(p)
  BY DEF Writing, InCall
<1>2. torn = None /\ Mended = live
  BY <1>1, NobodyInside
<1>3. CallOk(p) /\ Sound(closed, Mended) /\ TypeOK
  BY DEF CInv, IInv, Chain
<1> QED BY <1>1, <1>2, <1>3 DEF CallOk, Writing

LEMMA ChainWriteLot ==
    ASSUME CInv, NEW p \in Writers, WriteLot(p)
    PROVE  Chain'
<1> DEFINE whole == live \o Said(p)
           rest == SubSeq(job.todo, Len(Lot(p)) + 1, Len(job.todo))
<1>0. /\ Writing(p) /\ lock = p /\ pc[p] = "writing" /\ ~(IsFull(p) /\ CanSeal(p))
      /\ closed' = closed /\ torn' = torn /\ present' = TRUE /\ live' = whole
      /\ pc' = pc /\ lock' = lock /\ job' = [job EXCEPT !.todo = rest]
      /\ store' = [Outdated(store) EXCEPT ![p].count = @ + Len(Lot(p)),
                                          ![p].covers = CoversPast(p, Said(p))]
  BY DEF WriteLot, Writing, Appended
<1>1. /\ TypeOK /\ InCall(p) /\ torn = None /\ Mended = live
      /\ Sound(closed, live) /\ Standing(store[p], closed, live)
      /\ HeadAbove(store[p].head, closed, live)
      /\ TodoFollows(job.todo, store[p].head, closed, live)
  BY <1>0, WritingIs
<1>2. Mended' = whole
  <2>1. torn' = None
    BY <1>0, <1>1
  <2> QED BY <1>0, <2>1, SentinelAssumption DEF Mended
<1>3. /\ whole \in Lines /\ Sound(closed, whole) /\ HeadAbove(store[p].head, closed, whole)
      /\ EventCount(whole) = EventCount(live) + Len(SaidEvents(p))
      /\ AllIds(closed, whole) = AllIds(closed, live) \cup Ids(Said(p))
      /\ Len(whole) = Len(live) + Len(Said(p))
  BY <1>0, <1>1, SaidLands
<1>4. Len(Lot(p)) > 0 /\ ClosingOf(whole) = 0 /\ TodoFollows(rest, store[p].head, closed, whole)
  BY <1>0, <1>1, LotLeaves
<1>5. SaidEvents(p) = Lot(p) /\ Len(Lot(p)) \in Nat /\ EventCount(live) \in Nat
  <2>1. Lot(p) \in Seq(Event)
    BY <1>0, <1>1, LotType
  <2> QED BY <1>0, <1>1, <2>1, EventCountIs, EventsAreLines, Typed DEF SaidEvents
<1> HIDE DEF whole, rest
<1>6. Outdated(store) \in [Writers -> StoreFields] /\ store[p].covers \in Covers
      /\ Kept(store[p], Outdated(store)[p]) /\ Outdated(store)[p] \in StoreFields
      /\ store[p].count \in Nat
  BY <1>1, OutdatedKeeps, Typed
<1>7. /\ \A q \in Writers \ {p} : store'[q] = Outdated(store)[q]
      /\ store'[p].head = store[p].head /\ store'[p].count = store[p].count + Len(Lot(p))
      /\ store'[p].seg = store[p].seg /\ store'[p].closing = store[p].closing
      /\ store'[p].covers = CoversPast(p, Said(p))
  BY <1>0, <1>6 DEF Kept, StoreFields
<1>8. job'.todo = rest
  BY <1>0, <1>1 DEF TypeOK
<1>9. Standing(store'[p], closed', Mended')
  <2>1. store'[p].count = EventCount(whole)
    BY <1>1, <1>3, <1>5, <1>7 DEF Standing
  <2>2. store'[p].covers # None =>
          store'[p].covers.tip = AllIds(closed, whole) /\ store'[p].covers.at = Len(whole)
    <3>1. CASE store[p].covers = None
      BY <1>7, <3>1 DEF CoversPast
    <3>2. CASE store[p].covers # None
      <4>1. store[p].covers.tip = AllIds(closed, live) /\ store[p].covers.at = Len(live)
        BY <1>1, <3>2 DEF Standing
      <4>2. store'[p].covers = [tip |-> store[p].covers.tip \cup Ids(Said(p)),
                               at |-> store[p].covers.at + Len(Said(p))]
        BY <1>7, <3>2 DEF CoversPast
      <4>3. /\ store'[p].covers.tip = store[p].covers.tip \cup Ids(Said(p))
            /\ store'[p].covers.at = store[p].covers.at + Len(Said(p))
        BY <4>2
      <4> QED BY <1>3, <4>1, <4>3
    <3> QED BY <3>1, <3>2
  <2> QED BY <1>0, <1>1, <1>2, <1>7, <2>1, <2>2 DEF Standing
<1>10. CallOk(p)' /\ IdleOk(p)'
  <2>1. store'[p].closing = 0
    BY <1>0, <1>7 DEF Writing
  <2> QED BY <1>0, <1>2, <1>3, <1>4, <1>7, <1>8, <1>9, <2>1 DEF CallOk, IdleOk, InCall
<1>11. \A q \in Writers \ {p} : IdleOk(q)' /\ CallOk(q)'
  <2>1. EventCount(Mended') # 0
    BY <1>2, <1>3, <1>4, <1>5
  <2> QED BY <1>0, <1>7, <2>1, OthersFallBehind
<1>12. Around'
  BY <1>0, <1>1 DEF CInv, Chain, Around, InCall
<1> QED BY <1>0, <1>2, <1>3, <1>10, <1>11, <1>12 DEF Chain

LEMMA ChainWriteClosingSeal ==
    ASSUME CInv, NEW p \in Writers, WriteClosingSeal(p)
    PROVE  Chain'
<1> DEFINE whole == live \o Said(p)
<1>0. /\ Writing(p) /\ lock = p /\ pc[p] = "writing" /\ IsFull(p) /\ CanSeal(p) /\ job.todo # <<>>
      /\ closed' = closed /\ torn' = torn /\ present' = TRUE /\ live' = whole
      /\ pc' = [pc EXCEPT ![p] = "renaming"] /\ lock' = lock /\ job' = job
      /\ store' = [Outdated(store) EXCEPT ![p].covers = CoversPast(p, Said(p))]
  BY DEF WriteClosingSeal, Writing, Appended
<1>1. /\ TypeOK /\ InCall(p) /\ torn = None /\ Mended = live
      /\ Sound(closed, live) /\ Standing(store[p], closed, live)
      /\ HeadAbove(store[p].head, closed, live)
      /\ TodoFollows(job.todo, store[p].head, closed, live)
  BY <1>0, WritingIs
<1>2. Mended' = whole
  <2>1. torn' = None
    BY <1>0, <1>1
  <2> QED BY <1>0, <2>1, SentinelAssumption DEF Mended
<1>3. /\ whole \in Lines /\ Sound(closed, whole) /\ HeadAbove(store[p].head, closed, whole)
      /\ EventCount(whole) = EventCount(live) + Len(SaidEvents(p))
      /\ AllIds(closed, whole) = AllIds(closed, live) \cup Ids(Said(p))
      /\ Len(whole) = Len(live) + Len(Said(p))
  BY <1>0, <1>1, SaidLands
<1>4. SaidEvents(p) = <<>> /\ EventCount(live) \in Nat /\ EventCount(live) > 0
      /\ EventCount(whole) = EventCount(live)
  <2>1. SaidEvents(p) = <<>>
    BY <1>0 DEF SaidEvents
  <2>2. EventCount(live) \in Nat /\ Len(<<>>) = 0
    BY <1>1, EventCountIs, Typed
  <2> QED BY <1>0, <1>1, <1>3, <2>1, <2>2, BoundsAssumption DEF IsFull, Standing
<1>5. ClosingOf(whole) = store[p].seg
  BY <1>0, <1>1, ClosingSealSays
<1>6. TodoFollows(job.todo, store[p].head, closed, whole)
  <2>1. Said(p) \in Lines /\ live \in Lines /\ closed \in Dirs
    BY <1>0, <1>1, SaidType, Typed DEF Lines
  <2>2. \A i \in 1..Len(Said(p)) : Said(p)[i].k = "seal"
    BY <1>0 DEF Said, SealOver
  <2>3. \A at : AllBefore(closed, live, at) => AllBefore(closed, whole, at)
    BY <2>1, <2>2, BeforeOfConcat
  <2> HIDE DEF whole
  <2> QED BY <1>1, <2>3 DEF TodoFollows
<1> HIDE DEF whole
<1>7. Outdated(store) \in [Writers -> StoreFields] /\ store[p].covers \in Covers
      /\ Kept(store[p], Outdated(store)[p]) /\ Outdated(store)[p] \in StoreFields
      /\ Outdated(store)[p].seen # "now"
  BY <1>1, OutdatedKeeps, Typed
<1>8. /\ \A q \in Writers \ {p} : store'[q] = Outdated(store)[q]
      /\ store'[p].head = store[p].head /\ store'[p].count = store[p].count
      /\ store'[p].seg = store[p].seg /\ store'[p].closing = store[p].closing
      /\ store'[p].covers = CoversPast(p, Said(p)) /\ store'[p].seen # "now"
  BY <1>0, <1>7 DEF Kept, StoreFields
<1>9. Standing(store'[p], closed', Mended')
  <2>1. store'[p].count = EventCount(whole)
    BY <1>1, <1>4, <1>8 DEF Standing
  <2>2. store'[p].covers # None =>
          store'[p].covers.tip = AllIds(closed, whole) /\ store'[p].covers.at = Len(whole)
    <3>1. CASE store[p].covers = None
      BY <1>8, <3>1 DEF CoversPast
    <3>2. CASE store[p].covers # None
      <4>1. store[p].covers.tip = AllIds(closed, live) /\ store[p].covers.at = Len(live)
        BY <1>1, <3>2 DEF Standing
      <4>2. store'[p].covers = [tip |-> store[p].covers.tip \cup Ids(Said(p)),
                               at |-> store[p].covers.at + Len(Said(p))]
        BY <1>8, <3>2 DEF CoversPast
      <4>3. /\ store'[p].covers.tip = store[p].covers.tip \cup Ids(Said(p))
            /\ store'[p].covers.at = store[p].covers.at + Len(Said(p))
        BY <4>2
      <4> QED BY <1>3, <4>1, <4>3
    <3> QED BY <3>1, <3>2
  <2> QED BY <1>0, <1>1, <1>2, <1>8, <2>1, <2>2 DEF Standing
<1>10. pc'[p] = "renaming" /\ \A q \in Writers \ {p} : pc'[q] = pc[q]
  BY <1>0, <1>1 DEF TypeOK
<1>11. CallOk(p)' /\ IdleOk(p)'
  <2>1. store'[p].closing = 0
    BY <1>0, <1>8 DEF Writing
  <2> QED BY <1>0, <1>2, <1>3, <1>5, <1>6, <1>8, <1>9, <1>10, <2>1 DEF CallOk, IdleOk, InCall
<1>12. \A q \in Writers \ {p} : IdleOk(q)' /\ CallOk(q)'
  <2>1. EventCount(Mended') # 0
    BY <1>2, <1>4
  <2> QED BY <1>0, <1>8, <1>10, <2>1, OthersFallBehind
<1>13. Around'
  BY <1>0, <1>1, <1>10 DEF CInv, Chain, Around, InCall
<1> QED BY <1>0, <1>2, <1>3, <1>11, <1>12, <1>13 DEF Chain

\* A full segment has events, so there is a file to close.
LEMMA NeverNothingToClose ==
    ASSUME CInv, NEW p \in Writers, Writing(p)
    PROVE  ~NothingToClose(p)
<1> SUFFICES ASSUME NothingToClose(p) PROVE FALSE
  OBVIOUS
<1>1. live = <<>>
  BY DEF NothingToClose, CInv, Chain, Around
<1>2. store[p].count = EventCount(live)
  BY WritingIs DEF Standing
<1>3. store[p].count = 0
  BY <1>1, <1>2, NoLines
<1> QED BY <1>3, BoundsAssumption DEF NothingToClose, IsFull

LEMMA ChainCloseSegment ==
    ASSUME CInv, NEW p \in Writers, CloseSegment(p)
    PROVE  Chain'
<1> DEFINE n == NextSegmentNumber(closed)
           next == [closed EXCEPT ![n] = live]
           last == MaxSegments + 1
<1>0. /\ TypeOK /\ Sound(closed, Mended) /\ Around /\ CallOk(p) /\ live \in Lines /\ closed \in Dirs
      /\ store[p].closing \in Nat /\ store[p].seg \in Nat /\ store[p].covers \in Covers
      /\ store[p] \in StoreFields
  BY Typed DEF CInv, IInv, Chain
<1>1. /\ Closing(p) /\ lock = p /\ present /\ ToClose(p) \in SegNos
      /\ closed' = [closed EXCEPT ![ToClose(p)] = live]
      /\ live' = <<>> /\ present' = FALSE /\ torn' = torn /\ lock' = lock /\ job' = job
      /\ store' = [Outdated(store) EXCEPT ![p] = StartedOver(@, NextSegmentNumber(closed'))]
      /\ pc' = [pc EXCEPT ![p] = "writing"]
  BY DEF CloseSegment, Closing
<1>2. InCall(p) /\ torn = None /\ Mended = live /\ pc[p] # "held"
  BY <1>1, NobodyInside DEF Closing
<1>3. n \in Nat \ {0}
  BY NextType
<1>4. ClosingOf(live) # 0 /\ ToClose(p) = ClosingOf(live) /\ job.todo # <<>>
  <2>1. CASE pc[p] = "renaming"
    BY <1>0, <1>2, <1>3, <2>1 DEF CallOk, ToClose, Standing
  <2>2. CASE pc[p] # "renaming"
    BY <1>0, <1>1, <1>2, <2>2 DEF CallOk, ToClose, Closing
  <2> QED BY <2>1, <2>2
<1>5. Closes(live) /\ live # <<>> /\ ToClose(p) = live[Len(live)].seg
  BY <1>4 DEF ClosingOf, Closes
<1>6. ToClose(p) = n
  <2>1. FileIn(closed, live, last) = live /\ last \in Places /\ last \notin SegNos
    BY FilesAre DEF FileIn
  <2>2. Len(live) \in DOMAIN live
    BY <1>0, <1>5, LinesAre
  <2>3. AnswersAt(closed, live, last, Len(live))
    BY <1>0, <1>2, <1>5, <2>1, <2>2 DEF Sound, Answers, Closes
  <2> QED BY <1>5, <2>1, <2>3 DEF AnswersAt
<1>7. n \in SegNos /\ closed' = next /\ next[n] = live
  BY <1>0, <1>1, <1>6 DEF Dirs
<1>8. /\ next \in Dirs /\ Sound(next, <<>>) /\ AllIds(next, <<>>) = AllIds(closed, live)
      /\ \A head : HeadAbove(head, closed, live) => HeadAbove(head, next, <<>>)
      /\ \A at : AllBefore(closed, live, at) => AllBefore(next, <<>>, at)
  <2>1. Sound(closed, live)
    BY <1>0, <1>2
  <2> QED BY <1>0, <1>5, <1>7, <2>1, ClosingKeepsTheLog
<1> HIDE DEF n, next
<1>9. Mended' = <<>>
  <2>1. torn' = None
    BY <1>1, <1>2
  <2> QED BY <1>1, <2>1, SentinelAssumption DEF Mended
<1>10. Outdated(store) \in [Writers -> StoreFields] /\ Kept(store[p], Outdated(store)[p])
       /\ Outdated(store)[p] \in StoreFields
  BY <1>0, OutdatedKeeps
<1>11. /\ \A q \in Writers \ {p} : store'[q] = Outdated(store)[q]
       /\ store'[p] = StartedOver(Outdated(store)[p], NextSegmentNumber(next))
  BY <1>1, <1>7, <1>10
<1>12. /\ store'[p].head = store[p].head /\ store'[p].count = 0 /\ store'[p].closing = 0
       /\ store'[p].seg = NextSegmentNumber(next)
       /\ store'[p].covers = IF store[p].covers = None THEN None ELSE [store[p].covers EXCEPT !.at = 0]
  BY <1>10, <1>11 DEF StartedOver, Kept, StoreFields
<1>13. pc'[p] = "writing" /\ \A q \in Writers \ {p} : pc'[q] = pc[q]
  BY <1>0, <1>1 DEF TypeOK
<1>14. Standing(store'[p], closed', Mended')
  <2>1. EventCount(<<>>) = 0 /\ Len(<<>>) = 0
    BY NoLines
  <2>2. store'[p].covers # None =>
          store'[p].covers.tip = AllIds(closed, live) /\ store'[p].covers.at = 0
    <3>1. CASE store[p].covers = None
      BY <1>12, <3>1
    <3>2. CASE store[p].covers # None
      <4>1. store[p].covers \in [tip : SUBSET Nat, at : Nat]
        BY <1>0, <3>2 DEF Covers
      <4>2. store[p].covers.tip = AllIds(closed, live)
        BY <1>0, <1>2, <3>2 DEF CallOk, Standing
      <4> QED BY <1>12, <3>2, <4>1, <4>2
    <3> QED BY <3>1, <3>2
  <2> QED BY <1>7, <1>8, <1>9, <1>12, <2>1, <2>2 DEF Standing
<1>15. CallOk(p)' /\ IdleOk(p)'
  <2>1. ClosingOf(<<>>) = 0
    BY DEF ClosingOf
  <2>2. HeadAbove(store'[p].head, closed', Mended')
    BY <1>0, <1>2, <1>7, <1>8, <1>9, <1>12 DEF CallOk
  <2>3. TodoFollows(job'.todo, store'[p].head, closed', Mended')
    BY <1>0, <1>1, <1>2, <1>7, <1>8, <1>9, <1>12 DEF CallOk, TodoFollows
  <2> QED BY <1>1, <1>4, <1>9, <1>12, <1>13, <1>14, <2>1, <2>2, <2>3 DEF CallOk, IdleOk, InCall
<1>16. ~Quiet'
  <2>1. closed'[n] # <<>>
    BY <1>5, <1>7
  <2>2. AfterRename(p)'
    BY <1>1, <1>7, <1>13, <2>1 DEF AfterRename
  <2> QED BY <2>2 DEF Quiet
<1>17. ASSUME NEW q \in Writers \ {p} PROVE IdleOk(q)' /\ CallOk(q)'
  <2>1. ~InCall(q)
    BY <1>1, NobodyInside
  <2>2. store'[q].seen # "now"
    BY <1>0, <1>11, OutdatedKeeps
  <2>3. ~UpToDate(q)'
    BY <1>16, <2>2 DEF UpToDate
  <2> QED BY <1>13, <1>16, <2>1, <2>3 DEF IdleOk, CallOk, InCall
<1>18. Around'
  BY <1>0, <1>1, <1>2, <1>13 DEF Around, InCall
<1> QED BY <1>7, <1>8, <1>9, <1>15, <1>17, <1>18 DEF Chain

\* Whatever a cut leaves is mended to whole lines of what was said.
LEMMA CutMends ==
    ASSUME TypeOK, NEW p \in Writers, Writing(p), CutShort(p)
    PROVE  \E k \in 0..Len(Said(p)) : Mended' = live \o SubSeq(Said(p), 1, k)
<1>1. Said(p) \in Seq(Line) /\ live \in Seq(Line) /\ Len(Said(p)) \in Nat
  BY SaidType DEF TypeOK
<1>2. PICK cut \in Cuts(Said(p)) : /\ live' = live \o SubSeq(Said(p), 1, cut[1])
                                   /\ torn' = cut[2]
  BY DEF CutShort
<1>3. CASE cut[1] \in 0..Len(Said(p)) /\ cut[2] \in {None, Half}
  <2>1. torn' \notin Line
    BY <1>2, <1>3, SentinelAssumption
  <2> QED BY <1>2, <1>3, <2>1 DEF Mended
<1>4. ASSUME NEW n \in 0..(Len(Said(p)) - 1), cut = <<n, Said(p)[n + 1]>>
      PROVE  Mended' = live \o SubSeq(Said(p), 1, n + 1)
  <2>1. n \in Int /\ n + 1 \in 1..Len(Said(p)) /\ n + 1 - 1 = n
    BY <1>1
  <2>2. Said(p)[n + 1] \in Line
    BY <1>1, <2>1
  <2>3. \A i \in 1..n : Said(p)[i] \in Line
    BY <1>1, <2>1
  <2>4. SubSeq(Said(p), 1, n) \in Seq(Line)
    BY <2>1, <2>3, SubSeqProperties
  <2>5. live' = live \o SubSeq(Said(p), 1, n) /\ torn' = Said(p)[n + 1]
    BY <1>2, <1>4
  <2>6. live \o SubSeq(Said(p), 1, n) \in Seq(Line) /\ <<Said(p)[n + 1]>> \in Seq(Line)
    BY <1>1, <2>2, <2>4, ConcatProperties
  <2>7. Mended' = Append(live', Said(p)[n + 1])
    BY <2>2, <2>5 DEF Mended
  <2>8. Mended' = (live \o SubSeq(Said(p), 1, n)) \o <<Said(p)[n + 1]>>
    BY <2>2, <2>5, <2>6, <2>7, AppendIsConcat
  <2>9. Mended' = live \o (SubSeq(Said(p), 1, n) \o <<Said(p)[n + 1]>>)
    <3> DEFINE part == SubSeq(Said(p), 1, n)
               one == <<Said(p)[n + 1]>>
    <3>1. part \in Lines /\ one \in Lines /\ live \in Lines /\ Mended' = (live \o part) \o one
      BY <1>1, <2>4, <2>6, <2>8 DEF Lines
    <3> HIDE DEF part, one
    <3>2. (live \o part) \o one = live \o (part \o one)
      BY <3>1, ConcatOfLines
    <3>3. Mended' = live \o (part \o one)
      BY <3>1, <3>2
    <3> QED BY <3>3 DEF part, one
  <2>10. SubSeq(Said(p), 1, n + 1) = SubSeq(Said(p), 1, n) \o <<Said(p)[n + 1]>>
    <3>1. 1 \in 1..Len(Said(p)) /\ n + 1 \in 1..Len(Said(p))
      BY <1>1, <2>1
    <3> QED BY <1>1, <2>1, <3>1, SubSeqRecursiveSecond
  <2> QED BY <2>9, <2>10
<1>5. CASE \E n \in 0..(Len(Said(p)) - 1) : cut = <<n, Said(p)[n + 1]>>
  <2>1. PICK n \in 0..(Len(Said(p)) - 1) : cut = <<n, Said(p)[n + 1]>>
    BY <1>5
  <2>2. Mended' = live \o SubSeq(Said(p), 1, n + 1)
    BY <1>4, <2>1
  <2>3. n + 1 \in 0..Len(Said(p))
    BY <1>1
  <2> QED BY <2>2, <2>3
<1>6. \/ cut[1] \in 0..Len(Said(p)) /\ cut[2] \in {None, Half}
      \/ \E n \in 0..(Len(Said(p)) - 1) : cut = <<n, Said(p)[n + 1]>>
  BY <1>1 DEF Cuts
<1> QED BY <1>3, <1>5, <1>6

LEMMA NoneToOvertake ==
    ASSUME NEW dir \in Dirs, NEW a \in Lines, NEW b \in Lines, EventCount(a \o b) = 0,
           NEW h, HeadAbove(h, dir, a)
    PROVE  HeadAbove(h, dir, a \o b)
<1>1. a \o b \in Lines /\ \A i \in 1..Len(b) : Len(a) + i \in DOMAIN (a \o b) /\ (a \o b)[Len(a) + i] = b[i]
  BY ConcatLines
<1>2. \A i \in DOMAIN (a \o b) : (a \o b)[i].k # "event"
  BY <1>1, EventCountIs
<1>3. \A i \in 1..Len(b) : b[i].k # "event"
  BY <1>1, <1>2
<1> QED BY <1>3, AboveOfConcat

\* A call whose write is cut, by an error or by the end of its process.
LEMMA ChainCut ==
    ASSUME CInv, NEW p \in Writers, Writing(p), CutShort(p), lock' = None,
           Quiet \/ \A q \in Writers \ {p} : pc[q] = "off",
           pc'[p] \in {"idle", "off"}, \A q \in Writers \ {p} : pc'[q] = pc[q],
           pc'[p] = "idle" => store'[p] = Outdated(store)[p],
           \A q \in Writers \ {p} : store'[q] = Outdated(store)[q]
    PROVE  Chain'
<1>0. /\ TypeOK /\ InCall(p) /\ torn = None /\ Mended = live
      /\ Sound(closed, live) /\ Standing(store[p], closed, live)
      /\ HeadAbove(store[p].head, closed, live)
      /\ TodoFollows(job.todo, store[p].head, closed, live)
  BY WritingIs
<1>1. closed' = closed /\ present' = TRUE /\ lock = p
  BY DEF CutShort, Writing
<1>2. PICK k \in 0..Len(Said(p)) : Mended' = live \o SubSeq(Said(p), 1, k)
  BY <1>0, CutMends
<1> DEFINE part == SubSeq(Said(p), 1, k)
<1>3. Sound(closed, live \o part)
  BY <1>0, CutFollows
<1>4. part \in Lines /\ live \in Lines /\ closed \in Dirs
  <2>1. Said(p) \in Seq(Line)
    BY <1>0, SaidType
  <2>2. k \in Int /\ \A i \in 1..k : Said(p)[i] \in Line
    BY <2>1
  <2> QED BY <1>0, <2>2, SubSeqProperties, Typed DEF Lines
<1> HIDE DEF part
<1>5. \A h : HeadAbove(h, closed, live) /\ EventCount(live \o part) = 0 => HeadAbove(h, closed, live \o part)
  BY <1>4, NoneToOvertake
<1>6. EventCount(live \o part) = 0 => EventCount(live) = 0
  <2>1. EventCount(live) = 0 <=> \A i \in DOMAIN live : live[i].k # "event"
    BY <1>4, EventCountIs
  <2>2. live \o part \in Lines
    BY <1>4, ConcatLines
  <2>3. EventCount(live \o part) = 0 <=> \A i \in DOMAIN (live \o part) : (live \o part)[i].k # "event"
    BY <2>2, EventCountIs
  <2>4. \A i \in DOMAIN live : i \in DOMAIN (live \o part) /\ (live \o part)[i] = live[i]
    <3>1. DOMAIN live = 1..Len(live)
      BY <1>4, LinesAre
    <3> QED BY <1>4, <3>1, ConcatLines
  <2> QED BY <2>1, <2>3, <2>4
<1>7. Mended' = live \o part
  BY <1>2 DEF part
<1>8. ASSUME NEW q \in Writers \ {p} PROVE IdleOk(q)' /\ CallOk(q)'
  <2>1. CASE pc[q] = "off"
    BY <2>1 DEF IdleOk, CallOk, InCall
  <2>2. CASE Quiet
    <3>1. pc[q] = "idle" /\ EventCount(Mended') = 0 => HeadAbove(store[q].head, closed, Mended')
      BY <1>0, <1>5, <1>6, <1>7, <2>2 DEF CInv, Chain, IdleOk
    <3> QED BY <1>1, <3>1, OthersFallBehind
  <2> QED BY <2>1, <2>2
<1>9. IdleOk(p)' /\ CallOk(p)'
  <2>1. CASE pc'[p] = "off"
    BY <2>1 DEF IdleOk, CallOk, InCall
  <2>2. CASE pc'[p] = "idle"
    <3>1. Kept(store[p], store'[p]) /\ store'[p].seen # "now"
      BY <1>0, <2>2, OutdatedKeeps
    <3>2. ~UpToDate(p)'
      BY <1>1, <3>1 DEF UpToDate
    <3>3. EventCount(Mended') = 0 => HeadAbove(store'[p].head, closed', Mended')
      BY <1>0, <1>1, <1>5, <1>7, <3>1 DEF Kept
    <3> QED BY <2>2, <3>2, <3>3 DEF IdleOk, CallOk, InCall
  <2> QED BY <2>1, <2>2
<1>10. Around'
  <2>1. \A q \in Writers : pc'[q] # "opening"
    BY DEF CInv, Chain, Around
  <2> QED BY <1>1, <2>1 DEF Around
<1> QED BY <1>1, <1>3, <1>7, <1>8, <1>9, <1>10 DEF Chain

\* What a calm cut leaves others to remember.
LEMMA CalmCut ==
    ASSUME CInv, Calm, NEW p \in Writers, NEW usual, Mishap(CutKind(p, usual))
    PROVE  lock = p => Quiet \/ \A q \in Writers \ {p} : pc[q] = "off"
<1>1. CASE ~AfterRename(p)
  BY <1>1, NobodyInside
<1>2. CASE AfterRename(p)
  BY <1>2 DEF Calm, Mishap, CutKind
<1> QED BY <1>1, <1>2

LEMMA ChainFailWrite ==
    ASSUME CInv, Calm, NEW p \in Writers, FailWrite(p)
    PROVE  Chain'
<1>0. /\ TypeOK /\ InCall(p) /\ torn = None /\ Mended = live
      /\ Sound(closed, live) /\ Standing(store[p], closed, live)
      /\ HeadAbove(store[p].head, closed, live)
  BY WritingIs DEF FailWrite
<1>1. Writing(p) /\ lock = p /\ pc[p] = "writing" /\ Release(p) /\ lock' = None
      /\ pc' = [pc EXCEPT ![p] = "idle"]
  BY DEF FailWrite, Writing, Release
<1>2. Quiet \/ \A q \in Writers \ {p} : pc[q] = "off"
  BY <1>1, CalmCut DEF FailWrite
<1>3. pc'[p] = "idle" /\ \A q \in Writers \ {p} : pc'[q] = pc[q]
  BY <1>0, <1>1 DEF TypeOK
<1>4. CASE UNCHANGED <<disk, minted, store>>
  <2>1. store[p].closing = ClosingOf(Mended)
    BY <1>0, <1>1 DEF CInv, Chain, CallOk
  <2>2. Mended' = Mended /\ closed' = closed /\ torn' = torn /\ store' = store
    BY <1>4 DEF disk, Mended
  <2>3. IdleOk(p)'
    BY <1>0, <2>1, <2>2 DEF IdleOk
  <2> QED BY <1>1, <1>2, <1>4, <2>2, <2>3, ReleaseKeeps
<1>5. CASE present' = TRUE /\ UNCHANGED <<live, torn, closed, minted>> /\ store' = Outdated(store)
  <2>1. Mended' = live /\ closed' = closed /\ torn' = torn
    BY <1>0, <1>5 DEF Mended
  <2>2. ASSUME NEW q \in Writers \ {p} PROVE IdleOk(q)' /\ CallOk(q)'
    <3>1. CASE pc[q] = "off"
      BY <1>3, <3>1 DEF IdleOk, CallOk, InCall
    <3>2. CASE Quiet
      <4>1. pc[q] = "idle" /\ EventCount(Mended') = 0 => HeadAbove(store[q].head, closed, Mended')
        BY <1>0, <2>1, <3>2 DEF CInv, Chain, IdleOk
      <4> QED BY <1>1, <1>3, <1>5, <2>1, <4>1, OthersFallBehind
    <3> QED BY <1>2, <3>1, <3>2
  <2>3. IdleOk(p)' /\ CallOk(p)'
    <3>1. Kept(store[p], store'[p]) /\ store'[p].seen # "now"
      BY <1>0, <1>5, OutdatedKeeps
    <3>2. ~UpToDate(p)'
      BY <1>5, <3>1 DEF UpToDate
    <3>3. HeadAbove(store'[p].head, closed', Mended')
      BY <1>0, <2>1, <3>1 DEF Kept
    <3> QED BY <1>3, <3>2, <3>3 DEF IdleOk, CallOk, InCall
  <2>4. Around'
    <3>1. \A q \in Writers : pc'[q] # "opening"
      BY <1>3 DEF CInv, Chain, Around
    <3> QED BY <1>1, <1>5, <3>1 DEF Around
  <2> QED BY <1>0, <2>1, <2>2, <2>3, <2>4 DEF Chain
<1>6. CASE CutShort(p) /\ store' = Outdated(store)
  BY <1>1, <1>2, <1>3, <1>6, ChainCut
<1> QED BY <1>4, <1>5, <1>6 DEF FailWrite

LEMMA ChainCrash ==
    ASSUME CInv, Calm, NEW p \in Writers, Crash(p)
    PROVE  Chain'
<1>0. TypeOK /\ Sound(closed, Mended) /\ Around
  BY DEF CInv, IInv, Chain
<1>1. /\ pc[p] # "off" /\ pc' = [pc EXCEPT ![p] = "off"]
      /\ lock' = (IF lock = p THEN None ELSE lock) /\ job' = (IF lock = p THEN NoJob ELSE job)
  BY DEF Crash
<1>2. lock = p => Quiet \/ \A q \in Writers \ {p} : pc[q] = "off"
  BY CalmCut DEF Crash
<1>3. pc'[p] = "off" /\ \A q \in Writers \ {p} : pc'[q] = pc[q]
  BY <1>0, <1>1 DEF TypeOK
<1>4. CASE UNCHANGED <<disk, minted>> /\ store' = [store EXCEPT ![p] = NoStore]
  <2>1. Mended' = Mended /\ live' = live /\ closed' = closed /\ torn' = torn /\ present' = present
    BY <1>4 DEF disk, Mended
  <2>2. \A q \in Writers \ {p} : Kept(store[q], store'[q])
    BY <1>0, <1>4 DEF TypeOK, Kept
  <2>3. ASSUME NEW q \in Writers \ {p} PROVE IdleOk(q)' /\ CallOk(q)'
    <3>1. CASE pc[q] = "off"
      BY <1>3, <3>1 DEF IdleOk, CallOk, InCall
    <3>2. CASE lock = p /\ Quiet
      <4>1. ~InCall(q)
        BY <3>2, NobodyInside
      <4> QED BY <1>3, <2>1, <2>2, <3>2, <4>1, OthersStay
    <3>3. CASE lock # p
      <4>1. \A r \in Writers : AfterRename(r) => AfterRename(r)'
        <5>1. \A r \in Writers : AfterRename(r) => r # p
          BY <3>3 DEF AfterRename
        <5> QED BY <1>1, <1>3, <2>1, <3>3, <5>1 DEF AfterRename
      <4>2. Quiet' => Quiet
        BY <4>1 DEF Quiet
      <4>3. job' = job
        BY <1>1, <3>3
      <4> QED BY <1>3, <2>1, <2>2, <4>2, <4>3, OthersStay
    <3> QED BY <1>2, <3>1, <3>2, <3>3
  <2>4. IdleOk(p)' /\ CallOk(p)'
    BY <1>3 DEF IdleOk, CallOk, InCall
  <2>5. Around'
    <3>1. lock' # None => lock \in Writers \ {p}
      BY <1>0, <1>1 DEF TypeOK
    <3> QED BY <1>0, <1>1, <1>3, <2>1, <3>1 DEF Around, InCall
  <2> QED BY <1>0, <2>1, <2>3, <2>4, <2>5 DEF Chain
<1>5. CASE /\ Writing(p) /\ ~NothingToClose(p)
           /\ CutShort(p)
           /\ store' = [Outdated(store) EXCEPT ![p] = NoStore]
  <2>1. lock = p /\ lock' = None
    BY <1>1, <1>5 DEF Writing
  <2>2. \A q \in Writers \ {p} : store'[q] = Outdated(store)[q]
    BY <1>0, <1>5, OutdatedKeeps
  <2> QED BY <1>2, <1>3, <1>5, <2>1, <2>2, ChainCut
<1> QED BY <1>4, <1>5 DEF Crash

LEMMA ChainStep ==
    ASSUME CInv, Calm, [Next]_vars
    PROVE  Chain'
<1>0. TypeOK /\ Around
  BY DEF CInv, IInv, Chain
<1>1. CASE Tick \/ SetBack \/ UNCHANGED vars
  <2>1. UNCHANGED <<lock, disk, pc, store, job>>
    BY <1>1 DEF Tick, SetBack, vars
  <2> QED BY <2>1, ChainStill
<1>2. ASSUME NEW p \in Writers, OpenTail(p) \/ OpenMark(p) \/ FailToCatchUp(p) \/ AcquireAgain(p)
      PROVE  FALSE
  <2>1. ~OpenTail(p) /\ ~FailToCatchUp(p)
    BY DEF OpenTail, FailToCatchUp, Mishap, Calm
  <2>2. ~OpenMark(p)
    BY <1>0 DEF OpenMark, Around
  <2>3. ~AcquireAgain(p)
    BY NobodyInside DEF AcquireAgain, InCall
  <2> QED BY <1>2, <2>1, <2>2, <2>3
<1>3. ASSUME NEW p \in Writers, StartOver(p) PROVE FALSE
  BY <1>3, NeverNothingToClose DEF StartOver
<1>4. ASSUME NEW p \in Writers,
             \/ Open(p) \/ Drop(p) \/ Acquire(p) \/ Begin(p) \/ BeginAfter(p) \/ Settled(p)
             \/ WriteLot(p) \/ WriteClosingSeal(p) \/ CloseSegment(p) \/ RefuseToClose(p)
             \/ FailToClose(p) \/ Done(p) \/ FailWrite(p) \/ Crash(p)
      PROVE  Chain'
  BY <1>4, ChainOpen, ChainDrop, ChainAcquire, ChainBegin, ChainRelease, ChainWriteLot,
     ChainWriteClosingSeal, ChainCloseSegment, ChainFailWrite, ChainCrash
<1> QED BY <1>1, <1>2, <1>3, <1>4 DEF Next

\* While nothing of what Calm leaves out happens, the invariant is kept.
LEMMA AlwaysCInv ==
    ASSUME Calm
    PROVE  Spec => []CInv
<1>1. Init => CInv
  BY InitIInv, ChainInit DEF CInv
<1>2. CInv /\ [Next]_vars => CInv'
  <2>1. ASSUME CInv, [Next]_vars PROVE IInv'
    BY <2>1, StepIInv DEF CInv
  <2>2. ASSUME CInv, [Next]_vars PROVE Chain'
    BY <2>2, ChainStep
  <2> QED BY <2>1, <2>2 DEF CInv
<1> QED BY <1>1, <1>2, PTL DEF Spec

-----------------------------------------------------------------------------
(* What it says of the files                                               *)

LEMMA PartIsSound ==
    ASSUME NEW dir \in Dirs, NEW a \in Lines, NEW b \in Lines, Sound(dir, a \o b)
    PROVE  Answers(dir, a) /\ Grows(dir, a)
<1>1. Answers(dir, a)
  <2> SUFFICES ASSUME NEW s \in Places, NEW i \in DOMAIN FileIn(dir, a, s), FileIn(dir, a, s)[i].k = "seal"
               PROVE  AnswersAt(dir, a, s, i)
    BY DEF Answers
  <2>1. /\ i \in DOMAIN FileIn(dir, a \o b, s)
        /\ FileIn(dir, a \o b, s)[i] = FileIn(dir, a, s)[i]
        /\ IdsBefore(dir, a \o b, s, i) = IdsBefore(dir, a, s, i)
    BY IdsBeforeStay
  <2>2. AnswersAt(dir, a \o b, s, i)
    BY <2>1 DEF Sound, Answers
  <2> QED BY <2>1, <2>2 DEF AnswersAt
<1>2. Grows(dir, a)
  <2> SUFFICES ASSUME NEW s \in Places, NEW t \in Places,
                      NEW i \in DOMAIN FileIn(dir, a, s), NEW j \in DOMAIN FileIn(dir, a, t),
                      InTurn(s, i, FileIn(dir, a, s)[i], t, j, FileIn(dir, a, t)[j])
               PROVE  Before(FileIn(dir, a, s)[i].at, FileIn(dir, a, t)[j].at)
    BY DEF Grows
  <2>1. /\ i \in DOMAIN FileIn(dir, a \o b, s) /\ FileIn(dir, a \o b, s)[i] = FileIn(dir, a, s)[i]
        /\ j \in DOMAIN FileIn(dir, a \o b, t) /\ FileIn(dir, a \o b, t)[j] = FileIn(dir, a, t)[j]
    BY IdsBeforeStay
  <2> QED BY <2>1 DEF Sound, Grows
<1> QED BY <1>1, <1>2

LEMMA LogIsSound ==
    ASSUME CInv
    PROVE  Answers(closed, live) /\ Grows(closed, live) /\ ClosedAsTheyShould(closed)
<1>0. TypeOK /\ Sound(closed, Mended) /\ live \in Lines /\ closed \in Dirs
  BY Typed DEF CInv, IInv, Chain
<1>1. CASE torn \in Line
  <2>1. Mended = live \o <<torn>>
    BY <1>0, <1>1, AppendIsConcat DEF Mended, Lines
  <2>2. <<torn>> \in Lines
    BY <1>1 DEF Lines
  <2> QED BY <1>0, <2>1, <2>2, PartIsSound DEF Sound
<1>2. CASE torn \notin Line
  BY <1>0, <1>2 DEF Mended, Sound
<1> QED BY <1>1, <1>2

LEMMA SealsAnswerThen == CInv => SealsAnswer
<1> SUFFICES ASSUME CInv, NEW s \in Places, NEW i \in DOMAIN File(s, live), File(s, live)[i].k = "seal"
             PROVE  /\ File(s, live)[i].at = i - 1
                    /\ File(s, live)[i].seg = IF s \in SegNos THEN s ELSE NextSegmentNumber(closed)
                    /\ File(s, live)[i].tip = {File(s, live)[j].id : j \in 1..(i - 1)}
                           \cup UNION {Ids(File(t, live)) : t \in {u \in Places : u < s}}
  BY DEF SealsAnswer
<1>1. \A t : File(t, live) = FileIn(closed, live, t)
  BY FilesAre
<1>2. AnswersAt(closed, live, s, i)
  BY <1>1, LogIsSound DEF Answers
<1> QED BY <1>1, <1>2 DEF AnswersAt, IdsBefore

LEMMA ClosedCountThen == CInv => ClosedCountItself
<1> SUFFICES ASSUME CInv, NEW s \in SegNos, closed[s] # <<>>
             PROVE  /\ closed[s][Len(closed[s])].k = "seal" /\ closed[s][Len(closed[s])].closed
                    /\ closed[s][Len(closed[s])].n = EventCount(closed[s])
                    /\ closed[s][Len(closed[s])].n > 0
  BY DEF ClosedCountItself
<1> QED BY LogIsSound DEF ClosedAsTheyShould, CountsItself, Closes

LEMMA StampsGrowThen == CInv => StampsGrow
<1> SUFFICES ASSUME CInv, NEW s \in Places, NEW t \in Places,
                    NEW i \in DOMAIN File(s, live), NEW j \in DOMAIN File(t, live),
                    s < t \/ (s = t /\ i < j),
                    File(s, live)[i].k = "event", File(t, live)[j].k = "event"
             PROVE  Before(File(s, live)[i].at, File(t, live)[j].at)
  BY DEF StampsGrow
<1>1. \A u : File(u, live) = FileIn(closed, live, u)
  BY FilesAre
<1> QED BY <1>1, LogIsSound DEF Grows, InTurn

\* Every seal on disk answers for exactly what stands before it, in its own segment and in those
\* closed before, so the chain another machine recomputes never forks: whichever of any number of
\* Stores wrote, whatever their calls were cut by, while nothing of what Calm leaves out happens.
THEOREM EverySealAnswers ==
    ASSUME Calm
    PROVE  Spec => []SealsAnswer
BY AlwaysCInv, SealsAnswerThen, PTL

\* Every closed segment ends in a closing seal that counts its events, so no reader takes one for
\* a truncated download, also when a rotation was cut and another Store finished it.
THEOREM ClosedSegmentsCount ==
    ASSUME Calm
    PROVE  Spec => []ClosedCountItself
BY AlwaysCInv, ClosedCountThen, PTL

\* The stamps of a device's events grow in the order they were written, over every Store that
\* writes, every rotation, every restart and a clock set back any number of times.
THEOREM StampsAlwaysGrow ==
    ASSUME Calm
    PROVE  Spec => []StampsGrow
BY AlwaysCInv, StampsGrowThen, PTL


-----------------------------------------------------------------------------
(* What a reader finds                                                     *)

\* Induction, over sets of numbers: what the prover has for it where a predicate would be an
\* operator.
LEMMA AllNumbers ==
    ASSUME NEW S, 0 \in S, \A n \in Nat : n \in S => n + 1 \in S
    PROVE  Nat \subseteq S
<1> DEFINE T == Nat \ S
<1> SUFFICES ASSUME T # {} PROVE FALSE
  OBVIOUS
<1>1. PICK n \in T : \A k \in T : ~(<<k, n>> \in OpToRel(<, Nat))
  BY NatLessThanWellFounded, WFMin, Zenon
<1>2. \A k \in Nat : k < n => k \in S
  BY <1>1 DEF OpToRel
<1>3. n # 0 /\ n - 1 \in Nat /\ n - 1 < n
  OBVIOUS
<1> QED BY <1>2, <1>3

\* How far read_segment has come after each line.
IsUpTo(f, lines) ==
    f = [n \in 0..Len(lines) |->
            IF n = 0 THEN <<>>
            ELSE IF lines[n].k = "event" THEN Append(f[n - 1], lines[n].id) ELSE f[n - 1]]

LEMMA UpToIs ==
    ASSUME NEW lines \in Seq(Line)
    PROVE  \E f : IsUpTo(f, lines) /\ IdsInOrder(lines) = f[Len(lines)]
<1> DEFINE Next1(f, n) == IF n = 0 THEN <<>>
                          ELSE IF lines[n].k = "event" THEN Append(f[n - 1], lines[n].id) ELSE f[n - 1]
           S == {k \in Nat : \E f : f = [n \in 0..k |-> Next1(f, n)]}
<1>1. 0 \in S
  <2> DEFINE f == [n \in 0..0 |-> <<>>]
  <2>1. f = [n \in 0..0 |-> Next1(f, n)]
    OBVIOUS
  <2> QED BY <2>1
<1>2. ASSUME NEW k \in Nat, k \in S PROVE k + 1 \in S
  <2>1. PICK f : f = [n \in 0..k |-> Next1(f, n)]
    BY <1>2
  <2> DEFINE g == [n \in 0..(k + 1) |-> IF n = k + 1 THEN Next1(f, n) ELSE f[n]]
  <2>2. ASSUME NEW n \in 0..(k + 1) PROVE g[n] = Next1(g, n)
    <3>1. CASE n = k + 1
      <4>1. n - 1 = k /\ g[n - 1] = f[n - 1] /\ g[n] = Next1(f, n)
        BY <3>1
      <4> QED BY <4>1
    <3>2. CASE n \in 0..k
      <4>1. g[n] = Next1(f, n)
        BY <2>1, <3>2
      <4>2. n = 0 \/ g[n - 1] = f[n - 1]
        BY <3>2
      <4> QED BY <4>1, <4>2
    <3> QED BY <3>1, <3>2
  <2>3. g = [n \in 0..(k + 1) |-> g[n]]
    OBVIOUS
  <2> HIDE DEF g
  <2>4. g = [n \in 0..(k + 1) |-> Next1(g, n)]
    BY <2>2, <2>3
  <2> QED BY <2>4
<1>3. Len(lines) \in S
  <2> HIDE DEF S
  <2> QED BY <1>1, <1>2, AllNumbers
<1> DEFINE upTo == CHOOSE f : f = [n \in 0..Len(lines) |-> Next1(f, n)]
<1>4. upTo = [n \in 0..Len(lines) |-> Next1(upTo, n)]
  <2>1. \E f : f = [n \in 0..Len(lines) |-> Next1(f, n)]
    BY <1>3
  <2> QED BY <2>1
<1>5. IdsInOrder(lines) = upTo[Len(lines)]
  BY DEF IdsInOrder
<1> HIDE DEF upTo
<1> QED BY <1>4, <1>5 DEF IsUpTo

\* Induction over the lines of a file.
LEMMA AllLines ==
    ASSUME NEW S, <<>> \in S, \A lines \in Lines, l \in Line : lines \in S => Append(lines, l) \in S
    PROVE  Lines \subseteq S
<1> DEFINE T == {n \in Nat : \A lines \in Lines : Len(lines) = n => lines \in S}
<1>1. 0 \in T
  <2>1. \A lines \in Lines : Len(lines) = 0 => lines = <<>>
    BY DEF Lines
  <2> QED BY <2>1
<1>2. ASSUME NEW n \in Nat, n \in T PROVE n + 1 \in T
  <2> SUFFICES ASSUME NEW lines \in Lines, Len(lines) = n + 1 PROVE lines \in S
    OBVIOUS
  <2> DEFINE front == SubSeq(lines, 1, n)
  <2>1. lines \in Seq(Line) /\ n + 1 \in 1..Len(lines) /\ lines[n + 1] \in Line
    BY DEF Lines
  <2>2. front \in Lines /\ Len(front) = n /\ \A i \in 1..n : front[i] = lines[i]
    <3>1. \A i \in 1..n : lines[i] \in Line
      BY <2>1
    <3>2. /\ front \in Seq(Line) /\ Len(front) = IF 1 <= n THEN n - 1 + 1 ELSE 0
          /\ \A i \in 1..(n - 1 + 1) : front[i] = lines[1 + i - 1]
      BY <3>1, SubSeqProperties
    <3> HIDE DEF front
    <3> QED BY <3>2 DEF Lines
  <2> HIDE DEF front
  <2>3. lines = Append(front, lines[n + 1])
    <3>1. Append(front, lines[n + 1]) \in Seq(Line) /\ Len(Append(front, lines[n + 1])) = n + 1
      BY <2>1, <2>2 DEF Lines
    <3>2. \A i \in 1..(n + 1) : Append(front, lines[n + 1])[i] = lines[i]
      BY <2>1, <2>2 DEF Lines
    <3> QED BY <2>1, <3>1, <3>2, SeqEqual
  <2>4. front \in S
    BY <1>2, <2>2
  <2> QED BY <2>1, <2>2, <2>3, <2>4
<1>3. Nat \subseteq T
  <2> HIDE DEF T
  <2> QED BY <1>1, <1>2, AllNumbers
<1> QED BY <1>3, LinesAre

LEMMA NoIds == IdsInOrder(<<>>) = <<>>
<1>1. <<>> \in Seq(Line) /\ Len(<<>>) = 0
  OBVIOUS
<1>2. PICK f : IsUpTo(f, <<>>) /\ IdsInOrder(<<>>) = f[0]
  BY <1>1, UpToIs
<1>3. f[0] = <<>>
  BY <1>1, <1>2 DEF IsUpTo
<1> QED BY <1>2, <1>3


LEMMA IdsOfOneMore ==
    ASSUME NEW lines \in Lines, NEW l \in Line
    PROVE  IdsInOrder(Append(lines, l))
               = IF l.k = "event" THEN Append(IdsInOrder(lines), l.id) ELSE IdsInOrder(lines)
<1> DEFINE more == Append(lines, l)
           n == Len(lines)
<1>1. /\ lines \in Seq(Line) /\ more \in Seq(Line) /\ n \in Nat /\ Len(more) = n + 1
      /\ more[n + 1] = l /\ \A i \in 1..n : more[i] = lines[i]
  BY DEF Lines
<1>2. PICK f : IsUpTo(f, lines) /\ IdsInOrder(lines) = f[n]
  BY <1>1, UpToIs
<1> HIDE DEF more
<1>3. PICK g : IsUpTo(g, more) /\ IdsInOrder(more) = g[Len(more)]
  BY <1>1, UpToIs
<1> HIDE DEF n
<1> DEFINE S == {i \in Nat : i <= n => f[i] = g[i]}
<1>4. 0 \in S
  <2>1. f[0] = <<>> /\ g[0] = <<>>
    BY <1>1, <1>2, <1>3 DEF IsUpTo, n
  <2> QED BY <2>1
<1>5. ASSUME NEW i \in Nat, i \in S PROVE i + 1 \in S
  <2> SUFFICES ASSUME i + 1 <= n PROVE f[i + 1] = g[i + 1]
    OBVIOUS
  <2>1. i + 1 \in 0..Len(lines) /\ i + 1 \in 0..Len(more) /\ i + 1 # 0 /\ (i + 1) - 1 = i
        /\ i + 1 \in 1..n /\ f[i] = g[i]
    BY <1>1, <1>5 DEF n
  <2>2. f[i + 1] = IF lines[i + 1].k = "event" THEN Append(f[i], lines[i + 1].id) ELSE f[i]
    BY <1>2, <2>1 DEF IsUpTo
  <2>3. g[i + 1] = IF more[i + 1].k = "event" THEN Append(g[i], more[i + 1].id) ELSE g[i]
    BY <1>3, <2>1 DEF IsUpTo
  <2> QED BY <1>1, <2>1, <2>2, <2>3
<1>6. n \in S
  <2>1. Nat \subseteq S
    <3> HIDE DEF S
    <3> QED BY <1>4, <1>5, AllNumbers
  <2> QED BY <1>1, <2>1
<1>7. f[n] = g[n]
  BY <1>1, <1>6
<1>8. g[n + 1] = IF l.k = "event" THEN Append(g[n], l.id) ELSE g[n]
  <2>1. n + 1 \in 0..Len(more) /\ n + 1 # 0 /\ (n + 1) - 1 = n
    BY <1>1
  <2> QED BY <1>1, <1>3, <2>1 DEF IsUpTo
<1> QED BY <1>1, <1>2, <1>3, <1>7, <1>8 DEF more

LEMMA IdsInOrderType ==
    ASSUME NEW lines \in Lines
    PROVE  IdsInOrder(lines) \in Seq(Nat)
<1> DEFINE S == {b \in Lines : IdsInOrder(b) \in Seq(Nat)}
<1>1. <<>> \in S
  <2>1. <<>> \in Seq(Nat)
    OBVIOUS
  <2> QED BY <2>1, NoIds, NoEvents
<1>2. ASSUME NEW b \in Lines, NEW l \in Line, b \in S PROVE Append(b, l) \in S
  <2>1. Append(b, l) \in Lines /\ l.id \in Nat
    BY DEF Lines, Line, Event, Seal
  <2>2. Append(IdsInOrder(b), l.id) \in Seq(Nat)
    BY <1>2, <2>1
  <2> QED BY <1>2, <2>1, <2>2, IdsOfOneMore
<1>3. Lines \subseteq S
  <2> HIDE DEF S
  <2> QED BY <1>1, <1>2, AllLines
<1> QED BY <1>3

LEMMA AppendToConcat ==
    ASSUME NEW S, NEW a \in Seq(S), NEW b \in Seq(S), NEW x \in S
    PROVE  a \o Append(b, x) = Append(a \o b, x)
<1>1. <<x>> \in Seq(S) /\ a \o b \in Seq(S)
  BY ConcatProperties
<1>2. Append(b, x) = b \o <<x>> /\ Append(a \o b, x) = (a \o b) \o <<x>>
  BY <1>1, AppendIsConcat
<1> QED BY <1>1, <1>2, ConcatAssociative

\* What stands behind is read behind.
LEMMA IdsInOrderOfConcat ==
    ASSUME NEW a \in Lines, NEW b \in Lines
    PROVE  IdsInOrder(a \o b) = IdsInOrder(a) \o IdsInOrder(b)
<1> DEFINE S == {c \in Lines : IdsInOrder(a \o c) = IdsInOrder(a) \o IdsInOrder(c)}
<1>0. IdsInOrder(a) \in Seq(Nat) /\ a \in Seq(Line)
  BY IdsInOrderType DEF Lines
<1>1. <<>> \in S
  BY <1>0, NoIds, NoEvents, ConcatEmptySeq
<1>2. ASSUME NEW c \in Lines, NEW l \in Line, c \in S PROVE Append(c, l) \in S
  <2>1. /\ c \in Seq(Line) /\ Append(c, l) \in Lines /\ a \o c \in Lines /\ l.id \in Nat
        /\ IdsInOrder(c) \in Seq(Nat)
    BY ConcatType, IdsInOrderType DEF Lines, Line, Event, Seal
  <2>2. a \o Append(c, l) = Append(a \o c, l)
    BY <1>0, <2>1, AppendToConcat
  <2>3. IdsInOrder(Append(a \o c, l))
            = IF l.k = "event" THEN Append(IdsInOrder(a \o c), l.id) ELSE IdsInOrder(a \o c)
    BY <2>1, IdsOfOneMore
  <2>4. IdsInOrder(Append(c, l)) = IF l.k = "event" THEN Append(IdsInOrder(c), l.id) ELSE IdsInOrder(c)
    BY IdsOfOneMore
  <2>5. IdsInOrder(a \o c) = IdsInOrder(a) \o IdsInOrder(c)
    BY <1>2
  <2>6. IdsInOrder(a) \o Append(IdsInOrder(c), l.id) = Append(IdsInOrder(a) \o IdsInOrder(c), l.id)
    BY <1>0, <2>1, AppendToConcat
  <2>7. IdsInOrder(a \o Append(c, l)) = IdsInOrder(a) \o IdsInOrder(Append(c, l))
    BY <2>2, <2>3, <2>4, <2>5, <2>6
  <2> QED BY <2>1, <2>7
<1>3. Lines \subseteq S
  <2> HIDE DEF S
  <2> QED BY <1>1, <1>2, AllLines
<1> QED BY <1>3

InSeq(w) == {w[i] : i \in DOMAIN w}

LEMMA InConcatSeq ==
    ASSUME NEW S, NEW a \in Seq(S), NEW b \in Seq(S)
    PROVE  InSeq(a \o b) = InSeq(a) \cup InSeq(b)
<1>1. /\ a \o b \in Seq(S) /\ Len(a \o b) = Len(a) + Len(b) /\ Len(a) \in Nat /\ Len(b) \in Nat
      /\ \A i \in 1..(Len(a) + Len(b)) : (a \o b)[i] = IF i <= Len(a) THEN a[i] ELSE b[i - Len(a)]
  BY ConcatProperties
<1>2. DOMAIN a = 1..Len(a) /\ DOMAIN b = 1..Len(b) /\ DOMAIN (a \o b) = 1..(Len(a) + Len(b))
  BY <1>1
<1>3. ASSUME NEW i \in 1..Len(a) PROVE a[i] \in InSeq(a \o b)
  <2>1. i \in DOMAIN (a \o b) /\ (a \o b)[i] = a[i]
    BY <1>1, <1>2
  <2> QED BY <2>1 DEF InSeq
<1>4. ASSUME NEW i \in 1..Len(b) PROVE b[i] \in InSeq(a \o b)
  <2>1. Len(a) + i \in 1..(Len(a) + Len(b)) /\ ~(Len(a) + i <= Len(a)) /\ Len(a) + i - Len(a) = i
    BY <1>1
  <2>2. (a \o b)[Len(a) + i] = b[i]
    BY <1>1, <2>1
  <2> QED BY <1>2, <2>1, <2>2 DEF InSeq
<1>5. ASSUME NEW i \in 1..(Len(a) + Len(b)) PROVE (a \o b)[i] \in InSeq(a) \cup InSeq(b)
  <2>1. CASE i <= Len(a)
    <3>1. i \in DOMAIN a /\ (a \o b)[i] = a[i]
      BY <1>1, <1>2, <2>1
    <3> QED BY <3>1 DEF InSeq
  <2>2. CASE ~(i <= Len(a))
    <3>1. i - Len(a) \in 1..Len(b) /\ (a \o b)[i] = b[i - Len(a)]
      BY <1>1, <2>2
    <3> QED BY <1>2, <3>1 DEF InSeq
  <2> QED BY <2>1, <2>2
<1> QED BY <1>2, <1>3, <1>4, <1>5 DEF InSeq

LEMMA IdsInOrderAre ==
    ASSUME NEW lines \in Lines
    PROVE  InSeq(IdsInOrder(lines)) = EventIds(lines)
<1> DEFINE S == {b \in Lines : InSeq(IdsInOrder(b)) = EventIds(b)}
<1>1. <<>> \in S
  <2>1. InSeq(<<>>) = {} /\ EventIds(<<>>) = {}
    BY DEF InSeq, EventIds, Events
  <2> QED BY <2>1, NoIds, NoEvents
<1>2. ASSUME NEW b \in Lines, NEW l \in Line, b \in S PROVE Append(b, l) \in S
  <2>1. <<l>> \in Lines /\ Append(b, l) = b \o <<l>> /\ Append(b, l) \in Lines
    BY AppendIsConcat DEF Lines
  <2>2. EventIds(Append(b, l)) = EventIds(b) \cup EventIds(<<l>>)
    BY <2>1, EventIdsOfConcat DEF Lines
  <2>3. EventIds(<<l>>) = IF l.k = "event" THEN {l.id} ELSE {}
    BY DEF EventIds, Events
  <2>4. l.id \in Nat /\ IdsInOrder(b) \in Seq(Nat)
    BY IdsInOrderType DEF Line, Event, Seal
  <2>5. InSeq(Append(IdsInOrder(b), l.id)) = InSeq(IdsInOrder(b)) \cup {l.id}
    <3>1. <<l.id>> \in Seq(Nat) /\ Append(IdsInOrder(b), l.id) = IdsInOrder(b) \o <<l.id>>
      BY <2>4, AppendIsConcat
    <3>2. InSeq(<<l.id>>) = {l.id}
      BY DEF InSeq
    <3>3. InSeq(IdsInOrder(b) \o <<l.id>>) = InSeq(IdsInOrder(b)) \cup InSeq(<<l.id>>)
      BY <2>4, <3>1, InConcatSeq
    <3> QED BY <3>1, <3>2, <3>3
  <2> QED BY <1>2, <2>1, <2>2, <2>3, <2>5, IdsOfOneMore
<1>3. Lines \subseteq S
  <2> HIDE DEF S
  <2> QED BY <1>1, <1>2, AllLines
<1> QED BY <1>3

-----------------------------------------------------------------------------
(* File after file                                                         *)

IsFlat(f, seqs) ==
    f = [i \in 1..Len(seqs) |-> IF i = 1 THEN seqs[i] ELSE f[i - 1] \o seqs[i]]

LEMMA FlatIs ==
    ASSUME NEW T, NEW seqs \in Seq(T), seqs # <<>>
    PROVE  \E f : IsFlat(f, seqs) /\ FlattenSeq(seqs) = f[Len(seqs)]
<1> DEFINE Next1(f, i) == IF i = 1 THEN seqs[i] ELSE f[i - 1] \o seqs[i]
           S == {k \in Nat : \E f : f = [i \in 1..k |-> Next1(f, i)]}
<1>1. 0 \in S
  <2> DEFINE f == [i \in 1..0 |-> <<>>]
  <2>1. f = [i \in 1..0 |-> Next1(f, i)]
    OBVIOUS
  <2> QED BY <2>1
<1>2. ASSUME NEW k \in Nat, k \in S PROVE k + 1 \in S
  <2>1. PICK f : f = [i \in 1..k |-> Next1(f, i)]
    BY <1>2
  <2> DEFINE g == [i \in 1..(k + 1) |-> IF i = k + 1 THEN Next1(f, i) ELSE f[i]]
  <2>2. ASSUME NEW i \in 1..(k + 1) PROVE g[i] = Next1(g, i)
    <3>1. CASE i = k + 1
      <4>1. g[i] = Next1(f, i) /\ (i # 1 => g[i - 1] = f[i - 1])
        BY <3>1
      <4> QED BY <4>1
    <3>2. CASE i \in 1..k
      <4>1. g[i] = Next1(f, i)
        BY <2>1, <3>2
      <4>2. i = 1 \/ g[i - 1] = f[i - 1]
        BY <3>2
      <4> QED BY <4>1, <4>2
    <3> QED BY <3>1, <3>2
  <2>3. g = [i \in 1..(k + 1) |-> g[i]]
    OBVIOUS
  <2> HIDE DEF g
  <2>4. g = [i \in 1..(k + 1) |-> Next1(g, i)]
    BY <2>2, <2>3
  <2> HIDE DEF Next1
  <2>5. \E h : h = [i \in 1..(k + 1) |-> Next1(h, i)]
    BY <2>4, Zenon
  <2> QED BY <2>5
<1>3. Len(seqs) \in S
  <2> HIDE DEF S
  <2> QED BY <1>1, <1>2, AllNumbers
<1> DEFINE flatten == CHOOSE f : f = [i \in 1..Len(seqs) |-> Next1(f, i)]
<1>4. flatten = [i \in 1..Len(seqs) |-> Next1(flatten, i)]
  <2>1. \E f : f = [i \in 1..Len(seqs) |-> Next1(f, i)]
    BY <1>3
  <2> QED BY <2>1
<1>5. FlattenSeq(seqs) = flatten[Len(seqs)]
  <2>1. Len(seqs) # 0
    OBVIOUS
  <2> QED BY <2>1 DEF FlattenSeq
<1> HIDE DEF flatten
<1> QED BY <1>4, <1>5 DEF IsFlat

LEMMA FlattenNothing == FlattenSeq(<<>>) = <<>>
BY DEF FlattenSeq

LEMMA FlattenOneMore ==
    ASSUME NEW seqs \in Seq(Seq(Nat)), NEW b \in Seq(Nat)
    PROVE  FlattenSeq(Append(seqs, b)) = FlattenSeq(seqs) \o b
<1> DEFINE more == Append(seqs, b)
           n == Len(seqs)
<1>1. /\ more \in Seq(Seq(Nat)) /\ n \in Nat /\ Len(more) = n + 1 /\ more # <<>>
      /\ more[n + 1] = b /\ \A i \in 1..n : more[i] = seqs[i]
  <2>1. /\ more \in Seq(Seq(Nat)) /\ Len(more) = n + 1
        /\ \A i \in 1..n : more[i] = seqs[i]
        /\ more[n + 1] = b
    BY AppendProperties
  <2>2. n \in Nat
    OBVIOUS
  <2> HIDE DEF more, n
  <2>3. more # <<>>
    BY <2>1, <2>2
  <2> QED BY <2>1, <2>2, <2>3
<1> HIDE DEF more
<1>2. PICK g : IsFlat(g, more) /\ FlattenSeq(more) = g[Len(more)]
  BY <1>1, FlatIs
<1>3. CASE seqs = <<>>
  <2>1. n = 0 /\ g[1] = b
    BY <1>1, <1>2, <1>3 DEF IsFlat
  <2>2. <<>> \o b = b
    BY ConcatEmptySeq
  <2> QED BY <1>1, <1>2, <1>3, <2>1, <2>2, FlattenNothing DEF more
<1>4. CASE seqs # <<>>
  <2>1. PICK f : IsFlat(f, seqs) /\ FlattenSeq(seqs) = f[n]
    BY <1>4, FlatIs
  <2>0. n > 0
    BY <1>4
  <2> HIDE DEF n
  <2> DEFINE S == {i \in Nat : i \in 1..n => f[i] = g[i]}
  <2>2. 0 \in S
    OBVIOUS
  <2>3. ASSUME NEW i \in Nat, i \in S PROVE i + 1 \in S
    <3> SUFFICES ASSUME i + 1 <= n PROVE f[i + 1] = g[i + 1]
      OBVIOUS
    <3>1. i + 1 \in 1..Len(seqs) /\ i + 1 \in 1..Len(more) /\ (i + 1) - 1 = i /\ i + 1 \in 1..n
      BY <1>1 DEF n
    <3>2. f[i + 1] = IF i + 1 = 1 THEN seqs[i + 1] ELSE f[i] \o seqs[i + 1]
      BY <2>1, <3>1 DEF IsFlat
    <3>3. g[i + 1] = IF i + 1 = 1 THEN more[i + 1] ELSE g[i] \o more[i + 1]
      BY <1>2, <3>1 DEF IsFlat
    <3>4. i + 1 = 1 \/ f[i] = g[i]
      BY <1>1, <2>3
    <3> QED BY <1>1, <3>1, <3>2, <3>3, <3>4
  <2>4. Nat \subseteq S
    <3> HIDE DEF S
    <3> QED BY <2>2, <2>3, AllNumbers
  <2>5. f[n] = g[n]
    BY <1>1, <2>0, <2>4
  <2>6. g[n + 1] = g[n] \o b
    <3>1. n + 1 \in 1..Len(more) /\ n + 1 # 1 /\ (n + 1) - 1 = n
      BY <1>1, <2>0
    <3> QED BY <1>1, <1>2, <3>1 DEF IsFlat
  <2> QED BY <1>1, <1>2, <2>1, <2>5, <2>6 DEF more
<1> QED BY <1>3, <1>4

\* The first n files of a directory, read one after the other.
ReadUpTo(dir, active, n) == FlattenSeq([t \in 1..n |-> IdsInOrder(FileIn(dir, active, t))])

LEMMA ReadOneMore ==
    ASSUME NEW dir \in Dirs, NEW active \in Lines, NEW n \in Nat
    PROVE  /\ ReadUpTo(dir, active, 0) = <<>>
           /\ ReadUpTo(dir, active, n + 1)
                  = ReadUpTo(dir, active, n) \o IdsInOrder(FileIn(dir, active, n + 1))
<1> DEFINE read(k) == [t \in 1..k |-> IdsInOrder(FileIn(dir, active, t))]
<1>1. \A t : IdsInOrder(FileIn(dir, active, t)) \in Seq(Nat)
  BY FileInType, IdsInOrderType
<1>2. read(n) \in Seq(Seq(Nat)) /\ read(n + 1) \in Seq(Seq(Nat))
  BY <1>1
<1>3. read(0) = <<>>
  OBVIOUS
<1>4. read(n + 1) = Append(read(n), IdsInOrder(FileIn(dir, active, n + 1)))
  <2> DEFINE b == IdsInOrder(FileIn(dir, active, n + 1))
  <2>1. b \in Seq(Nat) /\ read(n + 1)[n + 1] = b
    BY <1>1
  <2>2. Len(read(n)) = n /\ Len(read(n + 1)) = n + 1 /\ \A i \in 1..n : read(n + 1)[i] = read(n)[i]
    OBVIOUS
  <2> HIDE DEF read, b
  <2>3. Append(read(n), b) \in Seq(Seq(Nat)) /\ Len(Append(read(n), b)) = n + 1
    BY <1>2, <2>1, <2>2
  <2>4. \A i \in 1..(n + 1) : Append(read(n), b)[i] = read(n + 1)[i]
    BY <1>2, <2>1, <2>2
  <2>5. read(n + 1) = Append(read(n), b)
    BY <1>2, <2>2, <2>3, <2>4, SeqEqual
  <2> QED BY <2>5 DEF b
<1>5. FlattenSeq(read(n + 1)) = FlattenSeq(read(n)) \o IdsInOrder(FileIn(dir, active, n + 1))
  BY <1>1, <1>2, <1>4, FlattenOneMore
<1> QED BY <1>3, <1>5, FlattenNothing DEF ReadUpTo

LEMMA ReadUpToType ==
    ASSUME NEW dir \in Dirs, NEW active \in Lines, NEW n \in Nat
    PROVE  ReadUpTo(dir, active, n) \in Seq(Nat)
<1> DEFINE S == {k \in Nat : ReadUpTo(dir, active, k) \in Seq(Nat)}
<1>1. 0 \in S
  BY ReadOneMore, EmptySeq
<1>2. ASSUME NEW k \in Nat, k \in S PROVE k + 1 \in S
  <2>1. IdsInOrder(FileIn(dir, active, k + 1)) \in Seq(Nat)
    BY FileInType, IdsInOrderType
  <2>2. ReadUpTo(dir, active, k) \o IdsInOrder(FileIn(dir, active, k + 1)) \in Seq(Nat)
    BY <1>2, <2>1, ConcatProperties
  <2>3. ReadUpTo(dir, active, k + 1) = ReadUpTo(dir, active, k) \o IdsInOrder(FileIn(dir, active, k + 1))
    BY ReadOneMore
  <2>4. ReadUpTo(dir, active, k + 1) \in Seq(Nat)
    BY <2>2, <2>3, Zenon
  <2> QED BY <2>4
<1>3. Nat \subseteq S
  <2> HIDE DEF S
  <2> QED BY <1>1, <1>2, AllNumbers
<1> QED BY <1>3

\* Files with nothing in them are not noticed.
LEMMA ReadNothingMore ==
    ASSUME NEW dir \in Dirs, NEW active \in Lines, NEW m \in Nat, NEW n \in Nat, m <= n,
           \A t \in Nat : m < t /\ t <= n => FileIn(dir, active, t) = <<>>
    PROVE  ReadUpTo(dir, active, n) = ReadUpTo(dir, active, m)
<1> DEFINE S == {k \in Nat : m <= k /\ k <= n => ReadUpTo(dir, active, k) = ReadUpTo(dir, active, m)}
<1>1. 0 \in S
  <2>1. m <= 0 => m = 0
    OBVIOUS
  <2> QED BY <2>1
<1>2. ASSUME NEW k \in Nat, k \in S PROVE k + 1 \in S
  <2> SUFFICES ASSUME m <= k + 1, k + 1 <= n
               PROVE  ReadUpTo(dir, active, k + 1) = ReadUpTo(dir, active, m)
    OBVIOUS
  <2>1. CASE m = k + 1
    BY <2>1
  <2>2. CASE m <= k
    <3>1. ReadUpTo(dir, active, k) = ReadUpTo(dir, active, m)
      BY <1>2, <2>2
    <3>2. FileIn(dir, active, k + 1) = <<>>
      BY <2>2
    <3>3. ReadUpTo(dir, active, k + 1) = ReadUpTo(dir, active, k) \o <<>>
      BY <3>2, ReadOneMore, NoIds
    <3> QED BY <3>1, <3>3, ReadUpToType, ConcatEmptySeq
  <2> QED BY <2>1, <2>2
<1>3. Nat \subseteq S
  <2> HIDE DEF S
  <2> QED BY <1>1, <1>2, AllNumbers
<1> QED BY <1>3

LEMMA ReadAre ==
    ASSUME NEW dir \in Dirs, NEW active \in Lines, NEW n \in Nat
    PROVE  InSeq(ReadUpTo(dir, active, n)) = UNION {EventIds(FileIn(dir, active, t)) : t \in 1..n}
<1> DEFINE Are(k) == UNION {EventIds(FileIn(dir, active, t)) : t \in 1..k}
           S == {k \in Nat : InSeq(ReadUpTo(dir, active, k)) = Are(k)}
<1>1. 0 \in S
  <2>1. InSeq(<<>>) = {}
    BY DEF InSeq
  <2>2. Are(0) = {}
    OBVIOUS
  <2> QED BY <2>1, <2>2, ReadOneMore
<1>2. ASSUME NEW k \in Nat, k \in S PROVE k + 1 \in S
  <2>1. FileIn(dir, active, k + 1) \in Lines
    BY FileInType
  <2>2. InSeq(ReadUpTo(dir, active, k + 1))
            = InSeq(ReadUpTo(dir, active, k)) \cup InSeq(IdsInOrder(FileIn(dir, active, k + 1)))
    <3>1. /\ ReadUpTo(dir, active, k) \in Seq(Nat)
          /\ IdsInOrder(FileIn(dir, active, k + 1)) \in Seq(Nat)
      BY <2>1, ReadUpToType, IdsInOrderType
    <3>2. ReadUpTo(dir, active, k + 1) = ReadUpTo(dir, active, k) \o IdsInOrder(FileIn(dir, active, k + 1))
      BY ReadOneMore
    <3> QED BY <3>1, <3>2, InConcatSeq
  <2>3. Are(k + 1) = Are(k) \cup EventIds(FileIn(dir, active, k + 1))
    <3>1. 1..(k + 1) = 1..k \cup {k + 1}
      OBVIOUS
    <3> QED BY <3>1
  <2> QED BY <1>2, <2>1, <2>2, <2>3, IdsInOrderAre
<1>3. Nat \subseteq S
  <2> HIDE DEF S
  <2> QED BY <1>1, <1>2, AllNumbers
<1> QED BY <1>3

\* What is read of a closed segment does not depend on the active one.
LEMMA ReadSame ==
    ASSUME NEW n \in Nat, NEW dir, NEW dir2, NEW a, NEW b,
           \A t \in 1..n : FileIn(dir, a, t) = FileIn(dir2, b, t)
    PROVE  ReadUpTo(dir, a, n) = ReadUpTo(dir2, b, n)
<1>1. [t \in 1..n |-> IdsInOrder(FileIn(dir, a, t))] = [t \in 1..n |-> IdsInOrder(FileIn(dir2, b, t))]
  OBVIOUS
<1> QED BY <1>1 DEF ReadUpTo

ReadClosed(dir) == ReadUpTo(dir, <<>>, MaxSegments)

\* The closed segments are read first, and of the active one what mending makes of it.
LEMMA ReadingIs ==
    TypeOK => /\ Reading = ReadClosed(closed) \o IdsInOrder(Mended)
              /\ ReadClosed(closed) \in Seq(Nat) /\ IdsInOrder(Mended) \in Seq(Nat)
              /\ Reading \in Seq(Nat)
              /\ InSeq(ReadClosed(closed)) = UNION {EventIds(closed[s]) : s \in SegNos}
<1> SUFFICES ASSUME TypeOK
             PROVE  /\ Reading = ReadClosed(closed) \o IdsInOrder(Mended)
                    /\ ReadClosed(closed) \in Seq(Nat) /\ IdsInOrder(Mended) \in Seq(Nat)
                    /\ Reading \in Seq(Nat)
                    /\ InSeq(ReadClosed(closed)) = UNION {EventIds(closed[s]) : s \in SegNos}
  OBVIOUS
<1>1. closed \in Dirs /\ Mended \in Lines /\ live \in Lines
  BY Typed
<1>2. live \o LastLine = Mended
  <2>1. torn \in Line => Append(live, torn) = live \o <<torn>>
    BY <1>1, AppendIsConcat DEF Lines
  <2>2. live \o <<>> = live
    BY <1>1, ConcatEmptySeq DEF Lines
  <2> QED BY <2>1, <2>2 DEF LastLine, Mended
<1>3. MaxSegments \in Nat /\ Places = 1..(MaxSegments + 1) /\ SegNos = 1..MaxSegments
  BY BoundsAssumption DEF Places, SegNos
<1>4. Reading = ReadUpTo(closed, Mended, MaxSegments + 1)
  <2>1. \A s : File(s, live \o LastLine) = FileIn(closed, Mended, s)
    BY <1>2, FilesAre
  <2> QED BY <1>3, <2>1 DEF Reading, ReadUpTo
<1>5. ReadUpTo(closed, Mended, MaxSegments + 1)
          = ReadUpTo(closed, Mended, MaxSegments) \o IdsInOrder(FileIn(closed, Mended, MaxSegments + 1))
  BY <1>1, <1>3, ReadOneMore
<1>6. FileIn(closed, Mended, MaxSegments + 1) = Mended
  BY FilesAre DEF FileIn
<1>7. ReadUpTo(closed, Mended, MaxSegments) = ReadClosed(closed)
  <2>1. \A t \in 1..MaxSegments : FileIn(closed, Mended, t) = FileIn(closed, <<>>, t)
    BY <1>3 DEF FileIn
  <2> QED BY <1>3, <2>1, ReadSame DEF ReadClosed
<1>8. ReadClosed(closed) \in Seq(Nat)
  BY <1>1, <1>3, NoEvents, ReadUpToType DEF ReadClosed
<1>9. IdsInOrder(Mended) \in Seq(Nat)
  BY <1>1, IdsInOrderType
<1>10. InSeq(ReadClosed(closed)) = UNION {EventIds(closed[s]) : s \in SegNos}
  <2>1. InSeq(ReadClosed(closed)) = UNION {EventIds(FileIn(closed, <<>>, t)) : t \in 1..MaxSegments}
    BY <1>1, <1>3, NoEvents, ReadAre DEF ReadClosed
  <2>2. \A t \in SegNos : FileIn(closed, <<>>, t) = closed[t]
    BY DEF FileIn
  <2> QED BY <1>3, <2>1, <2>2
<1>11. Reading = ReadClosed(closed) \o IdsInOrder(Mended)
  BY <1>4, <1>5, <1>6, <1>7
<1>12. ReadClosed(closed) \o IdsInOrder(Mended) \in Seq(Nat)
  BY <1>8, <1>9, ConcatProperties
<1> QED BY <1>8, <1>9, <1>10, <1>11, <1>12

\* Every event on disk is read.
LEMMA OnDiskIsRead == TypeOK => OnDisk \subseteq InSeq(Reading)
<1> SUFFICES ASSUME TypeOK PROVE OnDisk \subseteq InSeq(Reading)
  OBVIOUS
<1>1. /\ Reading = ReadClosed(closed) \o IdsInOrder(Mended)
      /\ ReadClosed(closed) \in Seq(Nat) /\ IdsInOrder(Mended) \in Seq(Nat)
      /\ InSeq(ReadClosed(closed)) = UNION {EventIds(closed[s]) : s \in SegNos}
  BY ReadingIs
<1>2. InSeq(Reading) = InSeq(ReadClosed(closed)) \cup InSeq(IdsInOrder(Mended))
  BY <1>1, InConcatSeq
<1>3. live \in Lines /\ Mended \in Lines
  BY Typed
<1>4. EventIds(live) \subseteq EventIds(Mended)
  <2>1. CASE torn \in Line
    <3>1. <<torn>> \in Lines /\ Mended = live \o <<torn>>
      BY <1>3, <2>1, AppendIsConcat DEF Mended, Lines
    <3> QED BY <1>3, <3>1, EventIdsOfConcat DEF Lines
  <2>2. CASE torn \notin Line
    BY <2>2 DEF Mended
  <2> QED BY <2>1, <2>2
<1>5. InSeq(IdsInOrder(Mended)) = EventIds(Mended)
  BY <1>3, IdsInOrderAre
<1> QED BY <1>1, <1>2, <1>4, <1>5 DEF OnDisk

-----------------------------------------------------------------------------
(* What was said, as it will be read                                       *)

LEMMA SealsUnread ==
    ASSUME NEW l \in Seal
    PROVE  IdsInOrder(<<l>>) = <<>>
<1>1. l \in Line /\ l.k = "seal" /\ <<l>> = Append(<<>>, l)
  BY LineKinds
<1> QED BY <1>1, NoEvents, NoIds, IdsOfOneMore

LEMMA SealOverUnread ==
    ASSUME TypeOK, NEW p \in Writers, NEW said \in Seq(Event), NEW n \in Nat, NEW end \in BOOLEAN
    PROVE  SealOver(p, said, n, end) \in Lines /\ IdsInOrder(SealOver(p, said, n, end)) = <<>>
<1>1. SealOver(p, said, n, end) \in Lines
  BY SealType DEF Lines
<1>2. CASE ~CanSeal(p)
  BY <1>1, <1>2, NoIds DEF SealOver
<1>3. CASE CanSeal(p)
  <2> DEFINE l == [k |-> "seal", id |-> minted + 1, seg |-> store[p].seg,
                   at |-> store[p].covers.at + Len(said), tip |-> store[p].covers.tip \cup Ids(said),
                   n |-> n, closed |-> end]
  <2>1. SealOver(p, said, n, end) = <<l>> /\ l.k = "seal"
    BY <1>3 DEF SealOver
  <2> HIDE DEF l
  <2>2. l \in Seal
    <3>1. <<l>> \in Lines /\ Len(<<l>>) = 1 /\ <<l>>[1] = l
      BY <1>1, <2>1
    <3>2. <<l>>[1] \in Line
      BY <3>1, LinesAre
    <3> QED BY <2>1, <3>1, <3>2, LineKinds
  <2> QED BY <1>1, <2>1, <2>2, SealsUnread
<1> QED BY <1>2, <1>3

\* A lot is the first of what there is to do.
LEMMA LotLeads ==
    ASSUME TypeOK, NEW p \in Writers, Writing(p)
    PROVE  LET rest == SubSeq(job.todo, Len(Lot(p)) + 1, Len(job.todo))
           IN  Lot(p) \in Lines /\ rest \in Lines /\ job.todo = Lot(p) \o rest
<1> DEFINE k == Len(Lot(p))
           n == Len(job.todo)
           rest == SubSeq(job.todo, k + 1, n)
<1>1. /\ Lot(p) \in Seq(Event) /\ k <= n /\ job.todo \in Seq(Event)
      /\ \A i \in 1..k : Lot(p)[i] = job.todo[i]
  BY LotType DEF TypeOK
<1>2. k \in Nat /\ n \in Nat
  BY <1>1
<1>3. Lot(p) \in Lines /\ job.todo \in Lines
  BY <1>1, EventsAreLines
<1>4. /\ SubSeq(job.todo, 1, k) \in Seq(Event) /\ Len(SubSeq(job.todo, 1, k)) = k
      /\ \A i \in 1..k : SubSeq(job.todo, 1, k)[i] = job.todo[i]
  <2> HIDE DEF k, n
  <2>1. \A i \in 1..k : job.todo[i] \in Event
    BY <1>1, <1>2 DEF n
  <2>2. /\ SubSeq(job.todo, 1, k) \in Seq(Event)
        /\ Len(SubSeq(job.todo, 1, k)) = IF 1 <= k THEN k - 1 + 1 ELSE 0
        /\ \A i \in 1..(k - 1 + 1) : SubSeq(job.todo, 1, k)[i] = job.todo[1 + i - 1]
    BY <1>2, <2>1, SubSeqProperties
  <2>3. \A i \in 1..k : i \in 1..(k - 1 + 1) /\ 1 + i - 1 = i
    BY <1>2
  <2>4. Len(SubSeq(job.todo, 1, k)) = k
    BY <1>2, <2>2
  <2> QED BY <2>2, <2>3, <2>4
<1>5. SubSeq(job.todo, 1, k) = Lot(p)
  BY <1>1, <1>4, SeqEqual
<1>6. SubSeq(job.todo, 1, k) \o SubSeq(job.todo, k + 1, n) = SubSeq(job.todo, 1, n)
  <2>1. 1 \in 1..(Len(job.todo) + 1) /\ k \in (1 - 1)..Len(job.todo) /\ n \in k..Len(job.todo)
    BY <1>1, <1>2
  <2> HIDE DEF k, n
  <2> QED BY <1>1, <2>1, ConcatAdjacentSubSeq
<1>7. SubSeq(job.todo, 1, n) = job.todo
  BY <1>1, SubSeqFull
<1>8. rest \in Lines
  <2>1. \A i \in (k + 1)..n : job.todo[i] \in Event
    BY <1>1, <1>2
  <2>2. k + 1 \in Int /\ n \in Int
    BY <1>2
  <2> HIDE DEF k, n
  <2>3. SubSeq(job.todo, k + 1, n) \in Seq(Event)
    BY <2>1, <2>2, SubSeqProperties
  <2> QED BY <2>3, EventsAreLines
<1> QED BY <1>3, <1>5, <1>6, <1>7, <1>8

\* What is said next is read as the events at the head of what there is to do, and a write that
\* went through leaves the others.
LEMMA SaidIsRead ==
    ASSUME TypeOK, NEW p \in Writers, Writing(p)
    PROVE  \E rest \in Lines :
               /\ Said(p) \in Lines /\ IdsInOrder(job.todo) = IdsInOrder(Said(p)) \o IdsInOrder(rest)
               /\ WriteLot(p) => job'.todo = rest
               /\ IsFull(p) /\ CanSeal(p) => rest = job.todo
<1>0. /\ Said(p) \in Lines /\ job.todo \in Lines /\ store[p].count \in Nat
      /\ IdsInOrder(job.todo) \in Seq(Nat)
  BY SaidType, EventsAreLines, IdsInOrderType DEF Lines, TypeOK, StoreFields
<1>1. CASE IsFull(p) /\ CanSeal(p)
  <2>1. Said(p) = SealOver(p, <<>>, store[p].count, TRUE)
    BY <1>1 DEF Said
  <2>2. IdsInOrder(Said(p)) = <<>>
    BY <1>0, <2>1, NoEvents, SealOverUnread
  <2>3. IdsInOrder(job.todo) = IdsInOrder(Said(p)) \o IdsInOrder(job.todo)
    BY <1>0, <2>2, ConcatEmptySeq
  <2>4. ~WriteLot(p)
    BY <1>1 DEF WriteLot
  <2> QED BY <1>0, <2>3, <2>4
<1>2. CASE ~(IsFull(p) /\ CanSeal(p))
  <2> DEFINE n == store[p].count + Len(Lot(p))
             rest == SubSeq(job.todo, Len(Lot(p)) + 1, Len(job.todo))
             seals == SealOver(p, Lot(p), n, FALSE)
  <2>1. Lot(p) \in Seq(Event) /\ Lot(p) \in Lines /\ rest \in Lines /\ job.todo = Lot(p) \o rest
    BY LotType, LotLeads
  <2>2. n \in Nat /\ FALSE \in BOOLEAN
    BY <1>0, <2>1
  <2>3. Said(p) = Lot(p) \o seals
    BY <1>2 DEF Said
  <2>4. WriteLot(p) => job'.todo = rest
    BY DEF WriteLot, TypeOK
  <2> HIDE DEF n, rest
  <2>5. seals \in Lines /\ IdsInOrder(seals) = <<>>
    BY <2>1, <2>2, SealOverUnread
  <2> HIDE DEF seals
  <2>6. IdsInOrder(Said(p)) = IdsInOrder(Lot(p)) \o <<>>
    BY <2>1, <2>3, <2>5, IdsInOrderOfConcat
  <2>7. IdsInOrder(Said(p)) = IdsInOrder(Lot(p))
    BY <2>1, <2>6, IdsInOrderType, ConcatEmptySeq
  <2>8. IdsInOrder(job.todo) = IdsInOrder(Said(p)) \o IdsInOrder(rest)
    BY <2>1, <2>7, IdsInOrderOfConcat
  <2> QED BY <1>0, <1>2, <2>1, <2>4, <2>8
<1> QED BY <1>1, <1>2

\* Of nothing but events, every id.
LEMMA EventsAreRead ==
    ASSUME NEW lines \in Seq(Event)
    PROVE  IdsInOrder(lines) = [i \in 1..Len(lines) |-> lines[i].id]
<1> DEFINE S == {b \in Lines : b \in Seq(Event) => IdsInOrder(b) = [i \in 1..Len(b) |-> b[i].id]}
<1>1. <<>> \in S
  <2>1. [i \in 1..Len(<<>>) |-> <<>>[i].id] = <<>>
    OBVIOUS
  <2> QED BY <2>1, NoEvents, NoIds
<1>2. ASSUME NEW b \in Lines, NEW l \in Line, b \in S PROVE Append(b, l) \in S
  <2>1. b \in Seq(Line) /\ Len(b) \in Nat
    BY DEF Lines
  <2> DEFINE more == Append(b, l)
             n == Len(b)
             ids == [i \in 1..n |-> b[i].id]
             idsMore == [i \in 1..(n + 1) |-> more[i].id]
  <2>2. /\ more \in Seq(Line) /\ Len(more) = n + 1 /\ more[n + 1] = l
        /\ \A i \in 1..n : more[i] = b[i]
    BY <2>1, AppendProperties
  <2> HIDE DEF more
  <2> SUFFICES ASSUME more \in Seq(Event) PROVE IdsInOrder(more) = [i \in 1..Len(more) |-> more[i].id]
    BY <2>2 DEF Lines, more
  <2>3. \A i \in 1..(n + 1) : more[i] \in Event
    BY <2>2
  <2>4. l \in Event /\ l.k = "event" /\ l.id \in Nat
    BY <2>1, <2>2, <2>3, LineKinds DEF Event
  <2>5. b \in Seq(Event)
    <3>1. \A i \in 1..n : b[i] \in Event
      BY <2>1, <2>2, <2>3
    <3> QED BY <2>1, <3>1
  <2>6. IdsInOrder(b) = ids /\ ids \in Seq(Nat) /\ Len(ids) = n
    <3>0. \A i \in 1..n : b[i] \in Event
      BY <2>5
    <3>1. \A i \in 1..n : b[i].id \in Nat
      BY <3>0 DEF Event
    <3>2. ids \in Seq(Nat) /\ Len(ids) = n
      BY <2>1, <3>1
    <3> QED BY <1>2, <2>5, <3>2
  <2>7. IdsInOrder(more) = Append(ids, l.id)
    BY <2>4, <2>6, IdsOfOneMore DEF more
  <2>8. Append(ids, l.id) = idsMore
    <3>1. \A i \in 1..(n + 1) : more[i].id \in Nat
      BY <2>3 DEF Event
    <3>2. idsMore \in Seq(Nat) /\ Len(idsMore) = n + 1
      BY <2>1, <3>1
    <3>3. /\ Append(ids, l.id) \in Seq(Nat) /\ Len(Append(ids, l.id)) = n + 1
          /\ \A i \in 1..n : Append(ids, l.id)[i] = ids[i]
          /\ Append(ids, l.id)[n + 1] = l.id
      BY <2>4, <2>6, AppendProperties
    <3>4. ASSUME NEW i \in 1..(n + 1) PROVE Append(ids, l.id)[i] = idsMore[i]
      <4>1. CASE i = n + 1
        BY <2>2, <3>3, <4>1
      <4>2. CASE i \in 1..n
        <5>1. ids[i] = b[i].id /\ idsMore[i] = more[i].id /\ more[i] = b[i]
          BY <2>2, <4>2
        <5> QED BY <3>3, <4>2, <5>1
      <4> QED BY <2>1, <4>1, <4>2
    <3> QED BY <3>2, <3>3, <3>4, SeqEqual
  <2> QED BY <2>2, <2>7, <2>8
<1>3. Lines \subseteq S
  <2> HIDE DEF S
  <2> QED BY <1>1, <1>2, AllLines
<1> QED BY <1>3, EventsAreLines

-----------------------------------------------------------------------------
(* No event is read twice                                                  *)

\* All that is read, and behind it what the call that runs has still to write.
Whole == Reading \o IdsInOrder(job.todo)

NoTwice(w) == \A i, j \in DOMAIN w : i # j => w[i] # w[j]
OnceEach   == NoTwice(Whole) /\ \A i \in DOMAIN Whole : Whole[i] \in 1..minted

\* Nobody who holds the lock has a torn tail before him.
TornIsMended == lock # None => torn = None

\* What a step does to the reading: the next of what there was to write are read, and the rest stay
\* to be written or are given up; or fresh events are to be written.
Forward ==
    \/ \E more, rest \in Seq(Nat) :
          /\ Reading' = Reading \o more
          /\ IdsInOrder(job.todo) = more \o rest
          /\ IdsInOrder(job'.todo) \in {rest, <<>>}
          /\ minted <= minted'
    \/ \E n \in Nat :
          /\ Reading' = Reading
          /\ IdsInOrder(job'.todo) = [i \in 1..n |-> minted + i]
          /\ minted' = minted + n

LEMMA TodoRead == TypeOK => IdsInOrder(job.todo) \in Seq(Nat)
BY EventsAreLines, IdsInOrderType DEF TypeOK

LEMMA NoTwicePart ==
    ASSUME NEW a \in Seq(Nat), NEW b \in Seq(Nat), NoTwice(a \o b)
    PROVE  NoTwice(a) /\ (\A i \in DOMAIN a : i \in DOMAIN (a \o b) /\ (a \o b)[i] = a[i])
<1>1. /\ a \o b \in Seq(Nat) /\ Len(a \o b) = Len(a) + Len(b)
      /\ \A i \in 1..(Len(a) + Len(b)) : (a \o b)[i] = IF i <= Len(a) THEN a[i] ELSE b[i - Len(a)]
  BY ConcatProperties
<1>2. ASSUME NEW i \in DOMAIN a PROVE i \in DOMAIN (a \o b) /\ (a \o b)[i] = a[i]
  BY <1>1
<1> QED BY <1>2 DEF NoTwice

LEMMA NoTwiceFresh ==
    ASSUME NEW a \in Seq(Nat), NoTwice(a), NEW m \in Nat, \A i \in DOMAIN a : a[i] \in 1..m,
           NEW n \in Nat, NEW b \in Seq(Nat), b = [i \in 1..n |-> m + i]
    PROVE  NoTwice(a \o b) /\ \A i \in DOMAIN (a \o b) : (a \o b)[i] \in 1..(m + n)
<1>1. /\ a \o b \in Seq(Nat) /\ Len(a \o b) = Len(a) + Len(b) /\ Len(b) = n /\ Len(a) \in Nat
      /\ \A i \in 1..(Len(a) + Len(b)) : (a \o b)[i] = IF i <= Len(a) THEN a[i] ELSE b[i - Len(a)]
  BY ConcatProperties
<1>2. DOMAIN a = 1..Len(a) /\ DOMAIN (a \o b) = 1..(Len(a) + n)
  BY <1>1
<1>3. ASSUME NEW i \in DOMAIN (a \o b)
      PROVE  \/ i \in DOMAIN a /\ (a \o b)[i] = a[i] /\ (a \o b)[i] \in 1..m
             \/ i > Len(a) /\ (a \o b)[i] = m + (i - Len(a)) /\ i - Len(a) \in 1..n
  <2>1. CASE i <= Len(a)
    <3>1. i \in DOMAIN a /\ (a \o b)[i] = a[i]
      BY <1>1, <1>2, <2>1
    <3> QED BY <3>1
  <2>2. CASE ~(i <= Len(a))
    <3>1. i - Len(a) \in 1..n /\ (a \o b)[i] = b[i - Len(a)]
      BY <1>1, <1>2, <2>2
    <3> QED BY <1>1, <1>2, <2>2, <3>1
  <2> QED BY <2>1, <2>2
<1>4. ASSUME NEW i \in DOMAIN (a \o b) PROVE (a \o b)[i] \in 1..(m + n)
  BY <1>3
<1>5. ASSUME NEW i \in DOMAIN (a \o b), NEW j \in DOMAIN (a \o b), i # j
      PROVE  (a \o b)[i] # (a \o b)[j]
  <2>1. i \in Nat /\ j \in Nat
    BY <1>1, <1>2
  <2>2. CASE i \in DOMAIN a /\ j \in DOMAIN a
    <3>1. (a \o b)[i] = a[i] /\ (a \o b)[j] = a[j]
      BY <1>2, <1>3, <2>2
    <3> QED BY <1>5, <2>2, <3>1 DEF NoTwice
  <2>3. CASE i \notin DOMAIN a /\ j \notin DOMAIN a
    <3>1. (a \o b)[i] = m + (i - Len(a)) /\ (a \o b)[j] = m + (j - Len(a))
      BY <1>3, <2>3
    <3> QED BY <1>1, <1>5, <2>1, <3>1
  <2>4. CASE i \in DOMAIN a /\ j \notin DOMAIN a
    <3>1. (a \o b)[i] \in 1..m /\ (a \o b)[j] = m + (j - Len(a)) /\ j - Len(a) \in 1..n
      BY <1>2, <1>3, <2>4
    <3>2. m + (j - Len(a)) \notin 1..m
      BY <1>1, <3>1
    <3> QED BY <3>1, <3>2
  <2>5. CASE i \notin DOMAIN a /\ j \in DOMAIN a
    <3>1. (a \o b)[j] \in 1..m /\ (a \o b)[i] = m + (i - Len(a)) /\ i - Len(a) \in 1..n
      BY <1>2, <1>3, <2>5
    <3>2. m + (i - Len(a)) \notin 1..m
      BY <1>1, <3>1
    <3> QED BY <3>1, <3>2
  <2> QED BY <2>2, <2>3, <2>4, <2>5
<1> QED BY <1>4, <1>5 DEF NoTwice

LEMMA ConcatOfIds ==
    ASSUME NEW a \in Seq(Nat), NEW b \in Seq(Nat), NEW c \in Seq(Nat)
    PROVE  (a \o b) \o c = a \o (b \o c)
BY ConcatAssociative

LEMMA OnceEachStep ==
    ASSUME TypeOK, TypeOK', OnceEach, Forward
    PROVE  OnceEach'
<1> DEFINE todo == IdsInOrder(job.todo)
           next == IdsInOrder(job'.todo)
<1>1. /\ Reading \in Seq(Nat) /\ todo \in Seq(Nat) /\ minted \in Nat
      /\ Whole = Reading \o todo /\ Whole' = Reading' \o next
  BY ReadingIs, TodoRead DEF Whole, TypeOK
<1>2. Reading' \in Seq(Nat) /\ next \in Seq(Nat) /\ minted' \in Nat
  <2>1. (TypeOK => Reading \in Seq(Nat))'
    BY ReadingIs, PTL
  <2>2. (TypeOK => IdsInOrder(job.todo) \in Seq(Nat))'
    BY TodoRead, PTL
  <2> QED BY <2>1, <2>2 DEF TypeOK
<1>3. NoTwice(Whole) /\ \A i \in DOMAIN Whole : Whole[i] \in 1..minted
  BY DEF OnceEach
<1> HIDE DEF todo, next
<1>4. ASSUME NEW more \in Seq(Nat), NEW rest \in Seq(Nat),
             Reading' = Reading \o more, todo = more \o rest, next \in {rest, <<>>},
             minted <= minted'
      PROVE  NoTwice(Whole') /\ \A i \in DOMAIN Whole' : Whole'[i] \in 1..minted'
  <2>1. Whole = Reading' \o rest
    <3>1. Whole = Reading \o (more \o rest)
      BY <1>1, <1>4
    <3>2. (Reading \o more) \o rest = Reading \o (more \o rest)
      BY <1>1, ConcatOfIds
    <3> QED BY <1>4, <3>1, <3>2
  <2>2. /\ NoTwice(Reading')
        /\ \A i \in DOMAIN Reading' : i \in DOMAIN Whole /\ Whole[i] = Reading'[i]
    BY <1>2, <1>3, <2>1, NoTwicePart
  <2>3. \A x \in 1..minted : x \in 1..minted'
    BY <1>1, <1>2, <1>4
  <2>4. CASE next = rest
    <3>1. Whole' = Whole
      BY <1>1, <2>1, <2>4
    <3> QED BY <1>3, <2>3, <3>1
  <2>5. CASE next = <<>>
    <3>1. Whole' = Reading'
      BY <1>1, <1>2, <2>5, ConcatEmptySeq
    <3> QED BY <1>3, <2>2, <2>3, <3>1
  <2> QED BY <1>4, <2>4, <2>5
<1>5. ASSUME NEW n \in Nat, Reading' = Reading, next = [i \in 1..n |-> minted + i],
             minted' = minted + n
      PROVE  NoTwice(Whole') /\ \A i \in DOMAIN Whole' : Whole'[i] \in 1..minted'
  <2>1. /\ NoTwice(Reading)
        /\ \A i \in DOMAIN Reading : i \in DOMAIN Whole /\ Whole[i] = Reading[i]
    BY <1>1, <1>3, NoTwicePart
  <2>2. \A i \in DOMAIN Reading : Reading[i] \in 1..minted
    BY <1>3, <2>1
  <2>3. Whole' = Reading \o next
    BY <1>1, <1>5
  <2>4. /\ NoTwice(Reading \o next)
        /\ \A i \in DOMAIN (Reading \o next) : (Reading \o next)[i] \in 1..(minted + n)
    BY <1>1, <1>2, <1>5, <2>1, <2>2, NoTwiceFresh
  <2> QED BY <1>5, <2>3, <2>4
<1>6. NoTwice(Whole') /\ \A i \in DOMAIN Whole' : Whole'[i] \in 1..minted'
  BY <1>4, <1>5 DEF Forward, todo, next
<1> QED BY <1>6 DEF OnceEach, NoTwice

LEMMA ReadingNext ==
    ASSUME TypeOK'
    PROVE  /\ Reading' = ReadClosed(closed') \o IdsInOrder(Mended')
           /\ ReadClosed(closed') \in Seq(Nat) /\ IdsInOrder(Mended') \in Seq(Nat)
           /\ Reading' \in Seq(Nat)
           /\ IdsInOrder(job'.todo) \in Seq(Nat)
<1>1. (TypeOK => /\ Reading = ReadClosed(closed) \o IdsInOrder(Mended)
                 /\ ReadClosed(closed) \in Seq(Nat) /\ IdsInOrder(Mended) \in Seq(Nat)
                 /\ Reading \in Seq(Nat))'
  BY ReadingIs, PTL
<1>2. (TypeOK => IdsInOrder(job.todo) \in Seq(Nat))'
  BY TodoRead, PTL
<1> QED BY <1>1, <1>2

LEMMA StillRead ==
    ASSUME TypeOK, TypeOK', Mended' = Mended, closed' = closed
    PROVE  Reading' = Reading
BY ReadingIs, ReadingNext

\* What is said behind the active file is read behind everything else.
LEMMA AddsToRead ==
    ASSUME TypeOK, TypeOK', torn = None, NEW said \in Lines, Mended' = live \o said, closed' = closed
    PROVE  Reading' = Reading \o IdsInOrder(said)
<1>1. Mended = live /\ live \in Lines
  BY Typed, SentinelAssumption DEF Mended
<1>2. IdsInOrder(Mended') = IdsInOrder(Mended) \o IdsInOrder(said)
  BY <1>1, IdsInOrderOfConcat
<1>3. /\ ReadClosed(closed) \in Seq(Nat) /\ IdsInOrder(Mended) \in Seq(Nat)
      /\ IdsInOrder(said) \in Seq(Nat)
      /\ Reading = ReadClosed(closed) \o IdsInOrder(Mended)
      /\ Reading' = ReadClosed(closed) \o IdsInOrder(Mended')
  BY ReadingIs, ReadingNext, IdsInOrderType
<1>4. (ReadClosed(closed) \o IdsInOrder(Mended)) \o IdsInOrder(said)
          = ReadClosed(closed) \o (IdsInOrder(Mended) \o IdsInOrder(said))
  BY <1>3, ConcatOfIds
<1> QED BY <1>2, <1>3, <1>4

\* A segment closed is read where it was read before: at the end, or not at all.
LEMMA CloseReads ==
    ASSUME TypeOK, TypeOK', Contiguous, OnceEach, torn = None, NEW p \in Writers, CloseSegment(p)
    PROVE  Reading' = Reading
<1> DEFINE s == ToClose(p)
<1>1. /\ s \in SegNos /\ closed[s] \in {<<>>, live} /\ closed' = [closed EXCEPT ![s] = live]
      /\ live' = <<>> /\ torn' = None
  BY DEF CloseSegment
<1> HIDE DEF s
<1>2. /\ closed \in Dirs /\ closed' \in Dirs /\ live \in Lines /\ Mended = live /\ Mended' = <<>>
      /\ SegNos = 1..MaxSegments /\ MaxSegments \in Nat /\ <<>> \in Lines
  <2>1. Mended' = <<>>
    BY <1>1, SentinelAssumption DEF Mended
  <2> QED BY <2>1, Typed, NoEvents, SentinelAssumption, BoundsAssumption DEF Mended, SegNos, TypeOK, Dirs
<1>3. closed'[s] = live /\ \A t \in SegNos \ {s} : closed'[t] = closed[t]
  BY <1>1, <1>2 DEF Dirs
<1>4. /\ Reading = ReadClosed(closed) \o IdsInOrder(live)
      /\ Reading' = ReadClosed(closed') \o <<>>
      /\ ReadClosed(closed) \in Seq(Nat) /\ ReadClosed(closed') \in Seq(Nat)
      /\ InSeq(ReadClosed(closed)) = UNION {EventIds(closed[t]) : t \in SegNos}
  BY <1>2, ReadingIs, ReadingNext, NoIds
<1>5. Reading' = ReadClosed(closed')
  BY <1>4, ConcatEmptySeq
<1>6. CASE closed[s] = <<>>
  <2>0. s \in Nat /\ s - 1 \in Nat /\ s <= MaxSegments /\ s - 1 <= MaxSegments /\ (s - 1) + 1 = s
    BY <1>1, <1>2
  <2>1. \A t \in SegNos : t >= s => closed[t] = <<>>
    BY <1>1, <1>2, <1>6 DEF Contiguous
  <2>2. ReadClosed(closed) = ReadUpTo(closed, <<>>, s - 1)
    <3>1. \A t \in Nat : s - 1 < t /\ t <= MaxSegments => FileIn(closed, <<>>, t) = <<>>
      BY <1>2, <2>0, <2>1 DEF FileIn
    <3> QED BY <1>2, <2>0, <3>1, ReadNothingMore DEF ReadClosed
  <2>3. ReadClosed(closed') = ReadUpTo(closed', <<>>, s)
    <3>1. \A t \in Nat : s < t /\ t <= MaxSegments => FileIn(closed', <<>>, t) = <<>>
      BY <1>2, <1>3, <2>0, <2>1 DEF FileIn
    <3> QED BY <1>2, <2>0, <3>1, ReadNothingMore DEF ReadClosed
  <2>4. ReadUpTo(closed', <<>>, s) = ReadUpTo(closed', <<>>, s - 1) \o IdsInOrder(live)
    <3>1. FileIn(closed', <<>>, s) = live
      BY <1>1, <1>3 DEF FileIn
    <3>2. ReadUpTo(closed', <<>>, (s - 1) + 1)
              = ReadUpTo(closed', <<>>, s - 1) \o IdsInOrder(FileIn(closed', <<>>, (s - 1) + 1))
      BY <1>2, <2>0, ReadOneMore
    <3> QED BY <2>0, <3>1, <3>2
  <2>5. ReadUpTo(closed', <<>>, s - 1) = ReadUpTo(closed, <<>>, s - 1)
    <3>1. \A t \in 1..(s - 1) : t # s
      BY <2>0
    <3>2. \A t \in 1..(s - 1) : FileIn(closed', <<>>, t) = FileIn(closed, <<>>, t)
      BY <1>3, <3>1 DEF FileIn
    <3> QED BY <2>0, <3>2, ReadSame
  <2> QED BY <1>4, <1>5, <2>2, <2>3, <2>4, <2>5
<1>7. CASE closed[s] = live
  <2>1. closed' = closed
    BY <1>1, <1>2, <1>7 DEF Dirs
  <2>2. IdsInOrder(live) \in Seq(Nat) /\ IdsInOrder(job.todo) \in Seq(Nat) /\ Reading \in Seq(Nat)
    BY <1>2, IdsInOrderType, TodoRead, ReadingIs
  <2>3. NoTwice(Reading)
    BY <2>2, NoTwicePart DEF OnceEach, Whole
  <2>4. IdsInOrder(live) = <<>>
    <3> SUFFICES ASSUME IdsInOrder(live) # <<>> PROVE FALSE
      OBVIOUS
    <3> DEFINE ids == IdsInOrder(live)
               before == ReadClosed(closed)
    <3>1. ids \in Seq(Nat) /\ before \in Seq(Nat) /\ Reading = before \o ids /\ ids # <<>>
      BY <1>4, <2>2
    <3>2. ids[1] \in InSeq(before)
      <4>1. InSeq(ids) = EventIds(live)
        BY <1>2, IdsInOrderAre
      <4>2. 1 \in DOMAIN ids
        BY <3>1
      <4>3. ids[1] \in EventIds(live)
        BY <4>1, <4>2 DEF InSeq
      <4> QED BY <1>1, <1>4, <1>7, <4>3
    <3> HIDE DEF ids, before
    <3>3. PICK i \in DOMAIN before : before[i] = ids[1]
      BY <3>2 DEF InSeq
    <3>4. /\ Len(before \o ids) = Len(before) + Len(ids) /\ before \o ids \in Seq(Nat)
          /\ \A j \in 1..(Len(before) + Len(ids)) :
                (before \o ids)[j] = IF j <= Len(before) THEN before[j] ELSE ids[j - Len(before)]
      BY <3>1, ConcatProperties
    <3>5. Len(before) \in Nat /\ Len(ids) \in Nat /\ Len(ids) >= 1 /\ i \in 1..Len(before)
      BY <3>1, <3>3
    <3>6. /\ i \in DOMAIN (before \o ids) /\ Len(before) + 1 \in DOMAIN (before \o ids)
          /\ i # Len(before) + 1
      BY <3>4, <3>5
    <3>7. (before \o ids)[i] = before[i] /\ (before \o ids)[Len(before) + 1] = ids[1]
      <4>1. Len(before) + 1 \in 1..(Len(before) + Len(ids)) /\ ~(Len(before) + 1 <= Len(before))
            /\ (Len(before) + 1) - Len(before) = 1 /\ i \in 1..(Len(before) + Len(ids))
            /\ i <= Len(before)
        BY <3>5
      <4> QED BY <3>4, <4>1
    <3> QED BY <2>3, <3>1, <3>3, <3>6, <3>7 DEF NoTwice
  <2> QED BY <1>4, <1>5, <2>1, <2>4, ConcatEmptySeq
<1> QED BY <1>1, <1>6, <1>7

\* A step that touches neither the files nor what is to be written, or drops the latter.
LEMMA StandsStill ==
    ASSUME TypeOK, TypeOK', Reading' = Reading, job' \in {job, NoJob}, minted <= minted'
    PROVE  Forward
<1>1. Reading \in Seq(Nat) /\ IdsInOrder(job.todo) \in Seq(Nat) /\ <<>> \in Seq(Nat)
  BY ReadingIs, TodoRead
<1>2. Reading' = Reading \o <<>> /\ IdsInOrder(job.todo) = <<>> \o IdsInOrder(job.todo)
  BY <1>1, ConcatEmptySeq
<1>3. IdsInOrder(job'.todo) \in {IdsInOrder(job.todo), <<>>}
  BY NoIds DEF NoJob
<1> QED BY <1>1, <1>2, <1>3 DEF Forward

\* Part of what was to be said is on disk, the rest given up.
LEMMA CutReads ==
    ASSUME TypeOK, TypeOK', torn = None, NEW p \in Writers, Writing(p), CutShort(p), job' = NoJob
    PROVE  Forward
<1>1. PICK k \in 0..Len(Said(p)) : Mended' = live \o SubSeq(Said(p), 1, k)
  BY CutMends
<1>2. PICK rest \in Lines : /\ Said(p) \in Lines
                            /\ IdsInOrder(job.todo) = IdsInOrder(Said(p)) \o IdsInOrder(rest)
  BY SaidIsRead
<1> DEFINE said == Said(p)
           part == SubSeq(said, 1, k)
           left == SubSeq(said, k + 1, Len(said))
<1>3. part \in Lines /\ left \in Lines /\ said = part \o left
  <2> HIDE DEF said
  <2>1. said \in Seq(Line) /\ k \in 0..Len(said) /\ Len(said) \in Nat
    BY <1>1, <1>2 DEF said, Lines
  <2>2. k \in Int /\ k + 1 \in Int /\ Len(said) \in Int
    BY <2>1
  <2>3. (\A i \in 1..k : said[i] \in Line) /\ (\A i \in (k + 1)..Len(said) : said[i] \in Line)
    BY <2>1
  <2>4. part \in Seq(Line) /\ left \in Seq(Line)
    BY <2>2, <2>3, SubSeqProperties
  <2>5. part \o left = SubSeq(said, 1, Len(said))
    <3>1. 1 \in 1..(Len(said) + 1) /\ k \in (1 - 1)..Len(said) /\ Len(said) \in k..Len(said)
      BY <2>1
    <3> QED BY <2>1, <3>1, ConcatAdjacentSubSeq
  <2> QED BY <2>1, <2>4, <2>5, SubSeqFull DEF Lines
<1>4. closed' = closed /\ minted <= minted'
  BY DEF CutShort, TypeOK
<1> HIDE DEF left
<1>5. Reading' = Reading \o IdsInOrder(part)
  BY <1>1, <1>3, <1>4, AddsToRead
<1> HIDE DEF part
<1>6. /\ IdsInOrder(part) \in Seq(Nat) /\ IdsInOrder(left) \in Seq(Nat) /\ IdsInOrder(rest) \in Seq(Nat)
      /\ IdsInOrder(said) = IdsInOrder(part) \o IdsInOrder(left)
  BY <1>3, IdsInOrderType, IdsInOrderOfConcat
<1>7. IdsInOrder(job.todo) = IdsInOrder(part) \o (IdsInOrder(left) \o IdsInOrder(rest))
  BY <1>2, <1>6, ConcatOfIds
<1>8. IdsInOrder(left) \o IdsInOrder(rest) \in Seq(Nat)
  BY <1>6, ConcatProperties
<1>9. IdsInOrder(job'.todo) = <<>>
  BY NoIds DEF NoJob
<1> QED BY <1>4, <1>5, <1>6, <1>7, <1>8, <1>9 DEF Forward

LEMMA MintForward ==
    ASSUME TypeOK, TypeOK', NEW p \in Writers, NEW head, NEW n \in 1..MaxBatch, Mint(p, head, n)
    PROVE  Forward
<1>1. n \in Nat /\ minted \in Nat
  BY BoundsAssumption DEF TypeOK
<1>2. Reading' = Reading
  <2>1. Mended' = Mended /\ closed' = closed
    BY DEF Mint, disk, Mended
  <2> QED BY <2>1, StillRead
<1>3. /\ job'.todo \in Seq(Event) /\ Len(job'.todo) = n
      /\ \A i \in 1..n : job'.todo[i].id = minted + i
  <2>1. job'.todo = [i \in 1..n |-> [k |-> "event", id |-> minted + i, at |-> Stamped(head, n)[i]]]
    BY DEF Mint
  <2>2. job'.todo \in Seq(Event)
    BY DEF TypeOK
  <2>3. DOMAIN job'.todo = 1..n /\ \A i \in 1..n : job'.todo[i].id = minted + i
    BY <2>1
  <2> QED BY <1>1, <2>2, <2>3
<1>4. IdsInOrder(job'.todo) = [i \in 1..n |-> minted + i]
  <2>1. IdsInOrder(job'.todo) = [i \in 1..Len(job'.todo) |-> job'.todo[i].id]
    BY <1>3, EventsAreRead
  <2> QED BY <1>3, <2>1
<1>5. minted' = minted + n
  BY DEF Mint
<1> QED BY <1>1, <1>2, <1>4, <1>5 DEF Forward

LEMMA WriteForward ==
    ASSUME TypeOK, TypeOK', torn = None, NEW p \in Writers, WriteLot(p) \/ WriteClosingSeal(p)
    PROVE  Forward
<1>1. Writing(p) /\ live' = live \o Said(p) /\ torn' = None /\ closed' = closed /\ minted <= minted'
  BY DEF WriteLot, WriteClosingSeal, Appended, TypeOK
<1>2. PICK rest \in Lines :
          /\ Said(p) \in Lines /\ IdsInOrder(job.todo) = IdsInOrder(Said(p)) \o IdsInOrder(rest)
          /\ WriteLot(p) => job'.todo = rest
          /\ IsFull(p) /\ CanSeal(p) => rest = job.todo
  BY <1>1, SaidIsRead
<1>3. job'.todo = rest
  BY <1>2 DEF WriteClosingSeal
<1>4. Mended' = live \o Said(p)
  BY <1>1, SentinelAssumption DEF Mended
<1>5. Reading' = Reading \o IdsInOrder(Said(p))
  BY <1>1, <1>2, <1>4, AddsToRead
<1>6. IdsInOrder(Said(p)) \in Seq(Nat) /\ IdsInOrder(rest) \in Seq(Nat)
  BY <1>2, IdsInOrderType
<1> QED BY <1>1, <1>2, <1>3, <1>5, <1>6 DEF Forward

LEMMA ReadForward ==
    TypeOK /\ Contiguous /\ TornIsMended /\ OnceEach /\ TypeOK' /\ [Next]_vars => Forward
<1> SUFFICES ASSUME TypeOK, Contiguous, TornIsMended, OnceEach, TypeOK', [Next]_vars
             PROVE  Forward
  OBVIOUS
<1>0. minted \in Nat /\ minted <= minted /\ \A p \in Writers : lock = p => torn = None
  BY WritersAssumption DEF TypeOK, TornIsMended
<1>1. ASSUME UNCHANGED disk, job' \in {job, NoJob}, minted' = minted PROVE Forward
  <2>1. Mended' = Mended /\ closed' = closed
    BY <1>1 DEF disk, Mended
  <2> QED BY <1>0, <1>1, <2>1, StillRead, StandsStill
<1>2. CASE Tick \/ SetBack \/ UNCHANGED vars
  BY <1>1, <1>2 DEF Tick, SetBack, vars
<1>3. ASSUME NEW p \in Writers, Open(p) \/ OpenTail(p) \/ Acquire(p) PROVE Forward
  <2>1. closed' = closed /\ job' = job /\ minted' = minted
    BY <1>3 DEF Open, OpenTail, Acquire, MendOnOpening
  <2>2. \/ live' = live /\ torn' = torn
        \/ live' = Mended /\ torn' = None
    BY <1>3 DEF Open, OpenTail, Acquire, MendOnOpening, MendedOnOpening
  <2>3. Mended' = Mended
    BY <2>2, SentinelAssumption DEF Mended
  <2> QED BY <1>0, <2>1, <2>3, StillRead, StandsStill
<1>4. ASSUME NEW p \in Writers,
             \/ OpenMark(p) \/ Drop(p) \/ FailToCatchUp(p) \/ AcquireAgain(p) \/ StartOver(p)
             \/ Settled(p) \/ RefuseToClose(p) \/ FailToClose(p) \/ Done(p)
      PROVE  Forward
  BY <1>1, <1>4 DEF OpenMark, Drop, FailToCatchUp, AcquireAgain, StartOver, Settled, RefuseToClose,
                    FailToClose, Done, Release
<1>5. ASSUME NEW p \in Writers, Begin(p) \/ BeginAfter(p) PROVE Forward
  BY <1>5, MintForward DEF Begin, BeginAfter
<1>6. ASSUME NEW p \in Writers, WriteLot(p) \/ WriteClosingSeal(p) PROVE Forward
  BY <1>0, <1>6, WriteForward DEF WriteLot, WriteClosingSeal, Writing
<1>7. ASSUME NEW p \in Writers, CloseSegment(p) PROVE Forward
  <2>1. torn = None /\ job' = job /\ minted' = minted
    BY <1>0, <1>7 DEF CloseSegment, Closing
  <2> QED BY <1>0, <1>7, <2>1, CloseReads, StandsStill
<1>8. ASSUME NEW p \in Writers, FailWrite(p) PROVE Forward
  <2>1. Writing(p) /\ torn = None /\ job' = NoJob
    BY <1>0, <1>8 DEF FailWrite, Writing, Release
  <2>2. CASE CutShort(p)
    BY <2>1, <2>2, CutReads
  <2>3. CASE live' = live /\ torn' = torn /\ closed' = closed /\ minted' = minted
    <3>1. Mended' = Mended
      BY <2>3 DEF Mended
    <3> QED BY <1>0, <2>1, <2>3, <3>1, StillRead, StandsStill
  <2> QED BY <1>8, <2>2, <2>3 DEF FailWrite, disk
<1>9. ASSUME NEW p \in Writers, Crash(p) PROVE Forward
  <2>1. CASE UNCHANGED <<disk, minted>>
    BY <1>1, <1>9, <2>1 DEF Crash
  <2>2. CASE Writing(p) /\ CutShort(p)
    <3>1. torn = None /\ job' = NoJob
      BY <1>0, <1>9, <2>2 DEF Crash, Writing
    <3> QED BY <2>2, <3>1, CutReads
  <2> QED BY <1>9, <2>1, <2>2 DEF Crash
<1> QED BY <1>2, <1>3, <1>4, <1>5, <1>6, <1>7, <1>8, <1>9 DEF Next

LEMMA TornStep == TypeOK /\ TornIsMended /\ [Next]_vars => TornIsMended'
<1> SUFFICES ASSUME TypeOK, TornIsMended, [Next]_vars, lock' # None PROVE torn' = None
  BY DEF TornIsMended
<1>0. lock # None => torn = None
  BY DEF TornIsMended
<1>1. CASE Tick \/ SetBack \/ UNCHANGED vars
  BY <1>0, <1>1 DEF Tick, SetBack, vars, disk
<1>2. ASSUME NEW p \in Writers,
             \/ Open(p) \/ OpenTail(p) \/ OpenMark(p) \/ Drop(p)
             \/ Acquire(p) \/ FailToCatchUp(p) \/ AcquireAgain(p)
      PROVE  torn' = None
  BY <1>0, <1>2 DEF Open, OpenTail, OpenMark, Drop, Acquire, FailToCatchUp, AcquireAgain,
                    MendOnOpening, disk
<1>3. ASSUME NEW p \in Writers,
             \/ Begin(p) \/ BeginAfter(p) \/ StartOver(p)
             \/ WriteLot(p) \/ WriteClosingSeal(p) \/ CloseSegment(p)
      PROVE  torn' = None
  BY <1>0, <1>3 DEF Begin, BeginAfter, Mint, StartOver, WriteLot, WriteClosingSeal, Appended,
                    CloseSegment, disk
<1>4. ASSUME NEW p \in Writers,
             \/ Settled(p) \/ RefuseToClose(p) \/ FailToClose(p) \/ Done(p) \/ FailWrite(p)
      PROVE  torn' = None
  BY <1>4 DEF Settled, RefuseToClose, FailToClose, Done, FailWrite, Release
<1>5. ASSUME NEW p \in Writers, Crash(p) PROVE torn' = None
  <2>1. lock # p /\ lock' = lock
    BY <1>5 DEF Crash
  <2> QED BY <1>0, <1>5, <2>1 DEF Crash, Writing, disk
<1> QED BY <1>1, <1>2, <1>3, <1>4, <1>5 DEF Next

-----------------------------------------------------------------------------
(* The log is an append-only log                                           *)

RInv == IInv /\ TornIsMended /\ OnceEach

LEMMA NothingToRead == Init => Reading = <<>> /\ IdsInOrder(job.todo) = <<>>
<1> SUFFICES ASSUME Init PROVE Reading = <<>> /\ IdsInOrder(job.todo) = <<>>
  OBVIOUS
<1>1. /\ TypeOK /\ closed \in Dirs /\ MaxSegments \in Nat /\ SegNos = 1..MaxSegments
      /\ \A s \in SegNos : closed[s] = <<>>
      /\ Mended = <<>> /\ job.todo = <<>>
  BY TypeInit, Typed, BoundsAssumption, SentinelAssumption DEF Init, Mended, NoJob, SegNos
<1>2. \A t \in Nat : 0 < t /\ t <= MaxSegments => FileIn(closed, <<>>, t) = <<>>
  BY <1>1 DEF FileIn
<1>3. ReadClosed(closed) = ReadUpTo(closed, <<>>, 0)
  <2>1. 0 <= MaxSegments
    BY <1>1
  <2> QED BY <1>1, <1>2, <2>1, NoEvents, ReadNothingMore DEF ReadClosed
<1>4. ReadUpTo(closed, <<>>, 0) = <<>>
  BY <1>1, NoEvents, ReadOneMore
<1>5. Reading = <<>> \o <<>>
  BY <1>1, <1>3, <1>4, ReadingIs, NoIds
<1>6. <<>> \o <<>> = <<>>
  BY EmptySeq, ConcatEmptySeq
<1> QED BY <1>1, <1>5, <1>6, NoIds

LEMMA InitRInv == Init => RInv
<1> SUFFICES ASSUME Init PROVE RInv
  OBVIOUS
<1>1. Whole = <<>>
  <2>1. <<>> \o <<>> = <<>>
    BY EmptySeq, ConcatEmptySeq
  <2> QED BY <2>1, NothingToRead DEF Whole
<1>2. OnceEach
  BY <1>1 DEF OnceEach, NoTwice
<1> QED BY <1>2, InitIInv DEF RInv, TornIsMended, Init

LEMMA StepRInv == RInv /\ [Next]_vars => RInv' /\ Forward
<1> SUFFICES ASSUME RInv, [Next]_vars PROVE RInv' /\ Forward
  OBVIOUS
<1>1. IInv' /\ TypeOK /\ TypeOK' /\ Contiguous
  BY StepIInv DEF RInv, IInv
<1>2. Forward /\ TornIsMended'
  BY <1>1, ReadForward, TornStep DEF RInv
<1>3. OnceEach'
  BY <1>1, <1>2, OnceEachStep DEF RInv
<1> QED BY <1>1, <1>2, <1>3 DEF RInv

\* Whoever is told Ok is told of events that are read.
LEMMA DoneTells ==
    ASSUME RInv, RInv', NEW p \in Writers, Done(p)
    PROVE  AppendOnly!Tell
<1>1. TypeOK /\ TypeOK' /\ Durable'
  BY DEF RInv, IInv
<1>2. Mended' = Mended /\ closed' = closed /\ OnDisk' = OnDisk
  BY DEF Done, disk, Mended, OnDisk
<1>3. Reading' = Reading
  BY <1>1, <1>2, StillRead
<1>4. acked \subseteq acked' /\ acked' \subseteq InSeq(Reading)
  BY <1>1, <1>2, OnDiskIsRead DEF Done, Durable
<1> QED BY <1>3, <1>4 DEF AppendOnly!Tell, AppendOnly!InLog, InSeq

LEMMA StepReads ==
    RInv /\ RInv' /\ [Next]_vars /\ Forward => [AppendOnly!Next]_<<Reading, acked>>
<1> SUFFICES ASSUME RInv, RInv', [Next]_vars, Forward
             PROVE  AppendOnly!Next \/ (Reading' = Reading /\ acked' = acked)
  OBVIOUS
<1>1. ASSUME NEW p \in Writers, Done(p) PROVE AppendOnly!Next
  BY <1>1, DoneTells DEF AppendOnly!Next
<1>2. CASE acked' = acked
  <2>1. TypeOK /\ TypeOK' /\ OnceEach'
    BY DEF RInv, IInv
  <2>2. Reading \in Seq(Nat) /\ Reading' \in Seq(Nat) /\ IdsInOrder(job'.todo) \in Seq(Nat)
    BY <2>1, ReadingIs, ReadingNext
  <2>3. NoTwice(Reading')
    <3>1. Whole' = Reading' \o IdsInOrder(job'.todo) /\ NoTwice(Whole')
      BY <2>1 DEF OnceEach, NoTwice, Whole
    <3> QED BY <2>2, <3>1, NoTwicePart
  <2>4. CASE Reading' = Reading
    BY <1>2, <2>4
  <2>5. ASSUME NEW more \in Seq(Nat), Reading' = Reading \o more, Reading' # Reading
        PROVE  AppendOnly!Grow
    <3>1. more # <<>>
      BY <2>2, <2>5, ConcatEmptySeq
    <3>2. /\ Len(Reading \o more) = Len(Reading) + Len(more)
          /\ \A i \in 1..(Len(Reading) + Len(more)) :
                (Reading \o more)[i] = IF i <= Len(Reading) THEN Reading[i] ELSE more[i - Len(Reading)]
      BY <2>2, ConcatProperties
    <3>3. Len(Reading) \in Nat /\ Len(more) \in Nat /\ Len(more) > 0
      BY <2>2, <3>1
    <3>4. Len(Reading') > Len(Reading)
      BY <2>5, <3>2, <3>3
    <3>5. SubSeq(Reading', 1, Len(Reading)) = Reading
      <4> DEFINE n == Len(Reading)
                 first == SubSeq(Reading', 1, n)
      <4>1. n \in Nat /\ \A i \in 1..n : Reading'[i] = Reading[i] /\ Reading[i] \in Nat
        BY <2>2, <2>5, <3>2, <3>3
      <4> HIDE DEF n
      <4>2. \A i \in 1..n : Reading'[i] \in Nat
        BY <4>1
      <4>3. /\ first \in Seq(Nat) /\ Len(first) = IF 1 <= n THEN n - 1 + 1 ELSE 0
            /\ \A i \in 1..(n - 1 + 1) : first[i] = Reading'[1 + i - 1]
        BY <4>1, <4>2, SubSeqProperties
      <4>4. Len(first) = n /\ \A i \in 1..n : first[i] = Reading[i]
        <5>1. \A i \in 1..n : i \in 1..(n - 1 + 1) /\ 1 + i - 1 = i
          BY <4>1
        <5> HIDE DEF first
        <5>2. Len(first) = n
          BY <4>1, <4>3
        <5> QED BY <4>1, <4>3, <5>1, <5>2
      <4> HIDE DEF first
      <4>5. first = Reading
        BY <2>2, <4>3, <4>4, SeqEqual DEF n
      <4> QED BY <4>5 DEF first, n
    <3> QED BY <1>2, <2>3, <3>4, <3>5 DEF AppendOnly!Grow, NoTwice
  <2>6. \E more \in Seq(Nat) : Reading' = Reading \o more
    <3>1. Reading = Reading \o <<>> /\ <<>> \in Seq(Nat)
      BY <2>2, ConcatEmptySeq
    <3> QED BY <3>1 DEF Forward
  <2> QED BY <2>4, <2>5, <2>6 DEF AppendOnly!Next
<1>3. ASSUME NEW p \in Writers,
             \/ Open(p) \/ OpenTail(p) \/ OpenMark(p) \/ Drop(p)
             \/ Acquire(p) \/ FailToCatchUp(p) \/ AcquireAgain(p)
             \/ Begin(p) \/ BeginAfter(p) \/ Settled(p)
             \/ WriteLot(p) \/ WriteClosingSeal(p) \/ StartOver(p)
             \/ CloseSegment(p) \/ RefuseToClose(p) \/ FailToClose(p)
             \/ FailWrite(p) \/ Crash(p)
      PROVE  acked' = acked
  BY <1>3 DEF Open, OpenTail, OpenMark, Drop, Acquire, FailToCatchUp, AcquireAgain, Begin,
              BeginAfter, Mint, Settled, WriteLot, WriteClosingSeal, StartOver, CloseSegment,
              RefuseToClose, FailToClose, FailWrite, Crash
<1>4. CASE Tick \/ SetBack \/ UNCHANGED vars
  BY <1>2, <1>4 DEF Tick, SetBack, vars
<1> QED BY <1>1, <1>2, <1>3, <1>4 DEF Next

\* The device's log is an append-only log to whoever reads it, whatever the mishaps and however many
\* Stores write to it: closed_as moves a segment without a reader noticing, mending and a cut write
\* leave only what stood or was to come next, no event is read twice, and an append returns Ok only
\* for events that are read (read_all; write_all, rotate, closed_as).
THEOREM TheLogOnlyGrows == Spec => ReadsAppendOnly
<1>1. Init => AppendOnly!Init
  BY NothingToRead DEF AppendOnly!Init, Init
<1>2. RInv /\ [Next]_vars => [AppendOnly!Next]_<<Reading, acked>>
  BY StepRInv, StepReads
<1>3. Init => RInv
  BY InitRInv
<1>4. RInv /\ [Next]_vars => RInv'
  BY StepRInv
<1> QED BY <1>1, <1>2, <1>3, <1>4, PTL DEF Spec, ReadsAppendOnly, AppendOnly!Spec
=============================================================================
