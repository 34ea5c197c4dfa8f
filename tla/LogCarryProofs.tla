--------------------------- MODULE LogCarryProofs ---------------------------
(***************************************************************************)
(* What is proved of LogCarry for any number of machines, every size of a  *)
(* segment, every mishap and every bound: the types, that each machine     *)
(* holds the log from its first line on, that no copy loses a line, and,   *)
(* while nobody else touches the folder, that what stands there is a       *)
(* history between any two copied files.                                   *)
(***************************************************************************)
EXTENDS LogCarry, FiniteSetTheorems, TLAPS

-----------------------------------------------------------------------------
(* Segments and their events                                               *)

\* Multiplying by the size of a segment keeps the order, both ways.

LEMMA TimesGrows ==
    ASSUME NEW a \in Nat, NEW b \in Nat, a <= b
    PROVE  a * SegmentSize <= b * SegmentSize
BY SizesAssumption

LEMMA TimesReflects ==
    ASSUME NEW a \in Nat, NEW b \in Nat, a * SegmentSize < b * SegmentSize
    PROVE  a < b
BY TimesGrows, SizesAssumption

LEMMA SegOfEvent ==
    ASSUME NEW e \in Nat \ {0}
    PROVE  /\ SegOf(e) \in Nat \ {0}
           /\ FirstOf(SegOf(e)) \in Nat \ {0}
           /\ FirstOf(SegOf(e)) <= e
           /\ e <= SegOf(e) * SegmentSize
           /\ SegOf(e) <= e
<1> DEFINE q == (e - 1) \div SegmentSize
<1>1. /\ q \in Nat
      /\ q * SegmentSize <= e - 1
      /\ e - 1 < q * SegmentSize + SegmentSize
  BY SizesAssumption
<1>2. SegOf(e) = q + 1
  BY DEF SegOf
<1>3. (q + 1) * SegmentSize = q * SegmentSize + SegmentSize
  BY <1>1, SizesAssumption
<1>4. q <= q * SegmentSize
  BY <1>1, SizesAssumption
<1>5. q * SegmentSize \in Nat
  BY <1>1, SizesAssumption
<1> QED BY <1>1, <1>2, <1>3, <1>4, <1>5, SizesAssumption DEF FirstOf

LEMMA ClosedUpTo ==
    ASSUME NEW d \in Dirs, Contiguous(d)
    PROVE  /\ IsFiniteSet(d.closed)
           /\ Cardinality(d.closed) \in Nat
           /\ d.closed = 1..Cardinality(d.closed)
<1> DEFINE c == Cardinality(d.closed)
<1>1. IsFiniteSet(1..MaxEvents) /\ d.closed \in SUBSET (1..MaxEvents)
  BY FS_Interval, SizesAssumption DEF Dirs, SegNos
<1>2. IsFiniteSet(d.closed) /\ c \in Nat
  BY <1>1, FS_Subset, FS_CardinalityType
<1>3. ASSUME NEW s \in d.closed PROVE s \in 1..c
  <2>1. 1..s \in SUBSET d.closed /\ s \in Nat \ {0}
    BY <1>1, <1>3 DEF Contiguous
  <2>2. Cardinality(1..s) <= c
    BY <1>2, <2>1, FS_Subset
  <2>3. Cardinality(1..s) = s
    BY <2>1, FS_Interval
  <2> QED BY <1>2, <2>1, <2>2, <2>3
<1>4. IsFiniteSet(1..c) /\ Cardinality(1..c) = c
  BY <1>2, FS_Interval
<1>5. d.closed = 1..c
  BY <1>3, <1>4, FS_Subset
<1> QED BY <1>2, <1>5

LEMMA EventsOfAHistory ==
    ASSUME NEW d \in Dirs, ChainHolds(d)
    PROVE  \E x \in Nat : EventsOf(d) = 1..x
<1> DEFINE c == Cardinality(d.closed)
           full == UNION {FirstOf(s)..(s * SegmentSize) : s \in d.closed}
<1>1. c \in Nat /\ d.closed = 1..c
  BY ClosedUpTo DEF ChainHolds
<1>2. c * SegmentSize \in Nat
  BY <1>1, SizesAssumption
<1>3. full = 1..(c * SegmentSize)
  <2>1. ASSUME NEW s \in 1..c, NEW e \in FirstOf(s)..(s * SegmentSize)
        PROVE  e \in 1..(c * SegmentSize)
    <3>1. s * SegmentSize <= c * SegmentSize /\ 0 * SegmentSize <= (s - 1) * SegmentSize
      BY <1>1, TimesGrows
    <3>2. FirstOf(s) \in Nat \ {0} /\ s * SegmentSize \in Nat
      BY <1>1, <3>1, SizesAssumption DEF FirstOf
    <3> QED BY <1>2, <3>1, <3>2
  <2>2. ASSUME NEW e \in 1..(c * SegmentSize)
        PROVE  SegOf(e) \in 1..c /\ e \in FirstOf(SegOf(e))..(SegOf(e) * SegmentSize)
    <3>1. e \in Nat \ {0} /\ e <= c * SegmentSize
      BY <1>2, <2>2
    <3>2. /\ SegOf(e) \in Nat \ {0}
          /\ FirstOf(SegOf(e)) <= e
          /\ e <= SegOf(e) * SegmentSize
      BY <3>1, SegOfEvent
    <3>3. (SegOf(e) - 1) * SegmentSize < c * SegmentSize
      BY <1>2, <3>1, <3>2, SizesAssumption DEF FirstOf
    <3>4. SegOf(e) - 1 < c
      BY <1>1, <3>1, <3>2, <3>3, TimesReflects
    <3>5. FirstOf(SegOf(e)) \in Nat /\ SegOf(e) * SegmentSize \in Nat
      BY <3>1, SegOfEvent, SizesAssumption
    <3> QED BY <1>1, <3>1, <3>2, <3>4, <3>5
  <2> QED BY <1>1, <2>1, <2>2
<1>4. CASE d.active = 0
  BY <1>2, <1>3, <1>4 DEF EventsOf
<1>5. CASE d.active # 0
  <2>1. d.active \in Nat \ {0}
    BY <1>5, SizesAssumption DEF Dirs
  <2>2. SegOf(d.active) - 1 \in Nat /\ SegOf(d.active) - 1 <= c
    <3>1. SegOf(d.active) \in Nat \ {0}
      BY <2>1, SegOfEvent
    <3>2. SegOf(d.active) <= Cardinality(d.closed) + 1
      BY <1>5 DEF ChainHolds
    <3> QED BY <1>1, <3>1, <3>2
  <2>3. (SegOf(d.active) - 1) * SegmentSize <= c * SegmentSize
    BY <1>1, <2>2, TimesGrows
  <2>4. FirstOf(SegOf(d.active)) \in Nat \ {0} /\ FirstOf(SegOf(d.active)) <= c * SegmentSize + 1
    BY <1>2, <2>1, <2>2, <2>3, SegOfEvent, SizesAssumption DEF FirstOf
  <2>5. EventsOf(d) = 1..(c * SegmentSize) \cup (FirstOf(SegOf(d.active))..d.active)
    <3>1. EventsOf(d) = full \cup (FirstOf(SegOf(d.active))..d.active)
      BY <1>5 DEF EventsOf
    <3> HIDE DEF full
    <3> QED BY <1>3, <3>1
  <2>6. CASE d.active <= c * SegmentSize
    <3>1. EventsOf(d) = 1..(c * SegmentSize)
      BY <1>2, <2>1, <2>4, <2>5, <2>6
    <3> QED BY <1>2, <3>1
  <2>7. CASE ~(d.active <= c * SegmentSize)
    <3>1. EventsOf(d) = 1..d.active
      BY <1>2, <2>1, <2>4, <2>5, <2>7
    <3> QED BY <2>1, <3>1
  <2> QED BY <2>6, <2>7
<1> QED BY <1>4, <1>5

LEMMA AHistoryCountsItself ==
    ASSUME NEW d \in Dirs, ChainHolds(d)
    PROVE  Count(d) \in Nat /\ IsFiniteSet(EventsOf(d)) /\ EventsOf(d) = 1..Count(d)
<1>1. PICK x \in Nat : EventsOf(d) = 1..x
  BY EventsOfAHistory
<1>2. IsFiniteSet(1..x) /\ Cardinality(1..x) = x
  BY FS_Interval
<1> QED BY <1>1, <1>2 DEF Count

-----------------------------------------------------------------------------
(* Types                                                                   *)

LEMMA NamesType ==
    /\ Active \in Names /\ Active \notin SegNos
    /\ SegNos \subseteq Names
    /\ \A name \in Names : name # Active => name \in SegNos
    /\ \A name \in SegNos : name < Active
BY SizesAssumption DEF Active, Names, SegNos

LEMMA FilesType ==
    ASSUME NEW d \in Dirs
    PROVE  /\ FilesOf(d) \subseteq Names
           /\ FilesOf(d) \cap SegNos = d.closed
           /\ Active \in FilesOf(d) <=> d.active # 0
BY NamesType DEF FilesOf, Dirs

LEMMA AlikeType ==
    ASSUME NEW a \in Dirs, NEW b \in Dirs
    PROVE  Alike(a, b) \in SUBSET Names /\ Alike(a, b) \cap SegNos = a.closed \cap b.closed
BY NamesType DEF Alike, Dirs

LEMMA CopyType ==
    ASSUME NEW from \in Dirs, NEW into \in Dirs, NEW name \in Names
    PROVE  CopyFile(from, into, name) \in Dirs
<1>1. CASE name = Active
  BY <1>1 DEF CopyFile, Dirs
<1>2. CASE name # Active
  BY <1>2, NamesType DEF CopyFile, Dirs
<1> QED BY <1>1, <1>2

LEMMA NothingType == Nothing \in Dirs /\ Idle \in Rounds
BY SizesAssumption DEF Nothing, Dirs, Idle, Rounds, Steps, Unasked

LEMMA MishapType ==
    ASSUME mishaps \in 0..MaxMishaps, NEW kind, Mishap(kind)
    PROVE  mishaps' \in 0..MaxMishaps
BY SizesAssumption DEF Mishap

LEMMA ToType ==
    ASSUME TypeOK, NEW m \in Machines, NEW step \in Steps, NEW files \in SUBSET Names
    PROVE  To(m, step, files) \in Rounds
BY DEF TypeOK, To, Rounds

\* The steps of a round, each from the types before it.
LEMMA OwnersStepsKeepTypes ==
    ASSUME TypeOK, Write \/ Rotate \/ Emptied \/ SetBack
    PROVE  TypeOK'
<1>1. CASE Write
  <2>1. written + 1 \in 1..MaxEvents
    BY <1>1, SizesAssumption DEF Write, MayWrite, TypeOK
  <2>2. [home[Owner] EXCEPT !.active = written + 1] \in Dirs
    BY <2>1 DEF Machines, TypeOK, Dirs
  <2>3. home' \in [Machines -> Dirs]
    BY <1>1, <2>2 DEF Write, TypeOK
  <2> QED BY <1>1, <2>1, <2>3 DEF Write, TypeOK
<1>2. CASE Rotate
  <2>1. Owner \in Machines /\ home[Owner] \in Dirs
    BY DEF Machines, TypeOK
  <2>2. home[Owner].active \in 1..MaxEvents
    BY <1>2, <2>1, SizesAssumption DEF Rotate, Full, Dirs
  <2>3. SegOf(home[Owner].active) \in SegNos
    BY <2>2, SegOfEvent, SizesAssumption DEF SegNos
  <2>4. [closed |-> home[Owner].closed \cup {SegOf(home[Owner].active)}, active |-> 0] \in Dirs
    BY <2>1, <2>3, SizesAssumption DEF Dirs
  <2>5. home' \in [Machines -> Dirs]
    BY <1>2, <2>4 DEF Rotate, TypeOK
  <2>6. mishaps' \in 0..MaxMishaps
    BY <1>2, MishapType DEF Rotate, TypeOK
  <2> QED BY <1>2, <2>5, <2>6 DEF Rotate, TypeOK
<1>3. CASE Emptied
  BY <1>3, NothingType, MishapType DEF Emptied, TypeOK
<1>4. CASE SetBack
  <2>1. PICK n \in 0..(written - 1) : home' = [home EXCEPT ![Owner] = AsOf(n)]
    BY <1>4 DEF SetBack
  <2>2. AsOf(n) \in Dirs
    <3>1. CASE n = 0
      BY <3>1, NothingType DEF AsOf
    <3>2. CASE n # 0
      <4>1. n \in 1..MaxEvents
        BY <3>2, SizesAssumption DEF TypeOK
      <4>2. SegOf(n) \in Nat \ {0} /\ SegOf(n) <= n
        BY <4>1, SegOfEvent
      <4>3. 1..(SegOf(n) - 1) \subseteq SegNos
        BY <4>1, <4>2, SizesAssumption DEF SegNos
      <4> QED BY <3>2, <4>1, <4>3 DEF AsOf, Dirs
    <3> QED BY <3>1, <3>2
  <2> QED BY <1>4, <2>1, <2>2, MishapType DEF SetBack, TypeOK
<1> QED BY <1>1, <1>2, <1>3, <1>4

LEMMA RoundStepsKeepTypes ==
    ASSUME TypeOK, NEW m \in Machines, RoundStep(m) \/ Crash(m)
    PROVE  TypeOK'
<1>0. /\ home[m] \in Dirs /\ folder \in Dirs /\ round[m] \in Rounds /\ round[m].staged \in Dirs
      /\ round[m].todo \in SUBSET Names /\ round[m].listed \in SUBSET Names
  BY DEF TypeOK, Rounds
<1>1. CASE Begin(m)
  <2> DEFINE known == IF FilesOf(folder) = {} THEN Unasked ELSE Alike(folder, home[m])
  <2>1. known \in (SUBSET Names) \cup {Unasked}
    BY <1>0, AlikeType
  <2>2. To(m, "staging", FilesOf(folder)) \in Rounds /\ To(m, "giving", {}) \in Rounds
    BY <1>0, FilesType, ToType DEF Steps
  <2> HIDE DEF known
  <2>3. /\ [To(m, "staging", FilesOf(folder)) EXCEPT !.known = known] \in Rounds
        /\ [To(m, "giving", {}) EXCEPT !.known = known] \in Rounds
    BY <2>1, <2>2 DEF Rounds
  <2>4. round' \in [Machines -> Rounds]
    BY <1>1, <2>3 DEF Begin, TypeOK, known
  <2> QED BY <1>1, <2>4 DEF Begin, TypeOK
<1>2. CASE Stage(m)
  <2>1. PICK name \in round[m].todo :
          LET from == IF name \in round[m].known \cap FilesOf(home[m]) THEN home[m] ELSE folder
          IN  round' = [round EXCEPT ![m] =
                IF name \in FilesOf(from)
                THEN Staging(m, from, name)
                ELSE [To(m, "giving", {}) EXCEPT !.staged = Nothing]]
    BY <1>2 DEF Stage
  <2> DEFINE from == IF name \in round[m].known \cap FilesOf(home[m]) THEN home[m] ELSE folder
  <2>2. CopyFile(from, round[m].staged, name) \in Dirs
    BY <1>0, CopyType
  <2>3. Staging(m, from, name) \in Rounds
    BY <1>0, <2>2 DEF Staging, Rounds
  <2>4. [To(m, "giving", {}) EXCEPT !.staged = Nothing] \in Rounds
    BY ToType, NothingType DEF Steps, Rounds
  <2>5. round' \in [Machines -> Rounds]
    BY <2>1, <2>3, <2>4 DEF TypeOK
  <2> QED BY <1>2, <2>5 DEF Stage, TypeOK
<1>3. CASE Check(m)
  <2>1. To(m, "installing", FilesOf(round[m].staged)) \in Rounds
    BY <1>0, ToType, FilesType DEF Steps
  <2>2. [To(m, "giving", {}) EXCEPT !.staged = Nothing] \in Rounds
    BY ToType, NothingType DEF Steps, Rounds
  <2> QED BY <1>3, <2>1, <2>2 DEF Check, TypeOK
<1>4. CASE Install(m)
  <2>1. PICK name \in Names :
          /\ home' = [home EXCEPT ![m] = Copied(m, round[m].staged, @, name)]
          /\ LET after == Copying(m, round[m].staged, home[m], name)
             IN  round' = [round EXCEPT ![m] =
                   IF after.todo # {} THEN after
                   ELSE [Forgetting(after) EXCEPT !.step = "giving", !.staged = Nothing]]
    BY <1>4 DEF Install
  <2> DEFINE after == Copying(m, round[m].staged, home[m], name)
  <2>2. Copied(m, round[m].staged, home[m], name) \in Dirs
    BY <1>0, CopyType DEF Copied
  <2>3. after \in Rounds
    BY <1>0 DEF Copying, Rounds
  <2>4. [Forgetting(after) EXCEPT !.step = "giving", !.staged = Nothing] \in Rounds
    <3> HIDE DEF after
    <3> QED BY <2>3, NothingType DEF Forgetting, Rounds, Steps
  <2>5. round' \in [Machines -> Rounds]
    BY <2>1, <2>3, <2>4 DEF TypeOK
  <2> QED BY <1>4, <2>1, <2>2, <2>5 DEF Install, TypeOK
<1>5. CASE Give(m)
  <2> DEFINE known == IF round[m].known = Unasked THEN Alike(folder, home[m]) ELSE round[m].known
  <2>1. known \in (SUBSET Names) \cup {Unasked}
    BY <1>0, AlikeType DEF Rounds
  <2>2. To(m, "pushing", FilesOf(home[m])) \in Rounds
    BY <1>0, ToType, FilesType DEF Steps
  <2> HIDE DEF known
  <2>3. [To(m, "pushing", FilesOf(home[m])) EXCEPT !.known = known] \in Rounds
    BY <2>1, <2>2 DEF Rounds
  <2>4. round' \in [Machines -> Rounds]
    BY <1>5, <2>3, NothingType DEF Give, TypeOK, known
  <2> QED BY <1>5, <2>4 DEF Give, TypeOK
<1>6. CASE Push(m)
  <2>1. PICK name \in Names :
          IF name \in FilesOf(home[m])
          THEN /\ folder' = Copied(m, home[m], folder, name)
               /\ LET after == Copying(m, home[m], folder, name)
                  IN  round' = [round EXCEPT ![m] = IF after.todo # {} THEN after ELSE Idle]
          ELSE /\ folder' = folder
               /\ round' = [round EXCEPT ![m] = Idle]
    BY <1>6 DEF Push
  <2>2. Copied(m, home[m], folder, name) \in Dirs
    BY <1>0, CopyType DEF Copied
  <2>3. Copying(m, home[m], folder, name) \in Rounds
    BY <1>0 DEF Copying, Rounds
  <2>4. folder' \in Dirs /\ round' \in [Machines -> Rounds]
    BY <1>0, <2>1, <2>2, <2>3, NothingType DEF TypeOK
  <2> QED BY <1>6, <2>4 DEF Push, TypeOK
<1>7. CASE Crash(m)
  BY <1>7, NothingType, MishapType DEF Crash, TypeOK
<1> QED BY <1>1, <1>2, <1>3, <1>4, <1>5, <1>6, <1>7 DEF RoundStep

\* Every variable keeps to its type, whatever the machines and the bounds: a directory of the log
\* never holds a file that is neither a segment its owner can have closed nor the active one, and
\* a round is always in one of the steps of bring and of handing on.
THEOREM TypeCorrect == Spec => []TypeOK
<1>1. Init => TypeOK
  BY NothingType, SizesAssumption DEF Init, TypeOK
<1>2. TypeOK /\ [Next]_vars => TypeOK'
  <2> SUFFICES ASSUME TypeOK, [Next]_vars PROVE TypeOK'
    OBVIOUS
  <2>1. CASE Write \/ Rotate \/ Emptied \/ SetBack
    BY <2>1, OwnersStepsKeepTypes
  <2>2. ASSUME NEW m \in Machines, RoundStep(m) \/ Crash(m) PROVE TypeOK'
    BY <2>2, RoundStepsKeepTypes
  <2>3. CASE UNCHANGED vars
    BY <2>3 DEF TypeOK, vars
  <2> QED BY <2>1, <2>2, <2>3 DEF Next
<1> QED BY <1>1, <1>2, PTL DEF Spec

-----------------------------------------------------------------------------
(* A file more                                                             *)

LEMMA EventIn ==
    ASSUME NEW d, NEW e
    PROVE  e \in EventsOf(d) <=>
               \/ \E s \in d.closed : e \in FirstOf(s)..(s * SegmentSize)
               \/ d.active # 0 /\ e \in FirstOf(SegOf(d.active))..d.active
BY DEF EventsOf

\* A file copied where everything before it stands leaves a chain that holds.
LEMMA CopyKeepsTheChain ==
    ASSUME NEW from \in Dirs, NEW into \in Dirs, NEW name \in FilesOf(from),
           ChainHolds(from), ChainHolds(into),
           name # Active => \A i \in 1..(name - 1) : i \in into.closed,
           name = Active => from.closed \subseteq into.closed
    PROVE  ChainHolds(CopyFile(from, into, name))
<1>1. /\ IsFiniteSet(into.closed) /\ Cardinality(into.closed) \in Nat
      /\ Cardinality(from.closed) \in Nat
  BY ClosedUpTo DEF ChainHolds
<1>2. CASE name = Active
  <2>1. CopyFile(from, into, name) = [into EXCEPT !.active = from.active]
    BY <1>2 DEF CopyFile
  <2>2. from.active # 0 /\ SegOf(from.active) <= Cardinality(from.closed) + 1
    BY <1>2, FilesType DEF ChainHolds
  <2>3. Cardinality(from.closed) <= Cardinality(into.closed)
    BY <1>1, <1>2, FS_Subset
  <2>4. SegOf(from.active) \in Nat
    BY <2>2, SegOfEvent, SizesAssumption DEF Dirs
  <2>5. SegOf(from.active) <= Cardinality(into.closed) + 1
    BY <1>1, <2>2, <2>3, <2>4
  <2> QED BY <2>1, <2>5 DEF ChainHolds, Contiguous, Dirs
<1>3. CASE name # Active
  <2> DEFINE copy == [into EXCEPT !.closed = @ \cup {name}]
  <2>1. CopyFile(from, into, name) = copy /\ copy.closed = into.closed \cup {name}
        /\ copy.active = into.active
    BY <1>3 DEF CopyFile, Dirs
  <2>2. name \in Nat \ {0}
    BY <1>3, FilesType, NamesType, SizesAssumption DEF SegNos
  <2>3. 1..name \subseteq into.closed \cup {name}
    BY <1>3, <2>2
  <2>4. Contiguous(copy)
    BY <2>1, <2>3 DEF ChainHolds, Contiguous
  <2>5. Cardinality(into.closed) <= Cardinality(copy.closed) /\ Cardinality(copy.closed) \in Nat
    <3>1. /\ IsFiniteSet(into.closed \cup {name})
          /\ Cardinality(into.closed \cup {name}) =
                IF name \in into.closed THEN Cardinality(into.closed) ELSE Cardinality(into.closed) + 1
      BY <1>1, FS_AddElement
    <3> HIDE DEF copy
    <3> QED BY <1>1, <2>1, <3>1
  <2>6. copy.active # 0 => SegOf(copy.active) <= Cardinality(copy.closed) + 1
    <3> SUFFICES ASSUME copy.active # 0 PROVE SegOf(copy.active) <= Cardinality(copy.closed) + 1
      OBVIOUS
    <3>1. into.active \in Nat \ {0} /\ copy.active = into.active
      BY <2>1, SizesAssumption DEF Dirs
    <3>2. SegOf(into.active) \in Nat /\ SegOf(into.active) <= Cardinality(into.closed) + 1
      BY <3>1, SegOfEvent DEF ChainHolds
    <3> HIDE DEF copy
    <3> QED BY <1>1, <2>5, <3>1, <3>2
  <2> QED BY <2>1, <2>4, <2>6 DEF ChainHolds
<1> QED BY <1>2, <1>3

\* What a history holds that opens with ours comes over file by file, and nothing of ours goes.
LEMMA CopyKeepsTheEvents ==
    ASSUME NEW from \in Dirs, NEW into \in Dirs, NEW name \in FilesOf(from),
           EventsOf(into) \subseteq EventsOf(from),
           name = Active => from.closed \subseteq into.closed
    PROVE  /\ EventsOf(into) \subseteq EventsOf(CopyFile(from, into, name))
           /\ EventsOf(CopyFile(from, into, name)) \subseteq EventsOf(from)
<1> DEFINE copy == CopyFile(from, into, name)
<1>1. CASE name = Active
  <2>1. copy.closed = into.closed /\ copy.active = from.active /\ from.active # 0
    BY <1>1, FilesType DEF CopyFile, Dirs
  <2>2. ASSUME NEW e \in EventsOf(into) PROVE e \in EventsOf(copy)
    <3>1. e \in EventsOf(from)
      OBVIOUS
    <3> HIDE DEF copy
    <3> QED BY <1>1, <2>1, <3>1, EventIn
  <2>3. ASSUME NEW e \in EventsOf(copy) PROVE e \in EventsOf(from)
    <3> HIDE DEF copy
    <3>1. CASE \E s \in copy.closed : e \in FirstOf(s)..(s * SegmentSize)
      BY <2>1, <3>1, EventIn
    <3>2. CASE copy.active # 0 /\ e \in FirstOf(SegOf(copy.active))..copy.active
      BY <2>1, <3>2, EventIn
    <3> QED BY <2>3, <3>1, <3>2, EventIn
  <2> QED BY <2>2, <2>3
<1>2. CASE name # Active
  <2>1. copy.closed = into.closed \cup {name} /\ copy.active = into.active /\ name \in from.closed
    BY <1>2, FilesType, NamesType DEF CopyFile, Dirs
  <2> HIDE DEF copy
  <2>2. ASSUME NEW e \in EventsOf(into) PROVE e \in EventsOf(copy)
    BY <2>1, <2>2, EventIn
  <2>3. ASSUME NEW e \in EventsOf(copy) PROVE e \in EventsOf(from)
    <3>1. CASE e \in EventsOf(into)
      BY <3>1
    <3>2. CASE e \notin EventsOf(into)
      BY <2>1, <2>3, <3>2, EventIn
    <3> QED BY <3>1, <3>2
  <2> QED BY <2>2, <2>3 DEF copy
<1> QED BY <1>1, <1>2

\* The owner's next event goes into the segment after its closed ones, or into one of them.
LEMMA WritingKeepsTheChain ==
    ASSUME NEW d \in Dirs, ChainHolds(d), ~Full(d),
           NEW w \in Nat, EventsOf(d) = 1..w
    PROVE  SegOf(w + 1) <= Cardinality(d.closed) + 1
<1> DEFINE c == Cardinality(d.closed)
<1>1. c \in Nat /\ d.closed = 1..c
  BY ClosedUpTo DEF ChainHolds
<1>2. c * SegmentSize \in Nat /\ (c + 1) * SegmentSize = c * SegmentSize + SegmentSize
  BY <1>1, SizesAssumption
<1>3. w < (c + 1) * SegmentSize
  <2>1. CASE w = 0
    BY <1>2, <2>1, SizesAssumption
  <2>2. CASE w # 0
    <3>1. w \in EventsOf(d)
      BY <2>2
    <3>2. CASE \E s \in d.closed : w \in FirstOf(s)..(s * SegmentSize)
      <4>1. PICK s \in 1..c : w \in FirstOf(s)..(s * SegmentSize)
        BY <1>1, <3>2
      <4>2. s * SegmentSize <= c * SegmentSize /\ s * SegmentSize \in Nat
        BY <1>1, TimesGrows, SizesAssumption
      <4> QED BY <1>2, <4>1, <4>2, SizesAssumption
    <3>3. CASE d.active # 0 /\ w \in FirstOf(SegOf(d.active))..d.active
      <4>1. d.active \in Nat \ {0}
        BY <3>3, SizesAssumption DEF Dirs
      <4>2. /\ SegOf(d.active) \in Nat /\ FirstOf(SegOf(d.active)) \in Nat
            /\ FirstOf(SegOf(d.active)) <= d.active
            /\ d.active <= SegOf(d.active) * SegmentSize
            /\ SegOf(d.active) <= c + 1
        BY <3>3, <4>1, SegOfEvent DEF ChainHolds
      <4>3. d.active \in EventsOf(d)
        <5>1. d.active \in FirstOf(SegOf(d.active))..d.active
          BY <4>1, <4>2
        <5> QED BY <3>3, <5>1, EventIn
      <4>4. d.active = w
        BY <3>3, <4>1, <4>3
      <4>5. w # SegOf(d.active) * SegmentSize
        BY <3>3, <4>4 DEF Full
      <4>6. SegOf(d.active) * SegmentSize <= (c + 1) * SegmentSize
            /\ SegOf(d.active) * SegmentSize \in Nat
        BY <1>1, <4>2, TimesGrows, SizesAssumption
      <4> QED BY <1>2, <4>2, <4>4, <4>5, <4>6, SizesAssumption
    <3> QED BY <3>1, <3>2, <3>3, EventIn
  <2> QED BY <2>1, <2>2
<1>4. SegOf(w + 1) - 1 \in Nat /\ (SegOf(w + 1) - 1) * SegmentSize <= w
  <2>1. SegOf(w + 1) \in Nat \ {0} /\ FirstOf(SegOf(w + 1)) <= w + 1
    BY SegOfEvent
  <2>2. (SegOf(w + 1) - 1) * SegmentSize \in Nat
    BY <2>1, SizesAssumption
  <2> QED BY <2>1, <2>2 DEF FirstOf
<1>5. (SegOf(w + 1) - 1) * SegmentSize < (c + 1) * SegmentSize
  BY <1>1, <1>2, <1>3, <1>4, SizesAssumption
<1>6. SegOf(w + 1) - 1 < c + 1
  BY <1>1, <1>4, <1>5, TimesReflects
<1>7. SegOf(w + 1) \in Nat
  BY SegOfEvent
<1> QED BY <1>1, <1>6, <1>7

-----------------------------------------------------------------------------
(* The inductive invariant                                                 *)

\* A round that installs: what was staged is a history, it holds every event that is here, and
\* what it has closed is here already or still to come.
Installs(dir, r) ==
    /\ ChainHolds(r.staged)
    /\ EventsOf(dir) \subseteq EventsOf(r.staged)
    /\ r.todo \subseteq FilesOf(r.staged)
    /\ r.staged.closed \subseteq dir.closed \cup r.todo

\* A machine's directory is a history, its memo names nothing closed that is not there, and a
\* machine between two rounds remembers nothing.
InOrder(dir, r) ==
    /\ ChainHolds(dir)
    /\ r.step = "idle" => r = Idle
    /\ r.known \cap SegNos \subseteq dir.closed
    /\ r.step = "installing" => Installs(dir, r)

IInv == TypeOK /\ \A m \in Machines : InOrder(home[m], round[m])

LEMMA NothingIsInOrder == InOrder(Nothing, Idle) /\ ChainHolds(Nothing)
<1>1. ChainHolds(Nothing)
  BY DEF ChainHolds, Contiguous, Nothing
<1> QED BY <1>1 DEF InOrder, Idle, Unasked, SegNos

LEMMA AsOfIsAHistory ==
    ASSUME NEW n \in 0..MaxEvents
    PROVE  ChainHolds(AsOf(n))
<1>1. CASE n = 0
  BY <1>1, NothingIsInOrder DEF AsOf
<1>2. CASE n # 0
  <2>1. SegOf(n) \in Nat \ {0}
    BY <1>2, SegOfEvent, SizesAssumption
  <2>2. Cardinality(1..(SegOf(n) - 1)) = SegOf(n) - 1
    <3> DEFINE x == SegOf(n) - 1
    <3>1. x \in Nat
      BY <2>1
    <3> HIDE DEF x
    <3>2. Cardinality(1..x) = x
      BY <3>1, FS_Interval
    <3> QED BY <3>2 DEF x
  <2> QED BY <1>2, <2>1, <2>2 DEF AsOf, ChainHolds, Contiguous
<1> QED BY <1>1, <1>2

\* A step of one machine leaves the others in order.
LEMMA OneMachineAtATime ==
    ASSUME IInv, TypeOK', NEW m \in Machines, NEW d, NEW r,
           home' = [home EXCEPT ![m] = d], round' = [round EXCEPT ![m] = r],
           InOrder(d, r)
    PROVE  IInv'
<1>1. ASSUME NEW n \in Machines PROVE InOrder(home'[n], round'[n])
  <2>1. CASE n = m
    <3>1. home'[n] = d /\ round'[n] = r
      BY <2>1 DEF IInv, TypeOK
    <3> QED BY <3>1
  <2>2. CASE n # m
    <3>1. home'[n] = home[n] /\ round'[n] = round[n]
      BY <2>2 DEF IInv, TypeOK
    <3> QED BY <3>1 DEF IInv
  <2> QED BY <2>1, <2>2
<1> QED BY <1>1 DEF IInv

LEMMA UnchangedMachine ==
    ASSUME TypeOK, NEW m \in Machines
    PROVE  home = [home EXCEPT ![m] = home[m]] /\ round = [round EXCEPT ![m] = round[m]]
BY DEF TypeOK

LEMMA OwnersStepsKeepOrder ==
    ASSUME IInv, Write \/ Rotate \/ Emptied \/ SetBack
    PROVE  IInv'
<1> DEFINE d == home[Owner]
           r == round[Owner]
<1>1. /\ TypeOK /\ TypeOK' /\ Owner \in Machines
      /\ d \in Dirs /\ r \in Rounds /\ InOrder(d, r) /\ written \in Nat
  BY OwnersStepsKeepTypes, SizesAssumption DEF IInv, Machines, TypeOK
<1>2. CASE Write
  <2> DEFINE new == [d EXCEPT !.active = written + 1]
  <2>1. new.closed = d.closed /\ new.active = written + 1
    BY <1>1 DEF Dirs
  <2>2. SegOf(written + 1) <= Cardinality(d.closed) + 1
    BY <1>1, <1>2, WritingKeepsTheChain DEF Write, MayWrite, InOrder
  <2>3. ChainHolds(new)
    BY <1>1, <2>1, <2>2 DEF InOrder, ChainHolds, Contiguous
  <2>4. InOrder(new, r)
    BY <1>1, <1>2, <2>1, <2>3 DEF InOrder, Write, MayWrite
  <2>5. home' = [home EXCEPT ![Owner] = new] /\ round' = [round EXCEPT ![Owner] = r]
    BY <1>1, <1>2, UnchangedMachine DEF Write
  <2> HIDE DEF new, r
  <2> QED BY <1>1, <2>4, <2>5, OneMachineAtATime
<1>3. CASE Rotate
  <2> DEFINE new == [closed |-> d.closed \cup {SegOf(d.active)}, active |-> 0]
  <2>1. d.active \in Nat \ {0}
    BY <1>1, <1>3, SizesAssumption DEF Rotate, Full, Dirs
  <2>2. Contiguous(new)
    <3>1. d.closed = 1..Cardinality(d.closed) /\ Cardinality(d.closed) \in Nat
      BY <1>1, ClosedUpTo DEF InOrder, ChainHolds
    <3>2. SegOf(d.active) \in Nat /\ SegOf(d.active) <= Cardinality(d.closed) + 1
      BY <1>1, <2>1, SegOfEvent DEF InOrder, ChainHolds
    <3>3. 1..SegOf(d.active) \subseteq d.closed \cup {SegOf(d.active)}
      BY <3>1, <3>2
    <3>4. ASSUME NEW s \in d.closed PROVE 1..s \subseteq d.closed
      BY <1>1 DEF InOrder, ChainHolds, Contiguous
    <3> QED BY <3>3, <3>4 DEF Contiguous
  <2>3. ChainHolds(new)
    BY <2>2 DEF ChainHolds
  <2>4. InOrder(new, r)
    BY <1>1, <1>3, <2>3 DEF InOrder, Rotate, MayWrite
  <2>5. home' = [home EXCEPT ![Owner] = new] /\ round' = [round EXCEPT ![Owner] = r]
    BY <1>1, <1>3, UnchangedMachine DEF Rotate
  <2> HIDE DEF new, r
  <2> QED BY <1>1, <2>4, <2>5, OneMachineAtATime
<1>4. CASE Emptied
  BY <1>1, <1>4 DEF Emptied, IInv
<1>5. CASE SetBack
  <2>1. PICK n \in 0..(written - 1) : home' = [home EXCEPT ![Owner] = AsOf(n)]
    BY <1>5 DEF SetBack
  <2>2. ChainHolds(AsOf(n))
    BY <1>1, <2>1, AsOfIsAHistory, SizesAssumption DEF TypeOK
  <2>3. r = Idle
    BY <1>1, <1>5 DEF SetBack, InOrder
  <2>4. InOrder(AsOf(n), r)
    BY <2>2, <2>3 DEF InOrder, Idle, Unasked, SegNos
  <2>5. round' = [round EXCEPT ![Owner] = r]
    BY <1>1, <1>5, UnchangedMachine DEF SetBack
  <2> HIDE DEF r
  <2> QED BY <1>1, <2>1, <2>4, <2>5, OneMachineAtATime
<1> QED BY <1>2, <1>3, <1>4, <1>5

\* What bring accepts holds every event that is here: for our own name because it is longer and
\* grew from ours, for another's because both are that machine's log from its first line on.
LEMMA AcceptedHoldsOurs ==
    ASSUME IInv, NEW m \in Machines, Accepted(m)
    PROVE  EventsOf(home[m]) \subseteq EventsOf(round[m].staged)
<1> DEFINE d == home[m]
           t == round[m].staged
<1>1. d \in Dirs /\ t \in Dirs /\ ChainHolds(d) /\ ChainHolds(t)
  BY DEF IInv, TypeOK, Rounds, InOrder, Accepted
<1>2. /\ Count(d) \in Nat /\ IsFiniteSet(EventsOf(d)) /\ EventsOf(d) = 1..Count(d)
      /\ Count(t) \in Nat /\ IsFiniteSet(EventsOf(t)) /\ EventsOf(t) = 1..Count(t)
  BY <1>1, AHistoryCountsItself
<1>3. Count(t) >= Count(d)
  BY <1>2 DEF Accepted, OursWentMissing, Ahead
<1> QED BY <1>2, <1>3

\* One file installed.
LEMMA InstalledFile ==
    ASSUME IInv, NEW m \in Machines, round[m].step = "installing",
           NEW name \in Names, NextFile(m, name)
    PROVE  LET d == Copied(m, round[m].staged, home[m], name)
           IN  /\ ChainHolds(d)
               /\ home[m].closed \subseteq d.closed
               /\ round[m].staged.closed \subseteq d.closed \cup (round[m].todo \ {name})
               /\ EventsOf(home[m]) \subseteq EventsOf(d)
               /\ EventsOf(d) \subseteq EventsOf(round[m].staged)
<1> DEFINE h == home[m]
           t == round[m].staged
           d == Copied(m, t, h, name)
<1>1. /\ h \in Dirs /\ t \in Dirs /\ round[m] \in Rounds
      /\ InOrder(h, round[m]) /\ Installs(h, round[m])
  BY DEF IInv, TypeOK, Rounds, InOrder
<1>2. name \in FilesOf(t) /\ name \in round[m].todo
  BY <1>1 DEF Installs, NextFile
<1>3. \A other \in round[m].todo : name <= other
  BY DEF NextFile
<1>4. round[m].todo \subseteq Names
  BY <1>1 DEF Rounds
<1>5. name = Active => t.closed \subseteq h.closed
  <2> SUFFICES ASSUME name = Active, NEW s \in t.closed PROVE s \in h.closed
    OBVIOUS
  <2>1. s \in SegNos
    BY <1>1 DEF Dirs
  <2>2. ~(Active <= s)
    BY <2>1, SizesAssumption DEF Active, SegNos
  <2> QED BY <1>1, <1>3, <2>2 DEF Installs
<1>6. CASE Stands(m, t, h, name) \/ Spent(m, t, name)
  <2>1. d = h
    BY <1>6 DEF Copied
  <2>2. name # Active => name \in h.closed
    <3> SUFFICES ASSUME name # Active PROVE name \in h.closed
      OBVIOUS
    <3>1. name \in SegNos
      BY NamesType
    <3>2. CASE name \in round[m].known
      BY <1>1, <3>1, <3>2 DEF InOrder
    <3>3. CASE name \in Alike(t, h)
      BY <1>1, <3>1, <3>3, AlikeType
    <3> QED BY <1>6, <3>2, <3>3 DEF Stands, Spent
  <2>3. t.closed \subseteq h.closed \cup (round[m].todo \ {name})
    BY <1>1, <1>5, <2>2 DEF Installs
  <2> QED BY <1>1, <2>1, <2>3 DEF InOrder, Installs
<1>7. CASE ~(Stands(m, t, h, name) \/ Spent(m, t, name))
  <2>1. d = CopyFile(t, h, name)
    BY <1>7 DEF Copied
  <2>2. name # Active => \A i \in 1..(name - 1) : i \in h.closed
    <3> SUFFICES ASSUME name # Active, NEW i \in 1..(name - 1) PROVE i \in h.closed
      OBVIOUS
    <3>1. name \in t.closed /\ name \in Nat
      BY <1>1, <1>2, FilesType, NamesType, SizesAssumption DEF SegNos
    <3>2. i \in t.closed
      BY <1>1, <3>1 DEF Installs, ChainHolds, Contiguous
    <3>3. i \notin round[m].todo
      BY <1>3, <3>1
    <3> QED BY <1>1, <3>2, <3>3 DEF Installs
  <2>3. ChainHolds(d)
    BY <1>1, <1>2, <1>5, <2>1, <2>2, CopyKeepsTheChain DEF InOrder, Installs
  <2>4. EventsOf(h) \subseteq EventsOf(d) /\ EventsOf(d) \subseteq EventsOf(t)
    BY <1>1, <1>2, <1>5, <2>1, CopyKeepsTheEvents DEF Installs
  <2>5. h.closed \subseteq d.closed /\ (name # Active => name \in d.closed)
    BY <1>1, <2>1 DEF CopyFile, Dirs
  <2>6. t.closed \subseteq d.closed \cup (round[m].todo \ {name})
    BY <1>1, <1>5, <2>5 DEF Installs
  <2> QED BY <2>3, <2>4, <2>5, <2>6
<1> QED BY <1>6, <1>7

LEMMA InstallKeepsOrder ==
    ASSUME IInv, NEW m \in Machines, Install(m)
    PROVE  /\ IInv'
           /\ EventsOf(home[m]) \subseteq EventsOf(home'[m])
           /\ \A n \in Machines \ {m} : home'[n] = home[n]
<1> DEFINE t == round[m].staged
<1>1. PICK name \in Names :
        /\ NextFile(m, name)
        /\ home' = [home EXCEPT ![m] = Copied(m, t, @, name)]
        /\ LET after == Copying(m, t, home[m], name)
           IN  round' = [round EXCEPT ![m] =
                   IF after.todo # {} THEN after
                   ELSE [Forgetting(after) EXCEPT !.step = "giving", !.staged = Nothing]]
  BY DEF Install
<1> DEFINE d == Copied(m, t, home[m], name)
           after == Copying(m, t, home[m], name)
           last == [Forgetting(after) EXCEPT !.step = "giving", !.staged = Nothing]
           r == IF after.todo # {} THEN after ELSE last
<1>2. round[m] \in Rounds /\ InOrder(home[m], round[m]) /\ Installs(home[m], round[m])
  BY DEF IInv, TypeOK, Rounds, InOrder, Install
<1>3. /\ ChainHolds(d)
      /\ home[m].closed \subseteq d.closed
      /\ t.closed \subseteq d.closed \cup (round[m].todo \ {name})
      /\ EventsOf(home[m]) \subseteq EventsOf(d)
      /\ EventsOf(d) \subseteq EventsOf(t)
  BY <1>1, InstalledFile DEF Install
<1>4. /\ after \in Rounds
      /\ after.step = "installing" /\ after.known = round[m].known /\ after.staged = t
      /\ after.todo = round[m].todo \ {name}
  BY <1>2 DEF Copying, Rounds, Install
<1>5. InOrder(d, after)
  <2> HIDE DEF after, d
  <2> QED BY <1>2, <1>3, <1>4 DEF InOrder, Installs
<1>6. InOrder(d, last)
  <2>1. last.step = "giving" /\ (last.known = Unasked \/ last.known = after.known)
    <3> HIDE DEF after
    <3> QED BY <1>4 DEF Forgetting, Rounds
  <2>2. Unasked \cap SegNos = {}
    BY DEF Unasked, SegNos
  <2> HIDE DEF after, d, last
  <2> QED BY <1>2, <1>3, <1>4, <2>1, <2>2 DEF InOrder
<1>7. InOrder(d, r)
  BY <1>5, <1>6
<1>8. home' = [home EXCEPT ![m] = d] /\ round' = [round EXCEPT ![m] = r]
  BY <1>1
<1>9. TypeOK /\ TypeOK'
  BY RoundStepsKeepTypes DEF RoundStep, IInv
<1>10. IInv'
  <2> HIDE DEF d, r
  <2> QED BY <1>7, <1>8, <1>9, OneMachineAtATime
<1>11. home'[m] = d /\ \A n \in Machines \ {m} : home'[n] = home[n]
  <2> HIDE DEF d
  <2> QED BY <1>8, <1>9 DEF TypeOK
<1> QED BY <1>3, <1>10, <1>11

\* The other steps of a round leave every directory as it is.
LEMMA RoundStepsKeepOrder ==
    ASSUME IInv, NEW m \in Machines,
           Begin(m) \/ Stage(m) \/ Check(m) \/ Give(m) \/ Push(m) \/ Crash(m)
    PROVE  IInv' /\ home' = home
<1> DEFINE d == home[m]
<1>1. /\ TypeOK /\ TypeOK'
      /\ d \in Dirs /\ folder \in Dirs /\ round[m] \in Rounds /\ InOrder(d, round[m])
  BY RoundStepsKeepTypes DEF RoundStep, IInv, TypeOK
<1>2. home' = home
  BY DEF Begin, Stage, Check, Give, Push, Crash
<1>3. home' = [home EXCEPT ![m] = d]
  BY <1>1, <1>2, UnchangedMachine
<1>4. Alike(folder, d) \cap SegNos \subseteq d.closed /\ Unasked \cap SegNos = {}
  BY <1>1, AlikeType DEF Unasked, SegNos
<1>5. SUFFICES \E r : round' = [round EXCEPT ![m] = r] /\ InOrder(d, r)
  <2> HIDE DEF d
  <2> QED BY <1>1, <1>2, <1>3, OneMachineAtATime
<1>6. InOrder(d, Idle)
  BY <1>1, <1>4 DEF InOrder, Idle
<1>7. ASSUME NEW r, r.step \in Steps \ {"idle", "installing"}, r.known \cap SegNos \subseteq d.closed
      PROVE  InOrder(d, r)
  BY <1>1, <1>7 DEF InOrder, Steps
<1>8. CASE Begin(m)
  <2> DEFINE known == IF FilesOf(folder) = {} THEN Unasked ELSE Alike(folder, d)
             wants == /\ FilesOf(folder) # {} /\ ~AllOf(folder, known)
                      /\ m = Owner => OursWentMissing(home[m], folder)
             next == IF wants THEN To(m, "staging", FilesOf(folder)) ELSE To(m, "giving", {})
             r == [next EXCEPT !.known = known]
  <2>1. round' = [round EXCEPT ![m] = r]
    BY <1>8 DEF Begin
  <2>2. To(m, "staging", FilesOf(folder)) \in Rounds /\ To(m, "giving", {}) \in Rounds
    BY <1>1, FilesType, ToType DEF Steps
  <2>3. /\ To(m, "staging", FilesOf(folder)).step = "staging"
        /\ To(m, "giving", {}).step = "giving"
    BY <1>1 DEF To, Rounds
  <2>4. next \in Rounds /\ next.step \in {"staging", "giving"}
    BY <2>2, <2>3
  <2>5. r.step \in {"staging", "giving"} /\ r.known = known
    <3> HIDE DEF next, known
    <3> QED BY <2>4 DEF Rounds
  <2>6. known \cap SegNos \subseteq d.closed
    BY <1>4
  <2>7. InOrder(d, r)
    <3> HIDE DEF r, known, d
    <3> QED BY <1>7, <2>5, <2>6 DEF Steps
  <2> QED BY <2>1, <2>7
<1>9. CASE Stage(m)
  <2>1. PICK name \in round[m].todo :
          LET from == IF name \in round[m].known \cap FilesOf(home[m]) THEN home[m] ELSE folder
          IN  round' = [round EXCEPT ![m] =
                IF name \in FilesOf(from)
                THEN Staging(m, from, name)
                ELSE [To(m, "giving", {}) EXCEPT !.staged = Nothing]]
    BY <1>9 DEF Stage
  <2>2. ASSUME NEW from
        PROVE  Staging(m, from, name).step = "staging" /\ Staging(m, from, name).known = round[m].known
    BY <1>1, <1>9 DEF Staging, Rounds, Stage
  <2>3. ASSUME NEW from PROVE InOrder(d, Staging(m, from, name))
    BY <1>1, <1>7, <2>2 DEF InOrder, Steps
  <2>4. InOrder(d, [To(m, "giving", {}) EXCEPT !.staged = Nothing])
    BY <1>1, <1>7 DEF InOrder, Steps, To, Rounds
  <2> QED BY <2>1, <2>3, <2>4
<1>10. CASE Check(m)
  <2>1. CASE Accepted(m)
    <3> DEFINE r == To(m, "installing", FilesOf(round[m].staged))
    <3>1. round' = [round EXCEPT ![m] = r]
      BY <1>10, <2>1 DEF Check
    <3>2. /\ r.step = "installing" /\ r.known = round[m].known /\ r.staged = round[m].staged
          /\ r.todo = FilesOf(round[m].staged)
      BY <1>1 DEF To, Rounds
    <3>3. EventsOf(d) \subseteq EventsOf(round[m].staged)
      BY <2>1, AcceptedHoldsOurs
    <3>4. round[m].staged.closed \subseteq FilesOf(round[m].staged)
      BY DEF FilesOf
    <3>5. ChainHolds(round[m].staged)
      BY <2>1 DEF Accepted
    <3>6. InOrder(d, r)
      <4> HIDE DEF r, d
      <4> QED BY <1>1, <3>2, <3>3, <3>4, <3>5 DEF InOrder, Installs
    <3> QED BY <3>1, <3>6
  <2>2. CASE ~Accepted(m)
    <3> DEFINE r == [To(m, "giving", {}) EXCEPT !.staged = Nothing]
    <3>1. round' = [round EXCEPT ![m] = r]
      BY <1>10, <2>2 DEF Check
    <3>2. InOrder(d, r)
      BY <1>1, <1>7 DEF InOrder, Steps, To, Rounds
    <3> QED BY <3>1, <3>2
  <2> QED BY <2>1, <2>2
<1>11. CASE Give(m)
  <2> DEFINE known == IF round[m].known = Unasked THEN Alike(folder, d) ELSE round[m].known
             r == [To(m, "pushing", FilesOf(home[m])) EXCEPT !.known = known]
  <2>1. round' = [round EXCEPT ![m] = r] \/ round' = [round EXCEPT ![m] = Idle]
    BY <1>11 DEF Give
  <2>2. r.step = "pushing" /\ r.known = known
    BY <1>1 DEF To, Rounds
  <2>3. known \cap SegNos \subseteq d.closed
    BY <1>1, <1>4 DEF InOrder
  <2>4. InOrder(d, r)
    <3> HIDE DEF r, known, d
    <3> QED BY <1>7, <2>2, <2>3 DEF Steps
  <2> QED BY <1>6, <2>1, <2>4
<1>12. CASE Push(m)
  <2>1. PICK name \in Names :
          IF name \in FilesOf(home[m])
          THEN /\ folder' = Copied(m, home[m], folder, name)
               /\ LET after == Copying(m, home[m], folder, name)
                  IN  round' = [round EXCEPT ![m] = IF after.todo # {} THEN after ELSE Idle]
          ELSE /\ folder' = folder
               /\ round' = [round EXCEPT ![m] = Idle]
    BY <1>12 DEF Push
  <2> DEFINE after == Copying(m, home[m], folder, name)
  <2>2. after.step = "pushing" /\ after.known = round[m].known
    BY <1>1, <1>12 DEF Copying, Rounds, Push
  <2>3. InOrder(d, after)
    <3> HIDE DEF after, d
    <3> QED BY <1>1, <1>7, <2>2 DEF InOrder, Steps
  <2>4. \/ round' = [round EXCEPT ![m] = after]
        \/ round' = [round EXCEPT ![m] = Idle]
    BY <2>1
  <2> QED BY <1>6, <2>3, <2>4
<1>13. CASE Crash(m)
  BY <1>6, <1>13 DEF Crash
<1> QED BY <1>8, <1>9, <1>10, <1>11, <1>12, <1>13

LEMMA StepsKeepOrder ==
    ASSUME IInv, [Next]_vars
    PROVE  IInv'
<1>1. CASE Write \/ Rotate \/ Emptied \/ SetBack
  BY <1>1, OwnersStepsKeepOrder
<1>2. ASSUME NEW m \in Machines, RoundStep(m) \/ Crash(m) PROVE IInv'
  BY <1>2, InstallKeepsOrder, RoundStepsKeepOrder DEF RoundStep
<1>3. CASE UNCHANGED vars
  BY <1>3 DEF IInv, TypeOK, vars
<1> QED BY <1>1, <1>2, <1>3 DEF Next

LEMMA AlwaysInOrder == Spec => []IInv
<1>1. Init => IInv
  <2> SUFFICES ASSUME Init PROVE IInv
    OBVIOUS
  <2>1. TypeOK
    BY NothingType, SizesAssumption DEF Init, TypeOK
  <2>2. \A m \in Machines : home[m] = Nothing /\ round[m] = Idle
    BY DEF Init
  <2> QED BY <2>1, <2>2, NothingIsInOrder DEF IInv
<1> QED BY <1>1, StepsKeepOrder, PTL DEF Spec

-----------------------------------------------------------------------------
(* What follows from it                                                    *)

\* Whatever was pushed, deleted, cut short or put back around it, what a machine keeps of
\* another's log is that log from its first line on with none missing, and its chain answers: of
\* bring checking a staged copy and installing from it file by file, for any number of machines.
THEOREM CopiesStayHistories == Spec => []CopiesAreHistories
<1>1. IInv => CopiesAreHistories
  <2> SUFFICES ASSUME IInv, NEW k \in Keepers
               PROVE  EventsOf(home[k]) = 1..Count(home[k]) /\ ChainHolds(home[k])
    BY DEF CopiesAreHistories
  <2>1. home[k] \in Dirs /\ ChainHolds(home[k])
    BY DEF IInv, TypeOK, InOrder, Machines
  <2> QED BY <2>1, AHistoryCountsItself
<1> QED BY <1>1, AlwaysInOrder, PTL

\* No step takes a line away from what a machine holds, but a backup put back over the owner's
\* own directory: of copy_segments, which overwrites the active file while others read and write
\* the folder it was staged from.
THEOREM CopiesNeverShrink == Spec => CopiesGrow
<1> DEFINE Grow == \A m \in Machines :
        EventsOf(home[m]) \subseteq EventsOf(home'[m]) \/ (m = Owner /\ SetBack)
<1>1. ASSUME IInv, [Next]_vars PROVE [Grow]_vars
  <2> SUFFICES ASSUME Next PROVE Grow
    BY <1>1
  <2>1. CASE Write
    <3> DEFINE d == home[Owner]
    <3>1. /\ Owner \in Machines /\ d \in Dirs /\ ChainHolds(d) /\ TypeOK /\ TypeOK'
      BY <1>1, StepsKeepOrder DEF IInv, Machines, TypeOK, InOrder
    <3>2. /\ home'[Owner] \in Dirs /\ ChainHolds(home'[Owner])
          /\ home'[Owner].closed = d.closed /\ home'[Owner].active = written + 1
      BY <1>1, <2>1, <3>1, StepsKeepOrder DEF Write, IInv, TypeOK, InOrder, Dirs
    <3>3. EventsOf(d) = 1..written /\ written \in Nat
      BY <2>1, <3>1, SizesAssumption DEF Write, MayWrite, TypeOK
    <3>4. /\ Count(home'[Owner]) \in Nat
          /\ EventsOf(home'[Owner]) = 1..Count(home'[Owner])
      BY <3>2, AHistoryCountsItself
    <3>5. written + 1 \in EventsOf(home'[Owner])
      <4>1. written + 1 \in FirstOf(SegOf(written + 1))..(written + 1)
        BY <3>3, SegOfEvent
      <4> QED BY <3>2, <3>3, <4>1, EventIn
    <3>6. EventsOf(d) \subseteq EventsOf(home'[Owner])
      BY <3>3, <3>4, <3>5
    <3>7. \A m \in Machines \ {Owner} : home'[m] = home[m]
      BY <2>1, <3>1 DEF Write, TypeOK
    <3> QED BY <3>6, <3>7
  <2>2. CASE Rotate
    <3> DEFINE d == home[Owner]
               s == SegOf(d.active)
    <3>1. /\ Owner \in Machines /\ d \in Dirs /\ TypeOK
      BY <1>1 DEF IInv, Machines, TypeOK
    <3>2. home'[Owner] = [closed |-> d.closed \cup {s}, active |-> 0]
      BY <2>2, <3>1 DEF Rotate, TypeOK
    <3>3. d.active = s * SegmentSize /\ d.active # 0
      BY <2>2 DEF Rotate, Full
    <3>4. ASSUME NEW e \in EventsOf(d) PROVE e \in EventsOf(home'[Owner])
      <4>1. \E t \in d.closed \cup {s} : e \in FirstOf(t)..(t * SegmentSize)
        BY <3>3, <3>4, EventIn
      <4> QED BY <3>2, <4>1, EventIn
    <3>5. \A m \in Machines \ {Owner} : home'[m] = home[m]
      BY <2>2, <3>1 DEF Rotate, TypeOK
    <3> QED BY <3>4, <3>5
  <2>3. CASE Emptied
    BY <2>3 DEF Emptied
  <2>4. CASE SetBack
    <3>1. \A m \in Machines \ {Owner} : home'[m] = home[m]
      BY <1>1, <2>4 DEF SetBack, IInv, TypeOK
    <3> QED BY <2>4, <3>1
  <2>5. ASSUME NEW m \in Machines, Install(m) PROVE Grow
    <3>1. EventsOf(home[m]) \subseteq EventsOf(home'[m])
      BY <1>1, <2>5, InstallKeepsOrder
    <3>2. \A n \in Machines \ {m} : home'[n] = home[n]
      BY <1>1, <2>5, InstallKeepsOrder
    <3> QED BY <3>1, <3>2
  <2>6. ASSUME NEW m \in Machines,
               Begin(m) \/ Stage(m) \/ Check(m) \/ Give(m) \/ Push(m) \/ Crash(m)
        PROVE  Grow
    BY <2>6 DEF Begin, Stage, Check, Give, Push, Crash
  <2> QED BY <2>1, <2>2, <2>3, <2>4, <2>5, <2>6 DEF Next, RoundStep
<1>2. IInv /\ [Next]_vars => [Grow]_vars
  BY <1>1
<1> QED BY <1>2, AlwaysInOrder, PTL DEF Spec, CopiesGrow

-----------------------------------------------------------------------------
(* The folder                                                              *)

\* A push hands over a history from its first file on: what it set out with has no gap, and what
\* is closed of that stands in the folder or is still to copy; while the active file is, its
\* owner has closed nothing since.
Pushes(f, dir, r) ==
    /\ r.todo \subseteq r.listed
    /\ \A s \in r.listed \cap SegNos : 1..s \subseteq r.listed
    /\ r.listed \cap SegNos \subseteq (f.closed \cup r.todo) \cap dir.closed
    /\ Active \in r.todo => dir.active # 0 /\ dir.closed = r.listed \cap SegNos

Reaches(f, dir, r) ==
    /\ r.known \cap SegNos \subseteq f.closed
    /\ r.step = "pushing" => Pushes(f, dir, r)

FolderInv == IInv /\ ChainHolds(folder) /\ \A m \in Machines : Reaches(folder, home[m], round[m])

\* Nothing is taken from the folder under a round, and no file is renamed under a push.
FolderLeftAlone == Mishaps \cap {"rotated_under_a_push", "emptied_in_a_round"} = {}

\* One file pushed.
LEMMA PushedFile ==
    ASSUME FolderInv, NEW m \in Machines, round[m].step = "pushing",
           NEW name \in FilesOf(home[m]), NextFile(m, name)
    PROVE  LET f == Copied(m, home[m], folder, name)
           IN  /\ ChainHolds(f)
               /\ folder.closed \subseteq f.closed
               /\ Pushes(f, home[m], Copying(m, home[m], folder, name))
<1> DEFINE h == home[m]
           f == Copied(m, h, folder, name)
           r == round[m]
           after == Copying(m, h, folder, name)
<1>1. /\ h \in Dirs /\ folder \in Dirs /\ r \in Rounds
      /\ ChainHolds(h) /\ ChainHolds(folder) /\ Reaches(folder, h, r) /\ Pushes(folder, h, r)
  BY DEF FolderInv, IInv, TypeOK, InOrder, Reaches
<1>2. name \in r.todo /\ name \in r.listed /\ name \in Names
  BY <1>1, FilesType DEF NextFile, Pushes
<1>3. \A other \in r.todo : name <= other
  BY DEF NextFile
<1>4. name = Active => h.closed \subseteq folder.closed
  <2> SUFFICES ASSUME name = Active, NEW s \in h.closed PROVE s \in folder.closed
    OBVIOUS
  <2>1. s \in r.listed \cap SegNos
    BY <1>1, <1>2 DEF Pushes
  <2>2. ~(Active <= s)
    BY <2>1, SizesAssumption DEF Active, SegNos
  <2> QED BY <1>1, <1>3, <2>1, <2>2 DEF Pushes
<1>5. after.todo = r.todo \ {name} /\ after.listed = r.listed
  BY <1>1 DEF Copying, Rounds
<1>6. SUFFICES ChainHolds(f) /\ folder.closed \subseteq f.closed
                /\ (name # Active => name \in f.closed)
  <2> HIDE DEF f, after, h, r
  <2>1. r.listed \cap SegNos \subseteq (f.closed \cup after.todo) \cap h.closed
    BY <1>1, <1>2, <1>5, <1>6, NamesType DEF Pushes
  <2>2. Pushes(f, h, after)
    BY <1>1, <1>5, <2>1 DEF Pushes
  <2> QED BY <1>6, <2>2 DEF f, after, h
<1>7. CASE Stands(m, h, folder, name) \/ Spent(m, h, name)
  <2>1. f = folder
    BY <1>7 DEF Copied
  <2>2. name # Active => name \in folder.closed
    <3> SUFFICES ASSUME name # Active PROVE name \in folder.closed
      OBVIOUS
    <3>1. name \in SegNos
      BY <1>2, NamesType
    <3>2. CASE name \in r.known
      BY <1>1, <3>1, <3>2 DEF Reaches
    <3>3. CASE name \in Alike(h, folder)
      BY <1>1, <3>1, <3>3, AlikeType
    <3> QED BY <1>7, <3>2, <3>3 DEF Stands, Spent
  <2> QED BY <1>1, <2>1, <2>2
<1>8. CASE ~(Stands(m, h, folder, name) \/ Spent(m, h, name))
  <2>1. f = CopyFile(h, folder, name)
    BY <1>8 DEF Copied
  <2>2. name # Active => \A i \in 1..(name - 1) : i \in folder.closed
    <3> SUFFICES ASSUME name # Active, NEW i \in 1..(name - 1) PROVE i \in folder.closed
      OBVIOUS
    <3>1. name \in SegNos /\ name \in Nat
      BY <1>2, NamesType, SizesAssumption DEF SegNos
    <3>2. i \in r.listed /\ i \in SegNos
      BY <1>1, <1>2, <3>1, SizesAssumption DEF Pushes, SegNos
    <3>3. i \notin r.todo
      BY <1>3, <3>1
    <3> QED BY <1>1, <3>2, <3>3 DEF Pushes
  <2>3. ChainHolds(f)
    BY <1>1, <1>4, <2>1, <2>2, CopyKeepsTheChain
  <2>4. folder.closed \subseteq f.closed /\ (name # Active => name \in f.closed)
    BY <1>1, <2>1 DEF CopyFile, Dirs
  <2> QED BY <2>3, <2>4
<1> QED BY <1>7, <1>8

LEMMA OwnersStepsKeepTheFolder ==
    ASSUME FolderLeftAlone, FolderInv, Write \/ Rotate \/ Emptied \/ SetBack
    PROVE  FolderInv'
<1> DEFINE d == home[Owner]
           r == round[Owner]
<1>1. IInv /\ IInv' /\ TypeOK /\ Owner \in Machines /\ d \in Dirs
  BY OwnersStepsKeepOrder DEF FolderInv, IInv, Machines, TypeOK
<1>2. ASSUME folder' = folder, round' = round, NEW new, home' = [home EXCEPT ![Owner] = new],
             Reaches(folder, new, r)
      PROVE  FolderInv'
  <2>1. ASSUME NEW m \in Machines PROVE Reaches(folder', home'[m], round'[m])
    <3>1. CASE m = Owner
      BY <1>1, <1>2, <3>1 DEF TypeOK
    <3>2. CASE m # Owner
      <4>1. home'[m] = home[m]
        BY <1>1, <1>2, <3>2 DEF TypeOK
      <4> QED BY <1>2, <4>1 DEF FolderInv
    <3> QED BY <3>1, <3>2
  <2> QED BY <1>1, <1>2, <2>1 DEF FolderInv
<1>3. CASE Write
  <2> DEFINE new == [d EXCEPT !.active = written + 1]
  <2>1. new.closed = d.closed /\ new.active # 0
    BY <1>1, SizesAssumption DEF Dirs, TypeOK
  <2>2. Reaches(folder, new, r)
    <3> HIDE DEF new
    <3> QED BY <1>1, <2>1 DEF FolderInv, Reaches, Pushes
  <2> HIDE DEF r
  <2> QED BY <1>2, <1>3, <2>2 DEF Write
<1>4. CASE Rotate
  <2> DEFINE new == [closed |-> d.closed \cup {SegOf(d.active)}, active |-> 0]
  <2>1. ~(r.step = "pushing" /\ Active \in r.todo)
    BY <1>4 DEF Rotate, Mishap, FolderLeftAlone
  <2>2. Reaches(folder, new, r)
    BY <1>1, <2>1 DEF FolderInv, Reaches, Pushes
  <2> HIDE DEF r
  <2> QED BY <1>2, <1>4, <2>2 DEF Rotate
<1>5. CASE Emptied
  <2>1. \A m \in Machines : round[m].step = "idle"
    BY <1>5 DEF Emptied, Mishap, FolderLeftAlone
  <2>2. \A m \in Machines : round[m] = Idle
    BY <1>1, <2>1 DEF IInv, InOrder
  <2>3. \A m \in Machines : Reaches(Nothing, home[m], round[m])
    BY <2>2 DEF Reaches, Idle, Unasked, SegNos
  <2> QED BY <1>1, <1>5, <2>3, NothingIsInOrder DEF FolderInv, Emptied
<1>6. CASE SetBack
  <2>1. PICK n \in 0..(written - 1) : home' = [home EXCEPT ![Owner] = AsOf(n)]
    BY <1>6 DEF SetBack
  <2>2. Reaches(folder, AsOf(n), r)
    BY <1>1, <1>6 DEF SetBack, FolderInv, Reaches
  <2> HIDE DEF r
  <2> QED BY <1>2, <1>6, <2>1, <2>2 DEF SetBack
<1> QED BY <1>3, <1>4, <1>5, <1>6

LEMMA RoundStepsKeepTheFolder ==
    ASSUME FolderInv, NEW m \in Machines, RoundStep(m) \/ Crash(m)
    PROVE  FolderInv'
<1> DEFINE d == home[m]
           r == round[m]
<1>1. /\ IInv /\ IInv' /\ TypeOK /\ d \in Dirs /\ folder \in Dirs /\ r \in Rounds
      /\ ChainHolds(d) /\ Reaches(folder, d, r) /\ ChainHolds(folder)
  BY InstallKeepsOrder, RoundStepsKeepOrder DEF FolderInv, IInv, InOrder, TypeOK, RoundStep
<1>2. Reaches(folder, d, Idle) /\ Unasked \cap SegNos = {}
  BY DEF Reaches, Idle, Unasked, SegNos
\* What the others hold and know is not touched, and the folder only grows.
<1>3. ASSUME NEW new, round' = [round EXCEPT ![m] = new],
             home' = home \/ Install(m),
             ChainHolds(folder'), folder.closed \subseteq folder'.closed,
             Reaches(folder', home'[m], new)
      PROVE  FolderInv'
  <2>1. ASSUME NEW n \in Machines PROVE Reaches(folder', home'[n], round'[n])
    <3>1. CASE n = m
      BY <1>1, <1>3, <3>1 DEF TypeOK
    <3>2. CASE n # m
      <4>1. home'[n] = home[n] /\ round'[n] = round[n]
        BY <1>1, <1>3, <3>2, InstallKeepsOrder DEF TypeOK
      <4>2. Reaches(folder, home[n], round[n])
        BY DEF FolderInv
      <4> QED BY <1>3, <4>1, <4>2 DEF Reaches, Pushes
    <3> QED BY <3>1, <3>2
  <2> QED BY <1>1, <1>3, <2>1 DEF FolderInv
\* A round that does not push is held to its memo alone.
<1>4. ASSUME NEW new, round' = [round EXCEPT ![m] = new], folder' = folder,
             home' = home \/ Install(m),
             new.step # "pushing", new.known \cap SegNos \subseteq folder.closed
      PROVE  FolderInv'
  <2>1. Reaches(folder', home'[m], new)
    BY <1>4 DEF Reaches
  <2> QED BY <1>1, <1>3, <1>4, <2>1
<1>5. CASE Begin(m)
  <2> DEFINE known == IF FilesOf(folder) = {} THEN Unasked ELSE Alike(folder, d)
             wants == /\ FilesOf(folder) # {} /\ ~AllOf(folder, known)
                      /\ m = Owner => OursWentMissing(home[m], folder)
             next == IF wants THEN To(m, "staging", FilesOf(folder)) ELSE To(m, "giving", {})
             new == [next EXCEPT !.known = known]
  <2>1. round' = [round EXCEPT ![m] = new]
    BY <1>5 DEF Begin
  <2>2. To(m, "staging", FilesOf(folder)) \in Rounds /\ To(m, "giving", {}) \in Rounds
    BY <1>1, FilesType, ToType DEF Steps
  <2>3. /\ To(m, "staging", FilesOf(folder)).step = "staging"
        /\ To(m, "giving", {}).step = "giving"
    BY <1>1 DEF To, Rounds
  <2>4. next \in Rounds /\ next.step # "pushing"
    BY <2>2, <2>3
  <2>5. new.step # "pushing" /\ new.known = known
    <3> HIDE DEF next, known
    <3> QED BY <2>4 DEF Rounds
  <2>6. known \cap SegNos \subseteq folder.closed
    BY <1>1, <1>2, AlikeType
  <2>7. folder' = folder /\ home' = home
    BY <1>5 DEF Begin
  <2> HIDE DEF new, known
  <2> QED BY <1>4, <2>1, <2>5, <2>6, <2>7
<1>6. CASE Stage(m)
  <2>1. PICK name \in round[m].todo :
          LET from == IF name \in round[m].known \cap FilesOf(home[m]) THEN home[m] ELSE folder
          IN  round' = [round EXCEPT ![m] =
                IF name \in FilesOf(from)
                THEN Staging(m, from, name)
                ELSE [To(m, "giving", {}) EXCEPT !.staged = Nothing]]
    BY <1>6 DEF Stage
  <2>2. ASSUME NEW from
        PROVE  Staging(m, from, name).step = "staging" /\ Staging(m, from, name).known = r.known
    BY <1>1, <1>6 DEF Staging, Rounds, Stage
  <2> DEFINE not == [To(m, "giving", {}) EXCEPT !.staged = Nothing]
  <2>3. not.step = "giving" /\ not.known = r.known
    BY <1>1 DEF To, Rounds
  <2>4. \/ \E from : round' = [round EXCEPT ![m] = Staging(m, from, name)]
        \/ round' = [round EXCEPT ![m] = not]
    BY <2>1
  <2>5. folder' = folder /\ home' = home
    BY <1>6 DEF Stage
  <2>6. r.known \cap SegNos \subseteq folder.closed
    BY <1>1 DEF Reaches
  <2> HIDE DEF not, r
  <2> QED BY <1>4, <2>2, <2>3, <2>4, <2>5, <2>6
<1>7. CASE Check(m)
  <2> DEFINE yes == To(m, "installing", FilesOf(round[m].staged))
             not == [To(m, "giving", {}) EXCEPT !.staged = Nothing]
  <2>1. round' = [round EXCEPT ![m] = yes] \/ round' = [round EXCEPT ![m] = not]
    BY <1>7 DEF Check
  <2>2. /\ yes.step = "installing" /\ yes.known = r.known
        /\ not.step = "giving" /\ not.known = r.known
    BY <1>1 DEF To, Rounds
  <2>3. folder' = folder /\ home' = home
    BY <1>7 DEF Check
  <2>4. r.known \cap SegNos \subseteq folder.closed
    BY <1>1 DEF Reaches
  <2> HIDE DEF yes, not, r
  <2> QED BY <1>4, <2>1, <2>2, <2>3, <2>4
<1>8. CASE Install(m)
  <2>1. PICK name \in Names :
          LET after == Copying(m, round[m].staged, home[m], name)
          IN  round' = [round EXCEPT ![m] =
                   IF after.todo # {} THEN after
                   ELSE [Forgetting(after) EXCEPT !.step = "giving", !.staged = Nothing]]
    BY <1>8 DEF Install
  <2> DEFINE after == Copying(m, round[m].staged, home[m], name)
             last == [Forgetting(after) EXCEPT !.step = "giving", !.staged = Nothing]
  <2>2. after \in Rounds /\ after.step = "installing" /\ after.known = r.known
    BY <1>1, <1>8 DEF Copying, Rounds, Install
  <2>3. last.step = "giving" /\ (last.known = Unasked \/ last.known = after.known)
    <3> HIDE DEF after
    <3> QED BY <2>2 DEF Forgetting, Rounds
  <2>4. round' = [round EXCEPT ![m] = after] \/ round' = [round EXCEPT ![m] = last]
    BY <2>1
  <2>5. folder' = folder
    BY <1>8 DEF Install
  <2>6. r.known \cap SegNos \subseteq folder.closed
    BY <1>1 DEF Reaches
  <2> HIDE DEF after, last, r
  <2> QED BY <1>2, <1>4, <1>8, <2>2, <2>3, <2>4, <2>5, <2>6
<1>9. CASE Give(m)
  <2> DEFINE known == IF round[m].known = Unasked THEN Alike(folder, d) ELSE round[m].known
             new == [To(m, "pushing", FilesOf(home[m])) EXCEPT !.known = known]
  <2>1. round' = [round EXCEPT ![m] = new] \/ round' = [round EXCEPT ![m] = Idle]
    BY <1>9 DEF Give
  <2>2. /\ new.step = "pushing" /\ new.known = known
        /\ new.listed = FilesOf(d) /\ new.todo = FilesOf(d)
    BY <1>1 DEF To, Rounds
  <2>3. known \cap SegNos \subseteq folder.closed
    BY <1>1, AlikeType DEF Reaches
  <2>4. FilesOf(d) \cap SegNos = d.closed /\ (Active \in FilesOf(d) <=> d.active # 0)
    BY <1>1, FilesType
  <2>5. \A s \in d.closed : 1..s \subseteq FilesOf(d)
    BY <1>1 DEF ChainHolds, Contiguous, FilesOf
  <2>6. Reaches(folder, d, new)
    <3> HIDE DEF new, known, d
    <3> QED BY <2>2, <2>3, <2>4, <2>5 DEF Reaches, Pushes
  <2>7. folder' = folder /\ home' = home
    BY <1>9 DEF Give
  <2> HIDE DEF new
  <2> QED BY <1>1, <1>2, <1>3, <2>1, <2>6, <2>7
<1>10. CASE Push(m)
  <2>1. PICK name \in Names :
        /\ NextFile(m, name)
        /\ IF name \in FilesOf(home[m])
           THEN /\ folder' = Copied(m, home[m], folder, name)
                /\ LET after == Copying(m, home[m], folder, name)
                   IN  round' = [round EXCEPT ![m] = IF after.todo # {} THEN after ELSE Idle]
           ELSE /\ folder' = folder
                /\ round' = [round EXCEPT ![m] = Idle]
    BY <1>10 DEF Push
  <2> DEFINE after == Copying(m, d, folder, name)
  <2>2. home' = home /\ r.step = "pushing"
    BY <1>10 DEF Push
  <2>3. CASE name \in FilesOf(d)
    <3>1. /\ ChainHolds(folder') /\ folder.closed \subseteq folder'.closed
          /\ Pushes(folder', d, after)
      BY <2>1, <2>2, <2>3, PushedFile
    <3>2. after.known = r.known
      BY <1>1 DEF Copying, Rounds
    <3>3. Reaches(folder', d, after)
      <4> HIDE DEF after, d
      <4> QED BY <1>1, <3>1, <3>2 DEF Reaches
    <3>4. round' = [round EXCEPT ![m] = after] \/ round' = [round EXCEPT ![m] = Idle]
      BY <2>1, <2>3
    <3>5. Reaches(folder', d, Idle)
      BY <1>2 DEF Reaches, Idle
    <3> HIDE DEF after
    <3> QED BY <1>3, <2>2, <3>1, <3>3, <3>4, <3>5
  <2>4. CASE name \notin FilesOf(d)
    BY <1>1, <1>2, <1>3, <2>1, <2>2, <2>4
  <2> QED BY <2>3, <2>4
<1>11. CASE Crash(m)
  <2>1. folder' = folder /\ home' = home /\ round' = [round EXCEPT ![m] = Idle]
    BY <1>11 DEF Crash
  <2> QED BY <1>1, <1>2, <1>3, <2>1
<1> QED BY <1>5, <1>6, <1>7, <1>8, <1>9, <1>10, <1>11 DEF RoundStep

\* Whoever reads the folder between two copied files finds a history it could take, with any
\* number of machines pushing and installing at once and crashing half way: of the order
\* copy_segments copies in.  It needs the two things the code cannot defend it from not to happen.
THEOREM FolderStaysAHistory ==
    ASSUME FolderLeftAlone
    PROVE  Spec => []FolderIsAHistory
<1>1. Init => FolderInv
  <2> SUFFICES ASSUME Init PROVE FolderInv
    OBVIOUS
  <2>1. TypeOK
    BY NothingType, SizesAssumption DEF Init, TypeOK
  <2>2. folder = Nothing /\ \A m \in Machines : home[m] = Nothing /\ round[m] = Idle
    BY DEF Init
  <2>3. \A m \in Machines : Reaches(folder, home[m], round[m])
    BY <2>2 DEF Reaches, Idle, Unasked, SegNos
  <2> QED BY <2>1, <2>2, <2>3, NothingIsInOrder DEF FolderInv, IInv
<1>2. FolderInv /\ [Next]_vars => FolderInv'
  <2> SUFFICES ASSUME FolderInv, [Next]_vars PROVE FolderInv'
    OBVIOUS
  <2>1. CASE Write \/ Rotate \/ Emptied \/ SetBack
    BY <2>1, OwnersStepsKeepTheFolder
  <2>2. ASSUME NEW m \in Machines, RoundStep(m) \/ Crash(m) PROVE FolderInv'
    BY <2>2, RoundStepsKeepTheFolder
  <2>3. CASE UNCHANGED vars
    BY <2>3 DEF FolderInv, IInv, TypeOK, vars, Reaches
  <2> QED BY <2>1, <2>2, <2>3 DEF Next
<1>3. FolderInv => FolderIsAHistory
  BY DEF FolderInv, FolderIsAHistory
<1> QED BY <1>1, <1>2, <1>3, PTL DEF Spec
=============================================================================
