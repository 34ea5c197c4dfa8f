--------------------------- MODULE ProjectionProofs ---------------------------
(***************************************************************************)
(* What is proved of Projection for any number of devices, programs, rows  *)
(* and lines: its types and, where none of the Mishaps happen, that a      *)
(* cache that calls itself current, and a window that does not know itself *)
(* behind, are what a replay of the whole log gives.                       *)
(***************************************************************************)
EXTENDS Projection, FiniteSetTheorems, WellFoundedInduction, TLAPS

-----------------------------------------------------------------------------
(* Keys and rows                                                           *)

AllKeys == {NoKey} \union Keys(Line)

LEMMA KeysAre ==
    /\ \A l \in Line : /\ Key(l) = <<l.at, l.dev>> /\ l.at \in Nat \ {0} /\ l.dev \in Nat \ {0}
                       /\ Key(l) \in AllKeys /\ Key(l) # NoKey
    /\ \A k \in AllKeys : k[1] \in Nat /\ k[2] \in Nat
    /\ NoKey \in AllKeys
<1>1. \A l \in Line : l.at \in Nat \ {0} /\ l.dev \in Nat \ {0}
  <2>1. MaxAt \in Nat /\ Devices \subseteq Nat \ {0}
    BY ProjectionAssumption DEF ProjectionAssumption
  <2>2. \A l \in Line : l.at \in 1 .. MaxAt /\ l.dev \in Devices
    BY DEF Line
  <2>3. \A at \in 1 .. MaxAt : at \in Nat \ {0}
    BY <2>1
  <2> QED BY <2>1, <2>2, <2>3
<1>2. \A l \in Line : Key(l) = <<l.at, l.dev>> /\ Key(l) # NoKey
  BY <1>1 DEF Key, NoKey
<1>3. \A l \in Line : Key(l) \in AllKeys
  BY DEF AllKeys, Keys
<1>4. \A k \in AllKeys : k[1] \in Nat /\ k[2] \in Nat
  BY <1>1, <1>2 DEF AllKeys, Keys, NoKey
<1> QED BY <1>1, <1>2, <1>3, <1>4 DEF AllKeys

\* The order of the sorted log.
LEMMA SoonerIs ==
    /\ \A a, b, c \in AllKeys : Sooner(a, b) /\ Sooner(b, c) => Sooner(a, c)
    /\ \A a \in AllKeys : ~Sooner(a, a)
    /\ \A a, b, c \in AllKeys : Sooner(a, b) /\ ~Sooner(c, b) => Sooner(a, c)
    /\ \A a, b, c \in AllKeys : ~Sooner(b, a) /\ Sooner(b, c) => Sooner(a, c)
<1>1. \A k \in AllKeys : k[1] \in Nat /\ k[2] \in Nat
  BY KeysAre
<1>2. ASSUME NEW a \in AllKeys, NEW b \in AllKeys, NEW c \in AllKeys, Sooner(a, b)
      PROVE  (Sooner(b, c) => Sooner(a, c)) /\ (~Sooner(c, b) => Sooner(a, c))
  BY <1>1, <1>2 DEF Sooner
<1>3. \A a \in AllKeys : ~Sooner(a, a)
  BY <1>1 DEF Sooner
<1>4. ASSUME NEW a \in AllKeys, NEW b \in AllKeys, NEW c \in AllKeys, ~Sooner(b, a), Sooner(b, c)
      PROVE  Sooner(a, c)
  BY <1>1, <1>4 DEF Sooner
<1> QED BY <1>2, <1>3, <1>4

LEMMA ReachedIs ==
    ASSUME NEW lines, NEW r
    PROVE  /\ Reached(lines, r) \subseteq lines
           /\ \A l : l \in Reached(lines, r) <=> l \in lines /\ Reaches(l, r)
BY DEF Reached

LEMMA KeysOf ==
    ASSUME NEW lines
    PROVE  \A k : k \in Keys(lines) <=> \E l \in lines : k = Key(l)
BY DEF Keys

\* The keys of what lines a row reaches, of some and of more.
LEMMA KeysGrow ==
    ASSUME NEW some, NEW more, some \subseteq more
    PROVE  /\ Keys(some) \subseteq Keys(more)
           /\ \A r : Keys(Reached(some, r)) \subseteq Keys(Reached(more, r))
           /\ \A r : Keys(Reached(some, r)) \subseteq Keys(some)
BY ReachedIs, KeysOf

\* The latest key of some lines is there, and no line's is later.
LEMMA HighestIs ==
    ASSUME NEW lines \in SUBSET Line, IsFiniteSet(lines)
    PROVE  /\ Highest(lines) \in {NoKey} \union Keys(lines) /\ Highest(lines) \in AllKeys
           /\ \A l \in lines : ~Sooner(Highest(lines), Key(l))
<1>1. CASE lines = {}
  BY <1>1, KeysAre DEF Highest
<1>2. CASE lines # {}
  <2> DEFINE past(l) == {x \in lines : Sooner(Key(l), Key(x))}
             pasts == {past(l) : l \in lines}
  <2>1. pasts \subseteq FiniteSubsetsOf(lines) /\ pasts # {}
    <3>1. \A l : past(l) \in SUBSET lines /\ IsFiniteSet(past(l))
      BY FS_Subset
    <3> QED BY <1>2, <3>1 DEF FiniteSubsetsOf
  <2>2. PICK least \in pasts : \A some \in pasts : <<some, least>> \notin StrictSubsetOrdering(lines)
    <3>1. IsWellFoundedOn(StrictSubsetOrdering(lines), FiniteSubsetsOf(lines))
      BY FS_StrictSubsetOrderingWellFounded
    <3> HIDE DEF pasts
    <3> QED BY <2>1, <3>1, WFMin
  <2>3. PICK top \in lines : least = past(top)
    BY <2>2
  <2>4. \A l \in lines : Key(l) \in AllKeys
    BY KeysAre
  <2>5. ASSUME NEW l \in lines, Sooner(Key(top), Key(l)) PROVE FALSE
    <3>1. past(l) \in SUBSET lines /\ l \in past(top) /\ l \notin past(l)
      BY <2>4, <2>5, SoonerIs
    <3>2. \A x \in past(l) : x \in past(top)
      BY <2>4, <2>5, SoonerIs
    <3>3. <<past(l), past(top)>> \in StrictSubsetOrdering(lines)
      BY <3>1, <3>2 DEF StrictSubsetOrdering
    <3> QED BY <2>2, <2>3, <3>3
  <2>6. Key(top) \in Keys(lines) /\ \A l \in lines : ~Sooner(Key(top), Key(l))
    BY <2>5, KeysOf
  <2>7. Highest(lines) \in Keys(lines) /\ \A l \in lines : ~Sooner(Highest(lines), Key(l))
    BY <1>2, <2>6 DEF Highest
  <2> QED BY <2>4, <2>7, KeysOf
<1> QED BY <1>1, <1>2

LEMMA MarkedIs ==
    ASSUME NEW lines \in SUBSET Line, IsFiniteSet(lines), NEW had \in AllKeys
    PROVE  /\ MarkedUp(had, lines) \in {had, NoKey} \union Keys(lines)
           /\ MarkedUp(had, lines) \in AllKeys
           /\ \A k \in AllKeys : ~Sooner(had, k) => ~Sooner(MarkedUp(had, lines), k)
           /\ \A l \in lines : ~Sooner(MarkedUp(had, lines), Key(l))
<1> DEFINE top == Highest(lines)
<1>1. top \in {NoKey} \union Keys(lines) /\ top \in AllKeys /\ \A l \in lines : ~Sooner(top, Key(l))
  BY HighestIs
<1>2. \A l \in lines : Key(l) \in AllKeys
  BY KeysAre
<1>3. MarkedUp(had, lines) = IF Sooner(had, top) THEN top ELSE had
  BY DEF MarkedUp
<1> HIDE DEF top
<1>4. CASE Sooner(had, top)
  BY <1>1, <1>2, <1>3, <1>4, SoonerIs
<1>5. CASE ~Sooner(had, top)
  BY <1>1, <1>2, <1>3, <1>5, SoonerIs
<1> QED BY <1>4, <1>5

-----------------------------------------------------------------------------
(* Types                                                                   *)

RowsOver(lines) == [Rows -> {Wrong} \union SUBSET Keys(lines)]

Older(some, more) == \A d \in Devices : some[d] \subseteq more[d]

\* The types, and that no fingerprint says more than the files hold.
TInv ==
    /\ TypeOK /\ IsFiniteSet(Told) /\ seen \in Prints
    /\ print # None => Older(print, files)
    /\ \A p \in Programs : looked[p] # None => Older(looked[p], files)

LEMMA RowsGrow ==
    ASSUME NEW some, NEW more, some \subseteq more, NEW rows \in RowsOver(some)
    PROVE  rows \in RowsOver(more)
BY KeysGrow DEF RowsOver

LEMMA ReplayIn ==
    ASSUME NEW lines, NEW more, lines \subseteq more
    PROVE  Replay(lines) \in RowsOver(more)
BY KeysGrow DEF Replay, RowsOver

LEMMA AppliedIn ==
    ASSUME NEW more, NEW rows \in RowsOver(more), NEW lines, lines \subseteq more
    PROVE  Applied(rows, lines) \in RowsOver(more)
<1>1. \A r \in Rows : rows[r] \in {Wrong} \union SUBSET Keys(more) /\ Keys(Reached(lines, r)) \subseteq Keys(more)
  BY KeysGrow DEF RowsOver
<1>2. \A r \in Rows : After(rows[r], Keys(Reached(lines, r))) \in {Wrong} \union SUBSET Keys(more)
  BY <1>1 DEF After
<1> QED BY <1>2 DEF Applied, RowsOver

LEMMA TypesGive ==
    ASSUME TInv
    PROVE  /\ files \in Prints /\ Told \in SUBSET Line /\ IsFiniteSet(Told)
           /\ \A d \in Devices : files[d] \subseteq Told
           /\ kept \in RowsOver(Told) /\ shown \in RowsOver(Told)
           /\ \A p \in Programs : got[p] \in RowsOver(Told) /\ tail[p] \in SUBSET Told
           /\ last \in {NoKey} \union Keys(Told) /\ last \in AllKeys
           /\ got \in [Programs -> RowsOver(Told)] /\ tail \in [Programs -> SUBSET Told]
           /\ seen \in Prints /\ Older(seen, files) /\ files[Window] \subseteq Told
<1>1. files \in Prints /\ Told \in SUBSET Line /\ \A d \in Devices : files[d] \subseteq Told
  BY DEF TInv, TypeOK, Prints, Told
<1>2. last \in AllKeys
  BY <1>1, KeysGrow DEF TInv, TypeOK, AllKeys
<1>3. Window \in Devices
  BY ProjectionAssumption DEF ProjectionAssumption
<1> QED BY <1>1, <1>2, <1>3 DEF TInv, TypeOK, RowsOf, RowsOver, Older

LEMMA NoneIs == None \notin Line /\ None \notin Prints /\ Window \in Devices /\ Window \in Programs
BY LineAssumption, ProjectionAssumption DEF ProjectionAssumption, Prints, Programs

\* What of the types is left to show of a step that writes no line.
LEMMA TypesAgain ==
    ASSUME TInv, files' = files,
           print' \in {None} \union Prints, print' # None => Older(print', files),
           kept' \in RowsOver(Told), last' \in {NoKey} \union Keys(Told),
           pc' \in [Programs -> {"idle", "load", "reach", "store", "mark", "done"}],
           looked' \in [Programs -> {None} \union Prints],
           \A p \in Programs : (pc'[p] = "idle") <=> (looked'[p] = None),
           \A p \in Programs : looked'[p] # None => Older(looked'[p], files),
           got' \in [Programs -> RowsOver(Told)], tail' \in [Programs -> SUBSET Told],
           shown' \in RowsOver(Told), seen' \in Prints, Older(seen', files),
           behind' \in BOOLEAN, pending' \in {None} \union files[Window],
           overtaken' \in BOOLEAN, mine' \subseteq files[Window], crashes' \in 0 .. MaxCrashes
    PROVE  TInv'
<1>1. Told' = Told
  BY DEF Told
<1>2. TypeOK'
  <2>1. RowsOf' = RowsOver(Told)
    BY <1>1 DEF RowsOf, RowsOver
  <2>2. files \in Prints
    BY DEF TInv, TypeOK
  <2> QED BY <1>1, <2>1, <2>2 DEF TypeOK, Older
<1>3. IsFiniteSet(Told')
  BY <1>1 DEF TInv
<1> QED BY <1>2, <1>3 DEF TInv, Older

LEMMA LineAdded ==
    ASSUME TInv, NEW d \in Devices, NEW line \in Line,
           files' = [files EXCEPT ![d] = files[d] \union {line}]
    PROVE  /\ Told' = Told \union {line} /\ IsFiniteSet(Told') /\ files' \in Prints
           /\ \A e \in Devices : files[e] \subseteq files'[e]
           /\ line \in files'[d]
<1>1. files \in Prints
  BY DEF TInv, TypeOK
<1>2. files' \in Prints /\ files'[d] = files[d] \union {line}
      /\ \A e \in Devices \ {d} : files'[e] = files[e]
  BY <1>1 DEF Prints
<1>3. Told' = UNION {files'[e] : e \in Devices}
  BY DEF Told
<1>4. Told' = Told \union {line}
  <2>1. \A x : x \in Told' <=> \E e \in Devices : x \in files'[e]
    BY <1>3
  <2>2. \A x : x \in Told <=> \E e \in Devices : x \in files[e]
    BY DEF Told
  <2>3. \A x : x \in Told' <=> x \in Told \/ x = line
    BY <1>2, <2>1, <2>2
  <2> QED BY <2>3
<1>5. IsFiniteSet(Told')
  BY <1>4, FS_AddElement DEF TInv
<1> QED BY <1>2, <1>4, <1>5

LEMMA FreshIs ==
    ASSUME TInv, NEW p \in Programs
    PROVE  Fresh(p) \subseteq Told
BY DEF Fresh, Grown, Told

LEMMA EmptyTypes ==
    ASSUME TInv, NEW p \in Programs, Empty(p)
    PROVE  /\ pc' \in [Programs -> {"idle", "load", "reach", "store", "mark", "done"}]
           /\ looked' \in [Programs -> {None} \union Prints]
           /\ \A q \in Programs : (pc'[q] = "idle") <=> (looked'[q] = None)
           /\ \A q \in Programs : looked'[q] # None => Older(looked'[q], files)
           /\ got' \in [Programs -> RowsOver(Told)] /\ tail' \in [Programs -> SUBSET Told]
<1>1. Nothing \in RowsOver(Told)
  BY DEF Nothing, RowsOver
<1>2. got' \in [Programs -> RowsOver(Told)] /\ tail' \in [Programs -> SUBSET Told]
  BY <1>1, TypesGive DEF Empty
<1> QED BY <1>2 DEF TInv, TypeOK, Empty

\* What reached leaves of the rows.
Mixed(old, rows, lines) ==
    [r \in Rows |-> IF Reached(lines, r) # {} THEN rows[r] ELSE old[r]]

LEMMA MixedIn ==
    ASSUME NEW all, NEW old \in RowsOver(all), NEW rows \in RowsOver(all), NEW lines
    PROVE  Mixed(old, rows, lines) \in RowsOver(all)
BY DEF Mixed, RowsOver

\* One step of a projection.
LEMMA ProjectTypes ==
    ASSUME TInv, NEW p \in Programs, Project(p)
    PROVE  TInv'
<1> USE TypesGive, NoneIs
<1>0. /\ pc \in [Programs -> {"idle", "load", "reach", "store", "mark", "done"}]
      /\ looked \in [Programs -> {None} \union Prints]
      /\ \A q \in Programs : (pc[q] = "idle") <=> (looked[q] = None)
      /\ \A q \in Programs : looked[q] # None => Older(looked[q], files)
      /\ print \in {None} \union Prints /\ (print # None => Older(print, files))
      /\ behind \in BOOLEAN /\ pending \in {None} \union files[Window]
      /\ overtaken \in BOOLEAN /\ mine \subseteq files[Window] /\ crashes \in 0 .. MaxCrashes
  BY DEF TInv, TypeOK
<1>1. CASE Look(p)
  <2>1. Older(Now, files) /\ Now \in Prints
    BY DEF Older, Now
  <2> QED BY <1>0, <1>1, <2>1, TypesAgain DEF Look, cache, session
<1>2. CASE Load(p)
  BY <1>0, <1>2, TypesAgain DEF Load, cache, session
<1>3. CASE CatchUp(p)
  <2>1. Applied(kept, Fresh(p)) \in RowsOver(Told) /\ Fresh(p) \in SUBSET Told
    BY FreshIs, AppliedIn
  <2> QED BY <1>0, <1>3, <2>1, TypesAgain DEF CatchUp, cache, session
<1>4. CASE ReadAll(p)
  <2>1. Replay(Told) \in RowsOver(Told)
    BY ReplayIn
  <2> QED BY <1>0, <1>4, <2>1, TypesAgain DEF ReadAll, cache, session
<1>5. CASE Store(p)
  BY <1>0, <1>5, TypesAgain DEF Store, session
<1>6. CASE Reach(p)
  <2>1. looked[p] \in Prints /\ Older(looked[p], files) /\ got[p] \in RowsOver(Told)
    BY <1>0, <1>6 DEF Reach
  <2>2. /\ print' \in {None, print, looked[p]}
        /\ kept' \in {kept, Mixed(kept, got[p], tail[p])}
    BY <1>6 DEF Reach, Stepped, Mixed
  <2>5. /\ print' \in {None} \union Prints /\ (print' # None => Older(print', files))
        /\ kept' \in RowsOver(Told)
    BY <1>0, <2>1, <2>2, MixedIn
  <2>3. pc' \in [Programs -> {"idle", "load", "reach", "store", "mark", "done"}]
        /\ \A q \in Programs : pc'[q] = "idle" <=> pc[q] = "idle"
    BY <1>0, <1>6 DEF Reach
  <2>4. /\ files' = files /\ last' = last /\ looked' = looked /\ got' = got /\ tail' = tail
        /\ shown' = shown /\ seen' = seen /\ behind' = behind /\ pending' = pending
        /\ overtaken' = overtaken /\ mine' = mine /\ crashes' = crashes
    BY <1>6 DEF Reach, session
  <2> QED BY <1>0, <2>5, <2>3, <2>4, TypesAgain
<1>7. CASE Mark(p)
  <2>1. tail[p] \in SUBSET Line /\ IsFiniteSet(tail[p])
    BY FS_Subset
  <2>2. MarkedUp(last, tail[p]) \in {last, NoKey} \union Keys(tail[p])
    BY <2>1, MarkedIs
  <2>3. MarkedUp(last, tail[p]) \in {NoKey} \union Keys(Told)
    BY <2>2, KeysGrow
  <2> QED BY <1>0, <1>7, <2>3, TypesAgain DEF Mark, session
<1> QED BY <1>1, <1>2, <1>3, <1>4, <1>5, <1>6, <1>7 DEF Project

\* The other steps that write no line.
LEMMA AnswerTypes ==
    ASSUME TInv, NEW p \in Programs, Answered(p) \/ Crash(p)
    PROVE  TInv'
<1>1. Empty(p)
  BY DEF Answered, Crash
<1>2. /\ files' = files /\ print' = print /\ kept' = kept /\ last' = last /\ shown' = shown
      /\ seen' = seen /\ behind' = behind /\ pending' = pending /\ overtaken' = overtaken
      /\ mine' = mine
  BY DEF Answered, Crash, cache, session
<1>3. crashes \in 0 .. MaxCrashes /\ MaxCrashes \in Nat
  BY ProjectionAssumption DEF ProjectionAssumption, TInv, TypeOK
<1>4. crashes' \in 0 .. MaxCrashes
  BY <1>3 DEF Answered, Crash
<1>5. /\ print \in {None} \union Prints /\ (print # None => Older(print, files))
      /\ behind \in BOOLEAN /\ pending \in {None} \union files[Window]
      /\ overtaken \in BOOLEAN /\ mine \subseteq files[Window]
  BY DEF TInv, TypeOK
<1> QED BY <1>1, <1>2, <1>4, <1>5, TypesGive, EmptyTypes, TypesAgain

LEMMA AdoptTypes ==
    ASSUME TInv, Adopt
    PROVE  TInv'
<1>1. Empty(Window) /\ Window \in Programs
  BY NoneIs DEF Adopt
<1>2. looked[Window] \in Prints /\ Older(looked[Window], files) /\ got[Window] \in RowsOver(Told)
  BY NoneIs, TypesGive DEF Adopt, TInv, TypeOK
<1>3. /\ files' = files /\ print' = print /\ kept' = kept /\ last' = last
      /\ shown' \in RowsOver(Told) /\ seen' \in Prints /\ Older(seen', files) /\ behind' \in BOOLEAN
      /\ pending' = pending /\ overtaken' = overtaken /\ mine' = mine /\ crashes' = crashes
  BY <1>2 DEF Adopt, cache
<1>4. /\ print \in {None} \union Prints /\ (print # None => Older(print, files))
      /\ pending \in {None} \union files[Window] /\ crashes \in 0 .. MaxCrashes
      /\ overtaken \in BOOLEAN /\ mine \subseteq files[Window]
  BY DEF TInv, TypeOK
<1> QED BY <1>1, <1>3, <1>4, TypesGive, EmptyTypes, TypesAgain

LEMMA WindowTypes ==
    ASSUME TInv, FellBehind \/ CarryOn
    PROVE  TInv'
<1> USE TypesGive, NoneIs
<1>0. /\ pc \in [Programs -> {"idle", "load", "reach", "store", "mark", "done"}]
      /\ looked \in [Programs -> {None} \union Prints]
      /\ \A q \in Programs : (pc[q] = "idle") <=> (looked[q] = None)
      /\ \A q \in Programs : looked[q] # None => Older(looked[q], files)
      /\ print \in {None} \union Prints /\ (print # None => Older(print, files))
      /\ behind \in BOOLEAN /\ pending \in {None} \union files[Window]
      /\ overtaken \in BOOLEAN /\ mine \subseteq files[Window] /\ crashes \in 0 .. MaxCrashes
  BY DEF TInv, TypeOK
<1>1. CASE FellBehind
  BY <1>0, <1>1, TypesAgain DEF FellBehind, cache, inFlight
<1>2. CASE CarryOn
  <2>1. Older(Now, files) /\ Now \in Prints
    BY DEF Older, Now
  <2>2. /\ print' \in {print, None, Now} /\ kept' \in {kept, Mixed(kept, shown, {pending})}
        /\ last' \in {last, MarkedUp(last, {pending})}
    BY <1>2 DEF CarryOn, Stepped, Mixed, cache
  <2>3. pending \in Told /\ pending \in Line
    BY <1>0, <1>2 DEF CarryOn
  <2>4. MarkedUp(last, {pending}) \in {last, NoKey} \union Keys({pending})
    BY <2>3, MarkedIs, FS_Singleton
  <2>5. MarkedUp(last, {pending}) \in {NoKey} \union Keys(Told)
    BY <2>3, <2>4, KeysOf
  <2>6. Mixed(kept, shown, {pending}) \in RowsOver(Told)
    BY MixedIn
  <2>7. /\ files' = files /\ pc' = pc /\ looked' = looked /\ got' = got /\ tail' = tail
        /\ shown' = shown /\ seen' = Now /\ behind' = behind /\ pending' = None
        /\ overtaken' = overtaken /\ mine' = mine /\ crashes' = crashes
    BY <1>2 DEF CarryOn, inFlight
  <2> QED BY <1>0, <2>1, <2>2, <2>5, <2>6, <2>7, TypesAgain
<1> QED BY <1>1, <1>2

\* A line that is written.
LEMMA LineTypes ==
    ASSUME TInv, NEW d \in Devices, NEW line \in Line,
           files' = [files EXCEPT ![d] = files[d] \union {line}],
           UNCHANGED <<print, kept, last, pc, looked, got, tail, seen, behind, crashes>>,
           shown' \in RowsOver(Told'), pending' \in {None} \union files'[Window],
           overtaken' \in BOOLEAN, mine' \subseteq files'[Window]
    PROVE  TInv'
<1>1. /\ Told \subseteq Told' /\ IsFiniteSet(Told') /\ files' \in Prints
      /\ \A e \in Devices : files[e] \subseteq files'[e]
  BY LineAdded
<1>2. /\ kept \in RowsOver(Told') /\ \A p \in Programs : got[p] \in RowsOver(Told')
  BY <1>1, TypesGive, RowsGrow
<1>3. last \in {NoKey} \union Keys(Told') /\ \A p \in Programs : tail[p] \in SUBSET Told'
  BY <1>1, TypesGive, KeysGrow
<1>4. RowsOf' = RowsOver(Told')
  BY DEF RowsOf, RowsOver
<1>5. got \in [Programs -> RowsOver(Told')] /\ tail \in [Programs -> SUBSET Told']
  BY <1>2, <1>3, TypesGive
<1>6. Older(seen, files') /\ (print # None => Older(print, files'))
      /\ \A p \in Programs : looked[p] # None => Older(looked[p], files')
  BY <1>1, TypesGive DEF TInv, Older
<1>7. /\ print \in {None} \union Prints
      /\ pc \in [Programs -> {"idle", "load", "reach", "store", "mark", "done"}]
      /\ looked \in [Programs -> {None} \union Prints]
      /\ \A p \in Programs : (pc[p] = "idle") <=> (looked[p] = None)
      /\ behind \in BOOLEAN /\ crashes \in 0 .. MaxCrashes /\ seen \in Prints
  BY DEF TInv, TypeOK
<1>8. TypeOK'
  BY <1>1, <1>2, <1>3, <1>4, <1>5, <1>6, <1>7 DEF TypeOK, Older
<1> QED BY <1>1, <1>6, <1>7, <1>8 DEF TInv, Older

LEMMA ArriveTypes ==
    ASSUME TInv, NEW d \in Devices, Arrive(d)
    PROVE  TInv'
<1>1. PICK at \in Stamped(d), reaches \in Rows \union {All} :
          files' = [files EXCEPT ![d] = @ \union {[dev |-> d, at |-> at, reaches |-> reaches]}]
  BY DEF Arrive
<1> DEFINE line == [dev |-> d, at |-> at, reaches |-> reaches]
<1>2. line \in Line /\ files' = [files EXCEPT ![d] = files[d] \union {line}]
  BY <1>1 DEF Line, Stamped
<1> HIDE DEF line
<1>3. /\ UNCHANGED <<print, kept, last, pc, looked, got, tail, seen, behind, crashes>>
      /\ UNCHANGED <<shown, pending, overtaken, mine>>
  BY DEF Arrive, cache, inFlight, session
<1>4. Told \subseteq Told' /\ \A e \in Devices : files[e] \subseteq files'[e]
  BY <1>2, LineAdded
<1>5. shown' \in RowsOver(Told')
  BY <1>3, <1>4, TypesGive, RowsGrow
<1>6. pending' \in {None} \union files'[Window] /\ mine' \subseteq files'[Window] /\ overtaken' \in BOOLEAN
  BY <1>3, <1>4, NoneIs DEF TInv, TypeOK
<1> QED BY <1>2, <1>3, <1>5, <1>6, LineTypes

LEMMA CommitTypes ==
    ASSUME TInv, Commit
    PROVE  TInv'
<1>1. PICK at \in Stamped(Window), reaches \in Rows \union {All} :
          /\ files' = [files EXCEPT ![Window] = @ \union {[dev |-> Window, at |-> at, reaches |-> reaches]}]
          /\ shown' = Applied(shown, {[dev |-> Window, at |-> at, reaches |-> reaches]})
          /\ pending' = [dev |-> Window, at |-> at, reaches |-> reaches]
  BY DEF Commit
<1> DEFINE line == [dev |-> Window, at |-> at, reaches |-> reaches]
<1>2. /\ line \in Line /\ files' = [files EXCEPT ![Window] = files[Window] \union {line}]
      /\ shown' = Applied(shown, {line}) /\ pending' = line
  BY <1>1, NoneIs DEF Line, Stamped
<1> HIDE DEF line
<1>3. UNCHANGED <<print, kept, last, pc, looked, got, tail, seen, behind, crashes>>
  BY DEF Commit, cache, inFlight
<1>4. Told' = Told \union {line} /\ line \in files'[Window]
  BY <1>2, LineAdded, NoneIs
<1>5. shown \in RowsOver(Told')
  BY <1>4, TypesGive, RowsGrow
<1>6. shown' \in RowsOver(Told')
  <2>1. {line} \subseteq Told'
    BY <1>4
  <2> QED BY <1>2, <1>5, <2>1, AppliedIn
<1>7. overtaken' \in BOOLEAN /\ mine' \subseteq files'[Window]
  BY DEF Commit, TInv, TypeOK
<1> QED BY <1>2, <1>3, <1>4, <1>6, <1>7, NoneIs, LineTypes

LEMMA InitTypes ==
    ASSUME Init
    PROVE  TInv
<1>1. Joined \in Prints
  <2>1. \A d \in Devices : [dev |-> d, at |-> 1, reaches |-> All] \in Line
    BY ProjectionAssumption DEF ProjectionAssumption, Line
  <2> QED BY <2>1 DEF Joined, Prints
<1>2. files = Joined /\ Told \subseteq Line
  BY <1>1 DEF Init, Told, Prints
<1>3. IsFiniteSet(Told)
  <2>1. IsFiniteSet(Devices)
    BY ProjectionAssumption DEF ProjectionAssumption
  <2> DEFINE F == [d \in Devices |-> [dev |-> d, at |-> 1, reaches |-> All]]
  <2>2. IsFiniteSet({[dev |-> d, at |-> 1, reaches |-> All] : d \in Devices})
    <3>1. F \in Surjection(Devices, {[dev |-> d, at |-> 1, reaches |-> All] : d \in Devices})
      BY DEF Surjection
    <3> QED BY <2>1, <3>1, FS_Surjection
  <2>3. Told \subseteq {[dev |-> d, at |-> 1, reaches |-> All] : d \in Devices}
    BY <1>2 DEF Told, Joined
  <2> QED BY <2>2, <2>3, FS_Subset
<1>4. Highest(Told) \in {NoKey} \union Keys(Told)
  BY <1>2, <1>3, HighestIs
<1>5. Replay(Told) \in RowsOver(Told) /\ Nothing \in RowsOver(Told)
  BY ReplayIn DEF Nothing, RowsOver
<1>6. /\ print = files /\ seen = files /\ kept = Replay(Told) /\ shown = Replay(Told)
      /\ last = Highest(Told) /\ behind = FALSE /\ pending = None /\ overtaken = FALSE
      /\ mine = files[Window] /\ crashes = 0 /\ pc = [p \in Programs |-> "idle"]
      /\ looked = [p \in Programs |-> None] /\ got = [p \in Programs |-> Nothing]
      /\ tail = [p \in Programs |-> {}]
  BY DEF Init, Now
<1>7. MaxCrashes \in Nat
  BY ProjectionAssumption DEF ProjectionAssumption
<1>8. RowsOf = RowsOver(Told)
  BY DEF RowsOf, RowsOver
<1>9. got \in [Programs -> RowsOver(Told)] /\ tail \in [Programs -> SUBSET Told]
  BY <1>5, <1>6
<1>10. TypeOK
  <2>1. /\ files \in Prints /\ print \in {None} \union Prints /\ kept \in RowsOf
        /\ last \in {NoKey} \union Keys(Told)
        /\ got \in [Programs -> RowsOf] /\ tail \in [Programs -> SUBSET Told] /\ shown \in RowsOf
    BY <1>1, <1>2, <1>4, <1>5, <1>6, <1>8, <1>9
  <2>2. /\ pc \in [Programs -> {"idle", "load", "reach", "store", "mark", "done"}]
        /\ looked \in [Programs -> {None} \union Prints]
        /\ \A p \in Programs : (pc[p] = "idle") <=> (looked[p] = None)
    BY <1>6
  <2>3. behind \in BOOLEAN /\ overtaken \in BOOLEAN
    BY <1>6
  <2>4. crashes \in 0 .. MaxCrashes
    BY <1>6, <1>7
  <2>5. /\ \A d \in Devices : seen[d] \subseteq files[d]
        /\ pending \in {None} \union files[Window] /\ mine \subseteq files[Window]
    BY <1>6
  <2> QED BY <2>1, <2>2, <2>3, <2>4, <2>5 DEF TypeOK
<1> QED BY <1>1, <1>2, <1>3, <1>6, <1>10 DEF TInv, Older

LEMMA StepTypes ==
    ASSUME TInv, [Next]_vars
    PROVE  TInv'
<1>1. CASE UNCHANGED vars
  <2>1. /\ UNCHANGED <<files, print, kept, last, pc, looked, got, tail>>
        /\ UNCHANGED <<shown, seen, behind, pending, overtaken, mine, crashes>>
    BY <1>1 DEF vars, cache, inFlight, session
  <2> QED BY <2>1 DEF TInv, TypeOK, RowsOf, Told
<1>2. CASE Next
  <2>1. CASE \E p \in Programs : Project(p) \/ Answered(p) \/ Crash(p)
    BY <2>1, ProjectTypes, AnswerTypes
  <2>2. CASE \E d \in Devices : Arrive(d)
    BY <2>2, ArriveTypes
  <2>3. CASE Adopt \/ FellBehind \/ Commit \/ CarryOn
    BY <2>3, AdoptTypes, WindowTypes, CommitTypes
  <2> QED BY <1>2, <2>1, <2>2, <2>3 DEF Next
<1> QED BY <1>1, <1>2

-----------------------------------------------------------------------------
\* Every variable keeps its type, and nobody has in hand, shows or believes in a line that is not
\* in the files: what caught_up, projected, advance and adopt leave behind, whoever writes the
\* cache last.
THEOREM TypeCorrect == Spec => []TypeOK
<1>1. Init => TInv
  BY InitTypes
<1>2. TInv /\ [Next]_vars => TInv'
  BY StepTypes
<1>3. TInv => TypeOK
  BY DEF TInv
<1> QED BY <1>1, <1>2, <1>3, PTL DEF Spec

-----------------------------------------------------------------------------
(* What rows hold                                                          *)

\* Rows that were applied in order, with some lines in them for certain and no others than these.
Holds(rows, some, all) ==
    \A r \in Rows : /\ rows[r] # Wrong
                    /\ Keys(Reached(some, r)) \subseteq rows[r]
                    /\ rows[r] \subseteq Keys(Reached(all, r))

LEMMA HoldsMore ==
    ASSUME NEW rows, NEW some, NEW all, Holds(rows, some, all),
           NEW less, less \subseteq some, NEW more, all \subseteq more
    PROVE  Holds(rows, less, more)
<1>1. \A r : /\ Keys(Reached(less, r)) \subseteq Keys(Reached(some, r))
             /\ Keys(Reached(all, r)) \subseteq Keys(Reached(more, r))
  BY KeysGrow
<1> QED BY <1>1 DEF Holds

LEMMA HoldsWhole ==
    ASSUME NEW all, NEW rows \in RowsOver(all), Holds(rows, all, all)
    PROVE  rows = Replay(all)
<1>1. rows = [r \in Rows |-> rows[r]]
  BY DEF RowsOver
<1>2. \A r \in Rows : rows[r] = Keys(Reached(all, r))
  BY DEF Holds
<1> QED BY <1>1, <1>2 DEF Replay

\* A row that lines reached is not Wrong.
LEMMA NotWrong ==
    ASSUME NEW all \in SUBSET Line, NEW keys \in SUBSET Keys(all)
    PROVE  keys # Wrong
BY KeysAre DEF Wrong, Keys

LEMMA ReplayHolds ==
    ASSUME NEW all \in SUBSET Line, NEW some, some \subseteq all
    PROVE  Holds(Replay(all), some, all)
<1>1. \A r : /\ Keys(Reached(some, r)) \subseteq Keys(Reached(all, r))
             /\ Keys(Reached(all, r)) \subseteq Keys(all)
  BY KeysGrow
<1>2. \A r : Keys(Reached(all, r)) # Wrong
  BY <1>1, NotWrong
<1> QED BY <1>1, <1>2 DEF Holds, Replay

LEMMA AppliedIs ==
    ASSUME NEW some, NEW all, NEW rows, Holds(rows, some, all), NEW lines,
           \A r \in Rows : \A k \in rows[r] : \A l \in lines : Sooner(k, Key(l)),
           NEW r \in Rows
    PROVE  Applied(rows, lines)[r] = rows[r] \union Keys(Reached(lines, r))
<1>1. rows[r] # Wrong
  BY DEF Holds
<1>2. \A k \in rows[r], n \in Keys(Reached(lines, r)) : Sooner(k, n)
  BY KeysOf, ReachedIs
<1> QED BY <1>1, <1>2 DEF After, Applied

LEMMA AppliedHolds ==
    ASSUME NEW more \in SUBSET Line, NEW all, all \subseteq more,
           NEW some, NEW rows, Holds(rows, some, all),
           NEW lines, lines \subseteq more, NEW whole, whole \subseteq some \union lines,
           \A r \in Rows : \A k \in rows[r] : \A l \in lines : Sooner(k, Key(l))
    PROVE  Holds(Applied(rows, lines), whole, more)
<1> SUFFICES ASSUME NEW r \in Rows
             PROVE  LET row == Applied(rows, lines)[r]
                    IN  /\ row # Wrong
                        /\ Keys(Reached(whole, r)) \subseteq row
                        /\ row \subseteq Keys(Reached(more, r))
  BY DEF Holds
<1>1. /\ Keys(Reached(some, r)) \subseteq rows[r]
      /\ rows[r] \subseteq Keys(Reached(all, r))
  BY DEF Holds
<1>3. Applied(rows, lines)[r] = rows[r] \union Keys(Reached(lines, r))
  BY AppliedIs
<1>4. /\ Keys(Reached(all, r)) \subseteq Keys(Reached(more, r))
      /\ Keys(Reached(lines, r)) \subseteq Keys(Reached(more, r))
      /\ Keys(Reached(more, r)) \subseteq Keys(more)
  BY KeysGrow
<1>5. Keys(Reached(whole, r)) \subseteq Keys(Reached(some, r)) \union Keys(Reached(lines, r))
  BY ReachedIs, KeysOf
<1>6. rows[r] \union Keys(Reached(lines, r)) \in SUBSET Keys(more)
  BY <1>1, <1>4
<1> QED BY <1>1, <1>3, <1>4, <1>5, <1>6, NotWrong

LEMMA MixedHolds ==
    ASSUME NEW all, NEW rows, Holds(rows, all, all), NEW some, NEW old, Holds(old, some, all),
           NEW line, all \ {line} \subseteq some
    PROVE  Holds(Mixed(old, rows, {line}), all, all)
<1> SUFFICES ASSUME NEW r \in Rows
             PROVE  LET row == IF Reached({line}, r) # {} THEN rows[r] ELSE old[r]
                    IN  /\ row # Wrong
                        /\ Keys(Reached(all, r)) \subseteq row
                        /\ row \subseteq Keys(Reached(all, r))
  BY DEF Holds, Mixed
<1>1. CASE Reached({line}, r) # {}
  BY <1>1 DEF Holds
<1>2. CASE Reached({line}, r) = {}
  <2>1. Reached(all, r) \subseteq Reached(some, r)
    BY <1>2 DEF Reached
  <2>2. Keys(Reached(all, r)) \subseteq Keys(Reached(some, r))
    BY <2>1, KeysGrow
  <2> QED BY <1>2, <2>2 DEF Holds
<1> QED BY <1>1, <1>2

LEMMA RowKeys ==
    ASSUME NEW all \in SUBSET Line, NEW rows \in RowsOver(all), NEW r \in Rows, NEW k \in rows[r]
    PROVE  k \in AllKeys
<1>1. rows[r] = Wrong \/ rows[r] \subseteq Keys(all)
  BY DEF RowsOver
<1> QED BY <1>1, KeysGrow DEF Wrong, AllKeys

-----------------------------------------------------------------------------
(* The invariant                                                           *)

LinesOf(stamps) == UNION {stamps[d] : d \in Devices}

LEMMA LinesOlder ==
    ASSUME NEW some, NEW more, Older(some, more)
    PROVE  LinesOf(some) \subseteq LinesOf(more)
BY DEF LinesOf, Older

\* The cache holds what its fingerprint says, and nothing that its mark or a mark to come is not past.
KeptInv ==
    print # None =>
        /\ Holds(kept, LinesOf(print), Told)
        /\ \A r \in Rows : \A k \in kept[r] :
              ~Sooner(last, k) \/ \E p \in Programs : pc[p] = "mark" /\ k \in Keys(tail[p])

\* What a program has in hand holds what it looked at; while it adds one file's tail the cache
\* stays as it read it.
HandInv(p) ==
    /\ pc[p] \in {"reach", "store", "mark", "done"} => Holds(got[p], LinesOf(looked[p]), Told)
    /\ pc[p] = "store" => \A r \in Rows : got[p][r] \subseteq Keys(tail[p])
    /\ pc[p] = "reach" =>
          /\ print # None /\ print # looked[p] /\ Older(print, looked[p])
          /\ \A r \in Rows : Reached(tail[p], r) = {} => got[p][r] = kept[r]
          /\ \A r \in Rows : \A k \in got[p][r] : ~Sooner(last, k) \/ k \in Keys(tail[p])
          /\ pending # None => behind
          /\ \A q \in Programs \ {p} : pc[q] # "reach"

\* A window that does not know itself behind shows what it believes it stands at, and the line it
\* wrote and has not carried on is the latest of all and the only one the cache may lack.
ShownInv ==
    /\ ~behind => Holds(shown, LinesOf(seen), Told)
    /\ pending # None => \A l \in Told : l = pending \/ Sooner(Key(l), Key(pending))
    /\ pending # None /\ ~behind =>
          Holds(shown, Told, Told) /\ (print = None \/ Told \ {pending} \subseteq LinesOf(print))

IInv == KeptInv /\ (\A p \in Programs : HandInv(p)) /\ ShownInv

\* A step of one program that leaves the files, the cache and the window alone.
LEMMA Aside ==
    ASSUME IInv, NEW p \in Programs,
           UNCHANGED <<files, print, kept, last, shown, seen, behind, pending>>,
           \A q \in Programs \ {p} : /\ pc'[q] = pc[q] /\ looked'[q] = looked[q]
                                     /\ got'[q] = got[q] /\ tail'[q] = tail[q],
           pc[p] # "mark",
           pc'[p] = "reach" => \A q \in Programs \ {p} : pc[q] # "reach",
           HandInv(p)'
    PROVE  IInv'
<1>1. Told' = Told
  BY DEF Told
<1>2. KeptInv'
  <2>1. \A q \in Programs : pc[q] = "mark" => pc'[q] = "mark" /\ tail'[q] = tail[q]
    OBVIOUS
  <2> QED BY <1>1, <2>1 DEF IInv, KeptInv
<1>3. ASSUME NEW q \in Programs \ {p} PROVE HandInv(q)'
  <2>1. HandInv(q)
    BY DEF IInv
  <2>2. pc[q] = "reach" => \A o \in Programs \ {q} : pc'[o] # "reach"
    BY <2>1 DEF HandInv
  <2> QED BY <1>1, <2>1, <2>2 DEF HandInv
<1>4. ShownInv'
  BY <1>1 DEF IInv, ShownInv
<1> QED BY <1>2, <1>3, <1>4 DEF IInv

LEMMA LookKeeps ==
    ASSUME TInv, IInv, NEW p \in Programs, Look(p)
    PROVE  IInv'
<1>1. /\ pc[p] = "idle" /\ pc'[p] = "load"
      /\ \A q \in Programs \ {p} : /\ pc'[q] = pc[q] /\ looked'[q] = looked[q]
                                   /\ got'[q] = got[q] /\ tail'[q] = tail[q]
  BY DEF Look, TInv, TypeOK
<1>2. UNCHANGED <<files, print, kept, last, shown, seen, behind, pending>>
  BY DEF Look, cache, session
<1>3. HandInv(p)'
  BY <1>1 DEF HandInv
<1> QED BY <1>1, <1>2, <1>3, Aside

LEMMA LoadKeeps ==
    ASSUME TInv, IInv, NEW p \in Programs, Load(p)
    PROVE  IInv'
<1>1. /\ pc[p] = "load" /\ pc'[p] = "done" /\ got'[p] = kept /\ looked'[p] = looked[p]
      /\ print = looked[p]
      /\ \A q \in Programs \ {p} : /\ pc'[q] = pc[q] /\ looked'[q] = looked[q]
                                   /\ got'[q] = got[q] /\ tail'[q] = tail[q]
  BY DEF Load, TInv, TypeOK
<1>2. UNCHANGED <<files, print, kept, last, shown, seen, behind, pending>>
  BY DEF Load, cache, session
<1>3. print # None /\ Told' = Told
  BY <1>1, <1>2 DEF TInv, TypeOK, Told
<1>4. Holds(kept, LinesOf(looked[p]), Told)
  BY <1>1, <1>3 DEF IInv, KeptInv
<1>5. HandInv(p)'
  BY <1>1, <1>3, <1>4 DEF HandInv
<1> QED BY <1>1, <1>2, <1>5, Aside

LEMMA ReadAllKeeps ==
    ASSUME TInv, IInv, NEW p \in Programs, ReadAll(p)
    PROVE  IInv'
<1>1. /\ pc[p] = "load" /\ pc'[p] = "store" /\ looked'[p] = looked[p]
      /\ got'[p] = Replay(Told) /\ tail'[p] = Told
      /\ \A q \in Programs \ {p} : /\ pc'[q] = pc[q] /\ looked'[q] = looked[q]
                                   /\ got'[q] = got[q] /\ tail'[q] = tail[q]
  BY DEF ReadAll, TInv, TypeOK
<1>2. UNCHANGED <<files, print, kept, last, shown, seen, behind, pending>>
  BY DEF ReadAll, cache, session
<1>3. Told' = Told /\ Told = LinesOf(files)
  BY <1>2 DEF Told, LinesOf
<1>4. LinesOf(looked[p]) \subseteq Told
  BY <1>1, <1>3, LinesOlder DEF TInv, TypeOK
<1>5. Holds(Replay(Told), LinesOf(looked[p]), Told)
  BY <1>4, TypesGive, ReplayHolds
<1>6. \A r \in Rows : Replay(Told)[r] \subseteq Keys(Told)
  BY KeysGrow DEF Replay
<1>7. HandInv(p)'
  BY <1>1, <1>3, <1>5, <1>6 DEF HandInv
<1> QED BY <1>1, <1>2, <1>7, Aside

\* The whole of what a file has gained is in the tail, and nothing else was missing.
LEMMA GrownIs ==
    ASSUME TInv, NEW p \in Programs, looked[p] # None, Grown(print, looked[p]) # {}
    PROVE  /\ Older(print, looked[p])
           /\ LinesOf(looked[p]) \subseteq LinesOf(print) \union Fresh(p)
<1>1. PICK g \in Grown(print, looked[p]) : TRUE
  OBVIOUS
<1>2. g \in Devices /\ print[g] \subseteq looked[p][g] /\ \A e \in Devices \ {g} : print[e] = looked[p][e]
  BY <1>1 DEF Grown
<1>3. looked[p][g] \subseteq files[g]
  BY <1>2 DEF TInv, Older
<1>4. files[g] \ print[g] \subseteq Fresh(p)
  BY DEF Fresh
<1>5. Older(print, looked[p])
  BY <1>2 DEF Older
<1>6. ASSUME NEW l \in LinesOf(looked[p]) PROVE l \in LinesOf(print) \union Fresh(p)
  <2>1. PICK e \in Devices : l \in looked[p][e]
    BY DEF LinesOf
  <2>2. l \in print[e] \/ l \in Fresh(p)
    BY <1>2, <1>3, <1>4, <2>1
  <2> QED BY <2>2 DEF LinesOf
<1> QED BY <1>5, <1>6

LEMMA CatchUpKeeps ==
    ASSUME TInv, IInv, Mishaps = {}, NEW p \in Programs, CatchUp(p)
    PROVE  IInv'
<1>1. /\ pc[p] = "load" /\ pc'[p] = "reach" /\ looked'[p] = looked[p]
      /\ got'[p] = Applied(kept, Fresh(p)) /\ tail'[p] = Fresh(p)
      /\ \A q \in Programs \ {p} : /\ pc'[q] = pc[q] /\ looked'[q] = looked[q]
                                   /\ got'[q] = got[q] /\ tail'[q] = tail[q]
  BY DEF CatchUp, TInv, TypeOK
<1>2. UNCHANGED <<files, print, kept, last, shown, seen, behind, pending>>
  BY DEF CatchUp, cache, session
<1>3. /\ print # None /\ print # looked[p] /\ looked[p] # None /\ Grown(print, looked[p]) # {}
      /\ \A l \in Fresh(p) : Sooner(last, Key(l))
  BY <1>1 DEF CatchUp, Catchable, TInv, TypeOK
<1>4. /\ pending = None /\ \A q \in Programs \ {p} : pc[q] # "reach"
      /\ \A q \in Programs : pc[q] # "mark"
  BY <1>1 DEF CatchUp, Marked, Undisturbed
<1>5. Told' = Told
  BY <1>2 DEF Told
<1>6. /\ Holds(kept, LinesOf(print), Told)
      /\ \A r \in Rows : \A k \in kept[r] : ~Sooner(last, k)
  BY <1>3, <1>4 DEF IInv, KeptInv
<1>7. Fresh(p) \in SUBSET Told /\ Told \in SUBSET Line /\ kept \in RowsOver(Told) /\ last \in AllKeys
  BY TypesGive, FreshIs
<1>8. \A r \in Rows : \A k \in kept[r] : \A l \in Fresh(p) : Sooner(k, Key(l))
  <2>1. \A r \in Rows : \A k \in kept[r] : k \in AllKeys
    BY <1>7, RowKeys
  <2>2. \A l \in Fresh(p) : Key(l) \in AllKeys
    BY <1>7, KeysAre
  <2> QED BY <1>3, <1>6, <1>7, <2>1, <2>2, SoonerIs
<1>9. Older(print, looked[p]) /\ LinesOf(looked[p]) \subseteq LinesOf(print) \union Fresh(p)
  BY <1>3, GrownIs
<1> DEFINE rows == Applied(kept, Fresh(p))
<1>10. \A r \in Rows : rows[r] = kept[r] \union Keys(Reached(Fresh(p), r))
  BY <1>6, <1>8, AppliedIs
<1>11. Holds(rows, LinesOf(looked[p]), Told)
  BY <1>6, <1>7, <1>8, <1>9, AppliedHolds
<1>12. got'[p] = rows
  BY <1>1
<1> HIDE DEF rows
<1>13. \A r \in Rows : Reached(Fresh(p), r) = {} => rows[r] = kept[r]
  BY <1>10 DEF Keys
<1>14. \A r \in Rows : \A k \in rows[r] : ~Sooner(last, k) \/ k \in Keys(Fresh(p))
  BY <1>6, <1>10, KeysGrow
<1>15. HandInv(p)'
  BY <1>1, <1>2, <1>3, <1>4, <1>5, <1>9, <1>11, <1>12, <1>13, <1>14 DEF HandInv
<1> QED BY <1>1, <1>2, <1>4, <1>15, Aside

LEMMA AnswerKeeps ==
    ASSUME TInv, IInv, Mishaps = {}, NEW p \in Programs, Answered(p) \/ Crash(p)
    PROVE  IInv'
<1>1. /\ pc[p] # "mark" /\ pc'[p] = "idle"
      /\ \A q \in Programs \ {p} : /\ pc'[q] = pc[q] /\ looked'[q] = looked[q]
                                   /\ got'[q] = got[q] /\ tail'[q] = tail[q]
  BY DEF Answered, Crash, Empty, TInv, TypeOK
<1>2. UNCHANGED <<files, print, kept, last, shown, seen, behind, pending>>
  BY DEF Answered, Crash, cache, session
<1>3. HandInv(p)'
  BY <1>1 DEF HandInv
<1> QED BY <1>1, <1>2, <1>3, Aside

LEMMA AdoptKeeps ==
    ASSUME TInv, IInv, Adopt
    PROVE  IInv'
<1>1. /\ Window \in Programs /\ pc[Window] = "done" /\ pc'[Window] = "idle"
      /\ \A q \in Programs \ {Window} : /\ pc'[q] = pc[q] /\ looked'[q] = looked[q]
                                        /\ got'[q] = got[q] /\ tail'[q] = tail[q]
  BY NoneIs DEF Adopt, Empty, TInv, TypeOK
<1>2. /\ UNCHANGED <<files, print, kept, last, pending>> /\ pending = None
      /\ shown' = got[Window] /\ seen' = looked[Window]
  BY DEF Adopt, cache
<1>3. Told' = Told
  BY <1>2 DEF Told
<1>4. KeptInv'
  <2>1. \A q \in Programs : pc[q] = "mark" => pc'[q] = "mark" /\ tail'[q] = tail[q]
    BY <1>1
  <2> QED BY <1>2, <1>3, <2>1 DEF IInv, KeptInv
<1>5. ASSUME NEW q \in Programs PROVE HandInv(q)'
  <2>1. HandInv(q)
    BY DEF IInv
  <2>2. pc'[q] = "reach" => \A o \in Programs \ {q} : pc'[o] # "reach"
    BY <1>1, <2>1 DEF HandInv
  <2>3. CASE q = Window
    BY <1>1, <2>3 DEF HandInv
  <2>4. CASE q # Window
    BY <1>1, <1>2, <1>3, <2>1, <2>2, <2>4 DEF HandInv
  <2> QED BY <2>3, <2>4
<1>6. Holds(got[Window], LinesOf(looked[Window]), Told)
  BY <1>1 DEF IInv, HandInv
<1>7. ShownInv'
  BY <1>2, <1>3, <1>6 DEF ShownInv
<1> QED BY <1>4, <1>5, <1>7 DEF IInv

LEMMA FellBehindKeeps ==
    ASSUME IInv, FellBehind
    PROVE  IInv'
<1>1. /\ UNCHANGED <<files, print, kept, last, pc, looked, got, tail, shown, seen, pending>>
      /\ behind' = TRUE /\ pending = None
  BY DEF FellBehind, cache, inFlight
<1>2. Told' = Told
  BY <1>1 DEF Told
<1>3. KeptInv'
  BY <1>1, <1>2 DEF IInv, KeptInv
<1>4. ShownInv'
  BY <1>1 DEF ShownInv
<1>5. \A p \in Programs : HandInv(p)'
  BY <1>1, <1>2 DEF IInv, HandInv
<1> QED BY <1>3, <1>4, <1>5 DEF IInv

\* The steps that change the cache.
LEMMA StoreKeeps ==
    ASSUME TInv, IInv, Mishaps = {}, NEW p \in Programs, Store(p)
    PROVE  IInv'
<1>1. /\ pc[p] = "store" /\ pc'[p] = "mark" /\ print' = looked[p] /\ kept' = got[p]
      /\ \A q \in Programs \ {p} : pc'[q] = pc[q]
      /\ pending = None /\ \A q \in Programs \ {p} : pc[q] # "reach"
  BY DEF Store, Undisturbed, TInv, TypeOK
<1>2. UNCHANGED <<files, last, looked, got, tail, shown, seen, behind, pending>>
  BY DEF Store, session
<1>3. Told' = Told
  BY <1>2 DEF Told
<1>4. /\ Holds(got[p], LinesOf(looked[p]), Told)
      /\ \A r \in Rows : got[p][r] \subseteq Keys(tail[p])
  BY <1>1 DEF IInv, HandInv
<1>5. KeptInv'
  BY <1>1, <1>2, <1>3, <1>4 DEF KeptInv
<1>6. ASSUME NEW q \in Programs PROVE HandInv(q)'
  <2>1. pc'[q] # "reach" /\ (pc'[q] = "store" => pc[q] = "store")
        /\ (pc'[q] \in {"mark", "done"} => pc[q] \in {"store", "mark", "done"})
    BY <1>1
  <2>2. HandInv(q)
    BY DEF IInv
  <2> QED BY <1>2, <1>3, <2>1, <2>2 DEF HandInv
<1>7. ShownInv'
  BY <1>1, <1>2, <1>3 DEF IInv, ShownInv
<1> QED BY <1>5, <1>6, <1>7 DEF IInv

LEMMA ReachKeeps ==
    ASSUME TInv, IInv, NEW p \in Programs, Reach(p)
    PROVE  IInv'
<1>1. /\ pc[p] = "reach" /\ pc'[p] \in {"done", "mark"}
      /\ (pc'[p] = "done" => print' = None /\ kept' = kept)
      /\ \A q \in Programs \ {p} : pc'[q] = pc[q]
  BY DEF Reach, Stepped, TInv, TypeOK
<1>2. UNCHANGED <<files, last, looked, got, tail, shown, seen, behind, pending>>
  BY DEF Reach, session
<1>3. Told' = Told
  BY <1>2 DEF Told
<1>4. /\ Holds(got[p], LinesOf(looked[p]), Told)
      /\ print # None
      /\ \A r \in Rows : Reached(tail[p], r) = {} => got[p][r] = kept[r]
      /\ \A r \in Rows : \A k \in got[p][r] : ~Sooner(last, k) \/ k \in Keys(tail[p])
      /\ (pending # None => behind)
      /\ \A q \in Programs \ {p} : pc[q] # "reach"
  BY <1>1 DEF IInv, HandInv
<1>5. pc'[p] = "mark" => print' = looked[p] /\ kept' = Mixed(kept, got[p], tail[p])
  BY <1>4 DEF Reach, Stepped, Mixed, TInv, TypeOK
<1>6. Mixed(kept, got[p], tail[p]) = got[p]
  <2>1. got[p] = [r \in Rows |-> got[p][r]]
    BY TypesGive DEF RowsOver
  <2>2. \A r \in Rows : (IF Reached(tail[p], r) # {} THEN got[p][r] ELSE kept[r]) = got[p][r]
    BY <1>4
  <2> QED BY <2>1, <2>2 DEF Mixed
<1>7. KeptInv'
  <2>1. CASE pc'[p] = "done"
    BY <1>1, <2>1 DEF KeptInv
  <2>2. CASE pc'[p] = "mark"
    <3>1. print' = looked[p] /\ kept' = got[p]
      BY <1>5, <1>6, <2>2
    <3> QED BY <1>2, <1>3, <1>4, <2>2, <3>1 DEF KeptInv
  <2> QED BY <1>1, <2>1, <2>2
<1>8. ASSUME NEW q \in Programs PROVE HandInv(q)'
  <2>1. pc'[q] # "reach" /\ (pc'[q] = "store" => pc[q] = "store")
        /\ (pc'[q] \in {"mark", "done"} => pc[q] \in {"reach", "mark", "done"})
    BY <1>1, <1>4
  <2>2. HandInv(q)
    BY DEF IInv
  <2> QED BY <1>2, <1>3, <2>1, <2>2 DEF HandInv
<1>9. ShownInv'
  BY <1>2, <1>3, <1>4 DEF IInv, ShownInv
<1> QED BY <1>7, <1>8, <1>9 DEF IInv

LEMMA MarkKeeps ==
    ASSUME TInv, IInv, NEW p \in Programs, Mark(p)
    PROVE  IInv'
<1>1. /\ pc[p] = "mark" /\ pc'[p] = "done" /\ last' = MarkedUp(last, tail[p])
      /\ \A q \in Programs \ {p} : pc'[q] = pc[q]
  BY DEF Mark, TInv, TypeOK
<1>2. UNCHANGED <<files, print, kept, looked, got, tail, shown, seen, behind, pending>>
  BY DEF Mark, session
<1>3. Told' = Told
  BY <1>2 DEF Told
<1>4. /\ \A k \in AllKeys : ~Sooner(last, k) => ~Sooner(last', k)
      /\ \A k \in Keys(tail[p]) : ~Sooner(last', k)
  <2>1. tail[p] \in SUBSET Line /\ IsFiniteSet(tail[p]) /\ last \in AllKeys
    BY TypesGive, FS_Subset
  <2> QED BY <1>1, <2>1, MarkedIs, KeysOf
<1>5. /\ \A r \in Rows : \A k \in kept[r] : k \in AllKeys
      /\ \A q \in Programs : \A r \in Rows : \A k \in got[q][r] : k \in AllKeys
  BY TypesGive, RowKeys
<1>6. KeptInv'
  <2>1. ASSUME print # None, NEW r \in Rows, NEW k \in kept[r]
        PROVE  ~Sooner(last', k) \/ \E q \in Programs : pc'[q] = "mark" /\ k \in Keys(tail[q])
    <3>1. ~Sooner(last, k) \/ \E q \in Programs : pc[q] = "mark" /\ k \in Keys(tail[q])
      BY <2>1 DEF IInv, KeptInv
    <3> QED BY <1>1, <1>4, <1>5, <3>1
  <2> QED BY <1>2, <1>3, <2>1 DEF IInv, KeptInv
<1>7. ASSUME NEW q \in Programs PROVE HandInv(q)'
  <2>1. HandInv(q)
    BY DEF IInv
  <2>2. pc'[q] = "reach" =>
           /\ pc[q] = "reach" /\ \A o \in Programs \ {q} : pc'[o] # "reach"
           /\ \A r \in Rows : \A k \in got[q][r] : ~Sooner(last', k) \/ k \in Keys(tail[q])
    <3>1. pc'[q] = "reach" => pc[q] = "reach"
      BY <1>1
    <3>2. pc[q] = "reach" => \A o \in Programs \ {q} : pc'[o] # "reach"
      BY <1>1, <2>1 DEF HandInv
    <3>3. pc[q] = "reach" =>
             \A r \in Rows : \A k \in got[q][r] : ~Sooner(last, k) \/ k \in Keys(tail[q])
      BY <2>1 DEF HandInv
    <3> QED BY <1>4, <1>5, <3>1, <3>2, <3>3
  <2>3. (pc'[q] = "store" => pc[q] = "store")
        /\ (pc'[q] \in {"mark", "done"} => pc[q] \in {"mark", "done"})
    BY <1>1
  <2> QED BY <1>2, <1>3, <2>1, <2>2, <2>3 DEF HandInv
<1>8. ShownInv'
  BY <1>2, <1>3 DEF IInv, ShownInv
<1> QED BY <1>6, <1>7, <1>8 DEF IInv

\* The window carries on the line it wrote.
LEMMA CarryOnKeeps ==
    ASSUME TInv, IInv, CarryOn
    PROVE  IInv'
<1>1. /\ UNCHANGED <<files, pc, looked, got, tail, shown, behind>>
      /\ pending # None /\ pending' = None /\ seen' = Now
  BY DEF CarryOn, inFlight
<1>2. Told' = Told /\ Told = LinesOf(files) /\ pending \in Told /\ pending \in Line
  BY <1>1, TypesGive DEF Told, LinesOf, TInv, TypeOK
<1>3. ShownInv'
  BY <1>1, <1>2 DEF IInv, ShownInv, Now
<1>4. CASE behind
  <2>1. print' = print /\ kept' = kept /\ last' = last
    BY <1>4 DEF CarryOn, cache
  <2>2. KeptInv'
    BY <1>1, <1>2, <2>1 DEF IInv, KeptInv
  <2>3. \A p \in Programs : HandInv(p)'
    BY <1>1, <1>2, <2>1 DEF IInv, HandInv
  <2> QED BY <1>3, <2>2, <2>3 DEF IInv
<1>5. CASE ~behind
  <2>1. \A p \in Programs : pc[p] # "reach"
    BY <1>1, <1>5 DEF IInv, HandInv
  <2>2. \A p \in Programs : HandInv(p)'
    BY <1>1, <1>2, <2>1 DEF IInv, HandInv
  <2>3. /\ Holds(shown, Told, Told)
        /\ print = None \/ Told \ {pending} \subseteq LinesOf(print)
        /\ \A l \in Told : l = pending \/ Sooner(Key(l), Key(pending))
    BY <1>1, <1>5 DEF IInv, ShownInv
  <2>4. print' = None \/ (print' = Now /\ print # None /\ kept' = Mixed(kept, shown, {pending})
                          /\ last' = MarkedUp(last, {pending}))
    BY <1>5 DEF CarryOn, Stepped, Mixed
  <2>5. ASSUME print' # None PROVE KeptInv'
    <3>1. /\ print' = Now /\ print # None /\ kept' = Mixed(kept, shown, {pending})
          /\ last' = MarkedUp(last, {pending})
      BY <2>4, <2>5
    <3>2. Holds(kept, LinesOf(print), Told)
      BY <3>1 DEF IInv, KeptInv
    <3>3. Holds(kept', Told, Told)
      BY <2>3, <3>1, <3>2, MixedHolds
    <3>4. ~Sooner(last', Key(pending)) /\ last' \in AllKeys
      BY <1>2, <3>1, TypesGive, MarkedIs, FS_Singleton
    <3>5. ASSUME NEW l \in Told PROVE ~Sooner(last', Key(l))
      <4>1. l = pending \/ Sooner(Key(l), Key(pending))
        BY <2>3
      <4>2. Key(l) \in AllKeys /\ Key(pending) \in AllKeys
        BY <1>2, KeysAre, TypesGive
      <4> QED BY <3>4, <4>1, <4>2, SoonerIs
    <3>6. \A r \in Rows : \A k \in kept'[r] : ~Sooner(last', k)
      <4>1. \A r \in Rows : kept'[r] \subseteq Keys(Told)
        BY <3>3, KeysGrow DEF Holds
      <4> QED BY <3>5, <4>1, KeysOf
    <3> QED BY <1>1, <1>2, <3>1, <3>3, <3>6 DEF KeptInv, Now
  <2>6. KeptInv'
    BY <2>5 DEF KeptInv
  <2> QED BY <1>3, <2>2, <2>6 DEF IInv
<1> QED BY <1>4, <1>5

\* A line is written: the cache and what programs have in hand are no less than they were.
LEMMA ToldGrows ==
    ASSUME IInv, Told \subseteq Told',
           UNCHANGED <<print, kept, last, pc, looked, got, tail, behind>>,
           \A p \in Programs : pc[p] = "reach" => (pending' # None => behind)
    PROVE  KeptInv' /\ \A p \in Programs : HandInv(p)'
<1>1. \A rows, some : Holds(rows, some, Told) => Holds(rows, some, Told')
  BY HoldsMore
<1>2. KeptInv'
  BY <1>1 DEF IInv, KeptInv
<1>3. \A p \in Programs : HandInv(p)'
  BY <1>1 DEF IInv, HandInv
<1> QED BY <1>2, <1>3

LEMMA ArriveKeeps ==
    ASSUME TInv, IInv, Mishaps = {}, NEW d \in Devices, Arrive(d)
    PROVE  IInv'
<1>1. /\ UNCHANGED <<print, kept, last, pc, looked, got, tail, shown, seen, behind, pending>>
      /\ pending = None
  BY DEF Arrive, cache, inFlight, session
<1>2. PICK at \in Stamped(d), reaches \in Rows \union {All} :
          files' = [files EXCEPT ![d] = @ \union {[dev |-> d, at |-> at, reaches |-> reaches]}]
  BY DEF Arrive
<1> DEFINE line == [dev |-> d, at |-> at, reaches |-> reaches]
<1>3. line \in Line /\ files' = [files EXCEPT ![d] = files[d] \union {line}]
  BY <1>2 DEF Line, Stamped
<1> HIDE DEF line
<1>4. Told \subseteq Told'
  BY <1>3, LineAdded
<1>5. ShownInv'
  <2>1. ~behind => Holds(shown, LinesOf(seen), Told')
    BY <1>4, HoldsMore DEF IInv, ShownInv
  <2> QED BY <1>1, <2>1 DEF ShownInv
<1> QED BY <1>1, <1>4, <1>5, ToldGrows DEF IInv

LEMMA CommitKeeps ==
    ASSUME TInv, IInv, Mishaps = {}, Commit
    PROVE  IInv'
<1>1. PICK at \in Stamped(Window), reaches \in Rows \union {All} :
          LET line == [dev |-> Window, at |-> at, reaches |-> reaches]
          IN  /\ \A l \in Told : Sooner(Key(l), Key(line))
              /\ files' = [files EXCEPT ![Window] = @ \union {line}]
              /\ shown' = Applied(shown, {line})
              /\ pending' = line
  BY DEF Commit
<1> DEFINE line == [dev |-> Window, at |-> at, reaches |-> reaches]
<1>2. /\ line \in Line /\ files' = [files EXCEPT ![Window] = files[Window] \union {line}]
      /\ shown' = Applied(shown, {line}) /\ pending' = line
      /\ \A l \in Told : Sooner(Key(l), Key(line))
  BY <1>1, NoneIs DEF Line, Stamped
<1> HIDE DEF line
<1>3. /\ UNCHANGED <<print, kept, last, pc, looked, got, tail, seen, behind>>
      /\ behind \/ seen = Now
      /\ \A q \in Programs \ {Window} : pc[q] # "reach"
      /\ print \in {None, seen}
  BY DEF Commit, cache, inFlight, Undisturbed
<1>4. Told' = Told \union {line} /\ Told' \in SUBSET Line
  BY <1>2, LineAdded, TypesGive, NoneIs
<1>5. Told = LinesOf(files)
  BY DEF Told, LinesOf
<1>6. ASSUME NEW p \in Programs, pc[p] = "reach", ~behind PROVE FALSE
  <2>1. print # None /\ print # looked[p] /\ Older(print, looked[p])
    BY <1>6 DEF IInv, HandInv
  <2>2. print = files
    BY <1>3, <1>6, <2>1 DEF Now
  <2>3. looked[p] \in Prints /\ Older(looked[p], files) /\ files \in Prints
    BY <1>6 DEF TInv, TypeOK
  <2>4. \A d \in Devices : looked[p][d] = files[d]
    BY <2>1, <2>2, <2>3 DEF Older
  <2>5. looked[p] = files
    BY <2>3, <2>4 DEF Prints
  <2> QED BY <2>1, <2>2, <2>5
<1>7. KeptInv' /\ \A p \in Programs : HandInv(p)'
  BY <1>3, <1>4, <1>6, ToldGrows
<1>8. \A l \in Told' : l = line \/ Sooner(Key(l), Key(line))
  BY <1>2, <1>4
<1>9. ASSUME ~behind
      PROVE  /\ Holds(shown', Told', Told') /\ Holds(shown', LinesOf(seen), Told')
             /\ print = None \/ Told' \ {line} \subseteq LinesOf(print)
  <2>1. seen = files /\ Holds(shown, Told, Told)
    BY <1>3, <1>5, <1>9 DEF Now, IInv, ShownInv
  <2>2. \A r \in Rows : \A k \in shown[r] : k \in Keys(Told)
    BY <2>1, KeysGrow DEF Holds
  <2>3. \A r \in Rows : \A k \in shown[r] : \A l \in {line} : Sooner(k, Key(l))
    BY <1>2, <2>2, KeysOf
  <2>4. Holds(shown', Told', Told')
    <3> DEFINE more == Told'
    <3>1. more \in SUBSET Line /\ Told \subseteq more /\ {line} \subseteq more
          /\ more \subseteq Told \union {line}
      BY <1>4
    <3> HIDE DEF more
    <3>2. Holds(Applied(shown, {line}), more, more)
      BY <2>1, <2>3, <3>1, AppliedHolds
    <3> QED BY <1>2, <3>2 DEF more
  <2>5. Holds(shown', LinesOf(seen), Told')
    <3>1. LinesOf(seen) \subseteq Told'
      BY <1>4, <1>5, <2>1
    <3> QED BY <2>4, <3>1, HoldsMore
  <2>6. print = None \/ Told' \ {line} \subseteq LinesOf(print)
    BY <1>3, <1>4, <1>5, <2>1
  <2> QED BY <2>4, <2>5, <2>6
<1>10. ShownInv'
  BY <1>2, <1>3, <1>8, <1>9 DEF ShownInv
<1> QED BY <1>7, <1>10 DEF IInv

LEMMA InitKeeps ==
    ASSUME Init, TInv
    PROVE  IInv
<1>1. /\ print = files /\ seen = files /\ kept = Replay(Told) /\ shown = Replay(Told)
      /\ last = Highest(Told) /\ pending = None /\ \A p \in Programs : pc[p] = "idle"
  BY DEF Init, Now
<1>2. Told = LinesOf(files) /\ Told \in SUBSET Line /\ IsFiniteSet(Told)
  BY TypesGive DEF Told, LinesOf
<1>3. Holds(Replay(Told), Told, Told)
  BY <1>2, ReplayHolds
<1>4. \A l \in Told : ~Sooner(last, Key(l))
  BY <1>1, <1>2, HighestIs
<1>5. \A r \in Rows : \A k \in kept[r] : k \in Keys(Told)
  BY <1>1, <1>3, KeysGrow DEF Holds
<1>6. KeptInv
  BY <1>1, <1>2, <1>3, <1>4, <1>5, KeysOf DEF KeptInv
<1>7. ShownInv
  BY <1>1, <1>2, <1>3 DEF ShownInv
<1> QED BY <1>1, <1>6, <1>7 DEF IInv, HandInv

LEMMA StepKeeps ==
    ASSUME TInv, IInv, Mishaps = {}, [Next]_vars
    PROVE  IInv'
<1>1. CASE UNCHANGED vars
  <2>1. UNCHANGED <<files, print, kept, last, pc, looked, got, tail, shown, seen, behind, pending>>
    BY <1>1 DEF vars, cache, inFlight, session
  <2> QED BY <2>1 DEF IInv, KeptInv, HandInv, ShownInv, Told
<1>2. CASE Next
  <2>1. ASSUME NEW p \in Programs, Project(p) \/ Answered(p) \/ Crash(p)
        PROVE  IInv'
    BY <2>1, LookKeeps, LoadKeeps, CatchUpKeeps, ReadAllKeeps, StoreKeeps, ReachKeeps, MarkKeeps,
       AnswerKeeps DEF Project
  <2>2. CASE \E d \in Devices : Arrive(d)
    BY <2>2, ArriveKeeps
  <2>3. CASE Adopt \/ FellBehind \/ Commit \/ CarryOn
    BY <2>3, AdoptKeeps, FellBehindKeeps, CommitKeeps, CarryOnKeeps
  <2> QED BY <1>2, <2>1, <2>2, <2>3 DEF Next
<1> QED BY <1>1, <1>2

LEMMA CacheGives ==
    ASSUME TInv, IInv
    PROVE  CacheAnswers
<1> SUFFICES ASSUME print = Now PROVE kept = Replay(Told)
  BY DEF CacheAnswers
<1>1. print # None /\ LinesOf(print) = Told
  BY NoneIs, TypesGive DEF Now, LinesOf, Told
<1>2. Holds(kept, Told, Told)
  BY <1>1 DEF IInv, KeptInv
<1> QED BY <1>2, TypesGive, HoldsWhole

LEMMA WindowGives ==
    ASSUME TInv, IInv
    PROVE  WindowAnswers
<1> SUFFICES ASSUME ~behind, seen = Now PROVE shown = Replay(Told)
  BY DEF WindowAnswers
<1>1. LinesOf(seen) = Told
  BY DEF Now, LinesOf, Told
<1>2. Holds(shown, Told, Told)
  BY <1>1 DEF IInv, ShownInv
<1> QED BY <1>2, TypesGive, HoldsWhole

\* A cache whose fingerprint is the files' is, row by row, what a replay of the whole log gives,
\* however many programs catch it up, store it whole and add to it side by side (caught_up,
\* projected and advance), as long as none of the mishaps that nothing in the code prevents occurs.
THEOREM CacheIsTheLog ==
    ASSUME Mishaps = {}
    PROVE  Spec => []CacheAnswers
<1>1. Init => TInv /\ IInv
  BY InitTypes, InitKeeps
<1>2. TInv /\ IInv /\ [Next]_vars => (TInv /\ IInv)'
  BY StepTypes, StepKeeps
<1>3. TInv /\ IInv => CacheAnswers
  BY CacheGives
<1> QED BY <1>1, <1>2, <1>3, PTL DEF Spec

\* A window that does not know itself to be behind, and finds the files as it left them, shows what
\* the log says: neither adopt nor advance leaves it believing in a fingerprint that says more than
\* the window has, as long as none of the mishaps occurs.
THEOREM WindowIsTheLog ==
    ASSUME Mishaps = {}
    PROVE  Spec => []WindowAnswers
<1>1. Init => TInv /\ IInv
  BY InitTypes, InitKeeps
<1>2. TInv /\ IInv /\ [Next]_vars => (TInv /\ IInv)'
  BY StepTypes, StepKeeps
<1>3. TInv /\ IInv => WindowAnswers
  BY WindowGives
<1> QED BY <1>1, <1>2, <1>3, PTL DEF Spec
=============================================================================
