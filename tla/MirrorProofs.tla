----------------------------- MODULE MirrorProofs -----------------------------
(***************************************************************************)
(* What is proved of Mirror for any number of machines, edits, settlings   *)
(* and mishaps: that every variable keeps to its type, no revision being   *)
(* known that the cloud has not come to; that nothing is taken back from a *)
(* document that nobody chose to do without; that the history is in the    *)
(* cloud before the document it answers for; and that nobody is asked to   *)
(* choose between a version and one that has all of it.  The number of     *)
(* changes in the cloud, which the runs bound, is left free.               *)
(***************************************************************************)
EXTENDS Mirror, FiniteSetTheorems, TLAPS

-----------------------------------------------------------------------------
(* Types                                                                   *)

LEMMA EmptyTypes ==
    ASSUME NEW past \in Nat
    PROVE  /\ Nowhere \in Sighted(past) /\ NewIndex \in Indexes(past) /\ Idle \in Rounds(past)
           /\ Nowhere \in Files /\ {} \in Bodies
<1>1. Nowhere \in Sighted(past) /\ Nowhere \in Files
  BY DEF Nowhere, Sighted, Files
<1>2. {} \in Bodies
  BY DEF Bodies
<1> QED BY <1>1, <1>2 DEF NewIndex, Idle, Indexes, Rounds, Kinds

LEMMA BodyIsNotNone == None \notin Bodies
BY MirrorAssumption DEF Bodies

\* What was known of a cloud is known of the same cloud later.
LEMMA LaterTypes ==
    ASSUME NEW past \in Nat
    PROVE  /\ Sights(past) \subseteq Sights(past + 1) /\ Sighted(past) \subseteq Sighted(past + 1)
           /\ Indexes(past) \subseteq Indexes(past + 1) /\ Rounds(past) \subseteq Rounds(past + 1)
           /\ 0..past \subseteq 0..(past + 1)
<1>1. 0..past \subseteq 0..(past + 1)
  OBVIOUS
<1>2. Sights(past) \subseteq Sights(past + 1)
  BY <1>1 DEF Sights
<1>3. Sighted(past) \subseteq Sighted(past + 1)
  BY <1>2 DEF Sighted
<1>4. Indexes(past) \subseteq Indexes(past + 1)
  BY <1>1, <1>3 DEF Indexes
<1>5. Rounds(past) \subseteq Rounds(past + 1)
  BY <1>1, <1>3 DEF Rounds
<1> QED BY <1>1, <1>2, <1>3, <1>4, <1>5

LEMMA MishapTypes ==
    ASSUME TypeOK, NEW kind, Mishap(kind)
    PROVE  mishaps' \subseteq Mishaps /\ Cardinality(mishaps') <= MaxMishaps
<1>1. mishaps' = mishaps \cup {kind} /\ mishaps' \subseteq Mishaps
  BY DEF Mishap, TypeOK
<1>2. IsFiniteSet(mishaps)
  <2>1. IsFiniteSet({}) /\ IsFiniteSet(AllMishaps)
    <3>1. \A x, y : IsFiniteSet({x, y})
      <4> TAKE x, y
      <4>1. {x, y} = {x} \cup {y}
        OBVIOUS
      <4>2. IsFiniteSet({x}) /\ IsFiniteSet({y})
        BY FS_Singleton
      <4>3. IsFiniteSet({x} \cup {y})
        BY <4>2, FS_Union, Zenon
      <4> QED BY <4>1, <4>3, Zenon
    <3>2. \A u, v, x, y : IsFiniteSet({u, v, x, y})
      <4> TAKE u, v, x, y
      <4>1. {u, v, x, y} = {u, v} \cup {x, y}
        OBVIOUS
      <4>2. IsFiniteSet({u, v} \cup {x, y})
        BY <3>1, FS_Union, Zenon
      <4> QED BY <4>1, <4>2, Zenon
    <3>3. AllMishaps = {"look", "crash", "cut", "broken"} \cup
              ({"lost_answer", "drift", "lag", "deleted_whole"} \cup
                  {"deleted_under_a_new_file", "settled_late"})
      BY DEF AllMishaps
    <3> QED BY <3>1, <3>2, <3>3, FS_EmptySet, FS_Union
  <2> QED BY <2>1, FS_Subset, MirrorAssumption DEF TypeOK
<1>3. /\ Cardinality(mishaps) \in Nat
      /\ Cardinality(mishaps') = Cardinality(mishaps)
           \/ Cardinality(mishaps') = Cardinality(mishaps) + 1
  BY <1>1, <1>2, FS_CardinalityType, FS_AddElement
<1>4. Cardinality(mishaps) < MaxMishaps
  BY DEF Mishap
<1> QED BY <1>1, <1>3, <1>4, MirrorAssumption

Sight    == [rev : Nat, body : Bodies]
SightsOf == [Names -> {None} \cup Sight]
Index    == [at : {None} \cup Nat, known : SightsOf, owed : SightsOf, confirmed : BOOLEAN]
Round    == [step : {"idle", "pulling", "pushing"}, work : Kinds, at : Nat, due : SightsOf,
             left : SUBSET Names, refused : BOOLEAN]

\* TypeOK but for how the revisions stand to the clock, which is all most of what follows needs.
Types ==
    /\ written \in 0..MaxEdits
    /\ body \in [Machines -> {None} \cup Bodies]
    /\ carried \in [Machines -> {None} \cup Bodies]
    /\ history \in [Machines -> Bodies]
    /\ asked \in [Machines -> {None} \cup [mine : Bodies, theirs : Bodies]]
    /\ tree \in [Machines -> Files]
    /\ index \in [Machines -> Index] /\ saved \in [Machines -> Index]
    /\ emptied \in [Machines -> BOOLEAN]
    /\ remote \in SightsOf
    /\ touched \in [Names -> Nat] /\ clock \in Nat
    /\ round \in [Machines -> Round]
    /\ mishaps \subseteq Mishaps

LEMMA TypesOfTypeOK == TypeOK => Types
<1>1. \A past \in Nat : /\ Sights(past) \subseteq Sight /\ Sighted(past) \subseteq SightsOf
                        /\ Indexes(past) \subseteq Index /\ Rounds(past) \subseteq Round
  <2> TAKE past \in Nat
  <2>1. 0..past \subseteq Nat
    OBVIOUS
  <2>2. Sights(past) \subseteq Sight
    BY <2>1 DEF Sights, Sight
  <2>3. Sighted(past) \subseteq SightsOf
    BY <2>2 DEF Sighted, SightsOf
  <2>4. Indexes(past) \subseteq Index
    BY <2>1, <2>3 DEF Indexes, Index
  <2>5. Rounds(past) \subseteq Round
    BY <2>1, <2>3 DEF Rounds, Round
  <2> QED BY <2>2, <2>3, <2>4, <2>5
<1> QED BY <1>1 DEF TypeOK, Types

LEMMA SightIsNotNone == None \notin Sight
BY MirrorAssumption DEF Sight, Bodies

LEMMA TypesAtFirst == Init => TypeOK
<1> SUFFICES ASSUME Init PROVE TypeOK
  OBVIOUS
<1>1. FirstTree \in Files
  BY EmptyTypes DEF FirstTree, Files
<1>2. FirstSeen \in Sighted(0)
  BY EmptyTypes DEF FirstSeen, Sighted, Sights
<1>3. FirstTree["doc"] \in {None} \cup Bodies
  BY <1>1 DEF Files, Names
<1>4. [at |-> 0, known |-> FirstSeen, owed |-> Nowhere, confirmed |-> TRUE] \in Indexes(0)
  BY <1>2, EmptyTypes DEF Indexes
<1>5. 0 \in 0..MaxEdits
  BY MirrorAssumption
<1>6. body \in [Machines -> {None} \cup Bodies]
  BY EmptyTypes DEF Init
<1>7. /\ index \in [Machines -> Indexes(0)] /\ saved \in [Machines -> Indexes(0)]
      /\ round \in [Machines -> Rounds(0)] /\ tree \in [Machines -> Files]
  BY <1>1, <1>4, EmptyTypes DEF Init
<1>8. /\ carried \in [Machines -> {None} \cup Bodies] /\ history \in [Machines -> Bodies]
      /\ asked \in [Machines -> {None} \cup [mine : Bodies, theirs : Bodies]]
      /\ emptied \in [Machines -> BOOLEAN]
  BY <1>3, EmptyTypes DEF Init
<1>9. /\ remote \in Sighted(0) /\ touched \in [Names -> 0..0] /\ clock = 0
      /\ mishaps \subseteq Mishaps /\ written = 0
  BY <1>2 DEF Init
<1>10. mishaps = {} /\ Cardinality(mishaps) <= MaxMishaps /\ settles \in 0..MaxSettles /\ givenup \subseteq Edits
  BY FS_EmptySet, MirrorAssumption DEF Init
<1> QED BY <1>5, <1>6, <1>7, <1>8, <1>9, <1>10 DEF TypeOK

LEMMA EditTypes ==
    ASSUME TypeOK, NEW m \in Machines, Edit(m)
    PROVE  TypeOK'
<1>1. written + 1 \in Edits /\ written' = written + 1 /\ written' \in 0..MaxEdits
  BY MirrorAssumption DEF Edit, TypeOK, Edits
<1>2. body[m] \in Bodies
  BY DEF Edit, TypeOK
<1>3. body[m] \cup {written + 1} \in Bodies /\ history[m] \cup {written + 1} \in Bodies
  BY <1>1, <1>2 DEF TypeOK, Bodies
<1>4. body' \in [Machines -> {None} \cup Bodies] /\ history' \in [Machines -> Bodies]
  BY <1>3 DEF Edit, TypeOK
<1> QED BY <1>1, <1>4 DEF Edit, TypeOK, mirror, cloud

LEMMA PullTypes ==
    ASSUME TypeOK, NEW m \in Machines, NEW work \in Kinds, NEW again \in BOOLEAN, NEW upto \in 0..clock,
           Pull(m, work, again, upto)
    PROVE  /\ index' \in [Machines -> Indexes(clock)] /\ saved' \in [Machines -> Indexes(clock)]
           /\ tree' \in [Machines -> Files] /\ emptied' \in [Machines -> BOOLEAN]
           /\ round' \in [Machines -> Rounds(clock)]
<1> DEFINE from  == IF again THEN NewIndex ELSE index[m]
           files == IF again THEN Nowhere ELSE tree[m]
           told  == Told(from.at, upto)
<1>1. from \in Indexes(clock) /\ files \in Files
  BY EmptyTypes DEF TypeOK
<1>2. told.changed \in Sighted(clock)
  BY DEF Told, TypeOK, Sighted
<1>3. CASE DeletedWhole(from.known, told)
  <2>1. index' = [index EXCEPT ![m] = from] /\ saved' = [saved EXCEPT ![m] = from]
        /\ round' = [round EXCEPT ![m] = Idle]
        /\ emptied' = [emptied EXCEPT ![m] = TRUE] /\ tree' = tree
    BY <1>3 DEF Pull, Ends
  <2> HIDE DEF from, files, told
  <2> QED BY <1>1, <2>1, EmptyTypes DEF TypeOK
<1>4. CASE ~DeletedWhole(from.known, told)
  <2> DEFINE next == [from EXCEPT !.owed = Nowhere, !.known = Forgotten(@, told.gone)]
             going == [Idle EXCEPT !.step = "pulling", !.work = work, !.at = upto,
                                   !.due = DueAfter(from, told)]
  <2>1. /\ emptied' = [emptied EXCEPT ![m] = @ /\ ~again]
        /\ saved' = [saved EXCEPT ![m] = IF again THEN NewIndex ELSE @]
        /\ tree' = [tree EXCEPT ![m] = Forgotten(files, told.gone)]
        /\ index' = [index EXCEPT ![m] = next]
        /\ round' = [round EXCEPT ![m] = going]
    BY <1>4 DEF Pull
  <2> HIDE DEF from, files, told
  <2>2. next \in Indexes(clock)
    <3>1. Forgotten(from.known, told.gone) \in Sighted(clock)
      BY <1>1 DEF Forgotten, Indexes, Sighted
    <3>2. Nowhere \in Sighted(clock)
      BY EmptyTypes DEF TypeOK
    <3> QED BY <1>1, <3>1, <3>2 DEF Indexes
  <2>3. going \in Rounds(clock)
    <3>1. DueAfter(from, told) \in Sighted(clock)
      BY <1>1, <1>2 DEF DueAfter, Indexes, Sighted
    <3> QED BY <3>1, EmptyTypes DEF Rounds
  <2>4. Forgotten(files, told.gone) \in Files
    BY <1>1 DEF Forgotten, Files
  <2> HIDE DEF next, going
  <2>5. emptied' \in [Machines -> BOOLEAN]
    BY <2>1, Zenon DEF TypeOK
  <2> QED BY <2>1, <2>2, <2>3, <2>4, <2>5, EmptyTypes DEF TypeOK
<1> QED BY <1>3, <1>4

LEMMA BeginTypes ==
    ASSUME TypeOK, NEW m \in Machines,
           \/ Begin(m) \/ BeginBehind(m) \/ BeginLook(m) \/ Again(m)
           \/ Settle(m, "keep_mine") \/ Settle(m, "keep_theirs")
    PROVE  TypeOK'
<1>1. \E work \in Kinds, again \in BOOLEAN, upto \in 0..clock : Pull(m, work, again, upto)
  <2>1. clock \in Nat /\ clock \in 0..clock
    BY DEF TypeOK
  <2>2. CASE BeginBehind(m)
    <3>1. index[m].at \in 0..clock
      BY <2>2 DEF BeginBehind, TypeOK, Indexes
    <3>2. PICK upto \in index[m].at..(clock - 1) : Pull(m, "carry", FALSE, upto)
      BY <2>2 DEF BeginBehind
    <3>3. upto \in 0..clock /\ "carry" \in Kinds
      BY <2>1, <3>1 DEF Kinds
    <3>4. FALSE \in BOOLEAN
      OBVIOUS
    <3> QED BY <3>2, <3>3, <3>4, Zenon
  <2> QED BY <2>1, <2>2 DEF Begin, BeginLook, Again, Settle, Kinds
<1>2. /\ index' \in [Machines -> Indexes(clock)] /\ saved' \in [Machines -> Indexes(clock)]
      /\ tree' \in [Machines -> Files] /\ emptied' \in [Machines -> BOOLEAN]
      /\ round' \in [Machines -> Rounds(clock)]
  BY <1>1, PullTypes
<1>3. UNCHANGED <<written, givenup, body, carried, history, asked, remote, touched, clock>>
  BY DEF Begin, BeginBehind, BeginLook, Again, Settle, person, data, cloud
<1>4. mishaps' \subseteq Mishaps /\ Cardinality(mishaps') <= MaxMishaps
  <2>1. UNCHANGED mishaps \/ \E kind : Mishap(kind)
    BY DEF Begin, BeginBehind, BeginLook, Again, Settle
  <2> QED BY <2>1, MishapTypes DEF TypeOK
<1>5. settles' \in 0..MaxSettles
  <2>1. settles' = settles \/ (settles < MaxSettles /\ settles' = settles + 1)
    BY DEF Begin, BeginBehind, BeginLook, Again, Settle, person
  <2>2. settles \in 0..MaxSettles
    BY DEF TypeOK
  <2> QED BY <2>1, <2>2, MirrorAssumption
<1> QED BY <1>2, <1>3, <1>4, <1>5 DEF TypeOK

LEMMA EndsTypes ==
    ASSUME NEW past \in Nat, index \in [Machines -> Indexes(past)], saved \in [Machines -> Indexes(past)],
           round \in [Machines -> Rounds(past)],
           NEW m \in Machines, NEW known \in Indexes(past), Ends(m, known)
    PROVE  /\ index' \in [Machines -> Indexes(past)] /\ saved' \in [Machines -> Indexes(past)]
           /\ round' \in [Machines -> Rounds(past)]
BY EmptyTypes DEF Ends

\* A file seen, or owed, or known, in an index.
LEMMA SeenTypes ==
    ASSUME NEW past \in Nat, NEW i \in Indexes(past), NEW n \in Names, NEW s \in {None} \cup Sights(past), NEW b \in BOOLEAN
    PROVE  /\ [i EXCEPT !.owed[n] = s] \in Indexes(past)
           /\ [i EXCEPT !.known[n] = s] \in Indexes(past)
           /\ [i EXCEPT !.known[n] = s, !.confirmed = b] \in Indexes(past)
BY DEF Indexes, Sighted

LEMMA NotedTypes ==
    ASSUME NEW past \in Nat, index \in [Machines -> Indexes(past)],
           NEW m \in Machines, NEW n \in Names, NEW s \in {None} \cup Sights(past), Noted(m, n, s)
    PROVE  /\ index' = [index EXCEPT ![m] = [index[m] EXCEPT !.known[n] = s,
                                                 !.confirmed = index[m].confirmed \/ n = "stamp"]]
           /\ index' \in [Machines -> Indexes(past)]
<1>1. index[m] \in Indexes(past) /\ (index[m].confirmed \/ n = "stamp") \in BOOLEAN
  BY DEF Indexes
<1> DEFINE next == [index[m] EXCEPT !.known[n] = s,
                                    !.confirmed = index[m].confirmed \/ n = "stamp"]
<1>2. next \in Indexes(past)
  BY <1>1, SeenTypes, Zenon
<1>3. index' = [index EXCEPT ![m] = next]
  BY DEF Noted
<1> HIDE DEF next
<1>4. index' \in [Machines -> Indexes(past)]
  BY <1>2, <1>3
<1> QED BY <1>3, <1>4 DEF next

LEMMA LearnedTypes ==
    ASSUME TypeOK, NEW m \in Machines, NEW n \in Names
    PROVE  /\ Learned(m, n) \in [Machines -> Rounds(clock)]
           /\ Seen(m, n) \in {None} \cup Sights(clock) /\ Known(m, n) \in {None} \cup Sights(clock)
<1>1. round[m] \in Rounds(clock) /\ index[m] \in Indexes(clock)
  BY DEF TypeOK
<1>2. [round[m] EXCEPT !.due[n] = None] \in Rounds(clock)
  BY <1>1 DEF Rounds, Sighted
<1>3. Learned(m, n) = [round EXCEPT ![m] = [round[m] EXCEPT !.due[n] = None]]
  BY DEF Learned, TypeOK
<1>4. Seen(m, n) \in {None} \cup Sights(clock) /\ Known(m, n) \in {None} \cup Sights(clock)
  BY <1>1 DEF Seen, Known, Rounds, Indexes, Sighted
<1> QED BY <1>2, <1>3, <1>4 DEF TypeOK

LEMMA LearnTypes ==
    ASSUME TypeOK, NEW m \in Machines, Learn(m)
    PROVE  TypeOK'
<1>1. PICK n \in Names :
        /\ \/ UNCHANGED index
           \/ Noted(m, n, Seen(m, n))
           \/ index' = [index EXCEPT ![m].owed[n] = Seen(m, n)]
        /\ round' = Learned(m, n)
  BY DEF Learn
<1>2. round' \in [Machines -> Rounds(clock)] /\ Seen(m, n) \in {None} \cup Sights(clock)
  BY <1>1, LearnedTypes
<1>3. index' \in [Machines -> Indexes(clock)]
  <2>1. CASE UNCHANGED index
    BY <2>1 DEF TypeOK
  <2>2. CASE Noted(m, n, Seen(m, n))
    BY <1>2, <2>2, NotedTypes DEF TypeOK
  <2>3. CASE index' = [index EXCEPT ![m].owed[n] = Seen(m, n)]
    <3>1. [index[m] EXCEPT !.owed[n] = Seen(m, n)] \in Indexes(clock)
      BY <1>2, SeenTypes DEF TypeOK
    <3> QED BY <2>3, <3>1 DEF TypeOK
  <2> QED BY <1>1, <2>1, <2>2, <2>3
<1> QED BY <1>2, <1>3 DEF TypeOK, Learn, person, data, cloud

LEMMA FetchTypes ==
    ASSUME TypeOK, NEW m \in Machines, Fetch(m) \/ FetchBroken(m) \/ FetchCut(m)
    PROVE  TypeOK'
<1>1. \A n \in Names : ForgottenBase(m, n) \in [Machines -> {None} \cup Bodies]
  BY DEF ForgottenBase, TypeOK
<1>2. carried' \in [Machines -> {None} \cup Bodies]
  BY <1>1 DEF Fetch, FetchBroken, FetchCut
<1>3. mishaps' \subseteq Mishaps /\ Cardinality(mishaps') <= MaxMishaps
  BY MishapTypes DEF Fetch, FetchBroken, FetchCut, TypeOK
<1>4. CASE Fetch(m)
  <2>1. PICK n \in Names :
          /\ IF remote[n] = None
             THEN UNCHANGED <<tree, index>>
             ELSE tree' = [tree EXCEPT ![m][n] = remote[n].body] /\ Noted(m, n, remote[n])
          /\ round' = Learned(m, n)
    BY <1>4 DEF Fetch
  <2>2. round' \in [Machines -> Rounds(clock)]
    BY <2>1, LearnedTypes
  <2>3. remote[n] \in {None} \cup Sights(clock)
    BY DEF TypeOK, Sighted
  <2>4. tree' \in [Machines -> Files] /\ index' \in [Machines -> Indexes(clock)]
    <3>1. CASE remote[n] = None
      BY <2>1, <3>1 DEF TypeOK
    <3>2. CASE remote[n] # None
      <4>1. [tree[m] EXCEPT ![n] = remote[n].body] \in Files
        BY <2>3, <3>2 DEF TypeOK, Files, Sights
      <4>2. index' \in [Machines -> Indexes(clock)]
        BY <2>1, <2>3, <3>2, NotedTypes DEF TypeOK
      <4> QED BY <2>1, <3>2, <4>1, <4>2 DEF TypeOK
    <3> QED BY <3>1, <3>2
  <2> QED BY <1>2, <1>3, <1>4, <2>2, <2>4 DEF TypeOK, Fetch, person, cloud
<1>5. CASE FetchBroken(m)
  <2>1. PICK n \in Names :
          index' = [index EXCEPT ![m].owed[n] = Seen(m, n)] /\ round' = Learned(m, n)
    BY <1>5 DEF FetchBroken
  <2>2. round' \in [Machines -> Rounds(clock)] /\ Seen(m, n) \in {None} \cup Sights(clock)
    BY <2>1, LearnedTypes
  <2>3. [index[m] EXCEPT !.owed[n] = Seen(m, n)] \in Indexes(clock)
    BY <2>2, SeenTypes DEF TypeOK
  <2>4. index' \in [Machines -> Indexes(clock)]
    BY <2>1, <2>3 DEF TypeOK
  <2> QED BY <1>2, <1>3, <1>5, <2>2, <2>4 DEF TypeOK, FetchBroken, person, cloud
<1>6. CASE FetchCut(m)
  <2> DEFINE owes == [f \in Names |-> IF Seen(m, f) # None THEN Seen(m, f) ELSE index[m].owed[f]]
  <2>1. index[m] \in Indexes(clock)
    BY DEF TypeOK
  <2>2. owes \in Sighted(clock)
    BY <2>1, LearnedTypes DEF Sighted, Indexes
  <2> HIDE DEF owes
  <2>3. [index[m] EXCEPT !.owed = owes] \in Indexes(clock)
    BY <2>1, <2>2 DEF Indexes
  <2>4. Ends(m, [index[m] EXCEPT !.owed = owes])
    BY <1>6 DEF FetchCut, owes
  <2> QED BY <1>2, <1>3, <1>6, <2>3, <2>4, EndsTypes DEF TypeOK, FetchCut, person, cloud
<1> QED BY <1>4, <1>5, <1>6

LEMMA ReadTypes ==
    ASSUME TypeOK, NEW m \in Machines
    PROVE  Read(m) \in Indexes(clock) /\ Unmarked(m) \in [Machines -> BOOLEAN]
<1>1. Read(m) \in Indexes(clock)
  <2>1. index[m] \in Indexes(clock) /\ round[m].at \in 0..clock
    BY DEF TypeOK, Rounds
  <2> QED BY <2>1 DEF Read, Indexes
<1>2. Marked(m) \in BOOLEAN
  BY DEF Marked, TypeOK
<1>3. Unmarked(m) \in [Machines -> BOOLEAN]
  BY <1>2, Zenon DEF Unmarked, TypeOK
<1> QED BY <1>1, <1>3

LEMMA LeavesTypes ==
    ASSUME TypeOK, NEW m \in Machines, NEW files \in Files, Leaves(m, files)
    PROVE  /\ tree' \in [Machines -> Files] /\ index' \in [Machines -> Indexes(clock)]
           /\ emptied' \in [Machines -> BOOLEAN] /\ round' \in [Machines -> Rounds(clock)]
           /\ UNCHANGED <<saved, remote, touched, clock>>
<1>1. Dirty(m, files) \in SUBSET Names
  BY DEF Dirty
<1>2. [Idle EXCEPT !.step = "pushing", !.left = Dirty(m, files)] \in Rounds(clock)
  <2>1. Idle \in Rounds(clock)
    BY EmptyTypes DEF TypeOK
  <2> QED BY <1>1, <2>1 DEF Rounds
<1> QED BY <1>2, ReadTypes DEF Leaves, TypeOK, cloud

\* Document and copy are one and the same after a round, and nothing is asked.
Alike(m, done) ==
    done.here # None /\ done.there = done.here /\ done.said = done.here /\ done.asks = asked[m]

\* What a round makes of the document: it stays as it was, perhaps asked about, or both sides
\* become one of the two, or both together.
MadeOf(m, done) ==
    \/ /\ done.here = body[m] /\ done.there = tree[m]["doc"] /\ done.said = carried[m]
       /\ done.asks # asked[m] =>
             /\ body[m] # None /\ tree[m]["doc"] # None /\ body[m] # tree[m]["doc"]
             /\ carried[m] \notin {body[m], tree[m]["doc"]}
             /\ done.asks = [mine |-> body[m], theirs |-> tree[m]["doc"]]
    \/ /\ Alike(m, done) /\ done.here = body[m]
       /\ tree[m]["doc"] = None \/ carried[m] = tree[m]["doc"] \/ body[m] = tree[m]["doc"]
    \/ /\ Alike(m, done) /\ done.here = tree[m]["doc"]
       /\ body[m] = None \/ carried[m] = body[m]
    \/ /\ Alike(m, done) /\ done.here = body[m] \cup tree[m]["doc"]
       /\ body[m] # None /\ tree[m]["doc"] # None /\ carried[m] # None

LEMMA OutcomesAre ==
    ASSUME Types, NEW m \in Machines, NEW events \in Bodies, NEW done \in Outcomes(m, events)
    PROVE  /\ done.here \in {None} \cup Bodies /\ done.there \in {None} \cup Bodies
           /\ done.said \in {None} \cup Bodies
           /\ done.asks \in {None} \cup [mine : Bodies, theirs : Bodies]
           /\ MadeOf(m, done)
<1> DEFINE mine     == body[m]
           theirs   == tree[m]["doc"]
           how      == Moved(carried[m], mine, theirs)
           answered == theirs # None /\ theirs \cap history[Owner] \subseteq events
           becomes(whole) == [here |-> whole, there |-> whole, said |-> whole, asks |-> asked[m]]
           stays    == [here |-> mine, there |-> theirs, said |-> carried[m], asks |-> asked[m]]
           asks     == [stays EXCEPT !.asks = [mine |-> mine, theirs |-> theirs]]
<1>0. /\ mine \in {None} \cup Bodies /\ theirs \in {None} \cup Bodies /\ carried[m] \in {None} \cup Bodies
      /\ asked[m] \in {None} \cup [mine : Bodies, theirs : Bodies]
  BY DEF Types, Files, Names
<1>1. /\ \A whole : /\ becomes(whole).here = whole /\ becomes(whole).there = whole
                    /\ becomes(whole).said = whole /\ becomes(whole).asks = asked[m]
      /\ stays.here = mine /\ stays.there = theirs /\ stays.said = carried[m] /\ stays.asks = asked[m]
      /\ asks.here = mine /\ asks.there = theirs /\ asks.said = carried[m]
      /\ asks.asks = [mine |-> mine, theirs |-> theirs]
  OBVIOUS
<1>2. \/ mine = theirs /\ done \in {IF mine = None THEN stays ELSE becomes(mine)}
      \/ mine # theirs /\ mine # None /\ theirs = None /\ done = becomes(mine)
      \/ mine # theirs /\ mine = None /\ theirs # None /\ done \in {becomes(theirs), stays}
      \/ mine # theirs /\ mine # None /\ theirs # None /\ carried[m] = mine
           /\ done \in {becomes(theirs), stays}
      \/ mine # theirs /\ mine # None /\ theirs # None /\ carried[m] # mine /\ carried[m] = theirs
           /\ done = becomes(mine)
      \/ mine # theirs /\ mine # None /\ theirs # None /\ carried[m] \notin {mine, theirs}
           /\ (done = asks \/ (carried[m] # None /\ done = becomes(mine \cup theirs)))
  <2>1. done \in CASE how = "nothing"               -> {IF mine = None THEN stays ELSE becomes(mine)}
                   [] how = "send"                  -> {becomes(mine)}
                   [] how = "bring"                 -> {IF answered THEN becomes(theirs) ELSE stays}
                   [] how = "they_decide"           ->
                         {asks} \cup (IF answered /\ carried[m] # None
                                      THEN {becomes(mine \cup theirs)} ELSE {})
    BY DEF Outcomes
  <2> HIDE DEF answered, becomes, stays, asks, mine, theirs, how
  <2>2. CASE mine = theirs
    <3>1. how = "nothing"
      BY <2>2 DEF Moved, how
    <3> QED BY <2>1, <2>2, <3>1
  <2>3. CASE mine # theirs /\ theirs = None
    <3>1. how = "send"
      BY <2>3 DEF Moved, how
    <3> QED BY <2>1, <2>3, <3>1
  <2>4. CASE mine # theirs /\ mine = None
    <3>1. how = "bring"
      BY <2>4 DEF Moved, how
    <3> QED BY <2>1, <2>4, <3>1
  <2>5. CASE mine # theirs /\ mine # None /\ theirs # None /\ carried[m] = mine
    <3>1. how = "bring"
      BY <2>5 DEF Moved, how
    <3> QED BY <2>1, <2>5, <3>1
  <2>6. CASE mine # theirs /\ mine # None /\ theirs # None /\ carried[m] # mine /\ carried[m] = theirs
    <3>1. how = "send"
      BY <2>6 DEF Moved, how
    <3> QED BY <2>1, <2>6, <3>1
  <2>7. CASE mine # theirs /\ mine # None /\ theirs # None /\ carried[m] # mine /\ carried[m] # theirs
    <3>1. how = "they_decide"
      BY <2>7 DEF Moved, how
    <3> QED BY <2>1, <2>7, <3>1
  <2> QED BY <2>2, <2>3, <2>4, <2>5, <2>6, <2>7
<1>3. mine # None /\ theirs # None => mine \cup theirs \in Bodies /\ mine \cup theirs # None
  BY <1>0, BodyIsNotNone DEF Bodies
<1> HIDE DEF mine, theirs, becomes, stays, asks
<1> DEFINE same == /\ done.here # None
                   /\ done.there = done.here /\ done.said = done.here /\ done.asks = asked[m]
<1>4. \/ done = stays
      \/ /\ done = asks /\ mine # None /\ theirs # None /\ mine # theirs
         /\ carried[m] \notin {mine, theirs}
      \/ same /\ done.here = mine /\ (theirs = None \/ carried[m] = theirs \/ mine = theirs)
      \/ same /\ done.here = theirs /\ (mine = None \/ carried[m] = mine)
      \/ /\ same /\ mine # None /\ theirs # None /\ carried[m] # None
         /\ done.here = mine \cup theirs
  <2>1. CASE mine = theirs
    BY <1>1, <1>2, <2>1
  <2>2. CASE mine # theirs /\ mine # None /\ theirs = None
    <3>1. done = becomes(mine)
      BY <1>2, <2>2
    <3> QED BY <1>1, <2>2, <3>1
  <2>3. CASE mine # theirs /\ mine = None /\ theirs # None
    <3>1. done = stays \/ done = becomes(theirs)
      BY <1>2, <2>3
    <3> QED BY <1>1, <2>3, <3>1
  <2>4. CASE mine # theirs /\ mine # None /\ theirs # None /\ carried[m] = mine
    <3>1. done = stays \/ done = becomes(theirs)
      BY <1>2, <2>4
    <3> QED BY <1>1, <2>4, <3>1
  <2>5. CASE mine # theirs /\ mine # None /\ theirs # None /\ carried[m] # mine /\ carried[m] = theirs
    <3>1. done = becomes(mine)
      BY <1>2, <2>5
    <3> QED BY <1>1, <2>5, <3>1
  <2>6. CASE mine # theirs /\ mine # None /\ theirs # None /\ carried[m] \notin {mine, theirs}
    BY <1>1, <1>2, <1>3, <2>6
  <2> QED BY <2>1, <2>2, <2>3, <2>4, <2>5, <2>6
<1>5. \/ /\ done.here = mine /\ done.there = theirs /\ done.said = carried[m]
         /\ done.asks # asked[m] =>
               /\ mine # None /\ theirs # None /\ mine # theirs
               /\ carried[m] \notin {mine, theirs}
               /\ done.asks = [mine |-> mine, theirs |-> theirs]
      \/ same /\ done.here = mine /\ (theirs = None \/ carried[m] = theirs \/ mine = theirs)
      \/ same /\ done.here = theirs /\ (mine = None \/ carried[m] = mine)
      \/ /\ same /\ mine # None /\ theirs # None /\ carried[m] # None
         /\ done.here = mine \cup theirs
  <2>1. CASE done = stays
    BY <1>1, <2>1
  <2>2. CASE done = asks /\ mine # None /\ theirs # None /\ mine # theirs /\ carried[m] \notin {mine, theirs}
    BY <1>1, <2>2
  <2> QED BY <1>4, <2>1, <2>2
<1>6. /\ done.here \in {None} \cup Bodies /\ done.there \in {None} \cup Bodies
      /\ done.said \in {None} \cup Bodies
  BY <1>0, <1>3, <1>5
<1>7. done.asks \in {None} \cup [mine : Bodies, theirs : Bodies]
  <2>1. CASE done.asks = asked[m]
    BY <1>0, <2>1
  <2>2. CASE done.asks # asked[m]
    <3>1. mine \in Bodies /\ theirs \in Bodies /\ done.asks = [mine |-> mine, theirs |-> theirs]
      BY <1>0, <1>5, <2>2
    <3> QED BY <3>1
  <2> QED BY <2>1, <2>2
<1>8. MadeOf(m, done)
  BY <1>5 DEF MadeOf, Alike, mine, theirs
<1> QED BY <1>6, <1>7, <1>8

\* Whoever settles was asked about two versions.
SettlesWhatWasAsked == \A m \in Machines :
    round[m].work \in {"keep_mine", "keep_theirs"} => asked[m] # None

LEMMA WorkTypes ==
    ASSUME TypeOK, SettlesWhatWasAsked, NEW m \in Machines,
           Refuse(m) \/ Look(m) \/ Carry(m) \/ KeepMine(m) \/ KeepTheirs(m)
    PROVE  TypeOK'
<1>1. tree[m] \in Files /\ body[m] \in {None} \cup Bodies
  BY DEF TypeOK
<1>2. CASE Refuse(m)
  <2>1. Ends(m, Read(m)) /\ Read(m) \in Indexes(clock) /\ emptied' \in [Machines -> BOOLEAN]
    BY <1>2, ReadTypes DEF Refuse
  <2>2. /\ index' \in [Machines -> Indexes(clock)] /\ saved' \in [Machines -> Indexes(clock)]
        /\ round' \in [Machines -> Rounds(clock)]
    BY <2>1, EndsTypes DEF TypeOK
  <2> QED BY <1>2, <2>1, <2>2 DEF TypeOK, Refuse, person, data, cloud
<1>3. CASE Look(m)
  BY <1>1, <1>3, LeavesTypes DEF TypeOK, Look, person, data
<1>4. CASE Carry(m)
  <2> DEFINE events == history[m] \cup (IF tree[m]["store"] = None THEN {} ELSE tree[m]["store"])
  <2>1. events \in Bodies
    BY <1>1 DEF TypeOK, Files, Names, Bodies
  <2>2. PICK done \in Outcomes(m, events) :
            /\ history' = [history EXCEPT ![m] = events]
            /\ body' = [body EXCEPT ![m] = done.here]
            /\ carried' = [carried EXCEPT ![m] = done.said]
            /\ asked' = [asked EXCEPT ![m] = done.asks]
            /\ Leaves(m, [store |-> events, doc |-> done.there, stamp |-> {}])
    BY <1>4 DEF Carry
  <2> HIDE DEF events
  <2>3. /\ done.here \in {None} \cup Bodies /\ done.there \in {None} \cup Bodies
        /\ done.said \in {None} \cup Bodies
        /\ done.asks \in {None} \cup [mine : Bodies, theirs : Bodies]
    BY <2>1, OutcomesAre, TypesOfTypeOK
  <2>4. [store |-> events, doc |-> done.there, stamp |-> {}] \in Files
    BY <2>1, <2>3 DEF Files, Names, Bodies
  <2>5. /\ tree' \in [Machines -> Files] /\ index' \in [Machines -> Indexes(clock)]
        /\ emptied' \in [Machines -> BOOLEAN] /\ round' \in [Machines -> Rounds(clock)]
        /\ UNCHANGED <<saved, remote, touched, clock>>
    BY <2>2, <2>4, LeavesTypes
  <2>6. /\ history' \in [Machines -> Bodies] /\ body' \in [Machines -> {None} \cup Bodies]
        /\ carried' \in [Machines -> {None} \cup Bodies]
        /\ asked' \in [Machines -> {None} \cup [mine : Bodies, theirs : Bodies]]
    BY <2>1, <2>2, <2>3 DEF TypeOK
  <2> QED BY <1>4, <2>5, <2>6 DEF TypeOK, Carry, person
<1>5. ASSUME NEW whole \in {None} \cup Bodies, Chosen(m, whole), givenup' \subseteq Edits
      PROVE  TypeOK'
  <2>1. [tree[m] EXCEPT !["doc"] = whole] \in Files
    BY <1>1, <1>5 DEF Files, Names
  <2>2. /\ tree' \in [Machines -> Files] /\ index' \in [Machines -> Indexes(clock)]
        /\ emptied' \in [Machines -> BOOLEAN] /\ round' \in [Machines -> Rounds(clock)]
        /\ UNCHANGED <<saved, remote, touched, clock>>
    BY <1>5, <2>1, LeavesTypes DEF Chosen
  <2>3. /\ body' \in [Machines -> {None} \cup Bodies] /\ carried' \in [Machines -> {None} \cup Bodies]
        /\ asked' \in [Machines -> {None} \cup [mine : Bodies, theirs : Bodies]]
    BY <1>5 DEF TypeOK, Chosen
  <2> QED BY <1>5, <2>2, <2>3 DEF TypeOK, Chosen
<1>6. CASE KeepMine(m)
  <2>1. asked[m] # None
    BY <1>6 DEF KeepMine, Works, SettlesWhatWasAsked
  <2>2. givenup' \subseteq Edits
    BY <1>6, <2>1 DEF KeepMine, TypeOK, Bodies
  <2> QED BY <1>1, <1>5, <1>6, <2>2 DEF KeepMine
<1>7. CASE KeepTheirs(m)
  <2>1. tree[m]["doc"] \in {None} \cup Bodies
    BY <1>1 DEF Files, Names
  <2>2. asked[m] # None /\ asked[m].mine = body[m]
    BY <1>7 DEF KeepTheirs, Chosen, Leaves, Outdated, Works, SettlesWhatWasAsked
  <2>3. givenup' \subseteq Edits
    BY <1>7, <2>2 DEF KeepTheirs, TypeOK, Bodies
  <2> QED BY <1>5, <1>7, <2>1, <2>3 DEF KeepTheirs
<1> QED BY <1>2, <1>3, <1>4, <1>5, <1>6, <1>7

\* What is on its way up is in the copy.
LeftIsThere == \A m \in Machines :
    /\ round[m].step # "pushing" => round[m].left = {}
    /\ \A n \in round[m].left : tree[m][n] # None

LEMMA PutUpTypes ==
    ASSUME Types, LeftIsThere, NEW m \in Machines, NEW n \in Names, PutUp(m, n)
    PROVE  /\ clock' = clock + 1
           /\ remote' = [remote EXCEPT ![n] = [rev |-> clock + 1, body |-> tree[m][n]]]
           /\ [rev |-> clock + 1, body |-> tree[m][n]] \in Sights(clock + 1)
           /\ [rev |-> clock + 1, body |-> tree[m][n]] \in Sight
           /\ touched' = [touched EXCEPT ![n] = clock + 1]
<1>1. tree[m][n] \in Bodies /\ clock \in Nat
  BY DEF PutUp, NextLeft, LeftIsThere, Types, Files
<1>2. /\ [rev |-> clock + 1, body |-> tree[m][n]] \in Sight
      /\ [rev |-> clock + 1, body |-> tree[m][n]] \in Sights(clock + 1)
  BY <1>1 DEF Sight, Sights
<1> QED BY <1>2 DEF PutUp, Changes

\* What changes in the cloud keeps the cloud's types, and everybody else's.
LEMMA ChangesTypes ==
    ASSUME TypeOK, clock' = clock + 1, NEW n \in Names, NEW file \in Sights(clock + 1),
           remote' = [remote EXCEPT ![n] = file],
           touched' = [touched EXCEPT ![n] = clock + 1] \/ touched' = touched
    PROVE  /\ clock' \in Nat
           /\ remote' \in Sighted(clock') /\ touched' \in [Names -> 0..clock']
           /\ remote'[n] = file
<1>1. clock \in Nat /\ clock + 1 \in 0..(clock + 1) /\ 0..clock \subseteq 0..(clock + 1)
  BY DEF TypeOK
<1>2. Sighted(clock) \subseteq Sighted(clock + 1)
  BY <1>1, LaterTypes
<1>3. remote \in Sighted(clock + 1) /\ touched \in [Names -> 0..(clock + 1)]
  BY <1>1, <1>2 DEF TypeOK
<1>4. remote' \in Sighted(clock + 1) /\ remote'[n] = file
  BY <1>3 DEF Sighted
<1>5. touched' \in [Names -> 0..(clock + 1)]
  BY <1>1, <1>3
<1> QED BY <1>1, <1>4, <1>5

LEMMA MachinesLater ==
    ASSUME TypeOK
    PROVE  /\ clock \in Nat /\ clock + 1 \in Nat
           /\ index \in [Machines -> Indexes(clock + 1)] /\ saved \in [Machines -> Indexes(clock + 1)]
           /\ round \in [Machines -> Rounds(clock + 1)]
<1>1. clock \in Nat /\ clock + 1 \in Nat
  BY DEF TypeOK
<1> QED BY <1>1, LaterTypes DEF TypeOK

LEMMA PushTypes ==
    ASSUME TypeOK, LeftIsThere, NEW m \in Machines,
           Put(m) \/ PutUnanswered(m) \/ PutRefused(m) \/ PutCut(m) \/ EndPush(m)
    PROVE  TypeOK'
<1>0. round[m] \in Rounds(clock) /\ index[m] \in Indexes(clock)
  BY DEF TypeOK
<1>1. CASE Put(m)
  <2>1. PICK n \in Names : /\ PutUp(m, n)
                           /\ Noted(m, n, remote'[n])
                           /\ round' = [round EXCEPT ![m].left = @ \ {n}]
    BY <1>1 DEF Put
  <2> DEFINE file == [rev |-> clock + 1, body |-> tree[m][n]]
  <2>2. /\ clock' = clock + 1 /\ remote' = [remote EXCEPT ![n] = file] /\ file \in Sights(clock + 1)
        /\ touched' = [touched EXCEPT ![n] = clock + 1]
    BY <2>1, PutUpTypes, TypesOfTypeOK
  <2> HIDE DEF file
  <2>3. /\ clock' \in Nat /\ remote' \in Sighted(clock') /\ touched' \in [Names -> 0..clock']
        /\ remote'[n] = file
    BY <2>2, ChangesTypes
  <2>4. index' \in [Machines -> Indexes(clock + 1)]
    BY <2>1, <2>2, <2>3, MachinesLater, NotedTypes
  <2>5. round[m] \in Rounds(clock + 1)
    BY MachinesLater
  <2>6. [round[m] EXCEPT !.left = @ \ {n}] \in Rounds(clock + 1)
    BY <2>5 DEF Rounds
  <2>7. round' \in [Machines -> Rounds(clock + 1)]
    BY <2>1, <2>6, MachinesLater
  <2>8. saved' \in [Machines -> Indexes(clock')]
    BY <1>1, <2>2, MachinesLater DEF Put
  <2> QED BY <1>1, <2>2, <2>3, <2>4, <2>7, <2>8 DEF TypeOK, Put, person, data
<1>2. CASE PutUnanswered(m)
  <2>1. PICK n \in Names : PutUp(m, n)
    BY <1>2 DEF PutUnanswered
  <2>2. clock' = clock + 1 /\ clock' \in Nat /\ remote' \in Sighted(clock') /\ touched' \in [Names -> 0..clock']
    <3> DEFINE file == [rev |-> clock + 1, body |-> tree[m][n]]
    <3>1. /\ clock' = clock + 1 /\ remote' = [remote EXCEPT ![n] = file] /\ file \in Sights(clock + 1)
          /\ touched' = [touched EXCEPT ![n] = clock + 1]
      BY <2>1, PutUpTypes, TypesOfTypeOK
    <3> HIDE DEF file
    <3> QED BY <3>1, ChangesTypes
  <2>3. Ends(m, index[m]) /\ index[m] \in Indexes(clock + 1)
    BY <1>2, MachinesLater DEF PutUnanswered
  <2>4. /\ index' \in [Machines -> Indexes(clock + 1)] /\ saved' \in [Machines -> Indexes(clock + 1)]
        /\ round' \in [Machines -> Rounds(clock + 1)]
    BY <2>3, MachinesLater, EndsTypes
  <2>5. mishaps' \subseteq Mishaps /\ Cardinality(mishaps') <= MaxMishaps
    BY <1>2, MishapTypes DEF PutUnanswered
  <2> QED BY <1>2, <2>2, <2>4, <2>5 DEF TypeOK, PutUnanswered, person, data
<1>3. CASE PutRefused(m)
  <2>1. PICK n \in Names :
          /\ index' = [index EXCEPT ![m] = ReadAgain(m, n)]
          /\ round' = [round EXCEPT ![m].left = @ \ {n}, ![m].refused = TRUE]
    BY <1>3 DEF PutRefused
  <2>2. ReadAgain(m, n) \in Indexes(clock)
    BY <1>0, SeenTypes DEF ReadAgain, TypeOK, Sighted
  <2>3. [round[m] EXCEPT !.left = @ \ {n}, !.refused = TRUE] \in Rounds(clock)
    BY <1>0 DEF Rounds
  <2>4. round' = [round EXCEPT ![m] = [round[m] EXCEPT !.left = @ \ {n}, !.refused = TRUE]]
    BY <2>1 DEF TypeOK
  <2>5. index' \in [Machines -> Indexes(clock)] /\ round' \in [Machines -> Rounds(clock)]
    BY <2>1, <2>2, <2>3, <2>4 DEF TypeOK
  <2> QED BY <1>3, <2>5 DEF TypeOK, PutRefused, person, data, cloud
<1>4. CASE PutCut(m)
  <2>1. /\ index' \in [Machines -> Indexes(clock)] /\ saved' \in [Machines -> Indexes(clock)]
        /\ round' \in [Machines -> Rounds(clock)]
    BY <1>0, <1>4, EndsTypes DEF PutCut, TypeOK
  <2>2. mishaps' \subseteq Mishaps /\ Cardinality(mishaps') <= MaxMishaps
    BY <1>4, MishapTypes DEF PutCut
  <2> QED BY <1>4, <2>1, <2>2 DEF TypeOK, PutCut, person, data, cloud
<1>5. CASE EndPush(m)
  <2>1. /\ index' \in [Machines -> Indexes(clock)] /\ saved' \in [Machines -> Indexes(clock)]
        /\ round' \in [Machines -> Rounds(clock)]
    BY <1>0, <1>5, EndsTypes DEF EndPush, TypeOK
  <2> QED BY <1>5, <2>1 DEF TypeOK, EndPush, person, data, cloud
<1> QED BY <1>1, <1>2, <1>3, <1>4, <1>5

LEMMA TroubleTypes ==
    ASSUME TypeOK, Drift \/ DeleteAll \/ \E m \in Machines : Crash(m)
    PROVE  TypeOK'
<1>0. mishaps' \subseteq Mishaps /\ Cardinality(mishaps') <= MaxMishaps
  BY MishapTypes DEF Drift, DeleteAll, Crash
<1>1. CASE Drift
  <2>1. PICK n \in Names, told \in BOOLEAN :
            remote[n] # None /\ Changes(n, [remote[n] EXCEPT !.rev = clock + 1], told)
    BY <1>1, MirrorAssumption DEF Drift
  <2> DEFINE file == [remote[n] EXCEPT !.rev = clock + 1]
  <2>2. file \in Sights(clock + 1)
    <3>1. remote[n] \in Sights(clock) /\ clock \in Nat
      BY <2>1 DEF TypeOK, Sighted
    <3> QED BY <3>1 DEF Sights
  <2>3. /\ clock' = clock + 1 /\ remote' = [remote EXCEPT ![n] = file]
        /\ touched' = [touched EXCEPT ![n] = clock + 1] \/ touched' = touched
    BY <2>1 DEF Changes
  <2> HIDE DEF file
  <2>4. clock' \in Nat /\ remote' \in Sighted(clock') /\ touched' \in [Names -> 0..clock']
    BY <2>2, <2>3, ChangesTypes
  <2>5. /\ index' \in [Machines -> Indexes(clock')] /\ saved' \in [Machines -> Indexes(clock')]
        /\ round' \in [Machines -> Rounds(clock')]
    BY <1>1, <2>3, MachinesLater DEF Drift, mirror
  <2> QED BY <1>0, <1>1, <2>4, <2>5 DEF TypeOK, Drift, person, data, mirror
<1>2. CASE DeleteAll
  <2>1. /\ clock' = clock + 1 /\ clock \in Nat /\ remote' = Nowhere
        /\ touched' = [n \in Names |-> IF remote[n] = None THEN touched[n] ELSE clock + 1]
    BY <1>2 DEF DeleteAll, TypeOK
  <2>2. clock' \in Nat /\ remote' \in Sighted(clock') /\ touched' \in [Names -> 0..clock']
    <3>1. \A n \in Names : touched[n] \in 0..(clock + 1)
      BY LaterTypes DEF TypeOK
    <3> QED BY <2>1, <3>1, EmptyTypes
  <2>3. /\ index' \in [Machines -> Indexes(clock')] /\ saved' \in [Machines -> Indexes(clock')]
        /\ round' \in [Machines -> Rounds(clock')]
    BY <1>2, <2>1, MachinesLater DEF DeleteAll, mirror
  <2>4. written' \in 0..MaxEdits
    BY <1>2, MirrorAssumption DEF DeleteAll, TypeOK
  <2> QED BY <1>0, <1>2, <2>2, <2>3, <2>4 DEF TypeOK, DeleteAll, data, mirror
<1>3. ASSUME NEW m \in Machines, Crash(m) PROVE TypeOK'
  <2>1. clock \in Nat /\ Idle \in Rounds(clock)
    BY EmptyTypes DEF TypeOK
  <2> QED BY <1>0, <1>3, <2>1 DEF TypeOK, Crash, person, data, cloud
<1> QED BY <1>1, <1>2, <1>3

LEMMA StepsKeepTypes ==
    ASSUME TypeOK, LeftIsThere, SettlesWhatWasAsked, [Next]_vars
    PROVE  TypeOK'
<1>1. CASE UNCHANGED vars
  BY <1>1 DEF vars, person, data, mirror, cloud, TypeOK
<1>2. ASSUME NEW m \in Machines, CarryOn(m) PROVE TypeOK'
  BY <1>2, BeginTypes, LearnTypes, FetchTypes, WorkTypes, PushTypes DEF CarryOn
<1>3. ASSUME NEW m \in Machines, CutShort(m) PROVE TypeOK'
  BY <1>3, FetchTypes, PushTypes, TroubleTypes DEF CutShort
<1> QED BY <1>1, <1>2, <1>3, EditTypes, BeginTypes, TroubleTypes DEF Next

LEMMA StepsKeepLeft ==
    ASSUME TypeOK, LeftIsThere, SettlesWhatWasAsked, [Next]_vars
    PROVE  LeftIsThere'
<1> DEFINE Ok(r, t) == /\ r.step # "pushing" => r.left = {}
                       /\ \A n \in r.left : t[n] # None
<1>0. \A m \in Machines : Ok(round[m], tree[m]) /\ round[m] \in Rounds(clock)
  BY DEF LeftIsThere, TypeOK
<1>a. ASSUME NEW m \in Machines, \A x \in Machines \ {m} : round'[x] = round[x] /\ tree'[x] = tree[x],
             Ok(round'[m], tree'[m])
      PROVE  LeftIsThere'
  BY <1>0, <1>a DEF LeftIsThere
<1>b. \A t : Ok(Idle, t)
  BY DEF Idle
<1>c. ASSUME NEW m \in Machines, NEW known, Ends(m, known), tree' = tree
      PROVE  LeftIsThere'
  <2>1. round' = [round EXCEPT ![m] = Idle]
    BY <1>c DEF Ends
  <2> HIDE DEF Ok
  <2> QED BY <1>a, <1>b, <1>c, <2>1 DEF TypeOK
<1>1. ASSUME NEW m \in Machines, NEW work, NEW again, NEW upto, Pull(m, work, again, upto)
      PROVE  LeftIsThere'
  <2>1. /\ \A x \in Machines \ {m} : round'[x] = round[x] /\ tree'[x] = tree[x]
        /\ round'[m].left = {}
    <3>1. \E r, t : /\ round' = [round EXCEPT ![m] = r] /\ r.left = {}
                    /\ tree' = [tree EXCEPT ![m] = t] \/ tree' = tree
      <4> DEFINE from  == IF again THEN NewIndex ELSE index[m]
                 files == IF again THEN Nowhere ELSE tree[m]
                 told  == Told(from.at, upto)
      <4>1. CASE DeletedWhole(from.known, told)
        <5>1. round' = [round EXCEPT ![m] = Idle] /\ tree' = tree
          BY <1>1, <4>1 DEF Pull, Ends
        <5>2. Idle.left = {}
          BY DEF Idle
        <5> QED BY <5>1, <5>2
      <4>2. CASE ~DeletedWhole(from.known, told)
        <5> DEFINE r == [Idle EXCEPT !.step = "pulling", !.work = work, !.at = upto,
                                     !.due = DueAfter(from, told)]
        <5>1. /\ round' = [round EXCEPT ![m] = r]
              /\ tree' = [tree EXCEPT ![m] = Forgotten(files, told.gone)]
          BY <1>1, <4>2 DEF Pull
        <5>2. r.left = {}
          BY DEF Idle
        <5> HIDE DEF r
        <5> QED BY <5>1, <5>2
      <4> QED BY <4>1, <4>2
    <3> QED BY <3>1 DEF TypeOK
  <2> QED BY <1>a, <2>1
<1>2. ASSUME UNCHANGED <<round, tree>> PROVE LeftIsThere'
  BY <1>2 DEF LeftIsThere
<1>3. ASSUME NEW m \in Machines, Learn(m) \/ Fetch(m) \/ FetchBroken(m)
      PROVE  LeftIsThere'
  <2>1. PICK n \in Names : round[m].step = "pulling" /\ round' = Learned(m, n)
    BY <1>3 DEF Learn, Fetch, FetchBroken, MustFetch, NextDue
  <2>2. \A x \in Machines \ {m} : round'[x] = round[x] /\ tree'[x] = tree[x]
    BY <1>3, <2>1 DEF Learned, TypeOK, Learn, Fetch, FetchBroken
  <2>3. round'[m].left = {}
    BY <1>0, <2>1 DEF Learned, TypeOK, Rounds
  <2> QED BY <1>a, <2>2, <2>3
<1>4. ASSUME NEW m \in Machines, NEW files \in Files, Leaves(m, files)
      PROVE  LeftIsThere'
  <2>1. /\ \A x \in Machines \ {m} : round'[x] = round[x] /\ tree'[x] = tree[x]
        /\ round'[m].step = "pushing" /\ round'[m].left = Dirty(m, files) /\ tree'[m] = files
    BY <1>4 DEF Leaves, TypeOK, Idle
  <2> QED BY <1>a, <2>1 DEF Dirty
<1>5. ASSUME NEW m \in Machines, Put(m) \/ PutRefused(m)
      PROVE  LeftIsThere'
  <2>1. /\ \A x \in Machines \ {m} : round'[x] = round[x] /\ tree'[x] = tree[x]
        /\ round'[m].step = round[m].step /\ round'[m].left \subseteq round[m].left
        /\ tree'[m] = tree[m]
    <3>1. CASE Put(m)
      BY <1>0, <3>1 DEF Put, TypeOK, Rounds
    <3>2. CASE PutRefused(m)
      BY <1>0, <3>2 DEF PutRefused, TypeOK, Rounds
    <3> QED BY <1>5, <3>1, <3>2
  <2> QED BY <1>0, <1>a, <2>1
<1> HIDE DEF Ok
<1>6. ASSUME NEW m \in Machines,
             \/ Begin(m) \/ Again(m) \/ BeginLook(m) \/ BeginBehind(m)
             \/ Settle(m, "keep_mine") \/ Settle(m, "keep_theirs")
      PROVE  LeftIsThere'
  BY <1>1, <1>6 DEF Begin, Again, BeginLook, BeginBehind, Settle
<1>7. ASSUME NEW m \in Machines, Look(m) \/ Carry(m) \/ KeepMine(m) \/ KeepTheirs(m)
      PROVE  LeftIsThere'
  <2>1. \E files : Leaves(m, files)
    BY <1>7 DEF Look, Carry, KeepMine, KeepTheirs, Chosen
  <2>2. PICK files : Leaves(m, files)
    BY <2>1
  <2>3. tree' = [tree EXCEPT ![m] = files] /\ tree' \in [Machines -> Files]
    BY <1>7, <2>2, WorkTypes DEF Leaves, TypeOK
  <2>4. files \in Files
    BY <2>3 DEF TypeOK
  <2> QED BY <1>4, <2>2, <2>4
<1>8. ASSUME NEW m \in Machines,
             \/ Refuse(m) \/ FetchCut(m) \/ PutUnanswered(m) \/ PutCut(m) \/ EndPush(m) \/ Crash(m)
      PROVE  LeftIsThere'
  <2>1. CASE Crash(m)
    <3>1. round' = [round EXCEPT ![m] = Idle] /\ tree' = tree
      BY <2>1 DEF Crash
    <3> QED BY <1>a, <1>b, <3>1 DEF TypeOK
  <2>2. CASE ~Crash(m)
    <3>1. tree' = tree /\ \E known : Ends(m, known)
      BY <1>8, <2>2 DEF Refuse, FetchCut, PutUnanswered, PutCut, EndPush
    <3> QED BY <1>c, <3>1
  <2> QED BY <2>1, <2>2
<1>9. ASSUME Drift \/ DeleteAll \/ (\E m \in Machines : Edit(m)) \/ UNCHANGED vars
      PROVE  LeftIsThere'
  <2>1. UNCHANGED <<round, tree>>
    BY <1>9 DEF Drift, DeleteAll, Edit, mirror, vars
  <2> QED BY <1>2, <2>1
<1> QED BY <1>3, <1>5, <1>6, <1>7, <1>8, <1>9 DEF Next, CarryOn, CutShort
LEMMA StepsKeepSettling ==
    ASSUME TypeOK, SettlesWhatWasAsked, [Next]_vars
    PROVE  SettlesWhatWasAsked'
<1>1. Idle.work = "carry"
  BY DEF Idle
<1>a. ASSUME NEW m \in Machines, NEW r, round' = [round EXCEPT ![m] = r], asked' = asked,
             r.work \in {"keep_mine", "keep_theirs"} => asked[m] # None
      PROVE  SettlesWhatWasAsked'
  BY <1>a DEF SettlesWhatWasAsked, TypeOK
<1>b. ASSUME NEW m \in Machines, NEW known, Ends(m, known), asked' = asked
      PROVE  SettlesWhatWasAsked'
  BY <1>1, <1>a, <1>b DEF Ends
<1>2. ASSUME NEW m \in Machines, NEW work, NEW again, NEW upto, Pull(m, work, again, upto),
             asked' = asked, work \in {"keep_mine", "keep_theirs"} => asked[m] # None
      PROVE  SettlesWhatWasAsked'
  <2> DEFINE from == IF again THEN NewIndex ELSE index[m]
             told == Told(from.at, upto)
             r    == [Idle EXCEPT !.step = "pulling", !.work = work, !.at = upto,
                                  !.due = DueAfter(from, told)]
  <2>1. CASE DeletedWhole(from.known, told)
    <3>1. Ends(m, from)
      BY <1>2, <2>1 DEF Pull
    <3> QED BY <1>2, <1>b, <3>1
  <2>2. CASE ~DeletedWhole(from.known, told)
    <3>1. round' = [round EXCEPT ![m] = r]
      BY <1>2, <2>2 DEF Pull
    <3>2. r.work = work
      BY DEF Idle
    <3> HIDE DEF r
    <3> QED BY <1>2, <1>a, <3>1, <3>2
  <2> QED BY <2>1, <2>2
<1>3. ASSUME NEW m \in Machines,
             \/ Begin(m) \/ Again(m) \/ BeginLook(m) \/ BeginBehind(m)
             \/ Settle(m, "keep_mine") \/ Settle(m, "keep_theirs")
      PROVE  SettlesWhatWasAsked'
  BY <1>2, <1>3 DEF Begin, Again, BeginLook, BeginBehind, Settle, data
<1>4. ASSUME NEW m \in Machines,
             \/ Learn(m) \/ Fetch(m) \/ FetchBroken(m) \/ Put(m) \/ PutRefused(m)
      PROVE  SettlesWhatWasAsked'
  <2>1. asked' = asked /\ \A x \in Machines : round'[x].work = round[x].work
    <3>1. CASE Learn(m) \/ Fetch(m) \/ FetchBroken(m)
      BY <3>1 DEF Learn, Fetch, FetchBroken, Learned, data, TypeOK, Rounds
    <3>2. CASE Put(m)
      <4>1. PICK n \in Names : round' = [round EXCEPT ![m].left = @ \ {n}]
        BY <3>2 DEF Put
      <4> QED BY <3>2, <4>1 DEF Put, data, TypeOK, Rounds
    <3>3. CASE PutRefused(m)
      <4>1. PICK n \in Names : round' = [round EXCEPT ![m].left = @ \ {n}, ![m].refused = TRUE]
        BY <3>3 DEF PutRefused
      <4> QED BY <3>3, <4>1 DEF PutRefused, data, TypeOK, Rounds
    <3> QED BY <1>4, <3>1, <3>2, <3>3
  <2> QED BY <2>1 DEF SettlesWhatWasAsked
<1>5. ASSUME NEW m \in Machines,
             \/ Refuse(m) \/ FetchCut(m) \/ PutUnanswered(m) \/ PutCut(m) \/ EndPush(m) \/ Crash(m)
      PROVE  SettlesWhatWasAsked'
  <2>1. CASE Crash(m)
    BY <1>1, <1>a, <2>1 DEF Crash, data
  <2>2. CASE ~Crash(m)
    <3>1. asked' = asked /\ \E known : Ends(m, known)
      BY <1>5, <2>2 DEF Refuse, FetchCut, PutUnanswered, PutCut, EndPush, data
    <3> QED BY <1>b, <3>1
  <2> QED BY <2>1, <2>2
<1>6. ASSUME NEW m \in Machines, Look(m) \/ Carry(m) \/ KeepMine(m) \/ KeepTheirs(m)
      PROVE  SettlesWhatWasAsked'
  <2>1. /\ \E files : Leaves(m, files)
        /\ \A x \in Machines \ {m} : asked'[x] = asked[x]
    BY <1>6 DEF Look, Carry, KeepMine, KeepTheirs, Chosen, data, TypeOK
  <2>2. round'[m].work = "carry" /\ \A x \in Machines \ {m} : round'[x] = round[x]
    BY <2>1 DEF Leaves, TypeOK, Idle
  <2> QED BY <2>1, <2>2 DEF SettlesWhatWasAsked
<1>7. ASSUME Drift \/ DeleteAll \/ (\E m \in Machines : Edit(m)) \/ UNCHANGED vars
      PROVE  SettlesWhatWasAsked'
  <2>1. UNCHANGED <<round, asked>>
    BY <1>7 DEF Drift, DeleteAll, Edit, data, vars
  <2> QED BY <2>1 DEF SettlesWhatWasAsked
<1> QED BY <1>3, <1>4, <1>5, <1>6, <1>7 DEF Next, CarryOn, CutShort

TypesInv == TypeOK /\ LeftIsThere /\ SettlesWhatWasAsked

LEMMA TypesInvAtFirst == Init => TypesInv
BY TypesAtFirst DEF Init, TypesInv, LeftIsThere, SettlesWhatWasAsked, Idle

LEMMA TypesInvStays == TypesInv /\ [Next]_vars => TypesInv'
BY StepsKeepTypes, StepsKeepLeft, StepsKeepSettling DEF TypesInv

\* Every variable keeps to its type, and nobody knows of a revision, or stands at a cursor, that
\* the cloud has not come to, whatever is refused, unanswered, told late, crashed over, moved or
\* deleted (tisty-carrier/src/cloud/mirror.rs, cloud/index.rs): for any number of machines,
\* edits, settlings and mishaps.
THEOREM TypeCorrect == Spec => []TypeOK
<1>1. TypesInv => TypeOK
  BY DEF TypesInv
<1> QED BY <1>1, TypesInvAtFirst, TypesInvStays, PTL DEF Spec

-----------------------------------------------------------------------------
(* Nothing is taken back                                                   *)

\* A file as it was seen: it has not gone since, nor come back to a revision it left, and of what
\* the document or the history held nothing is missing but what somebody gave up.
Old(n, s) ==
    /\ remote[n] # None
    /\ s.rev <= clock /\ s.rev <= remote[n].rev
    /\ s.rev = remote[n].rev => s = remote[n]
    /\ n # "stamp" => s.body \subseteq remote[n].body \cup givenup

\* All that a machine has of a file in the cloud.
HasSeen(m, n) ==
    {index[m].known[n], index[m].owed[n], saved[m].known[n], saved[m].owed[n], round[m].due[n]} \ {None}

SeesWhatWas(m) ==
    /\ ~emptied[m] /\ index[m].at # None /\ saved[m].at # None
    /\ \A n \in Names : \A s \in HasSeen(m, n) : Old(n, s)

\* The copy holds what it was last known to go either way, and what was carried is in both.
CopyHoldsTheKnown(m) ==
    /\ \A n \in {"doc", "store"} : \A known \in {index[m].known[n], saved[m].known[n]} \ {None} :
          tree[m][n] # None /\ known.body \subseteq tree[m][n] \cup givenup
    /\ carried[m] # None =>
          /\ body[m] # None /\ carried[m] \subseteq body[m] \cup givenup
          /\ tree[m]["doc"] # None /\ carried[m] \subseteq tree[m]["doc"] \cup givenup
    /\ asked[m] # None => body[m] # None

\* A person who keeps theirs or ours was shown what stands in the copy.
ShownAsItIs(m) ==
    round[m].step = "pulling" /\ round[m].work \in {"keep_mine", "keep_theirs"} =>
        /\ asked[m] # None
        /\ round[m].work = "keep_mine" => round[m].due["doc"] = None /\ tree[m]["doc"] = asked[m].theirs

CloudGoesOn ==
    /\ \A n \in Names : remote[n] # None => remote[n].rev <= clock
    /\ \A n \in Names : touched[n] # 0 => remote[n] # None

Holds(m) == SeesWhatWas(m) /\ CopyHoldsTheKnown(m) /\ ShownAsItIs(m)

\* Until the store is deleted whole.
Kept == "deleted_whole" \in mishaps \/ (CloudGoesOn /\ \A m \in Machines : Holds(m))

IInv == TypesInv /\ Kept

\* A step that takes nothing away: what is in the cloud stays, or goes to a later revision with
\* all that the document or the history held but what was given up.
Onward ==
    /\ clock <= clock' /\ givenup \subseteq givenup'
    /\ \A n \in Names : remote[n] # None =>
          /\ remote'[n] # None
          /\ remote'[n] = remote[n] \/ clock < remote'[n].rev
          /\ n # "stamp" => remote[n].body \subseteq remote'[n].body \cup givenup'

\* A machine that has no part in a step.
Aside(m) ==
    /\ body'[m] = body[m] /\ carried'[m] = carried[m] /\ asked'[m] = asked[m] /\ tree'[m] = tree[m]
    /\ index'[m] = index[m] /\ saved'[m] = saved[m] /\ emptied'[m] = emptied[m] /\ round'[m] = round[m]

\* What a machine has of the cloud after a step it had before, or is what is there.
SeesNoMore(m) == \A n \in Names : HasSeen(m, n)' \subseteq HasSeen(m, n) \cup {remote'[n]}

LEMMA OldStays ==
    ASSUME Types, Types', Onward, NEW n \in Names, NEW s \in Sight, Old(n, s)
    PROVE  Old(n, s)'
<1>1. /\ s.rev \in Nat /\ clock \in Nat /\ clock' \in Nat
      /\ remote[n] \in Sight
      /\ remote'[n] # None => remote'[n] \in Sight
  BY DEF Old, Types, SightsOf, Sight
<1>2. remote'[n] # None /\ remote'[n].rev \in Nat
  <2>1. remote'[n] # None
    BY DEF Onward, Old
  <2> QED BY <1>1, <2>1 DEF Sight
<1>3. s.rev <= clock' /\ s.rev <= remote'[n].rev /\ (s.rev = remote'[n].rev => s = remote'[n])
  BY <1>1, <1>2 DEF Onward, Old
<1>4. n # "stamp" => s.body \subseteq remote'[n].body \cup givenup'
  BY DEF Onward, Old
<1> QED BY <1>2, <1>3, <1>4 DEF Old

LEMMA SeenTyped ==
    ASSUME Types, NEW m \in Machines, NEW n \in Names
    PROVE  HasSeen(m, n) \subseteq Sight
<1>1. index[m] \in Index /\ saved[m] \in Index /\ round[m] \in Round
  BY DEF Types
<1> QED BY <1>1 DEF HasSeen, Index, Round, SightsOf

LEMMA SightStays ==
    ASSUME Types, Types', CloudGoesOn', Onward, NEW m \in Machines, SeesWhatWas(m), SeesNoMore(m),
           ~emptied'[m], index'[m].at # None, saved'[m].at # None
    PROVE  SeesWhatWas(m)'
<1>1. ASSUME NEW n \in Names, NEW s \in HasSeen(m, n)'
      PROVE  Old(n, s)'
  <2>1. CASE s \in HasSeen(m, n)
    BY <2>1, OldStays, SeenTyped DEF SeesWhatWas
  <2>2. CASE s = remote'[n]
    <3>1. s # None
      BY DEF HasSeen
    <3>2. s \in Sight /\ s.rev \in Nat
      BY <2>2, <3>1 DEF Types, SightsOf, Sight
    <3> QED BY <2>2, <3>1, <3>2 DEF Old, CloudGoesOn
  <2> QED BY <1>1, <2>1, <2>2 DEF SeesNoMore
<1> QED BY <1>1 DEF SeesWhatWas

LEMMA AsideStays ==
    ASSUME Types, Types', CloudGoesOn', Onward, NEW m \in Machines, Holds(m), Aside(m)
    PROVE  Holds(m)'
<1>1. SeesWhatWas(m)' /\ SeesNoMore(m)
  <2>1. SeesNoMore(m)
    BY DEF SeesNoMore, HasSeen, Aside
  <2> QED BY <2>1, SightStays DEF Holds, Aside, SeesWhatWas
<1>2. CopyHoldsTheKnown(m)'
  BY DEF Holds, CopyHoldsTheKnown, Aside, Onward
<1>3. ShownAsItIs(m)'
  BY DEF Holds, ShownAsItIs, Aside
<1> QED BY <1>1, <1>2, <1>3 DEF Holds

\* The copy and the document stay as they are, and of the copy no more is known than was, or than
\* it holds.
LEMMA CopyStays ==
    ASSUME NEW m \in Machines, CopyHoldsTheKnown(m), givenup \subseteq givenup',
           body'[m] = body[m], asked'[m] = asked[m], carried'[m] \in {None, carried[m]},
           \A n \in {"doc", "store"} :
              /\ tree'[m][n] = tree[m][n]
              /\ \A k \in {index'[m].known[n], saved'[m].known[n]} :
                    \/ k \in {None, index[m].known[n], saved[m].known[n]}
                    \/ tree[m][n] # None /\ k.body \subseteq tree[m][n] \cup givenup
    PROVE  CopyHoldsTheKnown(m)'
BY DEF CopyHoldsTheKnown

\* A step of one machine after which everything still holds.
Goes(m) ==
    /\ Onward /\ CloudGoesOn' /\ Holds(m)' /\ SeesNoMore(m)
    /\ \A x \in Machines \ {m} : Aside(x)
    /\ body[m] # None => body[m] \ body'[m] \subseteq givenup'

\* Nothing happens in the cloud.
LEMMA CloudStays ==
    ASSUME CloudGoesOn, UNCHANGED cloud, givenup \subseteq givenup', Types
    PROVE  Onward /\ CloudGoesOn'
BY DEF Onward, CloudGoesOn, cloud, Types

LEMMA EditGoes ==
    ASSUME Types, Types', CloudGoesOn, NEW m \in Machines, Holds(m), Edit(m)
    PROVE  Goes(m)
<1>1. Onward /\ CloudGoesOn'
  BY CloudStays DEF Edit
<1>2. \A x \in Machines \ {m} : Aside(x)
  BY DEF Edit, Aside, Types, mirror
<1>3. body[m] # None /\ body'[m] = body[m] \cup {written + 1}
  BY DEF Edit, Types
<1>4. SeesWhatWas(m)' /\ SeesNoMore(m)
  <2>1. SeesNoMore(m)
    BY DEF SeesNoMore, HasSeen, Edit, mirror
  <2> QED BY <1>1, <2>1, SightStays DEF Holds, SeesWhatWas, Edit, mirror
<1>5. body'[m] # None
  <2>1. written + 1 \in Edits /\ body[m] \in Bodies
    BY <1>3, MirrorAssumption DEF Edit, Types, Edits
  <2>2. body'[m] \in Bodies
    BY <1>3, <2>1 DEF Bodies
  <2> QED BY <2>2, BodyIsNotNone
<1>6. CopyHoldsTheKnown(m)'
  BY <1>3, <1>5 DEF Holds, CopyHoldsTheKnown, Edit, mirror
<1>7. ShownAsItIs(m)'
  BY DEF Holds, ShownAsItIs, Edit, mirror
<1> QED BY <1>1, <1>2, <1>3, <1>4, <1>6, <1>7 DEF Goes, Holds

\* The kinds of mishap the argument is not for.  Ours is put over a document nobody was shown
\* where the pull of a settling brings it, and a new document may go up where another was just
\* deleted: neither is what a person chose to do without.
AsShown == Mishaps \cap {"settled_late", "deleted_under_a_new_file"} = {}

\* A pull finds nothing gone, and the store never deleted whole.
LEMMA PullIs ==
    ASSUME Types, CloudGoesOn, NEW m \in Machines, SeesWhatWas(m),
           NEW work, NEW upto, Pull(m, work, FALSE, upto)
    PROVE  LET due == DueAfter(index[m], Told(index[m].at, upto))
           IN  /\ UNCHANGED <<saved, tree, emptied>>
               /\ index' = [index EXCEPT ![m] = [index[m] EXCEPT !.owed = Nowhere]]
               /\ round' = [round EXCEPT ![m] = [Idle EXCEPT !.step = "pulling", !.work = work,
                                                             !.at = upto, !.due = due]]
               /\ \A n \in Names : due[n] \in {remote[n], index[m].owed[n]}
<1> DEFINE told == Told(index[m].at, upto)
           due  == DueAfter(index[m], told)
<1>1. index[m] \in Index /\ index[m].at \in Nat /\ index[m].at # None
  BY DEF Types, SeesWhatWas, Index
<1>2. told.gone = {}
  BY <1>1 DEF Told, CloudGoesOn, Types
<1>3. \A n \in Names : told.changed[n] \in {None, remote[n]}
  BY DEF Told
<1>4. \A n \in Names : due[n] \in {remote[n], index[m].owed[n]}
  BY <1>2, <1>3 DEF DueAfter
<1>5. ~DeletedWhole(index[m].known, told)
  BY <1>2 DEF DeletedWhole, Names
<1> HIDE DEF told
<1>6. /\ emptied' = [emptied EXCEPT ![m] = @ /\ ~FALSE]
      /\ saved' = [saved EXCEPT ![m] = IF FALSE THEN NewIndex ELSE @]
      /\ tree' = [tree EXCEPT ![m] = Forgotten(tree[m], told.gone)]
      /\ index' = [index EXCEPT ![m] = [index[m] EXCEPT
             !.owed = Nowhere, !.known = Forgotten(@, told.gone)]]
      /\ round' = [round EXCEPT ![m] = [Idle EXCEPT
             !.step = "pulling", !.work = work, !.at = upto, !.due = due]]
  BY <1>5 DEF Pull, told
<1>7. emptied' = emptied
  BY <1>6, Zenon DEF Types, SeesWhatWas
<1>8. saved' = saved
  BY <1>6 DEF Types
<1>9. Forgotten(tree[m], told.gone) = tree[m] /\ Forgotten(index[m].known, told.gone) = index[m].known
  BY <1>1, <1>2 DEF Forgotten, Types, Files, Index, SightsOf
<1>10. tree' = tree
  BY <1>6, <1>9 DEF Types
<1>11. [index[m] EXCEPT !.owed = Nowhere, !.known = Forgotten(@, told.gone)]
         = [index[m] EXCEPT !.owed = Nowhere]
  BY <1>1, <1>9 DEF Index
<1> HIDE DEF due
<1> QED BY <1>4, <1>6, <1>7, <1>8, <1>10, <1>11 DEF due, told

LEMMA BeginGoes ==
    ASSUME AsShown, Types, Types', CloudGoesOn, NEW m \in Machines, Holds(m),
           \/ Begin(m) \/ BeginBehind(m) \/ BeginLook(m)
           \/ Settle(m, "keep_mine") \/ Settle(m, "keep_theirs")
    PROVE  Goes(m)
<1>1. PICK work, upto :
        /\ Pull(m, work, FALSE, upto)
        /\ work \in {"keep_mine", "keep_theirs"} => Settle(m, work) /\ upto = clock
  <2> DEFINE settling == {"keep_mine", "keep_theirs"}
  <2>0. "carry" \notin settling /\ "look" \notin settling
    OBVIOUS
  <2> HIDE DEF settling
  <2>1. CASE BeginBehind(m)
    <3>1. PICK upto : Pull(m, "carry", FALSE, upto)
      BY <2>1 DEF BeginBehind
    <3> QED BY <2>0, <3>1, Zenon DEF settling
  <2>2. CASE Begin(m) \/ BeginLook(m)
    BY <2>0, <2>2, Zenon DEF Begin, BeginLook, settling
  <2>3. ASSUME NEW work, Settle(m, work) PROVE Pull(m, work, FALSE, clock)
    BY <2>3 DEF Settle
  <2> QED BY <2>1, <2>2, <2>3
<1>2. UNCHANGED <<body, carried, asked, givenup>> /\ UNCHANGED cloud
  BY DEF Begin, BeginBehind, BeginLook, Settle, person, data
<1>3. Onward /\ CloudGoesOn'
  BY <1>2, CloudStays
<1> DEFINE due == DueAfter(index[m], Told(index[m].at, upto))
           going == [Idle EXCEPT !.step = "pulling", !.work = work, !.at = upto, !.due = due]
<1>4. /\ UNCHANGED <<saved, tree, emptied>>
      /\ index' = [index EXCEPT ![m] = [index[m] EXCEPT !.owed = Nowhere]]
      /\ round' = [round EXCEPT ![m] = going]
      /\ \A n \in Names : due[n] \in {remote[n], index[m].owed[n]}
  BY <1>1, PullIs DEF Holds
<1>5. going.step = "pulling" /\ going.work = work /\ going.due = due
  BY DEF Idle
<1> HIDE DEF going
<1>6. /\ index'[m].at = index[m].at /\ index'[m].known = index[m].known /\ index'[m].owed = Nowhere
      /\ round'[m] = going
  BY <1>4 DEF Types, Index
<1>7. \A x \in Machines \ {m} : Aside(x)
  BY <1>2, <1>4 DEF Aside, Types
<1>8. SeesWhatWas(m)' /\ SeesNoMore(m)
  <2>1. SeesNoMore(m)
    <3>1. \A n \in Names : Nowhere[n] = None
      BY DEF Nowhere
    <3>2. remote' = remote
      BY <1>2 DEF cloud
    <3> HIDE DEF due
    <3> QED BY <1>4, <1>5, <1>6, <3>1, <3>2 DEF SeesNoMore, HasSeen
  <2>2. ~emptied'[m] /\ index'[m].at # None /\ saved'[m].at # None
    BY <1>4, <1>6 DEF Holds, SeesWhatWas
  <2> QED BY <1>3, <2>1, <2>2, SightStays DEF Holds
<1>9. CopyHoldsTheKnown(m)'
  BY <1>2, <1>4, <1>6, CopyStays DEF Holds
<1>10. ShownAsItIs(m)'
  <2> SUFFICES ASSUME work \in {"keep_mine", "keep_theirs"}
               PROVE  /\ asked[m] # None
                      /\ work = "keep_mine" => due["doc"] = None /\ tree[m]["doc"] = asked[m].theirs
    BY <1>2, <1>4, <1>5, <1>6 DEF ShownAsItIs
  <2>1. Settle(m, work) /\ due = DueAfter(index[m], Told(index[m].at, clock))
    BY <1>1
  <2> HIDE DEF due
  <2>2. work = "keep_mine" => ~Coming(m)
    BY <2>1 DEF Settle, Mishap, AsShown
  <2> QED BY <2>1, <2>2 DEF Settle, Coming
<1> QED BY <1>2, <1>3, <1>7, <1>8, <1>9, <1>10 DEF Goes, Holds

\* Reading the files that changed: the round goes on with one of them less to be learned.
LEMMA LearnedGoesOn ==
    ASSUME Types, NEW m \in Machines, NEW n \in Names, round' = Learned(m, n)
    PROVE  /\ \A x \in Machines \ {m} : round'[x] = round[x]
           /\ round'[m].step = round[m].step /\ round'[m].work = round[m].work
           /\ round'[m].due = [round[m].due EXCEPT ![n] = None]
           /\ \A f \in Names : round'[m].due[f] \in {None, round[m].due[f]}
<1>1. round[m] \in Round /\ round \in [Machines -> Round]
  BY DEF Types
<1> QED BY <1>1 DEF Learned, Round, SightsOf

LEMMA ShownStays ==
    ASSUME Types, NEW m \in Machines, ShownAsItIs(m), NEW n \in Names, NextDue(m, n),
           round' = Learned(m, n), asked' = asked, n # "doc" => tree'[m]["doc"] = tree[m]["doc"]
    PROVE  ShownAsItIs(m)'
<1>1. /\ round'[m].step = round[m].step /\ round'[m].work = round[m].work
      /\ round'[m].due["doc"] \in {None, round[m].due["doc"]}
  BY LearnedGoesOn DEF Names
<1> QED BY <1>1 DEF ShownAsItIs, NextDue

LEMMA LearnGoes ==
    ASSUME Types, Types', CloudGoesOn, NEW m \in Machines, Holds(m), Learn(m)
    PROVE  Goes(m)
<1>1. UNCHANGED <<body, carried, asked, tree, saved, emptied, givenup>> /\ UNCHANGED cloud
  BY DEF Learn, person, data
<1>2. Onward /\ CloudGoesOn'
  BY <1>1, CloudStays
<1>3. PICK n \in Names :
        /\ NextDue(m, n) /\ round' = Learned(m, n)
        /\ \/ UNCHANGED index
           \/ Resembles(m, n) /\ Noted(m, n, Seen(m, n))
           \/ Pending(m, n) /\ OursStill(m, n) /\ Noted(m, n, Seen(m, n))
           \/ index' = [index EXCEPT ![m].owed[n] = Seen(m, n)]
  BY DEF Learn
<1>4. Seen(m, n) \in Sight /\ Seen(m, n) = round[m].due[n]
  BY <1>3 DEF NextDue, Seen, Types, Round, SightsOf
<1>5. /\ index'[m].at = index[m].at
      /\ \A x \in Machines \ {m} : index'[x] = index[x]
      /\ \/ index'[m].known = index[m].known /\ index'[m].owed = index[m].owed
         \/ /\ Resembles(m, n) \/ (Pending(m, n) /\ OursStill(m, n))
            /\ index'[m].known = [index[m].known EXCEPT ![n] = Seen(m, n)]
            /\ index'[m].owed = index[m].owed
         \/ /\ index'[m].owed = [index[m].owed EXCEPT ![n] = Seen(m, n)]
            /\ index'[m].known = index[m].known
  <2>0. index \in [Machines -> Index] /\ index[m] \in Index
    BY DEF Types
  <2>1. CASE UNCHANGED index
    BY <2>1
  <2>2. CASE Noted(m, n, Seen(m, n))
    <3>1. /\ index'[m].at = index[m].at
          /\ index'[m].known = [index[m].known EXCEPT ![n] = Seen(m, n)]
          /\ index'[m].owed = index[m].owed
      BY <2>0, <2>2 DEF Index, Noted
    <3>2. \A x \in Machines \ {m} : index'[x] = index[x]
      BY <2>0, <2>2 DEF Noted
    <3>3. CASE Resembles(m, n) \/ (Pending(m, n) /\ OursStill(m, n))
      BY <3>1, <3>2, <3>3
    <3>4. CASE index' = [index EXCEPT ![m].owed[n] = Seen(m, n)]
      BY <2>0, <3>4 DEF Index
    <3>5. CASE UNCHANGED index
      BY <3>5
    <3> QED BY <1>3, <3>3, <3>4, <3>5
  <2>3. CASE index' = [index EXCEPT ![m].owed[n] = Seen(m, n)]
    BY <2>0, <2>3 DEF Index
  <2> QED BY <1>3, <2>1, <2>2, <2>3
<1>6. \A x \in Machines \ {m} : Aside(x)
  BY <1>1, <1>3, <1>5, LearnedGoesOn DEF Aside
<1>7. SeesWhatWas(m)' /\ SeesNoMore(m)
  <2>1. SeesNoMore(m)
    <3> SUFFICES ASSUME NEW f \in Names
                 PROVE  HasSeen(m, f)' \subseteq HasSeen(m, f) \cup {remote'[f]}
      BY DEF SeesNoMore
    <3>1. index[m] \in Index
      BY DEF Types
    <3>2. index'[m].known[f] \in {index[m].known[f], round[m].due[f]}
      BY <1>4, <1>5, <3>1 DEF Index, SightsOf
    <3>3. index'[m].owed[f] \in {index[m].owed[f], round[m].due[f]}
      BY <1>4, <1>5, <3>1 DEF Index, SightsOf
    <3>4. round'[m].due[f] \in {None, round[m].due[f]}
      BY <1>3, LearnedGoesOn
    <3> QED BY <1>1, <3>2, <3>3, <3>4 DEF HasSeen
  <2> QED BY <1>1, <1>2, <1>5, <2>1, SightStays DEF Holds, SeesWhatWas
<1>8. CopyHoldsTheKnown(m)'
  <2>1. ASSUME NEW f \in {"doc", "store"}
        PROVE  \/ index'[m].known[f] = index[m].known[f]
               \/ tree[m][f] # None /\ index'[m].known[f].body \subseteq tree[m][f] \cup givenup
    <3>1. index[m] \in Index
      BY DEF Types
    <3>2. CASE n = f /\ index'[m].known = [index[m].known EXCEPT ![n] = Seen(m, n)]
               /\ (Resembles(m, n) \/ (Pending(m, n) /\ OursStill(m, n)))
      <4>1. index'[m].known[f] = Seen(m, n)
        BY <3>1, <3>2 DEF Index, SightsOf
      <4>2. CASE Resembles(m, n)
        BY <1>4, <3>2, <4>1, <4>2, BodyIsNotNone DEF Resembles, Sight
      <4>3. CASE OursStill(m, n)
        BY <3>2, <4>1, <4>3 DEF OursStill, Known, Holds, CopyHoldsTheKnown
      <4> QED BY <3>2, <4>2, <4>3
    <3>3. CASE ~(n = f /\ index'[m].known = [index[m].known EXCEPT ![n] = Seen(m, n)]
                 /\ (Resembles(m, n) \/ (Pending(m, n) /\ OursStill(m, n))))
      BY <1>5, <3>1, <3>3 DEF Index, SightsOf, Names
    <3> QED BY <3>2, <3>3
  <2> QED BY <1>1, <2>1, CopyStays DEF Holds
<1>9. ShownAsItIs(m)'
  BY <1>1, <1>3, ShownStays DEF Holds
<1> QED BY <1>1, <1>2, <1>6, <1>7, <1>8, <1>9 DEF Goes, Holds

\* What was carried stays so where nothing of ours waited to go up.
LEMMA BaseIs ==
    ASSUME Types, NEW m \in Machines, NEW n \in Names
    PROVE  /\ \A x \in Machines \ {m} : ForgottenBase(m, n)[x] = carried[x]
           /\ ForgottenBase(m, n)[m] \in {None, carried[m]}
           /\ Pending(m, n) => ForgottenBase(m, n)[m] = None
BY DEF ForgottenBase, Types

LEMMA FetchGoes ==
    ASSUME Types, Types', CloudGoesOn, NEW m \in Machines, Holds(m), Fetch(m)
    PROVE  Goes(m)
<1>1. UNCHANGED <<body, asked, saved, emptied, givenup>> /\ UNCHANGED cloud /\ remote' = remote
  BY DEF Fetch, person, cloud
<1>2. Onward /\ CloudGoesOn'
  BY <1>1, CloudStays
<1>3. PICK n \in Names :
        /\ MustFetch(m, n) /\ carried' = ForgottenBase(m, n) /\ round' = Learned(m, n)
        /\ IF remote[n] = None
           THEN UNCHANGED <<tree, index>>
           ELSE tree' = [tree EXCEPT ![m][n] = remote[n].body] /\ Noted(m, n, remote[n])
  BY DEF Fetch
<1>4. NextDue(m, n) /\ round[m].due[n] # None
  BY <1>3 DEF MustFetch, NextDue
<1>5. Old(n, round[m].due[n])
  BY <1>4 DEF Holds, SeesWhatWas, HasSeen
<1>6. remote[n] \in Sight /\ remote[n] # None
  BY <1>5 DEF Old, Types, SightsOf
<1>7. tree' = [tree EXCEPT ![m][n] = remote[n].body] /\ Noted(m, n, remote[n])
  BY <1>3, <1>6
<1>8. /\ \A x \in Machines \ {m} : index'[x] = index[x] /\ tree'[x] = tree[x]
      /\ index'[m].at = index[m].at /\ index'[m].owed = index[m].owed
      /\ index'[m].known = [index[m].known EXCEPT ![n] = remote[n]]
      /\ tree'[m] = [tree[m] EXCEPT ![n] = remote[n].body]
  <2>1. index \in [Machines -> Index] /\ index[m] \in Index /\ tree \in [Machines -> Files]
    BY DEF Types
  <2> QED BY <1>7, <2>1 DEF Noted, Index
<1>9. index[m].known \in SightsOf /\ tree[m] \in Files
  BY DEF Types, Index
<1>10. \A x \in Machines \ {m} : Aside(x)
  <2>1. \A x \in Machines \ {m} : carried'[x] = carried[x]
    BY <1>3, BaseIs
  <2>2. \A x \in Machines \ {m} : round'[x] = round[x]
    BY <1>3, LearnedGoesOn
  <2> QED BY <1>1, <1>8, <2>1, <2>2 DEF Aside
<1>11. SeesWhatWas(m)' /\ SeesNoMore(m)
  <2>1. SeesNoMore(m)
    <3> SUFFICES ASSUME NEW f \in Names
                 PROVE  HasSeen(m, f)' \subseteq HasSeen(m, f) \cup {remote'[f]}
      BY DEF SeesNoMore
    <3>1. index'[m].known[f] \in {index[m].known[f], remote[f]}
      BY <1>8, <1>9 DEF SightsOf
    <3>2. round'[m].due[f] \in {None, round[m].due[f]}
      BY <1>3, LearnedGoesOn
    <3> QED BY <1>1, <1>8, <3>1, <3>2 DEF HasSeen
  <2> QED BY <1>1, <1>2, <1>8, <2>1, SightStays DEF Holds, SeesWhatWas
<1>12. CopyHoldsTheKnown(m)'
  <2>1. ASSUME NEW f \in {"doc", "store"} \ {n}
        PROVE  tree'[m][f] = tree[m][f] /\ index'[m].known[f] = index[m].known[f]
    BY <1>8, <1>9, <2>1 DEF Names, Files, SightsOf
  <2>2. tree'[m][n] = remote[n].body /\ index'[m].known[n] = remote[n] /\ tree'[m][n] # None
    <3>1. tree'[m][n] = remote[n].body /\ index'[m].known[n] = remote[n]
      BY <1>8, <1>9 DEF Files, SightsOf
    <3> QED BY <1>6, <3>1, BodyIsNotNone DEF Sight
  <2>3. ASSUME NEW f \in {"doc", "store"},
               NEW k \in {index'[m].known[f], saved'[m].known[f]} \ {None}
        PROVE  tree'[m][f] # None /\ k.body \subseteq tree'[m][f] \cup givenup'
    <3>1. CASE f # n
      <4>1. tree'[m][f] = tree[m][f] /\ k \in {index[m].known[f], saved[m].known[f]} \ {None}
        BY <1>1, <2>1, <2>3, <3>1
      <4> QED BY <1>1, <4>1 DEF Holds, CopyHoldsTheKnown
    <3>2. CASE f = n
      <4>1. k = remote[n] \/ k \in HasSeen(m, n)
        BY <1>1, <2>2, <2>3, <3>2 DEF HasSeen
      <4>2. k.body \subseteq remote[n].body \cup givenup
        BY <3>2, <4>1 DEF Holds, SeesWhatWas, Old, Names
      <4> QED BY <1>1, <2>2, <3>2, <4>2
    <3> QED BY <3>1, <3>2
  <2>4. carried'[m] # None =>
          /\ body'[m] # None /\ carried'[m] \subseteq body'[m] \cup givenup'
          /\ tree'[m]["doc"] # None /\ carried'[m] \subseteq tree'[m]["doc"] \cup givenup'
    <3>1. carried'[m] \in {None, carried[m]} /\ (Pending(m, n) => carried'[m] = None)
      BY <1>3, BaseIs
    <3>2. CASE n # "doc"
      <4>1. tree'[m]["doc"] = tree[m]["doc"]
        BY <2>1, <3>2
      <4> QED BY <1>1, <3>1, <4>1 DEF Holds, CopyHoldsTheKnown
    <3>3. CASE n = "doc" /\ ~Pending(m, n)
      <4>1. \/ tree[m]["doc"] = None
            \/ index[m].known["doc"] # None /\ index[m].known["doc"].body = tree[m]["doc"]
        BY <3>3 DEF Pending, Known
      <4>2. index[m].known["doc"] # None => index[m].known["doc"].body \subseteq remote["doc"].body \cup givenup
        BY <3>3 DEF Holds, SeesWhatWas, HasSeen, Old
      <4>3. carried[m] # None => carried[m] \subseteq remote["doc"].body \cup givenup
        BY <4>1, <4>2 DEF Holds, CopyHoldsTheKnown
      <4> QED BY <1>1, <2>2, <3>1, <3>3, <4>3 DEF Holds, CopyHoldsTheKnown
    <3> QED BY <3>1, <3>2, <3>3
  <2>5. asked'[m] # None => body'[m] # None
    BY <1>1 DEF Holds, CopyHoldsTheKnown
  <2> QED BY <2>3, <2>4, <2>5 DEF CopyHoldsTheKnown
<1>13. ShownAsItIs(m)'
  <2>1. n # "doc" => tree'[m]["doc"] = tree[m]["doc"]
    BY <1>8, <1>9 DEF Names, Files
  <2> QED BY <1>1, <1>3, <1>4, <2>1, ShownStays DEF Holds
<1> QED BY <1>1, <1>2, <1>10, <1>11, <1>12, <1>13 DEF Goes, Holds

\* A round that ends keeps what it knew, whatever of that is owed.
LEMMA EndsGoes ==
    ASSUME Types, Types', CloudGoesOn', Onward, NEW m \in Machines, Holds(m), NEW known,
           Ends(m, known), known.at # None, known.known = index[m].known,
           \A n \in Names : known.owed[n] \in {index[m].owed[n], round[m].due[n]},
           UNCHANGED <<body, asked, tree>>, ~emptied'[m],
           carried'[m] \in {None, carried[m]}
    PROVE  Holds(m)' /\ SeesNoMore(m)
<1>1. index'[m] = known /\ saved'[m] = known /\ round'[m] = Idle
  BY DEF Ends, Types
<1>2. \A n \in Names : Idle.due[n] = None
  BY DEF Idle, Nowhere
<1>3. SeesWhatWas(m)' /\ SeesNoMore(m)
  <2>1. SeesNoMore(m)
    BY <1>1, <1>2 DEF SeesNoMore, HasSeen
  <2> QED BY <1>1, <2>1, SightStays DEF Holds
<1>4. CopyHoldsTheKnown(m)'
  BY <1>1, CopyStays DEF Holds, Onward
<1>5. ShownAsItIs(m)'
  BY <1>1 DEF ShownAsItIs, Idle
<1> QED BY <1>3, <1>4, <1>5 DEF Holds

LEMMA FetchBrokenGoes ==
    ASSUME Types, Types', CloudGoesOn, NEW m \in Machines, Holds(m), FetchBroken(m)
    PROVE  Goes(m)
<1>1. UNCHANGED <<body, asked, tree, saved, emptied, givenup>> /\ UNCHANGED cloud
  BY DEF FetchBroken, person
<1>2. Onward /\ CloudGoesOn'
  BY <1>1, CloudStays
<1>3. PICK n \in Names :
        /\ NextDue(m, n) /\ carried' = ForgottenBase(m, n) /\ round' = Learned(m, n)
        /\ index' = [index EXCEPT ![m].owed[n] = Seen(m, n)]
  BY DEF FetchBroken, MustFetch
<1>4. index \in [Machines -> Index] /\ index[m] \in Index
  BY DEF Types
<1>5. /\ \A x \in Machines \ {m} : index'[x] = index[x]
      /\ index'[m].at = index[m].at /\ index'[m].known = index[m].known
      /\ index'[m].owed = [index[m].owed EXCEPT ![n] = Seen(m, n)]
  BY <1>3, <1>4 DEF Index
<1>6. /\ \A x \in Machines \ {m} : carried'[x] = carried[x]
      /\ carried'[m] \in {None, carried[m]}
  BY <1>3, BaseIs
<1>7. \A x \in Machines \ {m} : Aside(x)
  <2>1. \A x \in Machines \ {m} : round'[x] = round[x]
    BY <1>3, LearnedGoesOn
  <2> QED BY <1>1, <1>5, <1>6, <2>1 DEF Aside
<1>8. SeesWhatWas(m)' /\ SeesNoMore(m)
  <2>1. SeesNoMore(m)
    <3> SUFFICES ASSUME NEW f \in Names
                 PROVE  HasSeen(m, f)' \subseteq HasSeen(m, f) \cup {remote'[f]}
      BY DEF SeesNoMore
    <3>1. index'[m].owed[f] \in {index[m].owed[f], round[m].due[f]}
      BY <1>4, <1>5 DEF Index, SightsOf, Seen
    <3>2. round'[m].due[f] \in {None, round[m].due[f]}
      BY <1>3, LearnedGoesOn
    <3> QED BY <1>1, <1>5, <3>1, <3>2 DEF HasSeen
  <2> QED BY <1>1, <1>2, <1>5, <2>1, SightStays DEF Holds, SeesWhatWas
<1>9. CopyHoldsTheKnown(m)'
  BY <1>1, <1>5, <1>6, CopyStays DEF Holds
<1>10. ShownAsItIs(m)'
  BY <1>1, <1>3, ShownStays DEF Holds
<1> QED BY <1>1, <1>2, <1>7, <1>8, <1>9, <1>10 DEF Goes, Holds

LEMMA FetchCutGoes ==
    ASSUME Types, Types', CloudGoesOn, NEW m \in Machines, Holds(m), FetchCut(m)
    PROVE  Goes(m)
<1> DEFINE owes  == [f \in Names |-> IF Seen(m, f) # None THEN Seen(m, f) ELSE index[m].owed[f]]
           known == [index[m] EXCEPT !.owed = owes]
<1>1. UNCHANGED <<body, asked, tree, emptied, givenup>> /\ UNCHANGED cloud
  BY DEF FetchCut, person
<1>2. Onward /\ CloudGoesOn'
  BY <1>1, CloudStays
<1>3. Ends(m, known) /\ \E n \in Names : carried' = ForgottenBase(m, n)
  BY DEF FetchCut
<1>4. index[m] \in Index
  BY DEF Types
<1>5. \A f \in Names : owes[f] \in {index[m].owed[f], round[m].due[f]}
  BY DEF Seen
<1> HIDE DEF owes
<1>6. known.at = index[m].at /\ known.known = index[m].known /\ known.owed = owes
  BY <1>4 DEF Index
<1> HIDE DEF known
<1>7. /\ \A x \in Machines \ {m} : carried'[x] = carried[x]
      /\ carried'[m] \in {None, carried[m]}
  BY <1>3, BaseIs
<1>8. \A x \in Machines \ {m} : Aside(x)
  BY <1>1, <1>3, <1>7 DEF Aside, Ends, Types
<1>9. known.at # None /\ ~emptied'[m]
  BY <1>1, <1>6 DEF Holds, SeesWhatWas
<1>10. Holds(m)' /\ SeesNoMore(m)
  BY <1>1, <1>2, <1>3, <1>5, <1>6, <1>7, <1>9, EndsGoes
<1> QED BY <1>1, <1>2, <1>8, <1>10 DEF Goes

\* What a round that gets to its work knows, and that it is never told of a store deleted whole.
LEMMA ReadIs ==
    ASSUME Types, NEW m \in Machines, SeesWhatWas(m)
    PROVE  /\ Read(m).at # None /\ Read(m).known = index[m].known /\ Read(m).owed = index[m].owed
           /\ Unmarked(m) = emptied
<1>1. index[m] \in Index /\ round[m] \in Round
  BY DEF Types
<1>2. Read(m).at = round[m].at /\ Read(m).known = index[m].known /\ Read(m).owed = index[m].owed
  BY <1>1 DEF Read, Index
<1>3. round[m].at # None
  BY <1>1, MirrorAssumption DEF Round
<1>4. Marked(m) = emptied[m]
  BY DEF Marked, SeesWhatWas, Types
<1>5. Unmarked(m) = emptied
  BY <1>4, Zenon DEF Unmarked, Types
<1> QED BY <1>2, <1>3, <1>5

LEMMA LeavesIs ==
    ASSUME Types, Types', CloudGoesOn', Onward, NEW m \in Machines, Holds(m),
           NEW files, Leaves(m, files)
    PROVE  /\ SeesWhatWas(m)' /\ ShownAsItIs(m)' /\ SeesNoMore(m)
           /\ tree'[m] = files /\ index'[m].known = index[m].known /\ saved' = saved
           /\ \A x \in Machines \ {m} : /\ tree'[x] = tree[x] /\ index'[x] = index[x]
                                        /\ saved'[x] = saved[x] /\ emptied'[x] = emptied[x]
                                        /\ round'[x] = round[x]
<1> DEFINE going == [Idle EXCEPT !.step = "pushing", !.left = Dirty(m, files)]
<1>1. /\ tree' = [tree EXCEPT ![m] = files] /\ emptied' = Unmarked(m) /\ saved' = saved
      /\ index' = [index EXCEPT ![m] = Read(m)] /\ round' = [round EXCEPT ![m] = going]
  BY DEF Leaves
<1>2. going.step = "pushing" /\ \A n \in Names : going.due[n] = None
  BY DEF Idle, Nowhere
<1> HIDE DEF going
<1>3. /\ index'[m] = Read(m) /\ tree'[m] = files /\ round'[m] = going
      /\ \A x \in Machines \ {m} : tree'[x] = tree[x] /\ index'[x] = index[x] /\ round'[x] = round[x]
  BY <1>1 DEF Types
<1>4. /\ Read(m).at # None /\ Read(m).known = index[m].known /\ Read(m).owed = index[m].owed
      /\ emptied' = emptied
  BY <1>1, ReadIs DEF Holds
<1>5. SeesWhatWas(m)' /\ SeesNoMore(m)
  <2>1. SeesNoMore(m)
    BY <1>1, <1>2, <1>3, <1>4 DEF SeesNoMore, HasSeen
  <2> QED BY <1>1, <1>3, <1>4, <2>1, SightStays DEF Holds, SeesWhatWas
<1>6. ShownAsItIs(m)'
  BY <1>2, <1>3 DEF ShownAsItIs
<1> QED BY <1>1, <1>3, <1>4, <1>5, <1>6

LEMMA RefuseGoes ==
    ASSUME Types, Types', CloudGoesOn, NEW m \in Machines, Holds(m), Refuse(m)
    PROVE  Goes(m)
<1>1. UNCHANGED <<body, carried, asked, tree, givenup>> /\ UNCHANGED cloud
  BY DEF Refuse, person, data
<1>2. Onward /\ CloudGoesOn'
  BY <1>1, CloudStays
<1>3. emptied' = emptied /\ Ends(m, Read(m))
  BY ReadIs DEF Refuse, Holds
<1>4. \A x \in Machines \ {m} : Aside(x)
  BY <1>1, <1>3 DEF Aside, Ends, Types
<1>5. Holds(m)' /\ SeesNoMore(m)
  <2>1. Read(m).at # None /\ Read(m).known = index[m].known /\ Read(m).owed = index[m].owed
    BY ReadIs DEF Holds
  <2> QED BY <1>1, <1>2, <1>3, <2>1, EndsGoes DEF Holds, SeesWhatWas
<1> QED BY <1>1, <1>2, <1>4, <1>5 DEF Goes

LEMMA LookGoes ==
    ASSUME Types, Types', CloudGoesOn, NEW m \in Machines, Holds(m), Look(m)
    PROVE  Goes(m)
<1>1. UNCHANGED <<body, carried, asked, givenup>> /\ UNCHANGED cloud /\ Leaves(m, tree[m])
  BY DEF Look, Leaves, person, data
<1>2. Onward /\ CloudGoesOn'
  BY <1>1, CloudStays
<1>3. \A x \in Machines \ {m} : Aside(x)
  BY <1>1, <1>2, LeavesIs DEF Aside
<1>4. CopyHoldsTheKnown(m)'
  <2>1. tree'[m] = tree[m] /\ index'[m].known = index[m].known /\ saved' = saved
    BY <1>1, <1>2, LeavesIs
  <2> QED BY <1>1, <2>1, CopyStays DEF Holds
<1> QED BY <1>1, <1>2, <1>3, <1>4, LeavesIs DEF Goes, Holds

LEMMA CarryGoes ==
    ASSUME Types, Types', CloudGoesOn, NEW m \in Machines, Holds(m), Carry(m)
    PROVE  Goes(m)
<1> DEFINE events == history[m] \cup (IF tree[m]["store"] = None THEN {} ELSE tree[m]["store"])
           mine   == body[m]
           theirs == tree[m]["doc"]
<1>1. events \in Bodies
  BY DEF Types, Files, Names, Bodies
<1>2. PICK done \in Outcomes(m, events) :
          /\ body' = [body EXCEPT ![m] = done.here]
          /\ carried' = [carried EXCEPT ![m] = done.said]
          /\ asked' = [asked EXCEPT ![m] = done.asks]
          /\ Leaves(m, [store |-> events, doc |-> done.there, stamp |-> {}])
  BY DEF Carry
<1> HIDE DEF events
<1>3. UNCHANGED cloud /\ givenup' = givenup
  BY <1>2 DEF Carry, Leaves, person
<1>4. Onward /\ CloudGoesOn'
  BY <1>3, CloudStays
<1>5. /\ body'[m] = done.here /\ carried'[m] = done.said /\ asked'[m] = done.asks
      /\ tree'[m]["doc"] = done.there /\ tree'[m]["store"] = events
      /\ index'[m].known = index[m].known /\ saved' = saved
      /\ SeesWhatWas(m)' /\ ShownAsItIs(m)' /\ SeesNoMore(m)
  BY <1>2, <1>4, LeavesIs DEF Types
<1>6. \A x \in Machines \ {m} : Aside(x)
  <2>1. \A x \in Machines \ {m} : body'[x] = body[x] /\ carried'[x] = carried[x] /\ asked'[x] = asked[x]
    BY <1>2 DEF Types
  <2> QED BY <1>2, <1>4, <2>1, LeavesIs DEF Aside
<1> DEFINE same == /\ done.here # None
                   /\ done.there = done.here /\ done.said = done.here /\ done.asks = asked[m]
<1>7. \/ /\ done.here = mine /\ done.there = theirs /\ done.said = carried[m]
         /\ done.asks # asked[m] =>
               /\ mine # None /\ theirs # None /\ mine # theirs
               /\ carried[m] \notin {mine, theirs}
               /\ done.asks = [mine |-> mine, theirs |-> theirs]
      \/ same /\ done.here = mine /\ (theirs = None \/ carried[m] = theirs \/ mine = theirs)
      \/ same /\ done.here = theirs /\ (mine = None \/ carried[m] = mine)
      \/ /\ same /\ mine # None /\ theirs # None /\ carried[m] # None
         /\ done.here = mine \cup theirs
  <2>1. MadeOf(m, done)
    BY <1>1, OutcomesAre
  <2> QED BY <2>1 DEF MadeOf, Alike
<1>8. /\ mine # None => done.here # None /\ mine \subseteq done.here \cup givenup
      /\ theirs # None => done.there # None /\ theirs \subseteq done.there \cup givenup
      /\ done.said \in {carried[m], done.here} /\ (done.said = carried[m] \/ done.there = done.here)
      /\ done.asks # None => done.here # None
  BY <1>7 DEF Holds, CopyHoldsTheKnown
<1> HIDE DEF mine, theirs, same
<1>9. CopyHoldsTheKnown(m)'
  <2>1. \A k \in {index[m].known["doc"], saved[m].known["doc"]} \ {None} :
           done.there # None /\ k.body \subseteq done.there \cup givenup
    BY <1>8 DEF Holds, CopyHoldsTheKnown, theirs
  <2>2. done.said # None =>
          /\ done.here # None /\ done.said \subseteq done.here \cup givenup
          /\ done.there # None /\ done.said \subseteq done.there \cup givenup
    <3>1. CASE done.said = carried[m]
      BY <1>8, <3>1 DEF Holds, CopyHoldsTheKnown, mine, theirs
    <3>2. CASE done.said # carried[m]
      BY <1>8, <3>2
    <3> QED BY <3>1, <3>2
  <2>3. \A k \in {index[m].known["store"], saved[m].known["store"]} \ {None} :
           k.body \subseteq events \cup givenup
    BY DEF Holds, CopyHoldsTheKnown, events
  <2>4. events # None
    BY <1>1, BodyIsNotNone
  <2> QED BY <1>3, <1>5, <1>8, <2>1, <2>2, <2>3, <2>4 DEF CopyHoldsTheKnown
<1> QED BY <1>3, <1>4, <1>5, <1>6, <1>8, <1>9 DEF Goes, Holds, mine

\* Both sides become what was chosen, which holds all there was but what is now given up.
LEMMA ChosenGoes ==
    ASSUME Types, Types', CloudGoesOn, NEW m \in Machines, Holds(m), NEW whole, whole # None,
           Chosen(m, whole), givenup \subseteq givenup',
           body[m] # None => body[m] \subseteq whole \cup givenup',
           tree[m]["doc"] # None => tree[m]["doc"] \subseteq whole \cup givenup'
    PROVE  Goes(m)
<1> DEFINE files == [tree[m] EXCEPT !["doc"] = whole]
<1>1. UNCHANGED cloud /\ Leaves(m, files)
  BY DEF Chosen, Leaves
<1>2. Onward /\ CloudGoesOn'
  BY <1>1, CloudStays
<1>3. files["doc"] = whole /\ files["store"] = tree[m]["store"]
  BY DEF Types, Files, Names
<1> HIDE DEF files
<1>4. /\ tree'[m]["doc"] = whole /\ tree'[m]["store"] = tree[m]["store"]
      /\ index'[m].known = index[m].known /\ saved' = saved
      /\ SeesWhatWas(m)' /\ ShownAsItIs(m)' /\ SeesNoMore(m)
  BY <1>1, <1>2, <1>3, LeavesIs
<1>5. body'[m] = whole /\ carried'[m] = whole /\ asked'[m] = None
  BY DEF Chosen, Types
<1>6. \A x \in Machines \ {m} : Aside(x)
  <2>1. \A x \in Machines \ {m} : body'[x] = body[x] /\ carried'[x] = carried[x] /\ asked'[x] = asked[x]
    BY DEF Chosen, Types
  <2> QED BY <1>1, <1>2, <2>1, LeavesIs DEF Aside
<1>7. CopyHoldsTheKnown(m)'
  <2>1. \A k \in {index[m].known["doc"], saved[m].known["doc"]} \ {None} :
           k.body \subseteq whole \cup givenup'
    BY DEF Holds, CopyHoldsTheKnown
  <2>2. \A k \in {index[m].known["store"], saved[m].known["store"]} \ {None} :
           tree[m]["store"] # None /\ k.body \subseteq tree[m]["store"] \cup givenup'
    BY DEF Holds, CopyHoldsTheKnown
  <2> QED BY <1>4, <1>5, <2>1, <2>2 DEF CopyHoldsTheKnown
<1> QED BY <1>2, <1>4, <1>5, <1>6, <1>7 DEF Goes, Holds

LEMMA KeepGoes ==
    ASSUME Types, Types', CloudGoesOn, NEW m \in Machines, Holds(m), KeepMine(m) \/ KeepTheirs(m)
    PROVE  Goes(m)
<1>1. CASE KeepMine(m)
  <2>1. /\ givenup' = givenup \cup (asked[m].theirs \ body[m]) /\ Chosen(m, body[m])
        /\ tree[m]["doc"] = asked[m].theirs /\ body[m] # None
    BY <1>1 DEF KeepMine, Works, Holds, ShownAsItIs, CopyHoldsTheKnown
  <2> QED BY <2>1, ChosenGoes
<1>2. CASE KeepTheirs(m)
  <2>1. /\ givenup' = givenup \cup (body[m] \ tree[m]["doc"])
        /\ Chosen(m, tree[m]["doc"]) /\ tree[m]["doc"] # None
    BY <1>2 DEF KeepTheirs
  <2> QED BY <2>1, ChosenGoes
<1> QED BY <1>1, <1>2

\* A write goes over what is known, which the copy holds.
LEMMA PutUpGoesOn ==
    ASSUME Types, Types', LeftIsThere, CloudGoesOn, NEW m \in Machines, Holds(m),
           NEW n \in Names, PutUp(m, n), givenup' = givenup
    PROVE  Onward /\ CloudGoesOn'
<1>1. /\ clock' = clock + 1 /\ clock \in Nat
      /\ remote' = [remote EXCEPT ![n] = [rev |-> clock + 1, body |-> tree[m][n]]]
      /\ touched' = [touched EXCEPT ![n] = clock + 1]
      /\ [rev |-> clock + 1, body |-> tree[m][n]] \in Sight
  BY PutUpTypes DEF Types
<1>2. remote \in SightsOf /\ touched \in [Names -> Nat]
  BY DEF Types
<1>3. [rev |-> clock + 1, body |-> tree[m][n]] # None
  BY <1>1, SightIsNotNone
<1>4. CloudGoesOn'
  BY <1>1, <1>2, <1>3 DEF CloudGoesOn, SightsOf, Sight
<1>5. remote[n] # None /\ n # "stamp" => remote[n].body \subseteq tree[m][n] \cup givenup
  <2> SUFFICES ASSUME remote[n] # None, n # "stamp"
               PROVE  remote[n].body \subseteq tree[m][n] \cup givenup
    OBVIOUS
  <2>1. Known(m, n) # None /\ Known(m, n).rev = remote[n].rev
    BY DEF PutUp, Expected
  <2>2. Known(m, n) = remote[n]
    BY <2>1 DEF Known, Holds, SeesWhatWas, HasSeen, Old
  <2> QED BY <2>1, <2>2 DEF Known, Holds, CopyHoldsTheKnown, Names
<1>6. Onward
  <2>1. \A f \in Names \ {n} : remote'[f] = remote[f]
    BY <1>1, <1>2 DEF SightsOf
  <2>2. remote'[n].rev = clock + 1 /\ remote'[n].body = tree[m][n] /\ remote'[n] # None
    BY <1>1, <1>2, <1>3 DEF SightsOf
  <2> QED BY <1>1, <1>5, <2>1, <2>2 DEF Onward
<1> QED BY <1>4, <1>6

LEMMA PutGoes ==
    ASSUME Types, Types', LeftIsThere, CloudGoesOn, NEW m \in Machines, Holds(m), Put(m)
    PROVE  Goes(m)
<1>1. PICK n \in Names : /\ PutUp(m, n) /\ Noted(m, n, remote'[n])
                         /\ round' = [round EXCEPT ![m].left = @ \ {n}]
  BY DEF Put
<1>2. UNCHANGED <<body, carried, asked, givenup, tree, saved, emptied>>
  BY DEF Put, person, data
<1>3. Onward /\ CloudGoesOn'
  BY <1>1, <1>2, PutUpGoesOn
<1>4. /\ \A x \in Machines \ {m} : index'[x] = index[x] /\ round'[x] = round[x]
      /\ index'[m].at = index[m].at /\ index'[m].owed = index[m].owed
      /\ index'[m].known = [index[m].known EXCEPT ![n] = remote'[n]]
      /\ round'[m].step = round[m].step /\ round'[m].due = round[m].due
  <2>1. /\ index \in [Machines -> Index] /\ index[m] \in Index
        /\ round \in [Machines -> Round] /\ round[m] \in Round
    BY DEF Types
  <2>2. /\ \A x \in Machines \ {m} : index'[x] = index[x]
        /\ index'[m].at = index[m].at /\ index'[m].owed = index[m].owed
        /\ index'[m].known = [index[m].known EXCEPT ![n] = remote'[n]]
    BY <1>1, <2>1 DEF Noted, Index
  <2>3. /\ \A x \in Machines \ {m} : round'[x] = round[x]
        /\ round'[m].step = round[m].step /\ round'[m].due = round[m].due
    BY <1>1, <2>1 DEF Round
  <2> QED BY <2>2, <2>3
<1>5. index[m].known \in SightsOf
  BY DEF Types, Index
<1>6. \A x \in Machines \ {m} : Aside(x)
  BY <1>2, <1>4 DEF Aside
<1>7. SeesWhatWas(m)' /\ SeesNoMore(m)
  <2>1. SeesNoMore(m)
    <3>1. \A f \in Names : index'[m].known[f] \in {index[m].known[f], remote'[f]}
      BY <1>4, <1>5 DEF SightsOf
    <3> QED BY <1>2, <1>4, <3>1 DEF SeesNoMore, HasSeen
  <2> QED BY <1>2, <1>3, <1>4, <2>1, SightStays DEF Holds, SeesWhatWas
<1>8. CopyHoldsTheKnown(m)'
  <2>1. ASSUME NEW f \in {"doc", "store"}
        PROVE  \/ index'[m].known[f] = index[m].known[f]
               \/ tree[m][f] # None /\ index'[m].known[f].body = tree[m][f]
    <3>1. CASE n = f
      <4>1. index'[m].known[f] = remote'[f]
        BY <1>4, <1>5, <3>1 DEF SightsOf
      <4>2. remote'[f].body = tree[m][f]
        <5>1. remote' = [remote EXCEPT ![f] = [rev |-> clock + 1, body |-> tree[m][f]]]
          BY <1>1, <3>1, PutUpTypes
        <5> QED BY <3>1, <5>1 DEF Types, SightsOf
      <4>3. tree[m][f] # None
        BY <1>1, <3>1 DEF PutUp, NextLeft, LeftIsThere
      <4> QED BY <4>1, <4>2, <4>3
    <3>2. CASE n # f
      BY <1>4, <1>5, <3>2 DEF SightsOf, Names
    <3> QED BY <3>1, <3>2
  <2> QED BY <1>2, <2>1, CopyStays DEF Holds
<1>9. ShownAsItIs(m)'
  BY <1>1, <1>4 DEF ShownAsItIs, PutUp
<1> QED BY <1>2, <1>3, <1>6, <1>7, <1>8, <1>9 DEF Goes, Holds

LEMMA PutRefusedGoes ==
    ASSUME Types, Types', CloudGoesOn, NEW m \in Machines, Holds(m), PutRefused(m)
    PROVE  Goes(m)
<1>1. PICK n \in Names : /\ round[m].step = "pushing"
                         /\ index' = [index EXCEPT ![m] = ReadAgain(m, n)]
                         /\ round' = [round EXCEPT ![m].left = @ \ {n}, ![m].refused = TRUE]
  BY DEF PutRefused
<1>2. UNCHANGED <<body, carried, asked, givenup, tree, saved, emptied>> /\ UNCHANGED cloud
  BY DEF PutRefused, person, data
<1>3. Onward /\ CloudGoesOn' /\ remote' = remote
  BY <1>2, CloudStays DEF cloud
<1>4. index[m] \in Index /\ index \in [Machines -> Index]
  BY DEF Types
<1>5. \A x \in Machines \ {m} : index'[x] = index[x] /\ index'[m] = ReadAgain(m, n)
  BY <1>1, <1>4
<1>6. /\ \A x \in Machines \ {m} : round'[x] = round[x]
      /\ round'[m].step = round[m].step /\ round'[m].due = round[m].due
  BY <1>1 DEF Types, Round
<1>7. /\ index'[m].at = index[m].at
      /\ \A f \in Names : index'[m].known[f] \in {None, index[m].known[f]}
      /\ \A f \in Names : index'[m].owed[f] \in {index[m].owed[f], remote[f]}
  <2>1. index'[m] = ReadAgain(m, n)
    BY <1>1, <1>4
  <2> QED BY <1>4, <2>1 DEF ReadAgain, Index, SightsOf
<1>8. \A x \in Machines \ {m} : Aside(x)
  BY <1>2, <1>5, <1>6 DEF Aside
<1>9. SeesWhatWas(m)' /\ SeesNoMore(m)
  <2>1. SeesNoMore(m)
    BY <1>2, <1>3, <1>6, <1>7 DEF SeesNoMore, HasSeen
  <2> QED BY <1>2, <1>3, <1>7, <2>1, SightStays DEF Holds, SeesWhatWas
<1>10. CopyHoldsTheKnown(m)'
  BY <1>2, <1>7, CopyStays DEF Holds, Names
<1>11. ShownAsItIs(m)'
  BY <1>1, <1>6 DEF ShownAsItIs
<1> QED BY <1>2, <1>3, <1>8, <1>9, <1>10, <1>11 DEF Goes, Holds

LEMMA EndPushGoes ==
    ASSUME Types, Types', LeftIsThere, CloudGoesOn, NEW m \in Machines, Holds(m),
           PutUnanswered(m) \/ PutCut(m) \/ EndPush(m)
    PROVE  Goes(m)
<1>1. UNCHANGED <<body, carried, asked, givenup, tree, emptied>> /\ Ends(m, index[m])
  BY DEF PutUnanswered, PutCut, EndPush, person, data
<1>2. Onward /\ CloudGoesOn'
  <2>1. CASE PutUnanswered(m)
    <3>1. PICK n \in Names : PutUp(m, n)
      BY <2>1 DEF PutUnanswered
    <3> QED BY <1>1, <3>1, PutUpGoesOn
  <2>2. CASE PutCut(m) \/ EndPush(m)
    <3>1. UNCHANGED cloud
      BY <2>2 DEF PutCut, EndPush
    <3> QED BY <1>1, <3>1, CloudStays
  <2> QED BY <2>1, <2>2
<1>3. \A x \in Machines \ {m} : Aside(x)
  BY <1>1 DEF Aside, Ends, Types
<1>4. Holds(m)' /\ SeesNoMore(m)
  BY <1>1, <1>2, EndsGoes DEF Holds, SeesWhatWas
<1> QED BY <1>1, <1>2, <1>3, <1>4 DEF Goes

LEMMA CrashGoes ==
    ASSUME Types, Types', CloudGoesOn, NEW m \in Machines, Holds(m), Crash(m)
    PROVE  Goes(m)
<1>1. UNCHANGED <<body, carried, asked, givenup, tree, saved, emptied>> /\ UNCHANGED cloud
  BY DEF Crash, person, data
<1>2. Onward /\ CloudGoesOn'
  BY <1>1, CloudStays
<1>3. /\ index'[m] = saved[m] /\ round'[m] = Idle
      /\ \A x \in Machines \ {m} : index'[x] = index[x] /\ round'[x] = round[x]
  BY DEF Crash, Types
<1>4. \A n \in Names : Idle.due[n] = None
  BY DEF Idle, Nowhere
<1>5. \A x \in Machines \ {m} : Aside(x)
  BY <1>1, <1>3 DEF Aside
<1>6. SeesWhatWas(m)' /\ SeesNoMore(m)
  <2>1. SeesNoMore(m)
    BY <1>1, <1>3, <1>4 DEF SeesNoMore, HasSeen
  <2> QED BY <1>1, <1>2, <1>3, <2>1, SightStays DEF Holds, SeesWhatWas
<1>7. CopyHoldsTheKnown(m)'
  BY <1>1, <1>3, CopyStays DEF Holds
<1>8. ShownAsItIs(m)'
  BY <1>3 DEF ShownAsItIs, Idle
<1> QED BY <1>1, <1>2, <1>5, <1>6, <1>7, <1>8 DEF Goes, Holds

LEMMA DriftGoes ==
    ASSUME Types, CloudGoesOn, Drift
    PROVE  Onward /\ CloudGoesOn' /\ \A x \in Machines : Aside(x)
<1>1. PICK n \in Names, told \in BOOLEAN :
          remote[n] # None /\ Changes(n, [remote[n] EXCEPT !.rev = clock + 1], told)
  BY MirrorAssumption DEF Drift
<1>2. remote \in SightsOf /\ remote[n] \in Sight /\ clock \in Nat /\ touched \in [Names -> Nat]
  BY <1>1 DEF Types, SightsOf
<1> DEFINE moved == [remote[n] EXCEPT !.rev = clock + 1]
<1>3. moved \in Sight /\ moved.rev = clock + 1 /\ moved.body = remote[n].body /\ moved # None
  BY <1>2, SightIsNotNone DEF Sight
<1>4. /\ clock' = clock + 1 /\ remote' = [remote EXCEPT ![n] = moved]
      /\ \A f \in Names \ {n} : touched'[f] = touched[f]
  BY <1>1, <1>2 DEF Changes
<1> HIDE DEF moved
<1>5. remote'[n] = moved /\ \A f \in Names \ {n} : remote'[f] = remote[f]
  BY <1>2, <1>4 DEF SightsOf
<1>6. givenup' = givenup /\ \A x \in Machines : Aside(x)
  BY DEF Drift, person, data, mirror, Aside
<1>7. Onward
  BY <1>2, <1>3, <1>4, <1>5, <1>6 DEF Onward
<1>8. CloudGoesOn'
  <2>1. \A f \in Names : remote'[f] # None => remote'[f].rev <= clock'
    <3>1. \A f \in Names \ {n} : remote[f] # None => remote[f].rev \in Nat
      BY <1>2 DEF SightsOf, Sight
    <3> QED BY <1>2, <1>3, <1>4, <1>5, <3>1 DEF CloudGoesOn
  <2>2. \A f \in Names : touched'[f] # 0 => remote'[f] # None
    BY <1>3, <1>4, <1>5 DEF CloudGoesOn
  <2> QED BY <2>1, <2>2 DEF CloudGoesOn
<1> QED BY <1>6, <1>7, <1>8

\* What one machine does.
Does(m) ==
    \/ Edit(m) \/ Again(m) \/ BeginLook(m) \/ BeginBehind(m)
    \/ Settle(m, "keep_mine") \/ Settle(m, "keep_theirs")
    \/ CarryOn(m) \/ CutShort(m)

LEMMA EachGoes ==
    ASSUME AsShown, Types, Types', LeftIsThere, CloudGoesOn, NEW m \in Machines, Holds(m), Does(m)
    PROVE  Goes(m)
<1>1. ~Again(m)
  BY DEF Again, Holds, SeesWhatWas
<1>2. CASE Edit(m)
  BY <1>2, EditGoes
<1>3. CASE \/ Begin(m) \/ BeginBehind(m) \/ BeginLook(m)
           \/ Settle(m, "keep_mine") \/ Settle(m, "keep_theirs")
  BY <1>3, BeginGoes
<1>4. CASE Learn(m)
  BY <1>4, LearnGoes
<1>5. CASE Fetch(m)
  BY <1>5, FetchGoes
<1>6. CASE FetchBroken(m)
  BY <1>6, FetchBrokenGoes
<1>7. CASE FetchCut(m)
  BY <1>7, FetchCutGoes
<1>8. CASE Refuse(m)
  BY <1>8, RefuseGoes
<1>9. CASE Look(m)
  BY <1>9, LookGoes
<1>10. CASE Carry(m)
  BY <1>10, CarryGoes
<1>11. CASE KeepMine(m) \/ KeepTheirs(m)
  BY <1>11, KeepGoes
<1>12. CASE Put(m)
  BY <1>12, PutGoes
<1>13. CASE PutRefused(m)
  BY <1>13, PutRefusedGoes
<1>14. CASE PutUnanswered(m) \/ PutCut(m) \/ EndPush(m)
  BY <1>14, EndPushGoes
<1>15. CASE Crash(m)
  BY <1>15, CrashGoes
<1> QED
  BY <1>1, <1>2, <1>3, <1>4, <1>5, <1>6, <1>7, <1>8, <1>9, <1>10, <1>11, <1>12, <1>13, <1>14, <1>15
     DEF Does, CarryOn, CutShort

\* What has gone wrong has gone wrong.
LEMMA MishapsStay ==
    ASSUME [Next]_vars
    PROVE  mishaps \subseteq mishaps'
<1>1. ASSUME NEW m \in Machines, Does(m) PROVE mishaps \subseteq mishaps'
  <2>1. CASE CarryOn(m)
    BY <2>1 DEF CarryOn, Begin, Learn, Fetch, Refuse, Look, Carry, KeepMine, KeepTheirs, Chosen,
                Put, PutRefused, EndPush
  <2>2. CASE CutShort(m)
    BY <2>2 DEF CutShort, FetchBroken, FetchCut, PutUnanswered, PutCut, Crash, Mishap
  <2>3. CASE ~CarryOn(m) /\ ~CutShort(m)
    BY <1>1, <2>3 DEF Does, Edit, Again, BeginLook, BeginBehind, Settle, Mishap
  <2> QED BY <2>1, <2>2, <2>3
<1>2. CASE Drift \/ DeleteAll \/ UNCHANGED vars
  BY <1>2 DEF Drift, DeleteAll, Mishap, vars
<1> QED BY <1>1, <1>2 DEF Next, Does

\* A store that is deleted is, in the instances the argument is for, counted as deleted.
LEMMA DeletedIsCounted ==
    ASSUME AsShown, DeleteAll
    PROVE  "deleted_whole" \in mishaps'
BY DEF AsShown, DeleteAll, Mishap

LEMMA KeptStays ==
    ASSUME AsShown, IInv, [Next]_vars
    PROVE  /\ Kept'
           /\ "deleted_whole" \notin mishaps => \A m \in Machines :
                body[m] # None => body[m] \ body'[m] \subseteq givenup'
<1>1. Types /\ Types' /\ LeftIsThere /\ Kept
  <2>1. TypesInv /\ TypesInv'
    BY TypesInvStays DEF IInv
  <2>2. TypeOK /\ TypeOK' /\ LeftIsThere /\ Kept
    BY <2>1 DEF TypesInv, IInv
  <2>3. (TypeOK => Types)'
    BY TypesOfTypeOK, PTL
  <2> QED BY <2>2, <2>3, TypesOfTypeOK
<1>2. CASE DeleteAll
  <2>1. body' = body
    BY <1>2 DEF DeleteAll, data
  <2> QED BY <1>2, <2>1, DeletedIsCounted DEF Kept
<1>3. CASE UNCHANGED vars
  BY <1>1, <1>3, AsideStays, CloudStays DEF vars, person, data, mirror, cloud, Aside, Kept
<1>4. CASE Drift
  <2>1. CASE "deleted_whole" \in mishaps
    BY <2>1, MishapsStay DEF Kept
  <2>2. CASE "deleted_whole" \notin mishaps
    <3>1. CloudGoesOn /\ \A m \in Machines : Holds(m)
      BY <1>1, <2>2 DEF Kept
    <3>2. Onward /\ CloudGoesOn' /\ \A m \in Machines : Aside(m)
      BY <1>1, <1>4, <3>1, DriftGoes
    <3>3. \A m \in Machines : Holds(m)'
      BY <1>1, <3>1, <3>2, AsideStays
    <3> QED BY <3>2, <3>3 DEF Kept, Aside
  <2> QED BY <2>1, <2>2
<1>5. ASSUME NEW m \in Machines, Does(m)
      PROVE  /\ Kept'
             /\ "deleted_whole" \notin mishaps => \A x \in Machines :
                  body[x] # None => body[x] \ body'[x] \subseteq givenup'
  <2>1. CASE "deleted_whole" \in mishaps
    BY <2>1, MishapsStay DEF Kept
  <2>2. CASE "deleted_whole" \notin mishaps
    <3>1. CloudGoesOn /\ \A x \in Machines : Holds(x)
      BY <1>1, <2>2 DEF Kept
    <3>2. Goes(m)
      BY <1>1, <1>5, <3>1, EachGoes
    <3>3. \A x \in Machines \ {m} : Holds(x)'
      BY <1>1, <3>1, <3>2, AsideStays DEF Goes
    <3> QED BY <3>2, <3>3 DEF Kept, Goes, Aside
  <2> QED BY <2>1, <2>2
<1> QED BY <1>2, <1>3, <1>4, <1>5 DEF Next, Does

LEMMA KeptAlways == ASSUME AsShown PROVE Spec => []IInv
<1>1. Init => IInv
  <2> SUFFICES ASSUME Init PROVE IInv
    OBVIOUS
  <2>1. TypesInv
    BY TypesInvAtFirst
  <2>2. CloudGoesOn
    BY DEF Init, CloudGoesOn, FirstSeen
  <2>3. ASSUME NEW m \in Machines PROVE Holds(m)
    <3>1. /\ index[m] = [at |-> 0, known |-> FirstSeen, owed |-> Nowhere, confirmed |-> TRUE]
          /\ saved[m] = index[m] /\ round[m] = Idle /\ ~emptied[m] /\ asked[m] = None
          /\ tree[m] = FirstTree /\ carried[m] = FirstTree["doc"]
          /\ body[m] = IF m = Owner \/ "doc" \in FirstUp THEN {} ELSE None
      BY <2>3 DEF Init
    <3>2. /\ \A n \in Names : HasSeen(m, n) \subseteq {FirstSeen[n]} \ {None}
          /\ index[m].at = 0 /\ saved[m].at = 0 /\ 0 # None
      BY <3>1, MirrorAssumption DEF HasSeen, Idle, Nowhere
    <3>3. SeesWhatWas(m)
      <4>1. \A n \in Names : FirstSeen[n] # None => FirstSeen[n].rev = 0
        BY DEF FirstSeen
      <4>2. remote = FirstSeen /\ clock = 0
        BY DEF Init
      <4> QED BY <3>1, <3>2, <4>1, <4>2 DEF SeesWhatWas, Old
    <3>4. CopyHoldsTheKnown(m)
      <4>1. \A n \in Names : FirstSeen[n] # None => n \in FirstUp /\ FirstSeen[n].body = {}
        BY DEF FirstSeen, Names
      <4>2. \A n \in Names : FirstTree[n] = IF n \in FirstUp THEN {} ELSE None
        BY DEF FirstTree, Names
      <4>3. {} # None
        BY BodyIsNotNone DEF Bodies
      <4> QED BY <3>1, <4>1, <4>2, <4>3 DEF CopyHoldsTheKnown, Names
    <3>5. ShownAsItIs(m)
      BY <3>1 DEF ShownAsItIs, Idle
    <3> QED BY <3>3, <3>4, <3>5 DEF Holds
  <2> QED BY <2>1, <2>2, <2>3 DEF IInv, Kept
<1>2. IInv /\ [Next]_vars => IInv'
  BY TypesInvStays, KeptStays DEF IInv
<1> QED BY <1>1, <1>2, PTL DEF Spec

\* What was written stays in a machine's document, for any number of machines, edits, settlings
\* and mishaps of every other kind: pulls over changes that had not gone up, writes refused, cut
\* short, unanswered or moved by the provider, crashes before the index is written down (pull,
\* push and settle of tisty-carrier, carry of answers/papers.rs) give up nothing that a person
\* did not see and choose to do without, until somebody deletes the store.
THEOREM WritingStays ==
    ASSUME AsShown
    PROVE  Spec => NothingTakenBack
<1>1. IInv /\ [Next]_vars =>
        [\A m \in Machines : body[m] # None /\ "deleted_whole" \notin mishaps
                                => body[m] \ body'[m] \subseteq givenup']_vars
  BY KeptStays
<1> QED BY <1>1, KeptAlways, PTL DEF Spec, NothingTakenBack

-----------------------------------------------------------------------------
(* The history goes first                                                  *)

\* What the order of push is promised for: nothing was settled by hand, the store stands.
NothingByHand == settles = 0 /\ "deleted_whole" \notin mishaps

\* Everything there is was written, and the history is the owner's.
AllWritten ==
    /\ givenup = {}
    /\ history[Owner] \subseteq 1..written
    /\ remote["store"] # None => remote["store"].body \subseteq history[Owner]
    /\ remote["doc"] # None => remote["doc"].body \subseteq 1..written

\* A machine has of the history what the owner wrote, and for its own document all there is.
Written(m) ==
    /\ round[m].work = "carry"
    /\ history[m] \subseteq history[Owner]
    /\ body[m] # None => body[m] \subseteq 1..written /\ body[m] \cap history[Owner] \subseteq history[m]
    /\ tree[m]["store"] # None => tree[m]["store"] \subseteq history[Owner]
    /\ tree[m]["doc"] # None => tree[m]["doc"] \subseteq 1..written

\* The files a machine knows the document as, in hand and on disk.
KnownDocs(m) == {index[m].known["doc"], saved[m].known["doc"]} \ {None}

\* The document in the copy came from the cloud, at a revision since which the cloud has only gone
\* on, and which is later than the one it is known by, unless it is known as it is.
FromTheCloud(m) == \E s \in Sight :
    /\ s.body = tree[m]["doc"]
    /\ remote["doc"] # None /\ s.rev <= remote["doc"].rev /\ s.body \subseteq remote["doc"].body
    /\ \A k \in KnownDocs(m) : k.body = s.body \/ k.rev < s.rev
    /\ \A seen \in HasSeen(m, "doc") :
          /\ seen.rev < s.rev => seen.body \subseteq s.body
          /\ s.rev <= seen.rev => s.body \subseteq seen.body

\* A document in the copy has its history here, or came from the cloud.
CopyAnswered(m) ==
    tree[m]["doc"] # None => \/ tree[m]["doc"] \cap history[Owner] \subseteq history[m]
                             \/ FromTheCloud(m)

\* What goes up has its history in the copy, which has gone up where it is not still to go, unless
\* it is a document of the cloud's, which is not going to land.
GoesUpAnswered(m) ==
    round[m].step = "pushing" =>
        /\ tree[m]["store"] # None
        /\ "doc" \in round[m].left =>
              \/ tree[m]["doc"] \cap history[Owner] \subseteq tree[m]["store"]
              \/ /\ FromTheCloud(m)
                 /\ Known(m, "doc") = None \/ Known(m, "doc").body # tree[m]["doc"]
        /\ ~round[m].refused /\ "store" \notin round[m].left =>
              Known(m, "store") # None /\ Known(m, "store").body = tree[m]["store"]

Answered(m) == Written(m) /\ CopyAnswered(m) /\ GoesUpAnswered(m)

HistoryInv == NothingByHand => AllWritten /\ \A m \in Machines : Answered(m)

\* Nothing joins the owner's history but what is written now.
HistoryGoesOn ==
    /\ written \in Nat /\ written' \in Nat /\ written <= written'
    /\ history[Owner] \subseteq history'[Owner]
    /\ history'[Owner] \cap 1..written \subseteq history[Owner]

\* A document that came from the cloud still did, whatever else is seen of it.
LEMMA FromTheCloudStays ==
    ASSUME Types, Types', CloudGoesOn, Onward, givenup' = {}, NEW m \in Machines, SeesNoMore(m),
           FromTheCloud(m), tree'[m]["doc"] = tree[m]["doc"],
           \A k \in KnownDocs(m)' :
              \/ k.body = tree[m]["doc"]
              \/ k \in HasSeen(m, "doc") /\ \E known \in KnownDocs(m) : known.body = k.body
    PROVE  FromTheCloud(m)'
<1>1. PICK s \in Sight :
        /\ s.body = tree[m]["doc"]
        /\ remote["doc"] # None /\ s.rev <= remote["doc"].rev /\ s.body \subseteq remote["doc"].body
        /\ \A k \in KnownDocs(m) : k.body = s.body \/ k.rev < s.rev
        /\ \A seen \in HasSeen(m, "doc") :
              /\ seen.rev < s.rev => seen.body \subseteq s.body
              /\ s.rev <= seen.rev => s.body \subseteq seen.body
  BY DEF FromTheCloud
<1>2. "doc" \in Names /\ "doc" # "stamp"
  BY DEF Names
<1>3. remote["doc"] \in Sight /\ remote'["doc"] # None /\ remote'["doc"] \in Sight
  BY <1>1, <1>2 DEF Types, SightsOf, Onward
<1>4. s.rev \in Nat /\ remote["doc"].rev \in Nat /\ remote'["doc"].rev \in Nat /\ clock \in Nat
  BY <1>3 DEF Sight, Types
<1>5. remote["doc"].rev <= remote'["doc"].rev
  BY <1>1, <1>2, <1>4 DEF Onward, CloudGoesOn
<1>6. s.rev <= remote'["doc"].rev /\ s.body \subseteq remote'["doc"].body
  BY <1>1, <1>2, <1>4, <1>5 DEF Onward
<1>7. ASSUME NEW seen \in HasSeen(m, "doc")'
      PROVE  /\ seen.rev < s.rev => seen.body \subseteq s.body
             /\ s.rev <= seen.rev => s.body \subseteq seen.body
  <2>1. seen \in HasSeen(m, "doc") \/ seen = remote'["doc"]
    BY <1>2, <1>7 DEF SeesNoMore
  <2> QED BY <1>1, <1>4, <1>6, <2>1
<1>8. ASSUME NEW k \in KnownDocs(m)'
      PROVE  k.body = s.body \/ k.rev < s.rev
  <2>1. CASE k.body = tree[m]["doc"]
    BY <1>1, <2>1
  <2>2. ASSUME k \in HasSeen(m, "doc"), NEW known \in KnownDocs(m), known.body = k.body
        PROVE  k.body = s.body \/ k.rev < s.rev
    <3>1. known \in HasSeen(m, "doc") /\ known.body = k.body
      BY <2>2 DEF KnownDocs, HasSeen
    <3>2. k \in Sight /\ k.rev \in Nat
      BY <1>2, <2>2, SeenTyped DEF Sight
    <3>3. CASE known.body = s.body
      BY <3>1, <3>3
    <3>4. CASE known.rev < s.rev
      <4>1. k.body \subseteq s.body
        BY <1>1, <3>1, <3>4
      <4>2. ~(k.rev < s.rev) => s.body \subseteq k.body
        BY <1>1, <1>4, <2>2, <3>2
      <4> QED BY <4>1, <4>2
    <3> QED BY <1>1, <2>2, <3>3, <3>4
  <2> QED BY <1>8, <2>1, <2>2
<1> QED BY <1>1, <1>3, <1>6, <1>7, <1>8 DEF FromTheCloud

\* The copy of the document stays, and so does what answers for it.
LEMMA CopyAnsweredStays ==
    ASSUME Types, Types', CloudGoesOn, Onward, HistoryGoesOn, givenup' = {}, NEW m \in Machines,
           Written(m), CopyAnswered(m), SeesNoMore(m),
           tree'[m]["doc"] = tree[m]["doc"], history[m] \subseteq history'[m],
           \A k \in KnownDocs(m)' :
              \/ k.body = tree[m]["doc"]
              \/ k \in HasSeen(m, "doc") /\ \E known \in KnownDocs(m) : known.body = k.body
    PROVE  CopyAnswered(m)'
<1>1. CASE tree[m]["doc"] # None /\ tree[m]["doc"] \cap history[Owner] \subseteq history[m]
  <2>1. tree[m]["doc"] \subseteq 1..written
    BY <1>1 DEF Written
  <2> QED BY <1>1, <2>1 DEF CopyAnswered, HistoryGoesOn
<1>2. CASE tree[m]["doc"] # None /\ FromTheCloud(m)
  BY <1>2, FromTheCloudStays DEF CopyAnswered
<1>3. CASE tree[m]["doc"] = None
  BY <1>3 DEF CopyAnswered
<1> QED BY <1>1, <1>2, <1>3 DEF CopyAnswered

\* Nothing that is known goes, and nothing comes to be known.
LEMMA KnownDocsStay ==
    ASSUME NEW m \in Machines,
           index'[m].known["doc"] \in {None, index[m].known["doc"], saved[m].known["doc"]},
           saved'[m].known["doc"] \in {None, index[m].known["doc"], saved[m].known["doc"]}
    PROVE  \A k \in KnownDocs(m)' :
              k \in HasSeen(m, "doc") /\ \E known \in KnownDocs(m) : known.body = k.body
BY DEF KnownDocs, HasSeen

\* A machine that has no part in a step, or only writes.
LEMMA AnswersStay ==
    ASSUME Types, Types', LeftIsThere, CloudGoesOn, Onward, HistoryGoesOn, givenup' = {}, NEW m \in Machines,
           Written(m), CopyAnswered(m), GoesUpAnswered(m),
           tree'[m] = tree[m], index'[m] = index[m], saved'[m] = saved[m], round'[m] = round[m],
           history[m] \subseteq history'[m]
    PROVE  CopyAnswered(m)' /\ GoesUpAnswered(m)'
<1>1. SeesNoMore(m)
  BY DEF SeesNoMore, HasSeen
<1>2. \A k \in KnownDocs(m)' :
         k \in HasSeen(m, "doc") /\ \E known \in KnownDocs(m) : known.body = k.body
  BY KnownDocsStay
<1>3. CopyAnswered(m)'
  BY <1>1, <1>2, CopyAnsweredStays
<1>4. FromTheCloud(m) => FromTheCloud(m)'
  BY <1>1, <1>2, FromTheCloudStays
<1>5. ASSUME round[m].step = "pushing", "doc" \in round[m].left
      PROVE  \/ tree'[m]["doc"] \cap history'[Owner] \subseteq tree'[m]["store"]
             \/ /\ FromTheCloud(m)'
                /\ Known(m, "doc")' = None \/ Known(m, "doc")'.body # tree'[m]["doc"]
  <2>1. CASE tree[m]["doc"] \cap history[Owner] \subseteq tree[m]["store"]
    <3>1. tree[m]["doc"] \subseteq 1..written \/ tree[m]["doc"] = None
      BY DEF Written
    <3>2. CASE tree[m]["doc"] \subseteq 1..written
      BY <2>1, <3>2 DEF HistoryGoesOn
    <3>3. tree[m]["doc"] # None
      BY <1>5 DEF LeftIsThere
    <3> QED BY <3>1, <3>2, <3>3
  <2>2. CASE FromTheCloud(m) /\ (Known(m, "doc") = None \/ Known(m, "doc").body # tree[m]["doc"])
    BY <1>4, <2>2 DEF Known
  <2> QED BY <1>5, <2>1, <2>2 DEF GoesUpAnswered
<1>6. GoesUpAnswered(m)'
  BY <1>5 DEF GoesUpAnswered, Known
<1> QED BY <1>3, <1>6

\* What a machine has, where neither it nor its copy changes.
LEMMA WrittenStays ==
    ASSUME HistoryGoesOn, NEW m \in Machines, Written(m), round'[m].work = "carry",
           body'[m] = body[m], history'[m] = history[m], tree'[m] = tree[m],
           m # Owner \/ history'[Owner] = history[Owner]
    PROVE  Written(m)'
<1>1. 1..written \subseteq 1..written'
  BY DEF HistoryGoesOn
<1>2. body[m] # None => body[m] \cap history'[Owner] \subseteq history[m]
  BY DEF Written, HistoryGoesOn
<1> QED BY <1>1, <1>2 DEF Written, HistoryGoesOn

\* What every step of a machine starts from, and what it comes to.
Going(m) == /\ Types /\ Types' /\ LeftIsThere /\ CloudGoesOn /\ Holds(m) /\ Goes(m)
            /\ AllWritten /\ Answered(m)

GoesAnswered(m) == /\ AllWritten' /\ HistoryGoesOn /\ Answered(m)'
                   /\ \A x \in Machines \ {m} : history'[x] = history[x]

\* Nothing of the person's changes, nor of the copy, and nothing is on its way up.
LEMMA RoundAnswers ==
    ASSUME NEW m \in Machines, Going(m), UNCHANGED <<written, givenup, body, history, tree>>,
           remote'["store"] = remote["store"] \/ remote'["store"].body \subseteq history[Owner],
           remote'["doc"] = remote["doc"] \/ remote'["doc"].body \subseteq 1..written,
           round'[m].work = "carry", round'[m].step # "pushing",
           \A k \in KnownDocs(m)' :
              \/ k.body = tree[m]["doc"]
              \/ k \in HasSeen(m, "doc") /\ \E known \in KnownDocs(m) : known.body = k.body
    PROVE  GoesAnswered(m)
<1>1. HistoryGoesOn
  <2>1. written \in Nat
    BY MirrorAssumption DEF Going, Types
  <2> QED BY <2>1 DEF HistoryGoesOn
<1>2. AllWritten'
  BY DEF AllWritten, Going
<1>3. Written(m)'
  BY <1>1, WrittenStays DEF Going, Answered
<1>4. CopyAnswered(m)'
  BY <1>1, <1>2, CopyAnsweredStays DEF Going, Goes, Answered, AllWritten
<1>5. GoesUpAnswered(m)'
  BY DEF GoesUpAnswered
<1> QED BY <1>1, <1>2, <1>3, <1>4, <1>5 DEF GoesAnswered, Answered

LEMMA EditAnswers ==
    ASSUME NEW m \in Machines, Going(m), Edit(m)
    PROVE  GoesAnswered(m)
<1>1. /\ written \in Nat /\ written' = written + 1 /\ givenup' = givenup /\ UNCHANGED cloud
      /\ UNCHANGED <<tree, index, saved, round>>
  BY DEF Edit, Going, Types, mirror
<1>2. /\ body[m] # None /\ body'[m] = body[m] \cup {written + 1}
      /\ history'[m] = IF m = Owner THEN history[m] \cup {written + 1} ELSE history[m]
      /\ \A x \in Machines \ {m} : history'[x] = history[x]
      /\ Owner \in Machines
  BY MirrorAssumption DEF Edit, Going, Types
<1>3. history[Owner] \subseteq 1..written /\ body[m] \subseteq 1..written
  BY <1>2 DEF Going, AllWritten, Answered, Written
<1>4. /\ history'[Owner] = history[Owner] \/ (m = Owner /\ history'[Owner] = history[Owner] \cup {written + 1})
      /\ written + 1 \notin 1..written /\ 1..written' = 1..written \cup {written + 1}
  BY <1>1, <1>2
<1>5. HistoryGoesOn
  BY <1>1, <1>3, <1>4 DEF HistoryGoesOn
<1>6. AllWritten'
  BY <1>1, <1>3, <1>4 DEF AllWritten, Going, cloud
<1>7. Written(m)'
  <2>1. history'[m] \subseteq history'[Owner]
    BY <1>2, <1>4 DEF Going, Answered, Written
  <2>2. body'[m] \subseteq 1..written' /\ body'[m] \cap history'[Owner] \subseteq history'[m]
    <3>1. CASE m = Owner
      BY <1>2, <1>3, <1>4, <3>1
    <3>2. CASE m # Owner
      BY <1>2, <1>3, <1>4, <3>2 DEF Going, Answered, Written
    <3> QED BY <3>1, <3>2
  <2> QED BY <1>1, <1>4, <2>1, <2>2 DEF Going, Answered, Written
<1>8. CopyAnswered(m)' /\ GoesUpAnswered(m)'
  <2>1. history[m] \subseteq history'[m]
    BY <1>2
  <2> QED BY <1>1, <1>5, <1>6, <2>1, AnswersStay DEF Going, Goes, Answered, AllWritten
<1> QED BY <1>2, <1>5, <1>6, <1>7, <1>8 DEF GoesAnswered, Answered

LEMMA BeginAnswers ==
    ASSUME NEW m \in Machines, Going(m), Begin(m) \/ BeginBehind(m)
    PROVE  GoesAnswered(m)
<1>1. PICK work, upto : work = "carry" /\ Pull(m, work, FALSE, upto)
  <2>1. CASE Begin(m)
    BY <2>1, Zenon DEF Begin
  <2>2. CASE BeginBehind(m)
    BY <2>2, Zenon DEF BeginBehind
  <2> QED BY <2>1, <2>2
<1>2. UNCHANGED <<written, givenup, body, history>> /\ remote' = remote
  BY DEF Begin, BeginBehind, person, data, cloud
<1> DEFINE due   == DueAfter(index[m], Told(index[m].at, upto))
           going == [Idle EXCEPT !.step = "pulling", !.work = work, !.at = upto, !.due = due]
<1>3. /\ UNCHANGED <<saved, tree, emptied>>
      /\ index' = [index EXCEPT ![m] = [index[m] EXCEPT !.owed = Nowhere]]
      /\ round' = [round EXCEPT ![m] = going]
      /\ \A n \in Names : due[n] \in {remote[n], index[m].owed[n]}
  <2>1. Types /\ CloudGoesOn /\ SeesWhatWas(m)
    BY DEF Going, Holds
  <2>2. Pull(m, work, FALSE, upto)
    BY <1>1
  <2> QED BY <2>1, <2>2, PullIs
<1>4. going.step = "pulling" /\ going.work = "carry"
  BY <1>1 DEF Idle
<1> HIDE DEF going
<1>5. /\ index'[m].known = index[m].known /\ round'[m] = going
  BY <1>3 DEF Going, Types, Index
<1>6. \A k \in KnownDocs(m)' :
         k \in HasSeen(m, "doc") /\ \E known \in KnownDocs(m) : known.body = k.body
  BY <1>3, <1>5, KnownDocsStay
<1> QED BY <1>2, <1>3, <1>4, <1>5, <1>6, RoundAnswers

LEMMA LearnAnswers ==
    ASSUME NEW m \in Machines, Going(m), Learn(m)
    PROVE  GoesAnswered(m)
<1>1. UNCHANGED <<written, givenup, body, history, tree, saved>> /\ remote' = remote
  BY DEF Learn, person, data, cloud
<1>2. PICK n \in Names :
        /\ NextDue(m, n) /\ round' = Learned(m, n)
        /\ \/ UNCHANGED index
           \/ Resembles(m, n) /\ Noted(m, n, Seen(m, n))
           \/ Pending(m, n) /\ OursStill(m, n) /\ Noted(m, n, Seen(m, n))
           \/ index' = [index EXCEPT ![m].owed[n] = Seen(m, n)]
  BY DEF Learn
<1>3. round'[m].work = "carry" /\ round'[m].step # "pushing"
  BY <1>2, LearnedGoesOn DEF Going, Answered, Written, NextDue
<1>4. index[m] \in Index /\ index \in [Machines -> Index]
  BY DEF Going, Types
<1>5. \/ index'[m].known["doc"] = index[m].known["doc"]
      \/ /\ n = "doc" /\ index'[m].known["doc"] = Seen(m, n) /\ Seen(m, n) # None
         /\ Resembles(m, n) \/ OursStill(m, n)
  <2>1. CASE UNCHANGED index
    BY <2>1
  <2>2. CASE Noted(m, n, Seen(m, n)) /\ (Resembles(m, n) \/ OursStill(m, n))
    <3>1. index'[m].known = [index[m].known EXCEPT ![n] = Seen(m, n)]
      BY <1>4, <2>2 DEF Noted, Index
    <3> QED BY <1>2, <1>4, <2>2, <3>1 DEF Index, SightsOf, Names, NextDue, Seen
  <2>3. CASE index' = [index EXCEPT ![m].owed[n] = Seen(m, n)]
    BY <1>4, <2>3 DEF Index
  <2> QED BY <1>2, <2>1, <2>2, <2>3
<1>6. \A k \in KnownDocs(m)' :
         \/ k.body = tree[m]["doc"]
         \/ k \in HasSeen(m, "doc") /\ \E known \in KnownDocs(m) : known.body = k.body
  <2>1. CASE index'[m].known["doc"] = index[m].known["doc"]
    BY <1>1, <2>1, KnownDocsStay
  <2>2. CASE n = "doc" /\ index'[m].known["doc"] = Seen(m, n) /\ Seen(m, n) # None /\ Resembles(m, n)
    BY <1>1, <2>2 DEF KnownDocs, HasSeen, Resembles
  <2>3. CASE n = "doc" /\ index'[m].known["doc"] = Seen(m, n) /\ Seen(m, n) # None /\ OursStill(m, n)
    BY <1>1, <2>3 DEF KnownDocs, HasSeen, OursStill, Known, Seen
  <2> QED BY <1>5, <2>1, <2>2, <2>3
<1> QED BY <1>1, <1>3, <1>6, RoundAnswers

\* A round that ends, or that leaves a file to another.
LEMMA EndsAnswers ==
    ASSUME NEW m \in Machines, Going(m),
           \/ FetchBroken(m) \/ FetchCut(m) \/ Refuse(m) \/ PutCut(m) \/ EndPush(m) \/ Crash(m)
    PROVE  GoesAnswered(m)
<1>1. UNCHANGED <<written, givenup, body, history, tree>> /\ remote' = remote
  BY DEF FetchBroken, FetchCut, Refuse, PutCut, EndPush, Crash, person, data, cloud
<1>2. index[m] \in Index /\ index \in [Machines -> Index] /\ saved \in [Machines -> Index]
      /\ round \in [Machines -> Round]
  BY DEF Going, Types
<1>3. Idle.work = "carry" /\ Idle.step = "idle"
  BY DEF Idle
<1>4. /\ round'[m].work = "carry" /\ round'[m].step # "pushing"
      /\ index'[m].known["doc"] \in {index[m].known["doc"], saved[m].known["doc"]}
      /\ saved'[m].known["doc"] \in {index[m].known["doc"], saved[m].known["doc"]}
  <2>1. CASE FetchBroken(m)
    <3>1. PICK n \in Names : /\ NextDue(m, n) /\ round' = Learned(m, n)
                             /\ index' = [index EXCEPT ![m].owed[n] = Seen(m, n)]
      BY <2>1 DEF FetchBroken, MustFetch
    <3>2. round'[m].work = "carry" /\ round'[m].step # "pushing"
      BY <3>1, LearnedGoesOn DEF Going, Answered, Written, NextDue
    <3>3. index'[m].known = index[m].known
      BY <1>2, <3>1 DEF Index
    <3> QED BY <2>1, <3>2, <3>3 DEF FetchBroken
  <2>2. CASE Crash(m)
    BY <1>2, <1>3, <2>2 DEF Crash
  <2>3. CASE FetchCut(m) \/ Refuse(m) \/ PutCut(m) \/ EndPush(m)
    <3>1. \E known : Ends(m, known) /\ known.known = index[m].known
      <4>1. CASE FetchCut(m)
        <5> DEFINE owes == [f \in Names |-> IF Seen(m, f) # None THEN Seen(m, f) ELSE index[m].owed[f]]
        <5>1. Ends(m, [index[m] EXCEPT !.owed = owes])
          BY <4>1 DEF FetchCut
        <5> HIDE DEF owes
        <5>2. [index[m] EXCEPT !.owed = owes].known = index[m].known
          BY <1>2 DEF Index
        <5> QED BY <5>1, <5>2
      <4>2. CASE Refuse(m)
        <5>1. Ends(m, Read(m)) /\ Read(m).known = index[m].known
          BY <4>2, ReadIs DEF Refuse, Going, Holds
        <5> QED BY <5>1
      <4>3. CASE PutCut(m) \/ EndPush(m)
        BY <4>3 DEF PutCut, EndPush
      <4> QED BY <2>3, <4>1, <4>2, <4>3
    <3>2. PICK known : Ends(m, known) /\ known.known = index[m].known
      BY <3>1
    <3>3. index'[m] = known /\ saved'[m] = known /\ round'[m] = Idle
      BY <1>2, <3>2 DEF Ends
    <3> QED BY <1>3, <3>2, <3>3
  <2> QED BY <2>1, <2>2, <2>3
<1>5. \A k \in KnownDocs(m)' :
         k \in HasSeen(m, "doc") /\ \E known \in KnownDocs(m) : known.body = k.body
  BY <1>4, KnownDocsStay
<1> QED BY <1>1, <1>4, <1>5, RoundAnswers

LEMMA FetchAnswers ==
    ASSUME NEW m \in Machines, Going(m), Fetch(m)
    PROVE  GoesAnswered(m)
<1>1. UNCHANGED <<written, givenup, body, history, saved>> /\ remote' = remote
  BY DEF Fetch, person, cloud
<1>2. PICK n \in Names :
        /\ NextDue(m, n) /\ round' = Learned(m, n)
        /\ IF remote[n] = None
           THEN UNCHANGED <<tree, index>>
           ELSE tree' = [tree EXCEPT ![m][n] = remote[n].body] /\ Noted(m, n, remote[n])
  BY DEF Fetch, MustFetch
<1>3. round'[m].work = "carry" /\ round'[m].step = "pulling"
  BY <1>2, LearnedGoesOn DEF Going, Answered, Written, NextDue
<1>4. remote[n] # None /\ remote[n] \in Sight
  <2>1. Old(n, round[m].due[n])
    BY <1>2 DEF Going, Holds, SeesWhatWas, HasSeen, NextDue
  <2> QED BY <2>1 DEF Old, Going, Types, SightsOf
<1>5. /\ tree'[m] = [tree[m] EXCEPT ![n] = remote[n].body]
      /\ index'[m].known = [index[m].known EXCEPT ![n] = remote[n]]
      /\ tree[m] \in Files /\ index[m].known \in SightsOf
  <2>1. index \in [Machines -> Index] /\ index[m] \in Index /\ tree \in [Machines -> Files]
    BY DEF Going, Types
  <2>2. tree' = [tree EXCEPT ![m][n] = remote[n].body] /\ Noted(m, n, remote[n])
    BY <1>2, <1>4
  <2>3. tree'[m] = [tree[m] EXCEPT ![n] = remote[n].body] /\ tree[m] \in Files
    BY <2>1, <2>2
  <2>4. index'[m].known = [index[m].known EXCEPT ![n] = remote[n]] /\ index[m].known \in SightsOf
    BY <2>1, <2>2 DEF Noted, Index
  <2> QED BY <2>3, <2>4
<1>6. HistoryGoesOn
  <2>1. written \in Nat
    BY MirrorAssumption DEF Going, Types
  <2> QED BY <1>1, <2>1 DEF HistoryGoesOn
<1>7. AllWritten'
  BY <1>1 DEF AllWritten, Going
<1>8. Written(m)'
  <2>1. tree'[m]["store"] # None => tree'[m]["store"] \subseteq history[Owner]
    BY <1>4, <1>5 DEF Going, Answered, Written, AllWritten, Files, Names
  <2>2. tree'[m]["doc"] # None => tree'[m]["doc"] \subseteq 1..written
    BY <1>4, <1>5 DEF Going, Answered, Written, AllWritten, Files, Names
  <2> QED BY <1>1, <1>3, <2>1, <2>2 DEF Going, Answered, Written
<1>9. CopyAnswered(m)'
  <2>1. CASE n # "doc"
    <3>1. tree'[m]["doc"] = tree[m]["doc"] /\ index'[m].known["doc"] = index[m].known["doc"]
      BY <1>5, <2>1 DEF Files, SightsOf, Names
    <3>2. \A k \in KnownDocs(m)' :
             k \in HasSeen(m, "doc") /\ \E known \in KnownDocs(m) : known.body = k.body
      BY <1>1, <3>1, KnownDocsStay
    <3> QED BY <1>1, <1>6, <1>7, <3>1, <3>2, CopyAnsweredStays DEF Going, Goes, Answered, AllWritten
  <2>2. CASE n = "doc"
    <3> DEFINE s == remote["doc"]
    <3>1. s \in Sight /\ s # None /\ remote'["doc"] = s /\ givenup = {} /\ "doc" \in Names
      BY <1>1, <1>4, <2>2 DEF Going, AllWritten
    <3>2. s.rev \in Nat
      BY <3>1 DEF Sight
    <3>3. tree'[m]["doc"] = s.body /\ index'[m].known["doc"] = s
      BY <1>5, <2>2 DEF Files, SightsOf
    <3>4. \A seen \in HasSeen(m, "doc") : /\ seen.rev \in Nat /\ seen.rev <= s.rev
                                          /\ seen.rev = s.rev => seen = s
                                          /\ seen.body \subseteq s.body
      <4>1. \A seen \in HasSeen(m, "doc") : seen \in Sight /\ Old("doc", seen)
        BY <3>1, SeenTyped DEF Going, Holds, SeesWhatWas
      <4> QED BY <3>1, <4>1 DEF Old, Sight
    <3>5. HasSeen(m, "doc")' \subseteq HasSeen(m, "doc") \cup {s}
      BY <3>1 DEF Going, Goes, SeesNoMore
    <3>6. KnownDocs(m)' \subseteq HasSeen(m, "doc") \cup {s}
      BY <1>1, <3>3 DEF KnownDocs, HasSeen
    <3> HIDE DEF s
    <3>7. \A k \in KnownDocs(m)' : k.body = s.body \/ k.rev < s.rev
      BY <3>2, <3>4, <3>6
    <3>8. \A seen \in HasSeen(m, "doc")' :
             /\ seen.rev < s.rev => seen.body \subseteq s.body
             /\ s.rev <= seen.rev => s.body \subseteq seen.body
      BY <3>2, <3>4, <3>5
    <3>9. FromTheCloud(m)'
      BY <3>1, <3>2, <3>3, <3>7, <3>8 DEF FromTheCloud
    <3> QED BY <3>9 DEF CopyAnswered
  <2> QED BY <2>1, <2>2
<1>10. GoesUpAnswered(m)'
  BY <1>3 DEF GoesUpAnswered
<1> QED BY <1>1, <1>6, <1>7, <1>8, <1>9, <1>10 DEF GoesAnswered, Answered

\* What a round takes over of theirs, the history answers for.
LEMMA OutcomesAnswered ==
    ASSUME NEW m \in Machines, NEW events, NEW done \in Outcomes(m, events)
    PROVE  LET theirs == tree[m]["doc"]
           IN  \/ done.here = body[m]
               \/ /\ theirs # None /\ theirs \cap history[Owner] \subseteq events
                  /\ \/ done.here = theirs
                     \/ body[m] # None /\ done.here = body[m] \cup theirs
<1> DEFINE mine     == body[m]
           theirs   == tree[m]["doc"]
           how      == Moved(carried[m], mine, theirs)
           answered == theirs # None /\ theirs \cap history[Owner] \subseteq events
           becomes(whole) == [here |-> whole, there |-> whole, said |-> whole, asks |-> asked[m]]
           stays    == [here |-> mine, there |-> theirs, said |-> carried[m], asks |-> asked[m]]
           asks     == [stays EXCEPT !.asks = [mine |-> mine, theirs |-> theirs]]
<1>1. done \in CASE how = "nothing"               -> {IF mine = None THEN stays ELSE becomes(mine)}
                 [] how = "send"                  -> {becomes(mine)}
                 [] how = "bring"                 -> {IF answered THEN becomes(theirs) ELSE stays}
                 [] how = "they_decide"           ->
                       {asks} \cup (IF answered /\ carried[m] # None
                                    THEN {becomes(mine \cup theirs)} ELSE {})
  BY DEF Outcomes
<1>2. how \in {"nothing", "send", "bring", "they_decide"} /\ (how = "they_decide" => mine # None)
  BY DEF Moved
<1>3. (\A whole : becomes(whole).here = whole) /\ stays.here = mine /\ asks.here = mine
  OBVIOUS
<1> HIDE DEF answered, becomes, stays, asks, mine, theirs, how
<1>4. \/ done \in {stays, asks, becomes(mine)}
      \/ answered /\ done = becomes(theirs)
      \/ answered /\ mine # None /\ done = becomes(mine \cup theirs)
  BY <1>1, <1>2
<1> QED BY <1>3, <1>4 DEF answered, mine, theirs

LEMMA CarryAnswers ==
    ASSUME NEW m \in Machines, Going(m), Carry(m)
    PROVE  GoesAnswered(m)
<1> DEFINE events == history[m] \cup (IF tree[m]["store"] = None THEN {} ELSE tree[m]["store"])
           mine   == body[m]
           theirs == tree[m]["doc"]
<1>1. events \in Bodies /\ events # None
  <2>1. events \in Bodies
    BY DEF Going, Types, Files, Names, Bodies
  <2> QED BY <2>1, BodyIsNotNone
<1>2. history[m] \subseteq events /\ events \subseteq history[Owner] /\ (m = Owner => events = history[Owner])
  BY DEF Going, Answered, Written
<1>3. PICK done \in Outcomes(m, events) :
          /\ history' = [history EXCEPT ![m] = events]
          /\ body' = [body EXCEPT ![m] = done.here]
          /\ Leaves(m, [store |-> events, doc |-> done.there, stamp |-> {}])
  BY DEF Carry
<1> HIDE DEF events
<1>4. UNCHANGED <<written, givenup>> /\ remote' = remote /\ saved' = saved
  BY <1>3 DEF Carry, Leaves, person, cloud
<1>5. /\ history'[m] = events /\ body'[m] = done.here
      /\ \A x \in Machines \ {m} : history'[x] = history[x]
  BY <1>3 DEF Going, Types
<1>6. history'[Owner] = history[Owner]
  BY <1>2, <1>5, MirrorAssumption
<1> DEFINE files == [store |-> events, doc |-> done.there, stamp |-> {}]
<1>7. files["store"] = events /\ files["doc"] = done.there
  OBVIOUS
<1> HIDE DEF files
<1>8. /\ tree'[m] = files /\ index'[m].known = index[m].known
      /\ round'[m].step = "pushing" /\ round'[m].work = "carry" /\ round'[m].left = Dirty(m, files)
  <2>1. Leaves(m, files)
    BY <1>3 DEF files
  <2>2. tree'[m] = files /\ index'[m].known = index[m].known
    BY <2>1, LeavesIs DEF Going, Goes
  <2>3. /\ Idle.work = "carry"
        /\ round' = [round EXCEPT ![m] = [Idle EXCEPT !.step = "pushing", !.left = Dirty(m, files)]]
    BY <2>1 DEF Leaves, Idle
  <2> QED BY <2>2, <2>3 DEF Going, Types, Idle
<1>9. HistoryGoesOn
  <2>1. written \in Nat
    BY MirrorAssumption DEF Going, Types
  <2> QED BY <1>4, <1>6, <2>1 DEF HistoryGoesOn
<1>10. AllWritten'
  BY <1>4, <1>6 DEF AllWritten, Going
<1>11. done.there = theirs \/ done.there = done.here
  <2>1. MadeOf(m, done)
    BY <1>1, OutcomesAre DEF Going
  <2> QED BY <2>1 DEF MadeOf, Alike
<1>12. done.here # None =>
          done.here \subseteq 1..written /\ done.here \cap history[Owner] \subseteq events
  <2>1. \/ done.here = mine
        \/ /\ theirs # None /\ theirs \cap history[Owner] \subseteq events
           /\ done.here = theirs \/ (mine # None /\ done.here = mine \cup theirs)
    BY OutcomesAnswered
  <2>2. mine # None => mine \subseteq 1..written /\ mine \cap history[Owner] \subseteq events
    BY <1>2 DEF Going, Answered, Written
  <2>3. theirs # None => theirs \subseteq 1..written
    BY DEF Going, Answered, Written
  <2> HIDE DEF mine, theirs
  <2>4. CASE done.here = mine
    BY <2>2, <2>4
  <2>5. CASE theirs # None /\ theirs \cap history[Owner] \subseteq events /\ done.here = theirs
    BY <2>3, <2>5
  <2>6. CASE /\ theirs # None /\ theirs \cap history[Owner] \subseteq events
             /\ mine # None /\ done.here = mine \cup theirs
    BY <2>2, <2>3, <2>6
  <2> QED BY <2>1, <2>4, <2>5, <2>6
<1>13. Written(m)'
  <2>1. done.there # None => done.there \subseteq 1..written
    BY <1>11, <1>12 DEF Going, Answered, Written
  <2> QED BY <1>2, <1>4, <1>5, <1>6, <1>7, <1>8, <1>12, <2>1 DEF Written
<1>14. CopyAnswered(m)'
  <2>1. CASE done.there = done.here
    BY <1>5, <1>6, <1>7, <1>8, <1>12, <2>1 DEF CopyAnswered
  <2>2. CASE done.there = theirs
    <3>1. \A k \in KnownDocs(m)' :
             k \in HasSeen(m, "doc") /\ \E known \in KnownDocs(m) : known.body = k.body
      BY <1>4, <1>8, KnownDocsStay
    <3>2. tree'[m]["doc"] = tree[m]["doc"] /\ history[m] \subseteq history'[m]
      BY <1>2, <1>5, <1>7, <1>8, <2>2
    <3> QED BY <1>9, <1>10, <3>1, <3>2, CopyAnsweredStays DEF Going, Goes, Answered, AllWritten
  <2> QED BY <1>11, <2>1, <2>2
<1>15. GoesUpAnswered(m)'
  <2>1. \A n \in Names : n \in Dirty(m, files) <=>
            files[n] # None /\ (Known(m, n) = None \/ Known(m, n).body # files[n])
    BY DEF Dirty
  <2>2. tree'[m]["store"] = events /\ Known(m, "doc")' = Known(m, "doc") /\ Known(m, "store")' = Known(m, "store")
    BY <1>7, <1>8 DEF Known
  <2>3. "doc" \in Dirty(m, files) =>
           \/ tree'[m]["doc"] \cap history'[Owner] \subseteq tree'[m]["store"]
           \/ /\ FromTheCloud(m)'
              /\ Known(m, "doc")' = None \/ Known(m, "doc")'.body # tree'[m]["doc"]
    BY <1>5, <1>8, <1>14, <2>1, <2>2 DEF CopyAnswered, Names
  <2>4. "store" \notin Dirty(m, files) => Known(m, "store") # None /\ Known(m, "store").body = events
    BY <1>1, <1>7, <2>1 DEF Names
  <2> QED BY <1>1, <1>8, <2>2, <2>3, <2>4 DEF GoesUpAnswered
<1> QED BY <1>5, <1>9, <1>10, <1>13, <1>14, <1>15 DEF GoesAnswered, Answered

\* A write that lands.
LEMMA PutUpPuts ==
    ASSUME Types, LeftIsThere, NEW m \in Machines, NEW n \in Names, PutUp(m, n)
    PROVE  /\ tree[m][n] # None
           /\ remote'[n] # None /\ remote'[n].body = tree[m][n]
           /\ \A f \in Names \ {n} : remote'[f] = remote[f]
<1> DEFINE file == [rev |-> clock + 1, body |-> tree[m][n]]
<1>1. remote' = [remote EXCEPT ![n] = file] /\ file \in Sight /\ file.body = tree[m][n]
  BY PutUpTypes
<1>2. tree[m][n] # None
  BY DEF PutUp, NextLeft, LeftIsThere
<1> HIDE DEF file
<1> QED BY <1>1, <1>2, SightIsNotNone DEF Types, SightsOf

\* What lands was written, and of the history is the owner's.
LEMMA PutUpWritten ==
    ASSUME NEW m \in Machines, Going(m), NEW n \in Names, PutUp(m, n)
    PROVE  /\ remote'["store"] = remote["store"] \/ remote'["store"].body \subseteq history[Owner]
           /\ remote'["doc"] = remote["doc"] \/ remote'["doc"].body \subseteq 1..written
<1>1. /\ tree[m][n] # None /\ remote'[n].body = tree[m][n]
      /\ \A f \in Names \ {n} : remote'[f] = remote[f]
  BY PutUpPuts DEF Going
<1> QED BY <1>1 DEF Going, Answered, Written, Names

LEMMA PutAnswers ==
    ASSUME NEW m \in Machines, Going(m), Put(m)
    PROVE  GoesAnswered(m)
<1>1. PICK n \in Names : /\ PutUp(m, n) /\ Noted(m, n, remote'[n])
                         /\ round' = [round EXCEPT ![m].left = @ \ {n}]
  BY DEF Put
<1>2. UNCHANGED <<written, givenup, body, history, tree, saved>>
  BY DEF Put, person, data
<1>3. tree[m][n] # None /\ remote'[n] # None /\ remote'[n].body = tree[m][n]
  BY <1>1, PutUpPuts DEF Going
<1>4. /\ remote'["store"] = remote["store"] \/ remote'["store"].body \subseteq history[Owner]
      /\ remote'["doc"] = remote["doc"] \/ remote'["doc"].body \subseteq 1..written
  BY <1>1, PutUpWritten
<1>5. index'[m].known = [index[m].known EXCEPT ![n] = remote'[n]] /\ index[m].known \in SightsOf
  <2>1. index \in [Machines -> Index] /\ index[m] \in Index
    BY DEF Going, Types
  <2> QED BY <1>1, <2>1 DEF Noted, Index
<1>6. index'[m].known[n] = remote'[n] /\ \A f \in Names \ {n} : index'[m].known[f] = index[m].known[f]
  BY <1>5 DEF SightsOf
<1>7. /\ round'[m].step = round[m].step /\ round'[m].work = round[m].work
      /\ round'[m].refused = round[m].refused /\ round'[m].left = round[m].left \ {n}
  <2>1. round \in [Machines -> Round] /\ round[m] \in Round
    BY DEF Going, Types
  <2> QED BY <1>1, <2>1 DEF Round
<1>8. HistoryGoesOn
  <2>1. written \in Nat
    BY MirrorAssumption DEF Going, Types
  <2> QED BY <1>2, <2>1 DEF HistoryGoesOn
<1>9. AllWritten'
  BY <1>2, <1>4 DEF AllWritten, Going
<1>10. Written(m)'
  BY <1>2, <1>7, <1>8, WrittenStays DEF Going, Answered, Written
<1>11. \A k \in KnownDocs(m)' :
          \/ k.body = tree[m]["doc"]
          \/ k \in HasSeen(m, "doc") /\ \E known \in KnownDocs(m) : known.body = k.body
  <2>1. CASE n = "doc"
    <3>1. \A k \in KnownDocs(m)' : k = remote'["doc"] \/ k = saved[m].known["doc"]
      BY <1>2, <1>6, <2>1 DEF KnownDocs
    <3>2. \A k \in KnownDocs(m)' : k # None
      BY DEF KnownDocs
    <3> QED BY <1>3, <2>1, <3>1, <3>2 DEF KnownDocs, HasSeen
  <2>2. CASE n # "doc"
    <3>1. index'[m].known["doc"] = index[m].known["doc"]
      BY <1>6, <2>2 DEF Names
    <3> QED BY <1>2, <3>1, KnownDocsStay
  <2> QED BY <2>1, <2>2
<1>12. CopyAnswered(m)'
  BY <1>2, <1>8, <1>9, <1>11, CopyAnsweredStays DEF Going, Goes, Answered, AllWritten
<1>13. GoesUpAnswered(m)'
  <2>1. round[m].step = "pushing"
    BY <1>1 DEF PutUp
  <2>2. ASSUME "doc" \in round'[m].left
        PROVE  \/ tree'[m]["doc"] \cap history'[Owner] \subseteq tree'[m]["store"]
               \/ /\ FromTheCloud(m)'
                  /\ Known(m, "doc")' = None \/ Known(m, "doc")'.body # tree'[m]["doc"]
    <3>1. n # "doc" /\ "doc" \in round[m].left
      BY <1>7, <2>2
    <3>2. Known(m, "doc")' = Known(m, "doc")
      BY <1>6, <3>1 DEF Known, Names
    <3>3. CASE tree[m]["doc"] \cap history[Owner] \subseteq tree[m]["store"]
      BY <1>2, <3>3
    <3>4. CASE FromTheCloud(m) /\ (Known(m, "doc") = None \/ Known(m, "doc").body # tree[m]["doc"])
      <4>1. FromTheCloud(m)'
        BY <1>2, <1>9, <1>11, <3>4, FromTheCloudStays DEF Going, Goes, AllWritten
      <4> QED BY <1>2, <3>2, <3>4, <4>1
    <3> QED BY <2>1, <3>1, <3>3, <3>4 DEF Going, Answered, GoesUpAnswered
  <2>3. ASSUME ~round'[m].refused, "store" \notin round'[m].left
        PROVE  Known(m, "store")' # None /\ Known(m, "store")'.body = tree'[m]["store"]
    <3>1. CASE n = "store"
      BY <1>2, <1>3, <1>6, <3>1 DEF Known
    <3>2. CASE n # "store"
      BY <1>2, <1>6, <1>7, <2>1, <2>3, <3>2 DEF Known, Names, Going, Answered, GoesUpAnswered
    <3> QED BY <3>1, <3>2
  <2>4. tree'[m]["store"] # None
    BY <1>2, <2>1 DEF Going, Answered, GoesUpAnswered
  <2> QED BY <2>2, <2>3, <2>4 DEF GoesUpAnswered
<1> QED BY <1>2, <1>8, <1>9, <1>10, <1>12, <1>13 DEF GoesAnswered, Answered

LEMMA PutUnansweredAnswers ==
    ASSUME NEW m \in Machines, Going(m), PutUnanswered(m)
    PROVE  GoesAnswered(m)
<1>1. PICK n \in Names : PutUp(m, n)
  BY DEF PutUnanswered
<1>2. UNCHANGED <<written, givenup, body, history, tree>> /\ Ends(m, index[m])
  BY DEF PutUnanswered, person, data
<1>3. /\ remote'["store"] = remote["store"] \/ remote'["store"].body \subseteq history[Owner]
      /\ remote'["doc"] = remote["doc"] \/ remote'["doc"].body \subseteq 1..written
  BY <1>1, PutUpWritten
<1>4. index'[m] = index[m] /\ saved'[m] = index[m] /\ round'[m] = Idle
  BY <1>2 DEF Ends, Going, Types
<1>5. \A k \in KnownDocs(m)' :
         k \in HasSeen(m, "doc") /\ \E known \in KnownDocs(m) : known.body = k.body
  BY <1>4, KnownDocsStay
<1>6. Idle.work = "carry" /\ Idle.step = "idle"
  BY DEF Idle
<1> QED BY <1>2, <1>3, <1>4, <1>5, <1>6, RoundAnswers

LEMMA PutRefusedAnswers ==
    ASSUME NEW m \in Machines, Going(m), PutRefused(m)
    PROVE  GoesAnswered(m)
<1>1. PICK n \in Names : /\ round[m].step = "pushing"
                         /\ index' = [index EXCEPT ![m] = ReadAgain(m, n)]
                         /\ round' = [round EXCEPT ![m].left = @ \ {n}, ![m].refused = TRUE]
  BY DEF PutRefused
<1>2. UNCHANGED <<written, givenup, body, history, tree, saved>> /\ remote' = remote
  BY DEF PutRefused, person, data, cloud
<1>3. index[m] \in Index /\ index'[m] = ReadAgain(m, n)
  BY <1>1 DEF Going, Types
<1>4. index'[m].known["doc"] \in {None, index[m].known["doc"]}
  BY <1>3 DEF ReadAgain, Index, SightsOf, Names
<1>5. round'[m].work = round[m].work /\ round'[m].refused /\ round'[m].left \subseteq round[m].left
  <2>1. round \in [Machines -> Round] /\ round[m] \in Round
    BY DEF Going, Types
  <2>2. round'[m] = [round[m] EXCEPT !.left = @ \ {n}, !.refused = TRUE]
    BY <1>1, <2>1
  <2> QED BY <2>1, <2>2 DEF Round
<1>6. HistoryGoesOn
  <2>1. written \in Nat
    BY MirrorAssumption DEF Going, Types
  <2> QED BY <1>2, <2>1 DEF HistoryGoesOn
<1>7. AllWritten'
  BY <1>2 DEF AllWritten, Going
<1>8. Written(m)'
  BY <1>2, <1>5, <1>6, WrittenStays DEF Going, Answered, Written
<1>9. \A k \in KnownDocs(m)' :
         k \in HasSeen(m, "doc") /\ \E known \in KnownDocs(m) : known.body = k.body
  BY <1>2, <1>4, KnownDocsStay
<1>10. CopyAnswered(m)'
  BY <1>2, <1>6, <1>7, <1>9, CopyAnsweredStays DEF Going, Goes, Answered, AllWritten
<1>11. FromTheCloud(m) => FromTheCloud(m)'
  BY <1>2, <1>7, <1>9, FromTheCloudStays DEF Going, Goes, AllWritten
<1>12. GoesUpAnswered(m)'
  BY <1>1, <1>2, <1>4, <1>5, <1>11 DEF GoesUpAnswered, Going, Answered, Known
<1> QED BY <1>2, <1>6, <1>7, <1>8, <1>10, <1>12 DEF GoesAnswered, Answered

LEMMA EachAnswers ==
    ASSUME "look" \notin Mishaps, NEW m \in Machines, Going(m), Does(m), settles = 0, settles' = 0
    PROVE  GoesAnswered(m)
<1>1. ~Again(m)
  BY DEF Again, Going, Holds, SeesWhatWas
<1>2. ~BeginLook(m)
  BY DEF BeginLook, Mishap
<1>3. ~Settle(m, "keep_mine") /\ ~Settle(m, "keep_theirs")
  BY DEF Settle
<1>4. ~Look(m) /\ ~KeepMine(m) /\ ~KeepTheirs(m)
  BY DEF Look, KeepMine, KeepTheirs, Works, Going, Answered, Written
<1>5. CASE Edit(m)
  BY <1>5, EditAnswers
<1>6. CASE Begin(m) \/ BeginBehind(m)
  BY <1>6, BeginAnswers
<1>7. CASE Learn(m)
  BY <1>7, LearnAnswers
<1>8. CASE Fetch(m)
  BY <1>8, FetchAnswers
<1>9. CASE FetchBroken(m) \/ FetchCut(m) \/ Refuse(m) \/ PutCut(m) \/ EndPush(m) \/ Crash(m)
  BY <1>9, EndsAnswers
<1>10. CASE Carry(m)
  BY <1>10, CarryAnswers
<1>11. CASE Put(m)
  BY <1>11, PutAnswers
<1>12. CASE PutUnanswered(m)
  BY <1>12, PutUnansweredAnswers
<1>13. CASE PutRefused(m)
  BY <1>13, PutRefusedAnswers
<1> QED
  BY <1>1, <1>2, <1>3, <1>4, <1>5, <1>6, <1>7, <1>8, <1>9, <1>10, <1>11, <1>12, <1>13
     DEF Does, CarryOn, CutShort

\* A person who has settled has settled.
LEMMA SettlesStay ==
    ASSUME [Next]_vars, settles \in Nat, settles' = 0
    PROVE  settles = 0
<1>1. ASSUME NEW m \in Machines, Does(m) PROVE settles = 0
  <2>1. CASE CarryOn(m)
    BY <2>1 DEF CarryOn, Begin, Learn, Fetch, Refuse, Look, Carry, KeepMine, KeepTheirs, Chosen,
                Put, PutRefused, EndPush, person
  <2>2. CASE CutShort(m)
    BY <2>2 DEF CutShort, FetchBroken, FetchCut, PutUnanswered, PutCut, Crash, person
  <2>3. CASE Settle(m, "keep_mine") \/ Settle(m, "keep_theirs")
    <3>1. settles' = settles + 1
      BY <2>3, Zenon DEF Settle
    <3> QED BY <3>1
  <2>4. CASE Edit(m) \/ Again(m) \/ BeginLook(m) \/ BeginBehind(m)
    BY <2>4 DEF Edit, Again, BeginLook, BeginBehind, person
  <2> QED BY <1>1, <2>1, <2>2, <2>3, <2>4 DEF Does
<1>2. CASE Drift \/ DeleteAll \/ UNCHANGED vars
  BY <1>2 DEF Drift, DeleteAll, vars, person
<1> QED BY <1>1, <1>2 DEF Next, Does

\* The provider moves files and touches nothing they hold.
LEMMA DriftMoves ==
    ASSUME Types, Drift, NEW n \in Names
    PROVE  /\ (remote[n] = None) <=> (remote'[n] = None)
           /\ remote[n] # None => remote'[n].body = remote[n].body
<1>1. PICK f \in Names, told \in BOOLEAN :
          remote[f] # None /\ Changes(f, [remote[f] EXCEPT !.rev = clock + 1], told)
  BY MirrorAssumption DEF Drift
<1> DEFINE moved == [remote[f] EXCEPT !.rev = clock + 1]
<1>2. remote[f] \in Sight /\ clock \in Nat
  BY <1>1 DEF Types, SightsOf
<1>3. moved \in Sight /\ moved.body = remote[f].body /\ moved # None
  BY <1>2, SightIsNotNone DEF Sight
<1>4. remote' = [remote EXCEPT ![f] = moved]
  BY <1>1 DEF Changes
<1> HIDE DEF moved
<1>5. remote'[n] = IF n = f THEN moved ELSE remote[n]
  BY <1>4 DEF Types, SightsOf
<1> QED BY <1>1, <1>3, <1>5

\* A step in which no machine has a part.
LEMMA NobodyAnswers ==
    ASSUME Types, Types', LeftIsThere, CloudGoesOn, HistoryInv, NothingByHand,
           Drift \/ UNCHANGED vars
    PROVE  AllWritten' /\ \A m \in Machines : Answered(m)'
<1>1. AllWritten /\ \A m \in Machines : Answered(m)
  BY DEF HistoryInv
<1>2. UNCHANGED <<written, givenup, history>> /\ \A m \in Machines : Aside(m)
  BY DEF Drift, vars, person, data, mirror, Aside
<1>3. Onward
  <2>1. CASE Drift
    BY <2>1, DriftGoes
  <2>2. CASE UNCHANGED vars
    BY <2>2, CloudStays DEF vars, person
  <2> QED BY <2>1, <2>2
<1>4. HistoryGoesOn
  <2>1. written \in Nat
    BY MirrorAssumption DEF Types
  <2> QED BY <1>2, <2>1 DEF HistoryGoesOn
<1>5. AllWritten'
  <2>1. \A n \in Names : /\ (remote[n] = None) <=> (remote'[n] = None)
                         /\ remote[n] # None => remote'[n].body = remote[n].body
    <3>1. CASE Drift
      BY <3>1, DriftMoves
    <3>2. CASE UNCHANGED vars
      BY <3>2 DEF vars, cloud
    <3> QED BY <3>1, <3>2
  <2> QED BY <1>1, <1>2, <2>1 DEF AllWritten, Names
<1>6. ASSUME NEW m \in Machines PROVE Answered(m)'
  <2>1. Written(m)'
    BY <1>1, <1>2, <1>4, WrittenStays DEF Answered, Written, Aside
  <2>2. CopyAnswered(m)' /\ GoesUpAnswered(m)'
    <3>1. givenup' = {} /\ Aside(m) /\ history[m] \subseteq history'[m]
      BY <1>2, <1>5 DEF AllWritten
    <3> QED BY <1>1, <1>3, <1>4, <3>1, AnswersStay DEF Answered, Aside
  <2> QED BY <2>1, <2>2 DEF Answered
<1> QED BY <1>5, <1>6

LEMMA HistoryStays ==
    ASSUME AsShown, "look" \notin Mishaps, IInv, IInv', HistoryInv, [Next]_vars
    PROVE  HistoryInv'
<1> SUFFICES ASSUME NothingByHand'
             PROVE  AllWritten' /\ \A m \in Machines : Answered(m)'
  BY DEF HistoryInv
<1>1. TypeOK /\ Types /\ Types' /\ LeftIsThere
  <2>1. (TypeOK => Types)'
    BY TypesOfTypeOK, PTL
  <2> QED BY <2>1, TypesOfTypeOK DEF IInv, TypesInv
<1>2. settles = 0 /\ settles' = 0 /\ "deleted_whole" \notin mishaps
  <2>1. settles \in Nat
    BY <1>1, MirrorAssumption DEF TypeOK
  <2> QED BY <2>1, SettlesStay, MishapsStay DEF NothingByHand
<1>3. NothingByHand /\ AllWritten /\ CloudGoesOn /\ \A m \in Machines : Answered(m) /\ Holds(m)
  BY <1>2 DEF NothingByHand, HistoryInv, IInv, Kept
<1>4. CASE Drift \/ UNCHANGED vars
  BY <1>1, <1>3, <1>4, NobodyAnswers
<1>5. CASE DeleteAll
  BY <1>5, DeletedIsCounted DEF NothingByHand
<1>6. ASSUME NEW m \in Machines, Does(m)
      PROVE  AllWritten' /\ \A x \in Machines : Answered(x)'
  <2>1. Goes(m)
    BY <1>1, <1>3, <1>6, EachGoes
  <2>2. GoesAnswered(m)
    <3>1. Going(m)
      BY <1>1, <1>3, <2>1 DEF Going
    <3> QED BY <1>2, <1>6, <3>1, EachAnswers
  <2>3. ASSUME NEW x \in Machines \ {m} PROVE Answered(x)'
    <3>1. /\ Aside(x) /\ history'[x] = history[x] /\ givenup' = {} /\ Onward /\ HistoryGoesOn
          /\ Written(x) /\ CopyAnswered(x) /\ GoesUpAnswered(x)
      BY <1>3, <2>1, <2>2 DEF Goes, GoesAnswered, AllWritten, Answered
    <3>2. Written(x)'
      <4>1. x # Owner \/ history'[Owner] = history[Owner]
        BY <3>1
      <4> QED BY <3>1, <4>1, WrittenStays DEF Aside, Written
    <3>3. CopyAnswered(x)' /\ GoesUpAnswered(x)'
      BY <1>1, <1>3, <3>1, AnswersStay DEF Aside
    <3> QED BY <3>2, <3>3 DEF Answered
  <2> QED BY <2>2, <2>3 DEF GoesAnswered
<1> QED BY <1>4, <1>5, <1>6 DEF Next, Does

\* The document of a machine lands over the history that answers for it.
LEMMA PutUpAnswered ==
    ASSUME Types, LeftIsThere, NEW m \in Machines, Holds(m), AllWritten, Answered(m),
           PutUp(m, "doc"), ~round[m].refused
    PROVE  tree[m]["doc"] \cap history[Owner] \subseteq remote["store"].body
<1>1. round[m].step = "pushing" /\ "doc" \in round[m].left /\ "store" \notin round[m].left
  BY DEF PutUp, NextLeft
<1>2. Known(m, "store") # None /\ Known(m, "store").body = tree[m]["store"]
  BY <1>1 DEF Answered, GoesUpAnswered
<1>3. tree[m]["store"] \subseteq remote["store"].body
  <2>1. Old("store", Known(m, "store"))
    BY <1>2 DEF Holds, SeesWhatWas, HasSeen, Known, Names
  <2> QED BY <1>2, <2>1 DEF Old, AllWritten
<1>4. CASE tree[m]["doc"] \cap history[Owner] \subseteq tree[m]["store"]
  BY <1>3, <1>4
<1>5. ~(FromTheCloud(m) /\ (Known(m, "doc") = None \/ Known(m, "doc").body # tree[m]["doc"]))
  <2> SUFFICES ASSUME FromTheCloud(m), Known(m, "doc") = None \/ Known(m, "doc").body # tree[m]["doc"]
               PROVE  FALSE
    OBVIOUS
  <2>1. PICK s \in Sight : /\ s.body = tree[m]["doc"]
                           /\ remote["doc"] # None /\ s.rev <= remote["doc"].rev
                           /\ \A k \in KnownDocs(m) : k.body = s.body \/ k.rev < s.rev
    BY DEF FromTheCloud
  <2>2. Known(m, "doc") # None /\ Known(m, "doc").rev = remote["doc"].rev
    BY <2>1 DEF PutUp, Expected
  <2>3. Known(m, "doc").rev < s.rev
    BY <2>1, <2>2 DEF Known, KnownDocs
  <2>4. s.rev \in Nat /\ remote["doc"].rev \in Nat
    <3>1. remote["doc"] \in Sight
      BY <2>1 DEF Types, SightsOf, Names
    <3> QED BY <3>1 DEF Sight
  <2> QED BY <2>1, <2>2, <2>3, <2>4
<1> QED BY <1>1, <1>4, <1>5 DEF Answered, GoesUpAnswered

\* What a step that writes the document leaves in the cloud.
LEMMA DocumentAnswered ==
    ASSUME IInv, HistoryInv, [Next]_vars, NothingByHand, \A m \in Machines : ~round[m].refused,
           remote'["doc"] # None,
           remote["doc"] = None \/ remote["doc"].body # remote'["doc"].body
    PROVE  remote'["doc"].body \cap history[Owner] \subseteq remote["store"].body
<1>1. Types /\ LeftIsThere /\ AllWritten /\ \A m \in Machines : Holds(m) /\ Answered(m)
  BY TypesOfTypeOK DEF IInv, TypesInv, Kept, HistoryInv, NothingByHand
<1>2. remote' # remote
  OBVIOUS
<1>3. ~Drift /\ ~DeleteAll /\ ~UNCHANGED vars
  <2>1. ~Drift
    BY <1>1, DriftMoves DEF Names
  <2>2. ~DeleteAll
    BY DEF DeleteAll, Nowhere, Names
  <2>3. ~UNCHANGED vars
    BY <1>2 DEF vars, cloud
  <2> QED BY <2>1, <2>2, <2>3
<1>4. ASSUME NEW m \in Machines, Does(m)
      PROVE  \E n \in Names : PutUp(m, n)
  <2>1. CASE Put(m) \/ PutUnanswered(m)
    BY <2>1 DEF Put, PutUnanswered
  <2>2. CASE CarryOn(m) /\ ~Put(m)
    BY <1>2, <2>2 DEF CarryOn, Begin, Learn, Fetch, Refuse, Look, Carry, KeepMine, KeepTheirs,
                      Chosen, Leaves, PutRefused, EndPush, cloud
  <2>3. CASE CutShort(m) /\ ~PutUnanswered(m)
    BY <1>2, <2>3 DEF CutShort, FetchBroken, FetchCut, PutCut, Crash, cloud
  <2>4. CASE ~CarryOn(m) /\ ~CutShort(m)
    BY <1>2, <1>4, <2>4 DEF Does, Edit, Again, BeginLook, BeginBehind, Settle, cloud
  <2> QED BY <2>1, <2>2, <2>3, <2>4 DEF CarryOn, CutShort
<1>5. PICK m \in Machines, n \in Names : PutUp(m, n)
  BY <1>3, <1>4 DEF Next, Does
<1>6. n = "doc"
  BY <1>1, <1>5, PutUpPuts DEF Names
<1>7. remote'["doc"].body = tree[m]["doc"]
  BY <1>1, <1>5, <1>6, PutUpPuts
<1> QED BY <1>1, <1>5, <1>6, <1>7, PutUpAnswered

\* Whoever reads the document in the cloud finds the history that answers for it there as well,
\* for any number of machines and edits, whatever is cut short, broken, unanswered, moved or told
\* of late: the order of push in cloud/mirror.rs, which sends the history first, is enough as long
\* as nothing is settled by hand, nobody deletes the store and every round carries.  A round that
\* only looks (looked_again) may send a document whose history the pull has just overwritten.
THEOREM HistoryFirst ==
    ASSUME AsShown, "look" \notin Mishaps
    PROVE  Spec => HistoryGoesFirst
<1>1. Init => HistoryInv
  <2> SUFFICES ASSUME Init PROVE AllWritten /\ \A m \in Machines : Answered(m)
    BY DEF HistoryInv
  <2>1. /\ \A n \in Names : FirstSeen[n] # None => FirstSeen[n].body = {}
        /\ \A n \in Names : FirstTree[n] # None => FirstTree[n] = {}
    BY DEF FirstSeen, FirstTree
  <2>2. AllWritten
    BY <2>1, MirrorAssumption DEF Init, AllWritten, Names
  <2>3. ASSUME NEW m \in Machines PROVE Answered(m)
    <3>1. /\ history[m] = {} /\ history[Owner] = {} /\ tree[m] = FirstTree /\ round[m] = Idle
          /\ body[m] # None => body[m] = {}
      BY MirrorAssumption DEF Init
    <3>2. Idle.work = "carry" /\ Idle.step = "idle"
      BY DEF Idle
    <3> QED BY <2>1, <3>1, <3>2 DEF Answered, Written, CopyAnswered, GoesUpAnswered, Names
  <2> QED BY <2>2, <2>3
<1>2. IInv /\ IInv' /\ HistoryInv /\ [Next]_vars => HistoryInv'
  BY HistoryStays
<1>3. IInv /\ HistoryInv /\ [Next]_vars =>
        [/\ remote'["doc"] # None
         /\ remote["doc"] = None \/ remote["doc"].body # remote'["doc"].body
         /\ settles = 0 /\ ~\E m \in Machines : round[m].refused
         /\ "deleted_whole" \notin mishaps
         => remote'["doc"].body \cap history[Owner] \subseteq remote["store"].body]_vars
  BY DocumentAnswered DEF NothingByHand
<1> QED BY <1>1, <1>2, <1>3, KeptAlways, PTL DEF Spec, HistoryGoesFirst

-----------------------------------------------------------------------------
(* Asked over two                                                          *)

\* What the promise leaves out.
Unhidden ==
    givenup = {} /\ mishaps \cap {"broken", "crash", "lost_answer", "deleted_whole"} = {}

Stands(e, file) == file # None /\ e \in file

\* The document in the cloud.
Up == IF remote["doc"] = None THEN None ELSE remote["doc"].body

\* An edit that has not left the machine it was made on.
OfOne(m, e) ==
    /\ ~Stands(e, Up)
    /\ \A x \in Machines \ {m} : ~Stands(e, body[x]) /\ ~Stands(e, tree[x]["doc"])

\* Whatever stands anywhere was written.
Numbered(m) ==
    \A e : Stands(e, body[m]) \/ Stands(e, tree[m]["doc"]) \/ Stands(e, Up) => e \in 1..written

\* Nobody has the document before its owner sent it, and who has it in the copy when it is there
\* knows it by a revision.
Begun(m) ==
    /\ remote["doc"] = None /\ m # Owner => body[m] = None /\ tree[m]["doc"] = None
    /\ body[m] # None /\ tree[m]["doc"] = None => remote["doc"] = None
    /\ tree[m]["doc"] # None /\ Known(m, "doc") = None => remote["doc"] = None

\* The document as a machine has still to learn it.
ToLearn(m) == {index[m].owed["doc"], round[m].due["doc"]} \ {None}

\* What is to be learned is later than what is known, and holds it.
LearnsOn(m) ==
    /\ round[m].step # "pulling" => round[m].due["doc"] = None
    /\ round[m].step # "idle" /\ index[m].owed["doc"] # None =>
          /\ round[m].due["doc"] = None
          /\ Known(m, "doc") # None => Known(m, "doc").rev < index[m].owed["doc"].rev
    /\ Known(m, "doc") # None => \A d \in ToLearn(m) :
          /\ Known(m, "doc").rev <= d.rev /\ Known(m, "doc").body \subseteq d.body
          /\ Known(m, "doc").rev = d.rev => d = Known(m, "doc")

\* The print last carried is forgotten only for a document still to come, which a round that
\* carries fetches first.
StillOwed(m) ==
    /\ Known(m, "doc") # None /\ \E d \in ToLearn(m) : d.body # Known(m, "doc").body
    /\ round[m].step = "pulling" /\ round[m].work # "look" => round[m].due["doc"] # None

\* What stands in the copy and has not gone up is the machine's own, and in its document.
UnsentIsOurs(m) ==
    Pending(m, "doc") =>
        /\ body[m] # None /\ tree[m]["doc"] \subseteq body[m]
        /\ carried[m] \in {None, tree[m]["doc"]}
        /\ Known(m, "doc") # None => \A e \in body[m] \ Known(m, "doc").body : OfOne(m, e)
        /\ carried[m] = None => StillOwed(m)

\* What the document has over the print last carried is the machine's own; where that is
\* forgotten, document and copy each have what the other has not.
DiffersByItsOwn(m) ==
    body[m] # None =>
        /\ carried[m] # None =>
              \A e \in body[m] \ carried[m] : OfOne(m, e) /\ ~Stands(e, tree[m]["doc"])
        /\ carried[m] = None /\ tree[m]["doc"] # None /\ ~Pending(m, "doc") =>
              ~(tree[m]["doc"] \subseteq body[m]) /\ \E e \in body[m] \ tree[m]["doc"] : OfOne(m, e)

Apart(m) == Numbered(m) /\ Begun(m) /\ LearnsOn(m) /\ UnsentIsOurs(m) /\ DiffersByItsOwn(m)

AskInv == Unhidden => \A m \in Machines : Apart(m)

\* What a step of a machine brings into its document, its copy and the cloud was in one of them
\* or is written now, and the document is begun by its owner.
Flows(m) ==
    /\ written \in Nat /\ written' \in Nat /\ written <= written'
    /\ \A e \in 1..written :
          Stands(e, body'[m]) \/ Stands(e, tree'[m]["doc"]) \/ Stands(e, Up')
            => Stands(e, body[m]) \/ Stands(e, tree[m]["doc"]) \/ Stands(e, Up)
    /\ remote["doc"] = None /\ remote'["doc"] # None => m = Owner
    /\ remote["doc"] # None => remote'["doc"] # None

\* What every step of a machine starts from here.
Setting(m) ==
    /\ Types /\ Types' /\ LeftIsThere /\ CloudGoesOn /\ Goes(m) /\ givenup = {} /\ givenup' = {}
    /\ \A x \in Machines : Holds(x) /\ Apart(x)

\* What a machine has of the document, all that was ever seen of it being in the cloud.
LEMMA DocumentIs ==
    ASSUME NEW m \in Machines, Setting(m)
    PROVE  /\ written \in Nat /\ body[m] \in {None} \cup Bodies /\ tree[m]["doc"] \in {None} \cup Bodies
           /\ carried[m] \in {None} \cup Bodies /\ remote["doc"] \in {None} \cup Sight
           /\ index[m] \in Index /\ round[m] \in Round
           /\ \A s \in HasSeen(m, "doc") :
                 /\ s \in Sight /\ s.rev \in Nat /\ s # None
                 /\ remote["doc"] \in Sight /\ remote["doc"] # None /\ remote["doc"].rev \in Nat
                 /\ s.rev <= remote["doc"].rev /\ s.body \subseteq remote["doc"].body
                 /\ s.rev = remote["doc"].rev => s = remote["doc"]
           /\ Known(m, "doc") # None => /\ Known(m, "doc") \in HasSeen(m, "doc")
                                        /\ tree[m]["doc"] # None
                                        /\ Known(m, "doc").body \subseteq tree[m]["doc"]
           /\ ToLearn(m) \subseteq HasSeen(m, "doc")
           /\ carried[m] # None => /\ body[m] # None /\ tree[m]["doc"] # None
                                   /\ carried[m] \subseteq body[m] /\ carried[m] \subseteq tree[m]["doc"]
<1>1. Types /\ Holds(m) /\ givenup = {} /\ "doc" \in Names
  BY DEF Setting, Names
<1>2. /\ written \in Nat /\ body[m] \in {None} \cup Bodies /\ tree[m]["doc"] \in {None} \cup Bodies
      /\ carried[m] \in {None} \cup Bodies /\ remote["doc"] \in {None} \cup Sight
      /\ index[m] \in Index /\ round[m] \in Round
  BY <1>1, MirrorAssumption DEF Types, Files, SightsOf
<1>3. ASSUME NEW s \in HasSeen(m, "doc")
      PROVE  /\ s \in Sight /\ s.rev \in Nat /\ s # None
             /\ remote["doc"] \in Sight /\ remote["doc"] # None /\ remote["doc"].rev \in Nat
             /\ s.rev <= remote["doc"].rev /\ s.body \subseteq remote["doc"].body
             /\ s.rev = remote["doc"].rev => s = remote["doc"]
  <2>1. s \in Sight /\ Old("doc", s) /\ s # None
    BY <1>1, SeenTyped DEF Holds, SeesWhatWas, HasSeen
  <2>2. remote["doc"] \in Sight
    BY <1>2, <2>1 DEF Old
  <2>3. s.rev \in Nat /\ remote["doc"].rev \in Nat
    BY <2>1, <2>2 DEF Sight
  <2> QED BY <1>1, <2>1, <2>2, <2>3 DEF Old
<1>4. Known(m, "doc") # None => /\ Known(m, "doc") \in HasSeen(m, "doc")
                                /\ tree[m]["doc"] # None
                                /\ Known(m, "doc").body \subseteq tree[m]["doc"]
  BY <1>1 DEF Known, HasSeen, Holds, CopyHoldsTheKnown
<1>5. ToLearn(m) \subseteq HasSeen(m, "doc")
  BY DEF ToLearn, HasSeen
<1>6. carried[m] # None => /\ body[m] # None /\ tree[m]["doc"] # None
                           /\ carried[m] \subseteq body[m] /\ carried[m] \subseteq tree[m]["doc"]
  BY <1>1 DEF Holds, CopyHoldsTheKnown
<1> QED BY <1>2, <1>3, <1>4, <1>5, <1>6

\* What is one machine's own stays so through the steps of others.
LEMMA OthersApart ==
    ASSUME NEW m \in Machines, Setting(m), Flows(m), Numbered(m)', NEW x \in Machines \ {m}
    PROVE  Apart(x)'
<1>1. Aside(x) /\ Apart(x) /\ Apart(m)
  BY DEF Setting, Goes
<1>2. ASSUME NEW e, OfOne(x, e), Stands(e, body[x])
      PROVE  OfOne(x, e)'
  <2>1. e \in 1..written
    BY <1>1, <1>2 DEF Apart, Numbered
  <2>2. ~Stands(e, Up) /\ ~Stands(e, body[m]) /\ ~Stands(e, tree[m]["doc"])
    BY <1>2 DEF OfOne
  <2>3. ~Stands(e, Up') /\ ~Stands(e, body'[m]) /\ ~Stands(e, tree'[m]["doc"])
    BY <2>1, <2>2 DEF Flows
  <2>4. ASSUME NEW y \in Machines \ {x} PROVE ~Stands(e, body'[y]) /\ ~Stands(e, tree'[y]["doc"])
    <3>1. CASE y = m
      BY <2>3, <3>1
    <3>2. CASE y # m
      <4>1. Aside(y)
        BY <3>2 DEF Setting, Goes
      <4> QED BY <1>2, <4>1 DEF OfOne, Aside
    <3> QED BY <3>1, <3>2
  <2> QED BY <2>3, <2>4 DEF OfOne, Stands
<1>3. /\ body'[x] = body[x] /\ tree'[x] = tree[x] /\ carried'[x] = carried[x]
      /\ index'[x] = index[x] /\ round'[x] = round[x]
  BY <1>1 DEF Aside
<1>4. Numbered(x)'
  <2>1. 1..written \subseteq 1..written'
    BY DEF Flows
  <2> QED BY <1>1, <1>3, <2>1 DEF Apart, Numbered, Stands
<1>5. Begun(x)'
  <2>1. Known(x, "doc")' = Known(x, "doc")
    BY <1>3 DEF Known
  <2>2. CASE remote["doc"] # None
    BY <1>1, <1>3, <2>1, <2>2 DEF Apart, Begun, Flows
  <2>3. CASE remote["doc"] = None /\ x # Owner
    BY <1>1, <1>3, <2>1, <2>3 DEF Apart, Begun, Flows
  <2>4. CASE remote["doc"] = None /\ x = Owner
    <3>1. remote'["doc"] = None
      BY <2>4 DEF Flows
    <3> QED BY <2>4, <3>1 DEF Begun
  <2> QED BY <2>2, <2>3, <2>4
<1>6. LearnsOn(x)' /\ ToLearn(x)' = ToLearn(x) /\ Known(x, "doc")' = Known(x, "doc")
  BY <1>1, <1>3 DEF Apart, LearnsOn, ToLearn, Known
<1>7. (Pending(x, "doc")' <=> Pending(x, "doc")) /\ (StillOwed(x)' <=> StillOwed(x))
  BY <1>3, <1>6 DEF Pending, StillOwed
<1>8. UnsentIsOurs(x)'
  BY <1>1, <1>2, <1>3, <1>6, <1>7 DEF Apart, UnsentIsOurs, Stands
<1>9. DiffersByItsOwn(x)'
  BY <1>1, <1>2, <1>3, <1>7 DEF Apart, DiffersByItsOwn, Stands
<1> QED BY <1>4, <1>5, <1>6, <1>8, <1>9 DEF Apart

\* Where document, copy and cloud stay as they are, so does what is one machine's own.
LEMMA SameIsOfOne ==
    ASSUME NEW m \in Machines, Goes(m), Up' = Up, NEW e, OfOne(m, e)
    PROVE  OfOne(m, e)'
<1>1. \A x \in Machines \ {m} : body'[x] = body[x] /\ tree'[x] = tree[x]
  BY DEF Goes, Aside
<1> QED BY <1>1 DEF OfOne, Stands

\* What all steps of a machine have to show.
GoesApart(m) == Flows(m) /\ Apart(m)'

\* A step that leaves document, copy and cloud as they are.
LEMMA QuietApart ==
    ASSUME NEW m \in Machines, Setting(m), written' = written, body'[m] = body[m],
           tree'[m]["doc"] = tree[m]["doc"], remote'["doc"] = remote["doc"],
           carried'[m] = carried[m] \/ (carried'[m] = None /\ Pending(m, "doc")),
           \/ Known(m, "doc")' = Known(m, "doc")
           \/ /\ Known(m, "doc") # None /\ Known(m, "doc")' # None
              /\ Known(m, "doc")'.body = Known(m, "doc").body,
           LearnsOn(m)', Pending(m, "doc") /\ carried'[m] = None => StillOwed(m)'
    PROVE  GoesApart(m)
<1>1. Apart(m) /\ Up' = Up /\ written \in Nat /\ Goes(m)
  BY DocumentIs DEF Setting, Up
<1>2. \A e : OfOne(m, e) => OfOne(m, e)'
  BY <1>1, SameIsOfOne
<1>3. Pending(m, "doc")' <=> Pending(m, "doc")
  BY DEF Pending
<1>4. Flows(m)
  BY <1>1 DEF Flows, Stands
<1>5. Numbered(m)'
  BY <1>1 DEF Apart, Numbered, Stands
<1>6. Begun(m)'
  BY <1>1 DEF Apart, Begun
<1>7. UnsentIsOurs(m)'
  <2> SUFFICES ASSUME Pending(m, "doc")
               PROVE  /\ body'[m] # None /\ tree'[m]["doc"] \subseteq body'[m]
                      /\ carried'[m] \in {None, tree'[m]["doc"]}
                      /\ Known(m, "doc")' # None =>
                            \A e \in body'[m] \ Known(m, "doc")'.body : OfOne(m, e)'
                      /\ carried'[m] = None => StillOwed(m)'
    BY <1>3 DEF UnsentIsOurs
  <2>1. UnsentIsOurs(m)
    BY <1>1 DEF Apart
  <2> QED BY <1>2, <2>1 DEF UnsentIsOurs
<1>8. DiffersByItsOwn(m)'
  <2>1. DiffersByItsOwn(m)
    BY <1>1 DEF Apart
  <2> QED BY <1>2, <1>3, <2>1 DEF DiffersByItsOwn, Stands
<1> QED BY <1>4, <1>5, <1>6, <1>7, <1>8 DEF GoesApart, Apart

LEMMA EditApart ==
    ASSUME NEW m \in Machines, Setting(m), Edit(m)
    PROVE  GoesApart(m)
<1>1. /\ written \in Nat /\ written' = written + 1 /\ body[m] # None /\ body'[m] # None
      /\ body'[m] = body[m] \cup {written + 1}
      /\ UNCHANGED <<carried, tree, index, round, remote>>
  <2>1. written \in Nat /\ body[m] \in Bodies
    BY DocumentIs DEF Edit
  <2>2. body'[m] = body[m] \cup {written + 1} /\ body' \in [Machines -> {None} \cup Bodies]
    BY DEF Edit, Setting, Types
  <2>3. body'[m] # None
    <3>1. written + 1 \in Edits
      BY <2>1, MirrorAssumption DEF Edit, Edits, Setting, Types
    <3>2. body[m] \cup {written + 1} \in Bodies
      BY <2>1, <3>1 DEF Bodies
    <3> QED BY <2>2, <3>2, BodyIsNotNone
  <2> QED BY <2>1, <2>2, <2>3 DEF Edit, mirror, cloud
<1>0. PICK e0 : e0 = written + 1
  OBVIOUS
<1>2. \A x \in Machines : ~Stands(e0, body[x]) /\ ~Stands(e0, tree[x]["doc"]) /\ ~Stands(e0, Up)
  <2>1. e0 \notin 1..written
    BY <1>0, <1>1
  <2> QED BY <2>1 DEF Setting, Apart, Numbered
<1>3. Up' = Up /\ Goes(m) /\ Apart(m)
  BY <1>1 DEF Up, Setting
<1>4. \A e : OfOne(m, e) => OfOne(m, e)'
  BY <1>3, SameIsOfOne
<1>5. OfOne(m, e0) /\ OfOne(m, e0)'
  <2>1. OfOne(m, e0)
    BY <1>2 DEF OfOne
  <2> QED BY <1>4, <2>1
<1>6. Flows(m)
  <2>1. /\ \A e \in 1..written : e # e0
        /\ body'[m] = body[m] \cup {e0}
    BY <1>0, <1>1
  <2>2. written' \in Nat /\ written <= written'
    BY <1>1
  <2> QED BY <1>1, <1>3, <2>1, <2>2 DEF Flows, Stands
<1>7. Numbered(m)'
  <2>1. 1..written' = 1..written \cup {e0} /\ body'[m] = body[m] \cup {e0}
    BY <1>0, <1>1
  <2> QED BY <1>1, <1>3, <2>1 DEF Apart, Numbered, Stands
<1>8. Known(m, "doc")' = Known(m, "doc") /\ ToLearn(m)' = ToLearn(m)
  BY <1>1 DEF Known, ToLearn
<1>9. Begun(m)' /\ LearnsOn(m)'
  BY <1>1, <1>3, <1>8 DEF Apart, Begun, LearnsOn
<1>10. (Pending(m, "doc")' <=> Pending(m, "doc")) /\ (StillOwed(m)' <=> StillOwed(m))
  BY <1>1, <1>8 DEF Pending, StillOwed
<1>11. body'[m] = body[m] \cup {e0}
  BY <1>0, <1>1
<1>12. UnsentIsOurs(m)'
  <2>1. UnsentIsOurs(m)
    BY <1>3 DEF Apart
  <2> QED BY <1>1, <1>4, <1>5, <1>8, <1>10, <1>11, <2>1 DEF UnsentIsOurs
<1>13. DiffersByItsOwn(m)'
  <2>1. DiffersByItsOwn(m)
    BY <1>3 DEF Apart
  <2>2. ~Stands(e0, tree[m]["doc"])
    BY <1>2
  <2>3. carried[m] # None => \A e \in body'[m] \ carried[m] : OfOne(m, e)' /\ ~Stands(e, tree'[m]["doc"])
    BY <1>1, <1>4, <1>5, <1>11, <2>1, <2>2 DEF DiffersByItsOwn
  <2>4. ASSUME carried[m] = None, tree[m]["doc"] # None, ~Pending(m, "doc")
        PROVE  ~(tree'[m]["doc"] \subseteq body'[m]) /\ \E e \in body'[m] \ tree'[m]["doc"] : OfOne(m, e)'
    <3>1. ~(tree[m]["doc"] \subseteq body[m]) /\ \E e \in body[m] \ tree[m]["doc"] : OfOne(m, e)
      BY <1>1, <2>1, <2>4 DEF DiffersByItsOwn
    <3>2. e0 \notin tree[m]["doc"]
      BY <2>2, <2>4 DEF Stands
    <3> QED BY <1>1, <1>4, <1>11, <3>1, <3>2
  <2> QED BY <1>1, <1>10, <2>3, <2>4 DEF DiffersByItsOwn
<1> QED BY <1>6, <1>7, <1>9, <1>12, <1>13 DEF GoesApart, Apart

LEMMA BeginApart ==
    ASSUME NEW m \in Machines, Setting(m),
           \/ Begin(m) \/ BeginBehind(m) \/ BeginLook(m)
           \/ Settle(m, "keep_mine") \/ Settle(m, "keep_theirs")
    PROVE  GoesApart(m)
<1>1. (\E work, upto : Pull(m, work, FALSE, upto)) /\ round[m].step = "idle"
  <2>1. CASE BeginBehind(m)
    BY <2>1 DEF BeginBehind
  <2>2. CASE Begin(m) \/ BeginLook(m)
    BY <2>2, Zenon DEF Begin, BeginLook
  <2>3. ASSUME NEW work, Settle(m, work) PROVE Pull(m, work, FALSE, clock) /\ round[m].step = "idle"
    BY <2>3, Zenon DEF Settle
  <2> QED BY <2>1, <2>2, <2>3
<1>2. PICK work, upto : Pull(m, work, FALSE, upto)
  BY <1>1
<1>3. UNCHANGED <<written, body, carried>> /\ UNCHANGED cloud
  BY DEF Begin, BeginBehind, BeginLook, Settle, person, data
<1> DEFINE due   == DueAfter(index[m], Told(index[m].at, upto))
           going == [Idle EXCEPT !.step = "pulling", !.work = work, !.at = upto, !.due = due]
<1>4. /\ UNCHANGED <<saved, tree, emptied>>
      /\ index' = [index EXCEPT ![m] = [index[m] EXCEPT !.owed = Nowhere]]
      /\ round' = [round EXCEPT ![m] = going]
      /\ \A n \in Names : due[n] \in {remote[n], index[m].owed[n]}
  <2>1. Types /\ CloudGoesOn /\ SeesWhatWas(m)
    BY DEF Setting, Holds
  <2>2. Pull(m, work, FALSE, upto)
    BY <1>2
  <2> QED BY <2>1, <2>2, PullIs
<1>5. going.step = "pulling" /\ going.due = due
  BY DEF Idle
<1> HIDE DEF going
<1>6. /\ index'[m].known = index[m].known /\ index'[m].owed = Nowhere /\ round'[m] = going
      /\ Nowhere["doc"] = None
  BY <1>4 DEF Setting, Types, Index, Nowhere, Names
<1>7. due["doc"] \in {remote["doc"], index[m].owed["doc"]}
  BY <1>4 DEF Names
<1> HIDE DEF due
<1>8. Known(m, "doc")' = Known(m, "doc") /\ ToLearn(m)' \subseteq {remote["doc"], index[m].owed["doc"]} \ {None}
  BY <1>5, <1>6, <1>7 DEF Known, ToLearn
<1>9. LearnsOn(m) /\ UnsentIsOurs(m)
  BY DEF Setting, Apart
<1>10. LearnsOn(m)'
  <2>1. ASSUME Known(m, "doc") # None, NEW d \in ToLearn(m)'
        PROVE  /\ Known(m, "doc").rev <= d.rev /\ Known(m, "doc").body \subseteq d.body
               /\ Known(m, "doc").rev = d.rev => d = Known(m, "doc")
    <3>1. CASE d = remote["doc"]
      BY <2>1, <3>1, DocumentIs
    <3>2. CASE d = index[m].owed["doc"]
      <4>1. d \in ToLearn(m)
        BY <1>8, <2>1, <3>2 DEF ToLearn
      <4> QED BY <1>9, <2>1, <4>1 DEF LearnsOn
    <3> QED BY <1>8, <2>1, <3>1, <3>2
  <2> QED BY <1>5, <1>6, <1>8, <2>1 DEF LearnsOn
<1>11. ASSUME Pending(m, "doc"), carried'[m] = None
       PROVE  StillOwed(m)'
  <2>1. StillOwed(m)
    BY <1>3, <1>9, <1>11 DEF UnsentIsOurs
  <2>2. PICK d \in ToLearn(m) : d.body # Known(m, "doc").body
    BY <2>1 DEF StillOwed
  <2>3. d = index[m].owed["doc"] /\ d # None
    BY <1>1, <1>9 DEF LearnsOn, ToLearn
  <2>4. Known(m, "doc") # None /\ Known(m, "doc").body \subseteq d.body
    BY <1>9, <2>1 DEF StillOwed, LearnsOn
  <2>5. remote["doc"] # None /\ d.body \subseteq remote["doc"].body
    BY DocumentIs
  <2>6. due["doc"] # None /\ due["doc"].body # Known(m, "doc").body
    BY <1>7, <2>2, <2>3, <2>4, <2>5
  <2> QED BY <1>5, <1>6, <1>8, <2>4, <2>6 DEF StillOwed, ToLearn
<1> QED BY <1>3, <1>4, <1>8, <1>10, <1>11, QuietApart DEF cloud

\* What a round that reads, or sends, has still to learn, and what it knows the document as.
LEMMA StillToLearn ==
    ASSUME NEW m \in Machines, Setting(m), round[m].step # "idle", round[m].due["doc"] # None
    PROVE  index[m].owed["doc"] = None /\ ToLearn(m) = {round[m].due["doc"]}
<1>1. LearnsOn(m)
  BY DEF Setting, Apart
<1> QED BY <1>1 DEF LearnsOn, ToLearn

\* What of a document of ours has not gone up is not in what comes.
LEMMA UnsentIsNotUp ==
    ASSUME NEW m \in Machines, Setting(m), Pending(m, "doc"), Known(m, "doc") # None,
           NEW d \in HasSeen(m, "doc"), NEW e \in d.body, e \notin Known(m, "doc").body
    PROVE  e \notin body[m] /\ e \notin tree[m]["doc"]
<1>1. e \in remote["doc"].body /\ remote["doc"] # None
  BY DocumentIs
<1>2. remote["doc"].body # None
  BY DocumentIs, BodyIsNotNone DEF Sight
<1>3. UnsentIsOurs(m)
  BY DEF Setting, Apart
<1> QED BY <1>1, <1>2, <1>3 DEF UnsentIsOurs, OfOne, Stands, Up

LEMMA LearnApart ==
    ASSUME NEW m \in Machines, Setting(m), Learn(m)
    PROVE  GoesApart(m)
<1>1. /\ UNCHANGED <<written, body, carried, tree, saved>> /\ remote' = remote
  BY DEF Learn, person, data, cloud
<1>2. PICK n \in Names :
        /\ NextDue(m, n) /\ round' = Learned(m, n)
        /\ \/ Unmoved(m, n) /\ UNCHANGED index
           \/ /\ Resembles(m, n) \/ (Pending(m, n) /\ OursStill(m, n))
              /\ Noted(m, n, Seen(m, n))
           \/ /\ ~Unmoved(m, n) /\ Pending(m, n) /\ round[m].work = "look"
              /\ index' = [index EXCEPT ![m].owed[n] = Seen(m, n)]
  BY DEF Learn
<1>3. /\ round'[m].step = "pulling" /\ round[m].step = "pulling" /\ round'[m].work = round[m].work
      /\ round'[m].due = [round[m].due EXCEPT ![n] = None] /\ round[m].due[n] # None
  BY <1>2, LearnedGoesOn DEF Setting, NextDue
<1>4. index \in [Machines -> Index] /\ index[m] \in Index /\ round[m] \in Round
  BY DEF Setting, Types
<1>5. LearnsOn(m) /\ UnsentIsOurs(m) /\ DiffersByItsOwn(m) /\ Apart(m) /\ Goes(m)
  BY DEF Setting, Apart
<1>6. CASE n # "doc"
  <2>1. round'[m].due["doc"] = round[m].due["doc"]
    BY <1>3, <1>4, <1>6 DEF Round, SightsOf
  <2>2. /\ index'[m].known["doc"] = index[m].known["doc"]
        /\ index'[m].owed["doc"] = index[m].owed["doc"]
    <3>1. CASE UNCHANGED index
      BY <3>1
    <3>2. CASE Noted(m, n, Seen(m, n))
      BY <1>4, <1>6, <3>2 DEF Noted, Index, SightsOf
    <3>3. CASE Pending(m, n)
      BY <1>6, <3>3 DEF Pending
    <3> QED BY <1>2, <3>1, <3>2, <3>3
  <2>3. Known(m, "doc")' = Known(m, "doc") /\ ToLearn(m)' = ToLearn(m)
    BY <2>1, <2>2 DEF Known, ToLearn
  <2>4. LearnsOn(m)'
    BY <1>3, <1>5, <2>1, <2>2, <2>3 DEF LearnsOn
  <2>5. StillOwed(m) => StillOwed(m)'
    BY <1>3, <2>1, <2>3 DEF StillOwed
  <2> QED BY <1>1, <1>5, <2>3, <2>4, <2>5, QuietApart DEF UnsentIsOurs
<1>7. CASE n = "doc"
  <2> DEFINE d == round[m].due["doc"]
  <2>1. /\ d # None /\ d = Seen(m, n) /\ index[m].owed["doc"] = None /\ ToLearn(m) = {d}
        /\ round'[m].due["doc"] = None /\ d \in HasSeen(m, "doc")
    <3>1. d # None /\ d = Seen(m, n)
      BY <1>3, <1>7 DEF Seen
    <3>2. index[m].owed["doc"] = None /\ ToLearn(m) = {d}
      BY <1>3, <3>1, StillToLearn
    <3>3. round'[m].due["doc"] = None
      BY <1>3, <1>4, <1>7 DEF Round, SightsOf
    <3> QED BY <3>1, <3>2, <3>3, DocumentIs
  <2> HIDE DEF d
  <2>2. Known(m, "doc") # None =>
           /\ Known(m, "doc").rev <= d.rev /\ Known(m, "doc").body \subseteq d.body
           /\ Known(m, "doc").rev = d.rev => d = Known(m, "doc")
    BY <1>5, <2>1 DEF LearnsOn
  <2>3. d \in Sight /\ (Known(m, "doc") # None => Known(m, "doc") \in Sight)
    BY <2>1, DocumentIs
  <2>4. Pending(m, "doc") /\ carried[m] = None => Known(m, "doc") # None /\ d.body # Known(m, "doc").body
    BY <1>5, <2>1 DEF UnsentIsOurs, StillOwed
  <2>5. CASE Unmoved(m, "doc") /\ UNCHANGED index
    <3>1. Known(m, "doc")' = Known(m, "doc") /\ ToLearn(m)' = {}
      BY <2>1, <2>5 DEF Known, ToLearn
    <3>2. LearnsOn(m)'
      BY <1>3, <2>1, <2>5, <3>1 DEF LearnsOn
    <3>3. ~(Pending(m, "doc") /\ carried[m] = None)
      BY <1>7, <2>1, <2>2, <2>4, <2>5 DEF Unmoved
    <3> QED BY <1>1, <3>1, <3>2, <3>3, QuietApart
  <2>6. CASE /\ Resembles(m, "doc") \/ (Pending(m, "doc") /\ OursStill(m, "doc"))
             /\ Noted(m, "doc", Seen(m, "doc"))
    <3>1. index'[m].known["doc"] = d /\ index'[m].owed = index[m].owed
      BY <1>4, <1>7, <2>1, <2>6 DEF Noted, Index, SightsOf
    <3>2. Known(m, "doc")' = d /\ ToLearn(m)' = {}
      BY <2>1, <3>1 DEF Known, ToLearn
    <3>3. LearnsOn(m)'
      BY <1>3, <2>1, <3>1, <3>2 DEF LearnsOn
    <3>4. CASE Pending(m, "doc") /\ OursStill(m, "doc")
      <4>1. Known(m, "doc") # None /\ Known(m, "doc").body = d.body
        BY <1>7, <2>1, <3>4 DEF OursStill
      <4>2. carried[m] # None
        BY <2>4, <3>4, <4>1
      <4> QED BY <1>1, <2>1, <3>2, <3>3, <4>1, <4>2, QuietApart
    <3>5. CASE Resembles(m, "doc")
      <4>1. tree[m]["doc"] = d.body /\ tree'[m]["doc"] = d.body /\ d.body # None
        <5>1. d.body # None
          BY <2>3, BodyIsNotNone DEF Sight
        <5> QED BY <1>1, <1>7, <2>1, <3>5, <5>1 DEF Resembles
      <4>2. ~Pending(m, "doc")'
        BY <2>1, <3>2, <4>1 DEF Pending
      <4>3. ~(Pending(m, "doc") /\ carried[m] = None)
        <5> SUFFICES ASSUME Pending(m, "doc"), carried[m] = None PROVE FALSE
          OBVIOUS
        <5>1. Known(m, "doc") # None /\ d.body # Known(m, "doc").body
          BY <2>4
        <5>2. PICK e \in d.body : e \notin Known(m, "doc").body
          BY <2>2, <5>1
        <5>3. e \notin tree[m]["doc"]
          BY <2>1, <5>1, <5>2, UnsentIsNotUp
        <5> QED BY <4>1, <5>2, <5>3
      <4>4. Up' = Up /\ written \in Nat
        BY <1>1, DocumentIs DEF Up
      <4>5. \A e : OfOne(m, e) => OfOne(m, e)'
        BY <1>5, <4>4, SameIsOfOne
      <4>6. Flows(m)
        BY <1>1, <4>4 DEF Flows, Stands
      <4>7. Numbered(m)' /\ Begun(m)'
        BY <1>1, <1>5, <2>1, <3>2, <4>4 DEF Apart, Numbered, Begun, Stands
      <4>8. UnsentIsOurs(m)'
        BY <4>2 DEF UnsentIsOurs
      <4>9. DiffersByItsOwn(m)'
        BY <1>1, <1>5, <4>3, <4>5 DEF DiffersByItsOwn, Stands
      <4> QED BY <3>3, <4>6, <4>7, <4>8, <4>9 DEF GoesApart, Apart
    <3> QED BY <2>6, <3>4, <3>5
  <2>7. CASE /\ ~Unmoved(m, "doc") /\ Pending(m, "doc") /\ round[m].work = "look"
             /\ index' = [index EXCEPT ![m].owed["doc"] = Seen(m, "doc")]
    <3>1. index'[m].known = index[m].known /\ index'[m].owed["doc"] = d
      BY <1>4, <1>7, <2>1, <2>7 DEF Index, SightsOf, Names
    <3>2. Known(m, "doc")' = Known(m, "doc") /\ ToLearn(m)' = ToLearn(m)
      BY <2>1, <3>1 DEF Known, ToLearn
    <3>3. Known(m, "doc") # None => Known(m, "doc").rev < d.rev
      <4>1. Known(m, "doc") # None => Known(m, "doc").rev # d.rev
        BY <1>7, <2>1, <2>7 DEF Unmoved
      <4> QED BY <2>2, <2>3, <4>1 DEF Sight
    <3>4. LearnsOn(m)'
      BY <1>3, <1>5, <2>1, <3>1, <3>2, <3>3 DEF LearnsOn
    <3>5. StillOwed(m) => StillOwed(m)'
      BY <1>3, <2>7, <3>2 DEF StillOwed
    <3> QED BY <1>1, <1>5, <3>2, <3>4, <3>5, QuietApart DEF UnsentIsOurs
  <2> QED BY <1>2, <1>7, <2>5, <2>6, <2>7
<1> QED BY <1>6, <1>7

\* Nothing is on its way down once a round has read.
LEMMA NothingDue ==
    ASSUME NEW m \in Machines, Setting(m), round[m].step = "pushing" \/ \E w : Works(m, w)
    PROVE  round[m].due["doc"] = None
<1>1. LearnsOn(m) /\ Nowhere["doc"] = None
  BY DEF Setting, Apart, Nowhere, Names
<1> QED BY <1>1 DEF LearnsOn, Works

\* A round that ends.
LEMMA EndsApart ==
    ASSUME NEW m \in Machines, Setting(m), Refuse(m) \/ PutCut(m) \/ EndPush(m)
    PROVE  GoesApart(m)
<1>1. UNCHANGED <<written, body, carried, tree>> /\ remote' = remote
  BY DEF Refuse, PutCut, EndPush, person, data, cloud
<1>2. \E known : /\ Ends(m, known) /\ known.known = index[m].known /\ known.owed = index[m].owed
  <2>1. CASE Refuse(m)
    BY <2>1, ReadIs DEF Refuse, Setting, Holds
  <2>2. CASE PutCut(m) \/ EndPush(m)
    BY <2>2 DEF PutCut, EndPush
  <2> QED BY <2>1, <2>2
<1>3. /\ index'[m].known = index[m].known /\ index'[m].owed = index[m].owed /\ round'[m] = Idle
      /\ Nowhere["doc"] = None /\ Idle.due = Nowhere /\ Idle.step = "idle"
  BY <1>2 DEF Ends, Setting, Types, Idle, Nowhere, Names
<1>4. Known(m, "doc")' = Known(m, "doc") /\ ToLearn(m)' = ToLearn(m)
  <2>1. round[m].due["doc"] = None
    BY NothingDue DEF Refuse, PutCut, EndPush
  <2> QED BY <1>3, <2>1 DEF Known, ToLearn
<1>5. LearnsOn(m) /\ UnsentIsOurs(m)
  BY DEF Setting, Apart
<1>6. LearnsOn(m)'
  BY <1>3, <1>4, <1>5 DEF LearnsOn
<1>7. StillOwed(m) => StillOwed(m)'
  BY <1>3, <1>4 DEF StillOwed
<1> QED BY <1>1, <1>4, <1>5, <1>6, <1>7, QuietApart DEF UnsentIsOurs

LEMMA FetchApart ==
    ASSUME NEW m \in Machines, Setting(m), Fetch(m)
    PROVE  GoesApart(m)
<1>1. UNCHANGED <<written, body>> /\ remote' = remote
  BY DEF Fetch, person, cloud
<1>2. PICK n \in Names :
        /\ MustFetch(m, n) /\ NextDue(m, n) /\ round' = Learned(m, n)
        /\ carried' = ForgottenBase(m, n)
        /\ IF remote[n] = None
           THEN UNCHANGED <<tree, index>>
           ELSE tree' = [tree EXCEPT ![m][n] = remote[n].body] /\ Noted(m, n, remote[n])
  BY DEF Fetch, MustFetch
<1>3. /\ round'[m].step = "pulling" /\ round[m].step = "pulling" /\ round'[m].work = round[m].work
      /\ round'[m].due = [round[m].due EXCEPT ![n] = None] /\ round[m].due[n] # None
  BY <1>2, LearnedGoesOn DEF Setting, NextDue
<1>4. /\ index \in [Machines -> Index] /\ index[m] \in Index /\ round[m] \in Round
      /\ tree \in [Machines -> Files] /\ tree[m] \in Files
  BY DEF Setting, Types
<1>5. LearnsOn(m) /\ UnsentIsOurs(m) /\ DiffersByItsOwn(m) /\ Begun(m) /\ Numbered(m) /\ Goes(m)
  BY DEF Setting, Apart
<1>6. CASE n # "doc"
  <2>1. round'[m].due["doc"] = round[m].due["doc"]
    BY <1>3, <1>4, <1>6 DEF Round, SightsOf
  <2>2. carried' = carried
    BY <1>2, <1>6 DEF ForgottenBase, Pending
  <2>3. /\ index'[m].known["doc"] = index[m].known["doc"]
        /\ index'[m].owed["doc"] = index[m].owed["doc"]
        /\ tree'[m]["doc"] = tree[m]["doc"]
    <3>1. CASE remote[n] = None
      BY <1>2, <3>1
    <3>2. CASE remote[n] # None
      <4>1. tree' = [tree EXCEPT ![m][n] = remote[n].body] /\ Noted(m, n, remote[n])
        BY <1>2, <3>2
      <4>2. tree'[m]["doc"] = tree[m]["doc"]
        BY <1>4, <1>6, <4>1 DEF Files
      <4> QED BY <1>4, <1>6, <4>1, <4>2 DEF Noted, Index, SightsOf
    <3> QED BY <3>1, <3>2
  <2>4. Known(m, "doc")' = Known(m, "doc") /\ ToLearn(m)' = ToLearn(m)
    BY <2>1, <2>3 DEF Known, ToLearn
  <2>5. LearnsOn(m)'
    BY <1>3, <1>5, <2>1, <2>3, <2>4 DEF LearnsOn
  <2>6. StillOwed(m) => StillOwed(m)'
    BY <1>3, <2>1, <2>4 DEF StillOwed
  <2> QED BY <1>1, <1>5, <2>2, <2>3, <2>4, <2>5, <2>6, QuietApart DEF UnsentIsOurs
<1>7. CASE n = "doc"
  <2> DEFINE d == round[m].due["doc"]
             r == remote["doc"]
  <2>1. /\ d # None /\ d = Seen(m, n) /\ index[m].owed["doc"] = None /\ ToLearn(m) = {d}
        /\ round'[m].due["doc"] = None /\ d \in HasSeen(m, "doc")
    <3>1. d # None /\ d = Seen(m, n)
      BY <1>3, <1>7 DEF Seen
    <3>2. index[m].owed["doc"] = None /\ ToLearn(m) = {d}
      BY <1>3, <3>1, StillToLearn
    <3>3. round'[m].due["doc"] = None
      BY <1>3, <1>4, <1>7 DEF Round, SightsOf
    <3> QED BY <3>1, <3>2, <3>3, DocumentIs
  <2> HIDE DEF d
  <2>2. r # None /\ r \in Sight /\ r.body # None /\ d.body \subseteq r.body /\ Up = r.body
    <3>1. r # None /\ r \in Sight /\ d.body \subseteq r.body
      BY <2>1, DocumentIs
    <3>2. r.body # None
      BY <3>1, BodyIsNotNone DEF Sight
    <3> QED BY <3>1, <3>2 DEF Up
  <2>3. /\ tree'[m]["doc"] = r.body /\ index'[m].known["doc"] = r /\ index'[m].owed = index[m].owed
    <3>1. tree' = [tree EXCEPT ![m]["doc"] = r.body] /\ Noted(m, "doc", r)
      BY <1>2, <1>7, <2>2
    <3> HIDE DEF r
    <3>2. tree'[m]["doc"] = r.body
      BY <1>4, <3>1 DEF Files, Names
    <3> QED BY <1>4, <3>1, <3>2 DEF Noted, Index, SightsOf, Names
  <2>4. Known(m, "doc")' = r /\ ToLearn(m)' = {} /\ ~Pending(m, "doc")'
    BY <2>1, <2>2, <2>3 DEF Known, ToLearn, Pending
  <2>5. Up' = Up /\ written \in Nat
    BY <1>1, DocumentIs DEF Up
  <2>6. \A e : OfOne(m, e) => OfOne(m, e)'
    BY <1>5, <2>5, SameIsOfOne
  <2>7. \A e : OfOne(m, e) => e \notin r.body
    BY <2>2 DEF OfOne, Stands
  <2> HIDE DEF r
  <2>8. Flows(m)
    BY <1>1, <2>2, <2>3, <2>5 DEF Flows, Stands
  <2>9. Numbered(m)'
    BY <1>1, <1>5, <2>2, <2>3, <2>5 DEF Numbered, Stands
  <2>10. Begun(m)' /\ LearnsOn(m)'
    BY <1>1, <1>3, <2>1, <2>2, <2>3, <2>4 DEF Begun, LearnsOn, r
  <2>11. UnsentIsOurs(m)'
    BY <2>4 DEF UnsentIsOurs
  <2>12. DiffersByItsOwn(m)'
    <3> SUFFICES ASSUME body[m] # None
                 PROVE  /\ carried'[m] # None =>
                              \A e \in body[m] \ carried'[m] : OfOne(m, e)' /\ e \notin r.body
                        /\ carried'[m] = None =>
                              ~(r.body \subseteq body[m]) /\ \E e \in body[m] \ r.body : OfOne(m, e)'
      BY <1>1, <2>3, <2>4 DEF DiffersByItsOwn, Stands
    <3>1. /\ Pending(m, "doc") => carried'[m] = None
          /\ carried'[m] \in {None, carried[m]}
          /\ ~Pending(m, "doc") => carried'[m] = carried[m]
      <4>1. ~Pending(m, "doc") => ForgottenBase(m, "doc") = carried
        BY DEF ForgottenBase
      <4> QED BY <1>2, <1>7, <4>1, BaseIs DEF Setting
    <3>2. CASE carried'[m] # None
      BY <1>5, <2>6, <2>7, <3>1, <3>2 DEF DiffersByItsOwn
    <3>3. CASE Pending(m, "doc")
      <4>1. tree[m]["doc"] # None /\ Known(m, "doc") # None /\ tree[m]["doc"] \subseteq body[m]
        BY <1>5, <2>2, <3>3 DEF Pending, Begun, UnsentIsOurs, r
      <4>2. /\ Known(m, "doc").body \subseteq tree[m]["doc"] /\ Known(m, "doc").body # tree[m]["doc"]
            /\ Known(m, "doc").body \subseteq d.body /\ Known(m, "doc").body # d.body
        <5>1. Known(m, "doc").body \subseteq tree[m]["doc"] /\ Known(m, "doc").body # tree[m]["doc"]
          BY <3>3, <4>1, DocumentIs DEF Pending
        <5>2. Known(m, "doc").body \subseteq d.body
          BY <1>5, <2>1, <4>1 DEF LearnsOn
        <5>3. ~OursStill(m, "doc")
          BY <1>2, <1>7, <3>3 DEF MustFetch
        <5> QED BY <1>7, <2>1, <4>1, <5>1, <5>2, <5>3 DEF OursStill
      <4>3. \A e \in body[m] \ Known(m, "doc").body : OfOne(m, e)
        BY <1>5, <3>3, <4>1 DEF UnsentIsOurs
      <4>4. PICK e \in tree[m]["doc"] : e \notin Known(m, "doc").body
        BY <4>2
      <4>5. e \in body[m] \ r.body /\ OfOne(m, e)
        BY <2>7, <4>1, <4>3, <4>4
      <4>6. PICK f \in d.body : f \notin Known(m, "doc").body
        BY <4>2
      <4>7. f \in r.body /\ f \notin body[m]
        BY <2>2, <2>7, <4>3, <4>6
      <4> QED BY <2>6, <3>1, <3>3, <4>5, <4>7
    <3>4. CASE ~Pending(m, "doc") /\ carried[m] = None
      <4>1. tree[m]["doc"] # None
        BY <1>5, <2>2 DEF Begun, r
      <4>2. ~(tree[m]["doc"] \subseteq body[m]) /\ \E e \in body[m] \ tree[m]["doc"] : OfOne(m, e)
        BY <1>5, <3>4, <4>1 DEF DiffersByItsOwn
      <4>3. tree[m]["doc"] \subseteq r.body
        <5>1. Known(m, "doc") # None /\ Known(m, "doc").body = tree[m]["doc"]
          BY <3>4, <4>1 DEF Pending
        <5> QED BY <5>1, DocumentIs DEF r
      <4> QED BY <2>6, <2>7, <3>1, <3>4, <4>2, <4>3
    <3> QED BY <3>1, <3>2, <3>3, <3>4
  <2> QED BY <2>8, <2>9, <2>10, <2>11, <2>12 DEF GoesApart, Apart
<1> QED BY <1>6, <1>7

LEMMA FetchCutApart ==
    ASSUME NEW m \in Machines, Setting(m), FetchCut(m)
    PROVE  GoesApart(m)
<1> DEFINE owes  == [f \in Names |-> IF Seen(m, f) # None THEN Seen(m, f) ELSE index[m].owed[f]]
           known == [index[m] EXCEPT !.owed = owes]
<1>1. UNCHANGED <<written, body, tree>> /\ remote' = remote
  BY DEF FetchCut, person, cloud
<1>2. PICK n \in Names : MustFetch(m, n) /\ carried' = ForgottenBase(m, n) /\ Ends(m, known)
  BY DEF FetchCut
<1>3. index[m] \in Index /\ round[m].step = "pulling"
  BY <1>2 DEF Setting, Types, MustFetch, NextDue
<1>4. owes["doc"] = IF round[m].due["doc"] # None THEN round[m].due["doc"] ELSE index[m].owed["doc"]
  BY DEF Seen, Names
<1> HIDE DEF owes
<1>5. known.known = index[m].known /\ known.owed = owes
  BY <1>3 DEF Index
<1> HIDE DEF known
<1>6. /\ index'[m].known = index[m].known /\ index'[m].owed["doc"] = owes["doc"]
      /\ round'[m].step = "idle" /\ round'[m].due["doc"] = None
  BY <1>2, <1>5 DEF Ends, Setting, Types, Idle, Nowhere, Names
<1>7. LearnsOn(m) /\ UnsentIsOurs(m) /\ Begun(m)
  BY DEF Setting, Apart
<1>8. Known(m, "doc")' = Known(m, "doc") /\ ToLearn(m)' = ToLearn(m)
  <2>1. CASE round[m].due["doc"] # None
    <3>1. index[m].owed["doc"] = None /\ ToLearn(m) = {round[m].due["doc"]}
      BY <1>3, <2>1, StillToLearn
    <3> QED BY <1>4, <1>6, <2>1, <3>1 DEF Known, ToLearn
  <2>2. CASE round[m].due["doc"] = None
    BY <1>4, <1>6, <2>2 DEF Known, ToLearn
  <2> QED BY <2>1, <2>2
<1>9. LearnsOn(m)'
  BY <1>6, <1>7, <1>8 DEF LearnsOn
<1>10. carried'[m] = carried[m] \/ (carried'[m] = None /\ Pending(m, "doc") /\ n = "doc")
  <2>1. ~Pending(m, n) => ForgottenBase(m, n) = carried
    BY DEF ForgottenBase
  <2>2. Pending(m, n) => n = "doc"
    BY DEF Pending
  <2> QED BY <1>2, <2>1, <2>2, BaseIs DEF Setting
<1>11. ASSUME Pending(m, "doc"), carried'[m] = None
       PROVE  StillOwed(m)'
  <2>1. CASE carried[m] = None
    BY <1>6, <1>7, <1>8, <1>11, <2>1 DEF UnsentIsOurs, StillOwed
  <2>2. CASE carried[m] # None
    <3>1. n = "doc" /\ ~OursStill(m, "doc") /\ round[m].due["doc"] # None
      BY <1>2, <1>10, <1>11, <2>2 DEF MustFetch, NextDue
    <3>2. round[m].due["doc"] \in ToLearn(m)
      BY <3>1 DEF ToLearn
    <3>3. remote["doc"] # None
      BY <3>2, DocumentIs
    <3>4. Known(m, "doc") # None
      BY <1>7, <1>11, <3>3 DEF Begun, Pending
    <3>5. round[m].due["doc"].body # Known(m, "doc").body
      BY <3>1, <3>4 DEF OursStill, Seen
    <3> QED BY <1>6, <1>8, <3>2, <3>4, <3>5 DEF StillOwed
  <2> QED BY <2>1, <2>2
<1> QED BY <1>1, <1>8, <1>9, <1>10, <1>11, QuietApart

LEMMA LookApart ==
    ASSUME NEW m \in Machines, Setting(m), Look(m)
    PROVE  GoesApart(m)
<1>1. UNCHANGED <<written, body, carried>> /\ remote' = remote
  BY DEF Look, Leaves, person, data, cloud
<1> DEFINE going == [Idle EXCEPT !.step = "pushing", !.left = Dirty(m, tree[m])]
<1>2. /\ tree' = [tree EXCEPT ![m] = tree[m]] /\ index' = [index EXCEPT ![m] = Read(m)]
      /\ round' = [round EXCEPT ![m] = going]
  BY DEF Look, Leaves
<1>3. going.step = "pushing" /\ going.due["doc"] = None
  BY DEF Idle, Nowhere, Names
<1> HIDE DEF going
<1>4. /\ tree'[m] = tree[m] /\ index'[m].known = index[m].known /\ index'[m].owed = index[m].owed
      /\ round'[m] = going
  BY <1>2, ReadIs DEF Setting, Types, Holds
<1>5. round[m].due["doc"] = None /\ round[m].step = "pulling" /\ LearnsOn(m) /\ UnsentIsOurs(m)
  BY NothingDue DEF Look, Works, Setting, Apart
<1>6. Known(m, "doc")' = Known(m, "doc") /\ ToLearn(m)' = ToLearn(m)
  BY <1>3, <1>4, <1>5 DEF Known, ToLearn
<1>7. LearnsOn(m)'
  BY <1>3, <1>4, <1>5, <1>6 DEF LearnsOn
<1>8. StillOwed(m) => StillOwed(m)'
  BY <1>3, <1>4, <1>6 DEF StillOwed
<1> QED BY <1>1, <1>4, <1>5, <1>6, <1>7, <1>8, QuietApart DEF UnsentIsOurs

LEMMA PutRefusedApart ==
    ASSUME NEW m \in Machines, Setting(m), PutRefused(m)
    PROVE  GoesApart(m)
<1>1. PICK n \in Names : /\ round[m].step = "pushing" /\ NextLeft(m, n) /\ ~Expected(m, n)
                         /\ index' = [index EXCEPT ![m] = ReadAgain(m, n)]
                         /\ round' = [round EXCEPT ![m].left = @ \ {n}, ![m].refused = TRUE]
  BY DEF PutRefused
<1>2. UNCHANGED <<written, body, carried, tree>> /\ remote' = remote
  BY DEF PutRefused, person, data, cloud
<1>3. index[m] \in Index /\ round[m] \in Round /\ index'[m] = ReadAgain(m, n)
  BY <1>1 DEF Setting, Types
<1>4. round'[m].step = round[m].step /\ round'[m].work = round[m].work /\ round'[m].due = round[m].due
  <2>1. round'[m] = [round[m] EXCEPT !.left = @ \ {n}, !.refused = TRUE]
    BY <1>1 DEF Setting, Types
  <2> QED BY <1>3, <2>1 DEF Round
<1>5. LearnsOn(m) /\ UnsentIsOurs(m) /\ Begun(m) /\ round[m].due["doc"] = None
  BY <1>1, NothingDue DEF Setting, Apart
<1>6. CASE n # "doc"
  <2>1. /\ index'[m].known["doc"] = index[m].known["doc"]
        /\ index'[m].owed["doc"] = index[m].owed["doc"]
    BY <1>3, <1>6 DEF ReadAgain, Index, SightsOf, Names
  <2>2. Known(m, "doc")' = Known(m, "doc") /\ ToLearn(m)' = ToLearn(m)
    BY <1>4, <2>1 DEF Known, ToLearn
  <2>3. LearnsOn(m)'
    BY <1>4, <1>5, <2>1, <2>2 DEF LearnsOn
  <2>4. StillOwed(m) => StillOwed(m)'
    BY <1>4, <2>2 DEF StillOwed
  <2> QED BY <1>2, <1>5, <2>2, <2>3, <2>4, QuietApart DEF UnsentIsOurs
<1>7. CASE n = "doc"
  <2> DEFINE r == remote["doc"]
  <2>1. tree[m]["doc"] # None
    BY <1>1, <1>7 DEF NextLeft, Setting, LeftIsThere
  <2>2. /\ r # None /\ Known(m, "doc") # None /\ Known(m, "doc").rev < r.rev
        /\ Known(m, "doc").body \subseteq r.body
    <3>1. CASE Known(m, "doc") = None
      <4>1. r = None
        BY <1>5, <2>1, <3>1 DEF Begun
      <4> QED BY <1>1, <1>7, <3>1, <4>1 DEF Expected
    <3>2. CASE Known(m, "doc") # None
      <4>1. r # None /\ Known(m, "doc").rev <= r.rev /\ Known(m, "doc").body \subseteq r.body
            /\ Known(m, "doc").rev \in Nat /\ r.rev \in Nat
        BY <3>2, DocumentIs
      <4>2. Known(m, "doc").rev # r.rev
        BY <1>1, <1>7, <3>2, <4>1 DEF Expected
      <4> QED BY <3>2, <4>1, <4>2
    <3> QED BY <3>1, <3>2
  <2>3. index'[m].known = index[m].known /\ index'[m].owed["doc"] = r
    BY <1>3, <1>7, <2>2 DEF ReadAgain, Index, SightsOf, Names
  <2> HIDE DEF r
  <2>4. Known(m, "doc")' = Known(m, "doc") /\ ToLearn(m)' = {r}
    BY <1>4, <1>5, <2>2, <2>3 DEF Known, ToLearn
  <2>5. LearnsOn(m)'
    <3>1. Known(m, "doc").rev \in Nat /\ r.rev \in Nat
      BY <2>2, DocumentIs DEF r
    <3> QED BY <1>1, <1>4, <1>5, <2>2, <2>3, <2>4, <3>1 DEF LearnsOn
  <2>6. ASSUME Pending(m, "doc"), carried'[m] = None
        PROVE  StillOwed(m)'
    <3>1. StillOwed(m)
      BY <1>2, <1>5, <2>6 DEF UnsentIsOurs
    <3>2. PICK d \in ToLearn(m) : d.body # Known(m, "doc").body
      BY <3>1 DEF StillOwed
    <3>3. Known(m, "doc").body \subseteq d.body /\ d.body \subseteq r.body
      <4>1. Known(m, "doc").body \subseteq d.body
        BY <1>5, <2>2 DEF LearnsOn
      <4> QED BY <4>1, DocumentIs DEF r
    <3>4. r.body # Known(m, "doc").body
      BY <3>2, <3>3
    <3>5. round'[m].step # "pulling"
      BY <1>1, <1>4
    <3> QED BY <2>2, <2>4, <3>4, <3>5 DEF StillOwed
  <2> QED BY <1>2, <2>4, <2>5, <2>6, QuietApart
<1> QED BY <1>6, <1>7

LEMMA PutApart ==
    ASSUME NEW m \in Machines, Setting(m), Put(m)
    PROVE  GoesApart(m)
<1>1. PICK n \in Names : /\ PutUp(m, n) /\ Noted(m, n, remote'[n])
                         /\ round' = [round EXCEPT ![m].left = @ \ {n}]
  BY DEF Put
<1>2. UNCHANGED <<written, body, carried, tree>>
  BY DEF Put, person, data
<1>3. /\ tree[m][n] # None /\ remote'[n] # None /\ remote'[n].body = tree[m][n]
      /\ \A f \in Names \ {n} : remote'[f] = remote[f]
  BY <1>1, PutUpPuts DEF Setting
<1>4. /\ index'[m].known = [index[m].known EXCEPT ![n] = remote'[n]] /\ index[m].known \in SightsOf
      /\ index'[m].owed = index[m].owed
  <2>1. index \in [Machines -> Index] /\ index[m] \in Index
    BY DEF Setting, Types
  <2> QED BY <1>1, <2>1 DEF Noted, Index
<1>5. /\ round'[m].step = round[m].step /\ round'[m].work = round[m].work
      /\ round'[m].due = round[m].due /\ round[m].step = "pushing"
  <2>1. round[m] \in Round /\ round'[m] = [round[m] EXCEPT !.left = @ \ {n}]
    BY <1>1 DEF Setting, Types
  <2> QED BY <1>1, <2>1 DEF Round, PutUp
<1>6. /\ LearnsOn(m) /\ UnsentIsOurs(m) /\ DiffersByItsOwn(m) /\ Begun(m) /\ Numbered(m) /\ Goes(m)
      /\ round[m].due["doc"] = None
  BY <1>5, NothingDue DEF Setting, Apart
<1>7. CASE n # "doc"
  <2>1. index'[m].known["doc"] = index[m].known["doc"] /\ remote'["doc"] = remote["doc"]
    BY <1>3, <1>4, <1>7 DEF SightsOf, Names
  <2>2. Known(m, "doc")' = Known(m, "doc") /\ ToLearn(m)' = ToLearn(m)
    BY <1>4, <1>5, <2>1 DEF Known, ToLearn
  <2>3. LearnsOn(m)'
    BY <1>4, <1>5, <1>6, <2>2 DEF LearnsOn
  <2>4. StillOwed(m) => StillOwed(m)'
    BY <1>5, <2>2 DEF StillOwed
  <2> QED BY <1>2, <1>6, <2>1, <2>2, <2>3, <2>4, QuietApart DEF UnsentIsOurs
<1>8. CASE n = "doc"
  <2> DEFINE theirs == tree[m]["doc"]
  <2>1. theirs # None /\ remote'["doc"] # None /\ remote'["doc"].body = theirs /\ Up' = theirs
    BY <1>3, <1>8 DEF Up
  <2>2. Known(m, "doc")' = remote'["doc"] /\ ~Pending(m, "doc")'
    <3>1. Known(m, "doc")' = remote'["doc"]
      BY <1>4, <1>8 DEF Known, SightsOf
    <3> QED BY <1>2, <2>1, <3>1 DEF Pending
  <2>3. \/ Known(m, "doc") = None /\ remote["doc"] = None
        \/ Known(m, "doc") # None /\ Known(m, "doc") = remote["doc"]
    <3>1. Expected(m, "doc")
      BY <1>1, <1>8 DEF PutUp
    <3> QED BY <3>1, DocumentIs DEF Expected
  <2>4. index[m].owed["doc"] = None /\ ToLearn(m) = {}
    <3> SUFFICES ASSUME index[m].owed["doc"] # None PROVE FALSE
      BY <1>6 DEF ToLearn
    <3>1. index[m].owed["doc"] \in ToLearn(m)
      BY DEF ToLearn
    <3>2. /\ remote["doc"] # None /\ index[m].owed["doc"].rev \in Nat /\ remote["doc"].rev \in Nat
          /\ index[m].owed["doc"].rev <= remote["doc"].rev
      BY <3>1, DocumentIs
    <3>3. remote["doc"].rev < index[m].owed["doc"].rev
      BY <1>5, <1>6, <2>3, <3>2 DEF LearnsOn
    <3> QED BY <3>2, <3>3
  <2>5. ToLearn(m)' = {}
    BY <1>4, <1>5, <2>4 DEF ToLearn
  <2>6. ~(Pending(m, "doc") /\ carried[m] = None)
    BY <1>6, <2>4 DEF UnsentIsOurs, StillOwed
  <2> HIDE DEF theirs
  <2>7. Flows(m)
    <3>1. remote["doc"] = None => m = Owner
      BY <1>6, <2>1 DEF Begun, theirs
    <3>2. written \in Nat
      BY DocumentIs
    <3> QED BY <1>2, <2>1, <3>1, <3>2 DEF Flows, Stands, theirs
  <2>8. Numbered(m)'
    BY <1>2, <1>6, <2>1 DEF Numbered, Stands, theirs
  <2>9. Begun(m)'
    BY <1>2, <2>1, <2>2 DEF Begun, theirs
  <2>10. LearnsOn(m)'
    BY <1>4, <1>5, <1>6, <2>4, <2>5 DEF LearnsOn
  <2>11. UnsentIsOurs(m)'
    BY <2>2 DEF UnsentIsOurs
  <2>12. \A e : OfOne(m, e) /\ ~Stands(e, theirs) => OfOne(m, e)'
    <3>1. \A x \in Machines \ {m} : body'[x] = body[x] /\ tree'[x] = tree[x]
      BY <1>2
    <3> QED BY <2>1, <3>1 DEF OfOne, Stands
  <2>13. DiffersByItsOwn(m)'
    BY <1>2, <1>6, <2>6, <2>12 DEF DiffersByItsOwn, Stands, theirs
  <2> QED BY <2>7, <2>8, <2>9, <2>10, <2>11, <2>13 DEF GoesApart, Apart
<1> QED BY <1>7, <1>8

\* What the work makes of the document, here and in the copy: what is here over what was carried
\* or over nothing, what is there over what was carried or over nothing, or both in one.
Becomes(m, whole) ==
    \/ /\ whole = body[m]
       /\ tree[m]["doc"] = None \/ carried[m] = tree[m]["doc"] \/ body[m] = tree[m]["doc"]
    \/ whole = tree[m]["doc"] /\ (body[m] = None \/ carried[m] = body[m])
    \/ /\ whole = body[m] \cup tree[m]["doc"]
       /\ body[m] # None /\ tree[m]["doc"] # None /\ carried[m] # None

LEMMA BecomesApart ==
    ASSUME NEW m \in Machines, Setting(m), written' = written, remote' = remote,
           round[m].step = "pulling", round[m].due["doc"] = None,
           index'[m].known = index[m].known, index'[m].owed = index[m].owed,
           round'[m].step = "pushing", round'[m].due["doc"] = None,
           NEW whole, whole # None, Becomes(m, whole),
           body'[m] = whole, tree'[m]["doc"] = whole, carried'[m] = whole
    PROVE  GoesApart(m)
<1> DEFINE mine == body[m]
           theirs == tree[m]["doc"]
           known == Known(m, "doc")
<1>1. /\ LearnsOn(m) /\ UnsentIsOurs(m) /\ DiffersByItsOwn(m) /\ Begun(m) /\ Numbered(m) /\ Goes(m)
  BY DEF Setting, Apart
<1>2. Up' = Up /\ written \in Nat
  BY DocumentIs DEF Up
<1>3. \A e : OfOne(m, e) => OfOne(m, e)'
  BY <1>1, <1>2, SameIsOfOne
<1>4. \A e : Stands(e, whole) => Stands(e, mine) \/ Stands(e, theirs)
  BY DEF Stands, Becomes
<1>5. Flows(m) /\ Numbered(m)'
  <2>1. Flows(m)
    BY <1>2, <1>4 DEF Flows
  <2>2. Numbered(m)'
    BY <1>1, <1>2, <1>4 DEF Numbered, Stands
  <2> QED BY <2>1, <2>2
<1>6. Known(m, "doc")' = known /\ ToLearn(m)' = ToLearn(m)
  BY DEF Known, ToLearn
<1>7. LearnsOn(m)'
  BY <1>1, <1>6 DEF LearnsOn
<1>8. Begun(m)'
  <2>1. known = None => remote["doc"] = None
    BY <1>1 DEF Begun, Becomes
  <2>2. ~(remote["doc"] = None /\ m # Owner)
    BY <1>1 DEF Begun, Becomes
  <2> QED BY <1>6, <2>1, <2>2 DEF Begun
<1>9. ASSUME known # None, NEW e \in whole, e \notin known.body
      PROVE  OfOne(m, e)
  <2>1. theirs # None /\ known.body \subseteq theirs
    BY <1>9, DocumentIs
  <2>2. CASE e \in theirs
    <3>1. Pending(m, "doc")
      BY <1>9, <2>1, <2>2 DEF Pending
    <3> QED BY <1>1, <1>9, <2>2, <3>1 DEF UnsentIsOurs
  <2>3. CASE e \notin theirs
    <3>1. mine # None /\ e \in mine /\ carried[m] # None
      BY <1>9, <2>1, <2>3 DEF Becomes
    <3>2. carried[m] \subseteq theirs
      BY <3>1, DocumentIs
    <3> QED BY <1>1, <2>3, <3>1, <3>2 DEF DiffersByItsOwn
  <2> QED BY <2>2, <2>3
<1>10. UnsentIsOurs(m)'
  BY <1>3, <1>6, <1>9 DEF UnsentIsOurs
<1>11. DiffersByItsOwn(m)'
  BY DEF DiffersByItsOwn
<1> QED BY <1>5, <1>7, <1>8, <1>10, <1>11 DEF GoesApart, Apart

\* A round that carries or settles has fetched what it owed for a change of ours.
LEMMA NothingOwed ==
    ASSUME NEW m \in Machines, Setting(m), NEW work, work # "look", Works(m, work)
    PROVE  /\ round[m].step = "pulling" /\ round[m].due["doc"] = None
           /\ ~(Pending(m, "doc") /\ carried[m] = None)
<1>1. round[m].step = "pulling" /\ round[m].due["doc"] = None /\ round[m].work # "look"
  BY NothingDue DEF Works
<1>2. UnsentIsOurs(m)
  BY DEF Setting, Apart
<1> QED BY <1>1, <1>2 DEF UnsentIsOurs, StillOwed

\* Where the print last carried is forgotten, neither of document and copy holds the other.
LEMMA NeitherHolds ==
    ASSUME NEW m \in Machines, Setting(m), body[m] # None, tree[m]["doc"] # None,
           carried[m] = None, ~Pending(m, "doc")
    PROVE  ~(tree[m]["doc"] \subseteq body[m]) /\ ~(body[m] \subseteq tree[m]["doc"])
BY DEF Setting, Apart, DiffersByItsOwn

\* What the work leaves, as far as the document goes.
LEMMA LeavesKnown ==
    ASSUME NEW m \in Machines, Setting(m), NEW files, Leaves(m, files)
    PROVE  /\ tree'[m] = files /\ remote' = remote
           /\ index'[m].known = index[m].known /\ index'[m].owed = index[m].owed
           /\ round'[m].step = "pushing" /\ round'[m].due["doc"] = None
<1> DEFINE going == [Idle EXCEPT !.step = "pushing", !.left = Dirty(m, files)]
<1>1. /\ tree' = [tree EXCEPT ![m] = files] /\ index' = [index EXCEPT ![m] = Read(m)]
      /\ round' = [round EXCEPT ![m] = going] /\ remote' = remote
  BY DEF Leaves, cloud
<1>2. going.step = "pushing" /\ going.due["doc"] = None
  BY DEF Idle, Nowhere, Names
<1> HIDE DEF going
<1> QED BY <1>1, <1>2, ReadIs DEF Setting, Types, Holds

LEMMA CarryApart ==
    ASSUME NEW m \in Machines, Setting(m), Carry(m)
    PROVE  GoesApart(m) /\ ~AsksWithin(m)
<1> DEFINE events == history[m] \cup (IF tree[m]["store"] = None THEN {} ELSE tree[m]["store"])
           mine   == body[m]
           theirs == tree[m]["doc"]
<1>1. events \in Bodies
  BY DEF Setting, Types, Files, Names, Bodies
<1>2. PICK done \in Outcomes(m, events) :
          /\ body' = [body EXCEPT ![m] = done.here]
          /\ carried' = [carried EXCEPT ![m] = done.said]
          /\ asked' = [asked EXCEPT ![m] = done.asks]
          /\ Leaves(m, [store |-> events, doc |-> done.there, stamp |-> {}])
  BY DEF Carry
<1> HIDE DEF events
<1>3. /\ body'[m] = done.here /\ carried'[m] = done.said /\ asked'[m] = done.asks
      /\ written' = written
  BY <1>2 DEF Setting, Types, Carry, person
<1>4. /\ tree'[m]["doc"] = done.there /\ remote' = remote
      /\ index'[m].known = index[m].known /\ index'[m].owed = index[m].owed
      /\ round'[m].step = "pushing" /\ round'[m].due["doc"] = None
  BY <1>2, LeavesKnown
<1>5. /\ round[m].step = "pulling" /\ round[m].due["doc"] = None
      /\ ~(Pending(m, "doc") /\ carried[m] = None)
  BY NothingOwed DEF Carry
<1> DEFINE same == /\ done.here # None
                   /\ done.there = done.here /\ done.said = done.here /\ done.asks = asked[m]
<1>6. \/ /\ done.here = mine /\ done.there = theirs /\ done.said = carried[m]
         /\ done.asks # asked[m] =>
               /\ mine # None /\ theirs # None /\ mine # theirs
               /\ carried[m] \notin {mine, theirs}
               /\ done.asks = [mine |-> mine, theirs |-> theirs]
      \/ same /\ done.here = mine /\ (theirs = None \/ carried[m] = theirs \/ mine = theirs)
      \/ same /\ done.here = theirs /\ (mine = None \/ carried[m] = mine)
      \/ /\ same /\ mine # None /\ theirs # None /\ carried[m] # None
         /\ done.here = mine \cup theirs
  <2>1. MadeOf(m, done)
    BY <1>1, OutcomesAre DEF Setting
  <2> QED BY <2>1 DEF MadeOf, Alike
<1>7. GoesApart(m)
  <2>1. CASE done.here = mine /\ done.there = theirs /\ done.said = carried[m]
    <3>1. Known(m, "doc")' = Known(m, "doc") /\ ToLearn(m)' = ToLearn(m)
      BY <1>4, <1>5 DEF Known, ToLearn
    <3>2. LearnsOn(m)'
      BY <1>4, <1>5, <3>1 DEF Setting, Apart, LearnsOn
    <3> QED BY <1>3, <1>4, <1>5, <2>1, <3>1, <3>2, QuietApart
  <2>2. CASE same /\ Becomes(m, done.here)
    BY <1>3, <1>4, <1>5, <2>2, BecomesApart
  <2> QED BY <1>6, <2>1, <2>2 DEF Becomes
<1>8. ~AsksWithin(m)
  <2> SUFFICES ASSUME done.asks # asked[m]
               PROVE  ~(done.asks.mine \subseteq done.asks.theirs) /\ ~(done.asks.theirs \subseteq done.asks.mine)
    BY <1>3 DEF AsksWithin
  <2>1. /\ mine # None /\ theirs # None /\ mine # theirs /\ carried[m] \notin {mine, theirs}
        /\ done.asks = [mine |-> mine, theirs |-> theirs]
    BY <1>6
  <2>2. CASE carried[m] = None
    <3>1. ~(theirs \subseteq mine) /\ ~(mine \subseteq theirs)
      BY <1>5, <2>1, <2>2, NeitherHolds
    <3> QED BY <2>1, <3>1
  <2>3. CASE carried[m] # None
    <3>1. carried[m] \subseteq mine /\ carried[m] \subseteq theirs
      BY <2>3, DocumentIs
    <3>2. \A e \in mine \ carried[m] : e \notin theirs
      BY <2>1, <2>3 DEF Setting, Apart, DiffersByItsOwn, Stands
    <3> HIDE DEF mine, theirs
    <3>3. ~(theirs \subseteq mine) /\ ~(mine \subseteq theirs)
      BY <2>1, <3>1, <3>2
    <3> QED BY <2>1, <3>3
  <2> QED BY <2>2, <2>3
<1> QED BY <1>7, <1>8

LEMMA KeepApart ==
    ASSUME NEW m \in Machines, Setting(m), KeepMine(m) \/ KeepTheirs(m)
    PROVE  GoesApart(m)
<1>1. PICK whole, work : /\ Chosen(m, whole) /\ work # "look" /\ Works(m, work)
                         /\ body[m] # None /\ tree[m]["doc"] # None
                         /\ whole = body[m] \cup tree[m]["doc"]
                         /\ \/ body[m] \subseteq tree[m]["doc"]
                            \/ tree[m]["doc"] \subseteq body[m]
  <2>1. givenup' = {} /\ Holds(m)
    BY DEF Setting
  <2>2. CASE KeepMine(m)
    <3>1. /\ Chosen(m, body[m]) /\ Works(m, "keep_mine") /\ asked[m].theirs \ body[m] = {}
      BY <2>1, <2>2 DEF KeepMine
    <3>2. asked[m] # None /\ tree[m]["doc"] = asked[m].theirs /\ body[m] # None
      BY <2>1, <3>1 DEF Works, Holds, ShownAsItIs, CopyHoldsTheKnown
    <3>3. tree[m]["doc"] # None
      <4>1. asked[m].theirs \in Bodies
        BY <3>2 DEF Setting, Types
      <4> QED BY <3>2, <4>1, BodyIsNotNone
    <3>4. body[m] = body[m] \cup tree[m]["doc"] /\ tree[m]["doc"] \subseteq body[m]
      BY <3>1, <3>2
    <3> QED BY <3>1, <3>2, <3>3, <3>4
  <2>3. CASE KeepTheirs(m)
    <3>1. /\ Chosen(m, tree[m]["doc"]) /\ Works(m, "keep_theirs") /\ tree[m]["doc"] # None
          /\ body[m] \ tree[m]["doc"] = {}
      BY <2>1, <2>3 DEF KeepTheirs
    <3>2. body[m] # None
      BY <2>1, <3>1 DEF Works, Holds, ShownAsItIs, CopyHoldsTheKnown
    <3>3. tree[m]["doc"] = body[m] \cup tree[m]["doc"] /\ body[m] \subseteq tree[m]["doc"]
      BY <3>1
    <3> QED BY <3>1, <3>2, <3>3
  <2> QED BY <2>2, <2>3
<1>2. /\ round[m].step = "pulling" /\ round[m].due["doc"] = None
      /\ ~(Pending(m, "doc") /\ carried[m] = None)
  BY <1>1, NothingOwed
<1>3. carried[m] # None
  BY <1>1, <1>2, NeitherHolds
<1> DEFINE files == [tree[m] EXCEPT !["doc"] = whole]
<1>4. Leaves(m, files) /\ files["doc"] = whole
  BY <1>1 DEF Chosen, Setting, Types, Files, Names
<1>5. body'[m] = whole /\ carried'[m] = whole /\ written' = written
  BY <1>1 DEF Chosen, Setting, Types
<1> HIDE DEF files
<1>6. whole # None
  <2>1. body[m] \in Bodies /\ tree[m]["doc"] \in Bodies
    BY <1>1, DocumentIs
  <2> QED BY <1>1, <2>1, BodyIsNotNone DEF Bodies
<1>7. /\ tree'[m]["doc"] = whole /\ remote' = remote
      /\ index'[m].known = index[m].known /\ index'[m].owed = index[m].owed
      /\ round'[m].step = "pushing" /\ round'[m].due["doc"] = None
  BY <1>4, LeavesKnown
<1>8. Becomes(m, whole)
  BY <1>1, <1>3 DEF Becomes
<1> QED BY <1>2, <1>5, <1>6, <1>7, <1>8, BecomesApart

LEMMA EachApart ==
    ASSUME NEW m \in Machines, Setting(m), Does(m),
           mishaps' \cap {"broken", "crash", "lost_answer", "deleted_whole"} = {}
    PROVE  GoesApart(m)
<1>1. ~Again(m)
  BY DEF Again, Setting, Holds, SeesWhatWas
<1>2. ~FetchBroken(m) /\ ~PutUnanswered(m) /\ ~Crash(m)
  BY DEF FetchBroken, PutUnanswered, Crash, Mishap
<1>3. CASE Edit(m)
  BY <1>3, EditApart
<1>4. CASE \/ Begin(m) \/ BeginBehind(m) \/ BeginLook(m)
           \/ Settle(m, "keep_mine") \/ Settle(m, "keep_theirs")
  BY <1>4, BeginApart
<1>5. CASE Learn(m)
  BY <1>5, LearnApart
<1>6. CASE Fetch(m)
  BY <1>6, FetchApart
<1>7. CASE FetchCut(m)
  BY <1>7, FetchCutApart
<1>8. CASE Refuse(m) \/ PutCut(m) \/ EndPush(m)
  BY <1>8, EndsApart
<1>9. CASE Look(m)
  BY <1>9, LookApart
<1>10. CASE Carry(m)
  BY <1>10, CarryApart
<1>11. CASE KeepMine(m) \/ KeepTheirs(m)
  BY <1>11, KeepApart
<1>12. CASE Put(m)
  BY <1>12, PutApart
<1>13. CASE PutRefused(m)
  BY <1>13, PutRefusedApart
<1> QED
  BY <1>1, <1>2, <1>3, <1>4, <1>5, <1>6, <1>7, <1>8, <1>9, <1>10, <1>11, <1>12, <1>13
     DEF Does, CarryOn, CutShort

\* A step in which no machine has a part moves at most a revision.
LEMMA NobodyApart ==
    ASSUME Types, CloudGoesOn, Drift \/ UNCHANGED vars, NEW m \in Machines, Apart(m)
    PROVE  Apart(m)'
<1>1. written' = written /\ \A x \in Machines : Aside(x)
  BY DEF Drift, vars, person, data, mirror, Aside
<1>2. /\ (remote["doc"] = None) <=> (remote'["doc"] = None)
      /\ remote["doc"] # None => remote'["doc"].body = remote["doc"].body
  <2>1. CASE Drift
    BY <2>1, DriftMoves DEF Names
  <2>2. CASE UNCHANGED vars
    BY <2>2 DEF vars, cloud
  <2> QED BY <2>1, <2>2
<1>3. Up' = Up
  BY <1>2 DEF Up
<1>4. \A e : OfOne(m, e) => OfOne(m, e)'
  BY <1>1, <1>3 DEF OfOne, Stands, Aside
<1>5. /\ body'[m] = body[m] /\ tree'[m] = tree[m] /\ carried'[m] = carried[m]
      /\ index'[m] = index[m] /\ round'[m] = round[m]
  BY <1>1 DEF Aside
<1>6. Known(m, "doc")' = Known(m, "doc") /\ ToLearn(m)' = ToLearn(m)
  BY <1>5 DEF Known, ToLearn
<1>7. (Pending(m, "doc")' <=> Pending(m, "doc")) /\ (StillOwed(m)' <=> StillOwed(m))
  BY <1>5, <1>6 DEF Pending, StillOwed
<1>8. Numbered(m)' /\ Begun(m)' /\ LearnsOn(m)'
  BY <1>1, <1>2, <1>3, <1>5, <1>6 DEF Apart, Numbered, Begun, LearnsOn, Stands
<1>9. UnsentIsOurs(m)'
  BY <1>4, <1>5, <1>6, <1>7 DEF Apart, UnsentIsOurs
<1>10. DiffersByItsOwn(m)'
  BY <1>4, <1>5, <1>7 DEF Apart, DiffersByItsOwn, Stands
<1> QED BY <1>8, <1>9, <1>10 DEF Apart

\* What each step starts from, as long as nothing of the kind has gone wrong or been given up.
LEMMA StepsSet ==
    ASSUME AsShown, IInv, IInv', AskInv, Unhidden, [Next]_vars
    PROVE  /\ Types /\ CloudGoesOn /\ \A m \in Machines : Holds(m) /\ Apart(m)
           /\ \A m \in Machines : Does(m) => Goes(m)
           /\ \A m \in Machines : Does(m) /\ givenup' = {} => Setting(m)
<1>1. Types /\ Types' /\ LeftIsThere
  <2>1. (TypeOK => Types)'
    BY TypesOfTypeOK, PTL
  <2> QED BY <2>1, TypesOfTypeOK DEF IInv, TypesInv
<1>2. CloudGoesOn /\ givenup = {} /\ \A m \in Machines : Holds(m) /\ Apart(m)
  BY DEF IInv, Kept, AskInv, Unhidden
<1>3. \A m \in Machines : Does(m) => Goes(m)
  BY <1>1, <1>2, EachGoes
<1> QED BY <1>1, <1>2, <1>3 DEF Setting

\* Nothing of the kind has gone wrong if nothing of the kind goes wrong now.
LEMMA UnhiddenBefore ==
    ASSUME AsShown, IInv, IInv', [Next]_vars, Unhidden'
    PROVE  Unhidden
<1>1. mishaps \subseteq mishaps'
  BY MishapsStay
<1>2. mishaps \cap {"broken", "crash", "lost_answer", "deleted_whole"} = {}
  BY <1>1 DEF Unhidden
<1>3. CloudGoesOn /\ \A m \in Machines : Holds(m)
  BY <1>2 DEF IInv, Kept
<1>4. Types /\ Types' /\ LeftIsThere
  <2>1. (TypeOK => Types)'
    BY TypesOfTypeOK, PTL
  <2> QED BY <2>1, TypesOfTypeOK DEF IInv, TypesInv
<1>5. givenup \subseteq givenup'
  <2>1. ASSUME NEW m \in Machines, Does(m) PROVE givenup \subseteq givenup'
    <3>1. Goes(m)
      BY <1>3, <1>4, <2>1, EachGoes
    <3> QED BY <3>1 DEF Goes, Onward
  <2>2. CASE Drift \/ DeleteAll \/ UNCHANGED vars
    BY <2>2 DEF Drift, DeleteAll, vars, person
  <2> QED BY <2>1, <2>2 DEF Next, Does
<1> QED BY <1>2, <1>5 DEF Unhidden

LEMMA ApartStays ==
    ASSUME AsShown, IInv, IInv', AskInv, [Next]_vars
    PROVE  AskInv'
<1> SUFFICES ASSUME Unhidden'
             PROVE  \A m \in Machines : Apart(m)'
  BY DEF AskInv
<1>1. Unhidden
  BY UnhiddenBefore
<1>2. /\ Types /\ CloudGoesOn /\ givenup' = {}
      /\ mishaps' \cap {"broken", "crash", "lost_answer", "deleted_whole"} = {}
      /\ \A m \in Machines : Apart(m)
      /\ \A m \in Machines : Does(m) => Setting(m)
  BY <1>1, StepsSet DEF Unhidden
<1>3. CASE Drift \/ UNCHANGED vars
  BY <1>2, <1>3, NobodyApart
<1>4. CASE DeleteAll
  BY <1>2, <1>4, DeletedIsCounted
<1>5. ASSUME NEW m \in Machines, Does(m), NEW x \in Machines
      PROVE  Apart(x)'
  <2>1. Setting(m) /\ GoesApart(m)
    BY <1>2, <1>5, EachApart
  <2>2. Flows(m) /\ Apart(m)' /\ Numbered(m)'
    BY <2>1 DEF GoesApart, Apart
  <2> QED BY <2>1, <2>2, OthersApart
<1> QED BY <1>3, <1>4, <1>5 DEF Next, Does

\* Only a round that carries asks.
LEMMA OnlyCarryAsks ==
    ASSUME Types, NEW m \in Machines, Does(m), ~Carry(m)
    PROVE  asked'[m] \in {None, asked[m]}
<1>1. CASE KeepMine(m) \/ KeepTheirs(m)
  <2>1. asked' = [asked EXCEPT ![m] = None]
    BY <1>1 DEF KeepMine, KeepTheirs, Chosen
  <2> QED BY <2>1 DEF Types
<1>2. CASE CarryOn(m) /\ ~KeepMine(m) /\ ~KeepTheirs(m)
  <2>1. asked' = asked
    BY <1>2 DEF CarryOn, Begin, Learn, Fetch, Refuse, Look, Put, PutRefused, EndPush, data
  <2> QED BY <2>1
<1>3. CASE CutShort(m)
  <2>1. asked' = asked
    BY <1>3 DEF CutShort, FetchBroken, FetchCut, PutUnanswered, PutCut, Crash, data
  <2> QED BY <2>1
<1>4. CASE ~CarryOn(m) /\ ~CutShort(m)
  <2>1. asked' = asked
    BY <1>4 DEF Does, Edit, Again, BeginLook, BeginBehind, Settle, data
  <2> QED BY <2>1
<1> QED BY <1>1, <1>2, <1>3, <1>4

LEMMA NobodyAsksWithin ==
    ASSUME AsShown, IInv, IInv', AskInv, Unhidden, [Next]_vars, NEW x \in Machines
    PROVE  ~AsksWithin(x)
<1>1. /\ Types /\ \A m \in Machines : Does(m) => Goes(m)
      /\ \A m \in Machines : Does(m) /\ givenup' = {} => Setting(m)
  BY StepsSet
<1>2. CASE Drift \/ DeleteAll \/ UNCHANGED vars
  BY <1>2 DEF Drift, DeleteAll, vars, data, AsksWithin
<1>3. ASSUME NEW m \in Machines, Does(m)
      PROVE  ~AsksWithin(x)
  <2>1. CASE x # m
    <3>1. Aside(x)
      BY <1>1, <1>3, <2>1 DEF Goes
    <3> QED BY <3>1 DEF Aside, AsksWithin
  <2>2. CASE x = m /\ ~Carry(m)
    BY <1>1, <1>3, <2>2, OnlyCarryAsks DEF AsksWithin
  <2>3. CASE x = m /\ Carry(m)
    <3>1. givenup' = {}
      BY <2>3 DEF Carry, person, Unhidden
    <3>2. Setting(m)
      BY <1>1, <1>3, <3>1
    <3> QED BY <2>3, <3>2, CarryApart
  <2> QED BY <2>1, <2>2, <2>3
<1> QED BY <1>2, <1>3 DEF Next, Does

LEMMA ApartAtFirst == Init => AskInv
<1> SUFFICES ASSUME Init, NEW m \in Machines
             PROVE  Apart(m)
  BY DEF AskInv
<1>1. /\ index[m] = [at |-> 0, known |-> FirstSeen, owed |-> Nowhere, confirmed |-> TRUE]
      /\ round[m] = Idle /\ tree[m] = FirstTree /\ carried[m] = FirstTree["doc"]
      /\ body[m] = IF m = Owner \/ "doc" \in FirstUp THEN {} ELSE None
      /\ remote = FirstSeen
  BY DEF Init
<1>2. /\ FirstSeen["doc"] = IF "doc" \in FirstUp THEN [rev |-> 0, body |-> {}] ELSE None
      /\ FirstTree["doc"] = IF "doc" \in FirstUp THEN {} ELSE None
      /\ Nowhere["doc"] = None /\ Idle.due = Nowhere /\ Idle.step = "idle"
      /\ {} # None /\ [rev |-> 0, body |-> {}] # None
  <2>1. {} \in Bodies /\ [rev |-> 0, body |-> {}] \in Sight
    BY DEF Bodies, Sight
  <2> QED BY <2>1, BodyIsNotNone, SightIsNotNone DEF FirstSeen, FirstTree, Names, Nowhere, Idle
<1>3. Known(m, "doc") = FirstSeen["doc"] /\ ToLearn(m) = {}
  BY <1>1, <1>2 DEF Known, ToLearn
<1>4. \A e : ~Stands(e, body[m]) /\ ~Stands(e, tree[m]["doc"]) /\ ~Stands(e, Up)
  BY <1>1, <1>2 DEF Stands, Up
<1>5. Numbered(m)
  BY <1>4 DEF Numbered
<1>6. Begun(m)
  BY <1>1, <1>2, <1>3 DEF Begun
<1>7. LearnsOn(m)
  BY <1>1, <1>2, <1>3 DEF LearnsOn
<1>8. ~Pending(m, "doc")
  BY <1>1, <1>2, <1>3 DEF Pending
<1>9. UnsentIsOurs(m)
  BY <1>8 DEF UnsentIsOurs
<1>10. DiffersByItsOwn(m)
  BY <1>1, <1>2 DEF DiffersByItsOwn
<1> QED BY <1>5, <1>6, <1>7, <1>9, <1>10 DEF Apart

\* Nobody is asked to choose between a version and one that has all of it, for any number of
\* machines and edits, though writes are refused, cut short or moved by the provider, and the
\* provider tells late of them: forget_base and ours_still of cloud/mirror.rs leave the print last
\* carried (docs::moved) only where both sides have something of their own.
THEOREM OnlyOverTwo ==
    ASSUME AsShown
    PROVE  Spec => AskedOnlyOverTwo
<1>1. IInv /\ IInv' /\ AskInv /\ [Next]_vars => AskInv'
  BY ApartStays
<1>2. IInv /\ IInv' /\ AskInv /\ [Next]_vars =>
        [givenup = {} /\ mishaps \cap {"broken", "crash", "lost_answer", "deleted_whole"} = {}
           => \A m \in Machines : ~AsksWithin(m)]_vars
  BY NobodyAsksWithin DEF Unhidden
<1> QED BY <1>1, <1>2, ApartAtFirst, KeptAlways, PTL DEF Spec, AskedOnlyOverTwo

=============================================================================
