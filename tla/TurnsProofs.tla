----------------------------- MODULE TurnsProofs -----------------------------
(***************************************************************************)
(* What is proved of Turns for any set of tasks: the types, that a part    *)
(* stands in a whole that may hold it, that words are never left without a *)
(* task to be read from, and that turns keep the words their first turn    *)
(* leaves them.                                                            *)
(***************************************************************************)
EXTENDS Turns, TLAPS

\* The steps of Next, with the two ways to make a task taken together.
TaskStep(t, after) == \E whole \in Known \union {None}, repeats \in BOOLEAN :
    \/ TaskAdd(t, after, whole, repeats)
    \/ TaskRepeats(t, repeats)
    \/ TaskPin(t, repeats)
    \/ TaskMove(t, whole)

LEMMA NextSteps ==
    ASSUME [Next]_vars
    PROVE  \/ \E t \in Tasks, after \in Known \union {None} : TaskStep(t, after)
           \/ \E t \in Known : TaskDelete(t)
           \/ \E t \in Known, n \in 1 .. MaxWords : WordsAdd(t, n)
           \/ \E w \in words : WordsDelete(w)
           \/ UNCHANGED vars
BY Zenon DEF Next, TaskStep

-----------------------------------------------------------------------------
(* Types, and parts in their whole                                         *)

LEMMA WordsApart == Tasks \intersect Words = {}
BY TurnsAssumption DEF Words

\* What deleting a task leaves of the others.
LEMMA Deleted ==
    ASSUME TypeOK, NEW t \in Known, TaskDelete(t)
    PROVE  /\ t \in DOMAIN tasks /\ t \in Tasks
           /\ DOMAIN tasks' = DOMAIN tasks \ {t}
           /\ \A x \in DOMAIN tasks' :
                 /\ tasks'[x] \in Task /\ tasks'[x].after = tasks[x].after
                 /\ tasks'[x].repeats = tasks[x].repeats
                 /\ tasks'[x].part_of \in {tasks[x].part_of, None} \ {t}
           /\ words' \subseteq words
           /\ gone' = gone \union {t} \union (words \ words')
<1>1. t \in DOMAIN tasks /\ t \in Tasks
  BY DEF TaskDelete, Known, TypeOK
<1>2. /\ DOMAIN tasks' = DOMAIN tasks \ {t}
      /\ \A x \in DOMAIN tasks' :
            tasks'[x] = IF tasks[x].part_of = t THEN [tasks[x] EXCEPT !.part_of = None] ELSE tasks[x]
  BY DEF TaskDelete
<1>3. \A x \in DOMAIN tasks : tasks[x] \in Task
  BY DEF TypeOK
<1>4. \A x \in DOMAIN tasks' :
          /\ tasks'[x] \in Task /\ tasks'[x].after = tasks[x].after
          /\ tasks'[x].repeats = tasks[x].repeats
          /\ tasks'[x].part_of \in {tasks[x].part_of, None} \ {t}
  BY <1>1, <1>2, <1>3, TurnsAssumption DEF Task
<1>5. words' \subseteq words /\ gone' = gone \union {t} \union (words \ words')
  BY DEF TaskDelete, WordsOf
<1> QED BY <1>1, <1>2, <1>4, <1>5

\* What the other events do to the tasks that stand.
LEMMA Changed ==
    ASSUME TypeOK, NEW t \in Tasks, NEW after \in Known \union {None}, TaskStep(t, after)
    PROVE  /\ UNCHANGED <<words, gone>>
           /\ DOMAIN tasks' = DOMAIN tasks \union {t}
           /\ \A x \in DOMAIN tasks' : tasks'[x] \in Task
           /\ \A x \in DOMAIN tasks : tasks'[x].after = tasks[x].after
           /\ t \notin DOMAIN tasks => t \notin gone /\ tasks'[t].after = after
<1>1. \A x \in DOMAIN tasks : tasks[x] \in Task
  BY DEF TypeOK
<1>2. Known \subseteq Tasks
  BY DEF Known, TypeOK
<1>0. PICK whole \in Known \union {None}, repeats \in BOOLEAN :
            \/ TaskAdd(t, after, whole, repeats)
            \/ TaskRepeats(t, repeats)
            \/ TaskPin(t, repeats)
            \/ TaskMove(t, whole)
  BY Zenon DEF TaskStep
<1>3. CASE TaskAdd(t, after, whole, repeats)
  BY <1>1, <1>2, <1>3 DEF TaskAdd, Task
<1>4. CASE TaskRepeats(t, repeats)
  <2> DEFINE set == [tasks EXCEPT ![t].repeats = repeats]
  <2>1. /\ t \in DOMAIN tasks /\ DOMAIN set = DOMAIN tasks
        /\ \A x \in DOMAIN tasks : set[x] \in Task /\ set[x].after = tasks[x].after
    BY <1>1, <1>4 DEF TaskRepeats, Task
  <2>2. tasks' = TurnedRoutine(set, t) /\ UNCHANGED <<words, gone>>
    BY <1>4 DEF TaskRepeats
  <2> HIDE DEF set
  <2> QED BY <2>1, <2>2 DEF TurnedRoutine, Task
<1>5. CASE TaskPin(t, repeats)
  BY <1>1, <1>5 DEF TaskPin, Task
<1>6. CASE TaskMove(t, whole)
  BY <1>1, <1>2, <1>6 DEF TaskMove, Task
<1> QED BY <1>0, <1>3, <1>4, <1>5, <1>6

LEMMA StepsKeepTypes ==
    ASSUME TypeOK, [Next]_vars
    PROVE  TypeOK'
<1>1. ASSUME NEW t \in Tasks, NEW after \in Known \union {None}, TaskStep(t, after)
      PROVE  TypeOK'
  <2>1. /\ UNCHANGED <<words, gone>> /\ DOMAIN tasks' = DOMAIN tasks \union {t}
        /\ \A x \in DOMAIN tasks' : tasks'[x] \in Task
        /\ t \notin DOMAIN tasks => t \notin gone
    BY <1>1, Changed
  <2>2. /\ DOMAIN tasks \subseteq Tasks /\ words \subseteq Words
        /\ gone \subseteq (Tasks \union Words) \ (DOMAIN tasks \union words)
    BY DEF TypeOK
  <2>3. gone' \subseteq (Tasks \union Words) \ (DOMAIN tasks' \union words')
    BY <2>1, <2>2
  <2> QED BY <2>1, <2>2, <2>3 DEF TypeOK
<1>2. ASSUME NEW t \in Known, TaskDelete(t)
      PROVE  TypeOK'
  BY <1>2, Deleted, WordsApart DEF TypeOK
<1>3. ASSUME NEW t \in Known, NEW n \in 1 .. MaxWords, WordsAdd(t, n)
      PROVE  TypeOK'
  <2>1. <<t, n>> \in Words /\ <<t, n>> \notin Tasks
    BY WordsApart DEF Words, Known, TypeOK
  <2> QED BY <1>3, <2>1 DEF WordsAdd, TypeOK
<1>4. ASSUME NEW w \in words, WordsDelete(w)
      PROVE  TypeOK'
  BY <1>4, WordsApart DEF WordsDelete, TypeOK
<1>5. CASE UNCHANGED vars
  BY <1>5 DEF vars, TypeOK
<1> QED BY <1>1, <1>2, <1>3, <1>4, <1>5, NextSteps

\* Whatever the events and their order, every task that stands is well formed and nothing that
\* stands has a tombstone: no event late or repeated makes again what was deleted.
THEOREM TypeCorrect == Spec => []TypeOK
<1>1. Init => TypeOK
  BY DEF Init, TypeOK
<1> QED BY <1>1, StepsKeepTypes, PTL DEF Spec

LEMMA StepsKeepParts ==
    ASSUME TypeOK, PartsStandInTheirWhole, [Next]_vars
    PROVE  PartsStandInTheirWhole'
<1>0. \A x \in DOMAIN tasks : tasks[x] \in Task
  BY DEF TypeOK
<1>1. ASSUME NEW t \in Tasks, NEW after \in Known \union {None}, TaskStep(t, after)
      PROVE  PartsStandInTheirWhole'
  <2>5. PICK whole \in Known \union {None}, repeats \in BOOLEAN :
            \/ TaskAdd(t, after, whole, repeats)
            \/ TaskRepeats(t, repeats)
            \/ TaskPin(t, repeats)
            \/ TaskMove(t, whole)
    BY <1>1, Zenon DEF TaskStep
  <2>0. None \notin DOMAIN tasks
    BY TurnsAssumption DEF TypeOK
  <2>1. CASE TaskAdd(t, after, whole, repeats)
    <3>1. /\ t \notin DOMAIN tasks /\ DOMAIN tasks' = DOMAIN tasks \union {t}
          /\ \A x \in DOMAIN tasks : tasks'[x] = tasks[x]
          /\ tasks'[t].repeats = repeats
          /\ tasks'[t].part_of = IF MayHold(tasks, whole, t, repeats) THEN whole ELSE None
      BY <2>1 DEF TaskAdd
    <3>2. ASSUME NEW p \in DOMAIN tasks', tasks'[p].part_of # None
          PROVE  /\ tasks'[p].part_of \in DOMAIN tasks'
                 /\ tasks'[tasks'[p].part_of].part_of = None
                 /\ ~tasks'[p].repeats
                 /\ ~tasks'[tasks'[p].part_of].repeats
      <4>1. CASE p = t
        BY <3>1, <3>2, <4>1 DEF MayHold
      <4>2. CASE p # t
        BY <3>1, <3>2, <4>2 DEF PartsStandInTheirWhole
      <4> QED BY <4>1, <4>2
    <3> QED BY <3>2 DEF PartsStandInTheirWhole
  <2>2. CASE TaskRepeats(t, repeats)
    <3> DEFINE set == [tasks EXCEPT ![t].repeats = repeats]
    <3>1. /\ t \in DOMAIN tasks /\ DOMAIN set = DOMAIN tasks
          /\ \A x \in DOMAIN tasks : set[x] \in Task /\ set[x].part_of = tasks[x].part_of
          /\ \A x \in DOMAIN tasks \ {t} : set[x].repeats = tasks[x].repeats
      BY <1>0, <2>2 DEF TaskRepeats, Task
    <3>2. tasks' = TurnedRoutine(set, t)
      BY <2>2 DEF TaskRepeats
    <3> HIDE DEF set
    <3>3. /\ DOMAIN tasks' = DOMAIN tasks
          /\ \A x \in DOMAIN tasks : tasks'[x].repeats = set[x].repeats
          /\ \A x \in DOMAIN tasks : tasks'[x].part_of =
                IF set[t].repeats /\ (x = t \/ tasks[x].part_of = t) THEN None ELSE tasks[x].part_of
      BY <3>1, <3>2 DEF TurnedRoutine, Task
    <3> QED BY <3>1, <3>3 DEF PartsStandInTheirWhole
  <2>3. CASE TaskPin(t, repeats)
    <3>1. /\ DOMAIN tasks' = DOMAIN tasks
          /\ \A x \in DOMAIN tasks : /\ tasks'[x].repeats = tasks[x].repeats
                                     /\ tasks'[x].part_of = tasks[x].part_of
      BY <1>0, <2>3 DEF TaskPin, Task
    <3> QED BY <3>1 DEF PartsStandInTheirWhole
  <2>4. CASE TaskMove(t, whole)
    <3>1. /\ t \in DOMAIN tasks /\ DOMAIN tasks' = DOMAIN tasks
          /\ \A x \in DOMAIN tasks : tasks'[x].repeats = tasks[x].repeats
          /\ \A x \in DOMAIN tasks : tasks'[x].part_of = IF x = t THEN whole ELSE tasks[x].part_of
          /\ whole = None \/ MayHold(tasks, whole, t, tasks[t].repeats)
      BY <1>0, <2>4 DEF TaskMove, Task
    <3> QED BY <3>1 DEF PartsStandInTheirWhole, MayHold, HoldsParts
  <2> QED BY <2>1, <2>2, <2>3, <2>4, <2>5
<1>2. ASSUME NEW t \in Known, TaskDelete(t)
      PROVE  PartsStandInTheirWhole'
  <2>1. \A x \in DOMAIN tasks' :
            /\ tasks'[x].repeats = tasks[x].repeats
            /\ tasks'[x].part_of \in {tasks[x].part_of, None} \ {t}
    BY <1>2, Deleted
  <2>2. DOMAIN tasks' = DOMAIN tasks \ {t}
    BY <1>2, Deleted
  <2> QED BY <2>1, <2>2 DEF PartsStandInTheirWhole
<1>3. CASE tasks' = tasks
  BY <1>3 DEF PartsStandInTheirWhole
<1>4. ASSUME NEW t \in Known, NEW n \in 1 .. MaxWords, WordsAdd(t, n)
      PROVE  tasks' = tasks
  BY <1>4 DEF WordsAdd
<1> QED BY <1>1, <1>2, <1>3, <1>4, NextSteps DEF WordsDelete, vars

\* A part stands in a whole that stands, is no part itself and does not repeat, and neither does the
\* part: for any number of tasks, whichever of two crossed moves or of a move and a repeat that made
\* a routine of the whole arrives first (may_hold, turned_routine).
THEOREM PartsAlwaysStand == Spec => []PartsStandInTheirWhole
<1>1. Init => PartsStandInTheirWhole
  BY DEF Init, PartsStandInTheirWhole
<1> QED BY <1>1, StepsKeepParts, TypeCorrect, PTL DEF Spec

-----------------------------------------------------------------------------
(* What turns follow                                                       *)

\* A task follows one that was made before it.
FollowsWhatWas == \A t \in DOMAIN tasks : tasks[t].after \in Known \union {None}

\* However many tasks are taken, one of them follows none of the others.
NoCircle(ts) == \A s \in SUBSET DOMAIN ts : s # {} => \E x \in s : ts[x].after \notin s

LineInv == TypeOK /\ FollowsWhatWas /\ NoCircle(tasks)

LEMMA KnownStays ==
    ASSUME TypeOK, [Next]_vars
    PROVE  Known \subseteq Known'
<1>1. ASSUME NEW t \in Tasks, NEW after \in Known \union {None}, TaskStep(t, after)
      PROVE  Known \subseteq Known'
  <2>1. UNCHANGED gone /\ DOMAIN tasks' = DOMAIN tasks \union {t}
    BY <1>1, Changed
  <2> QED BY <2>1 DEF Known
<1>2. ASSUME NEW t \in Known, TaskDelete(t)
      PROVE  Known \subseteq Known'
  BY <1>2, Deleted DEF Known
<1>3. ASSUME NEW t \in Known, NEW n \in 1 .. MaxWords, WordsAdd(t, n)
      PROVE  Known \subseteq Known'
  BY <1>3 DEF WordsAdd, Known
<1>4. ASSUME NEW w \in words, WordsDelete(w)
      PROVE  Known \subseteq Known'
  BY <1>4 DEF WordsDelete, Known
<1>5. CASE UNCHANGED vars
  BY <1>5 DEF vars, Known
<1> QED BY <1>1, <1>2, <1>3, <1>4, <1>5, NextSteps

LEMMA StepsKeepLines ==
    ASSUME LineInv, [Next]_vars
    PROVE  LineInv'
<1>0. TypeOK /\ TypeOK' /\ Known \subseteq Known'
  BY StepsKeepTypes, KnownStays DEF LineInv
<1>1. ASSUME NEW t \in Tasks, NEW after \in Known \union {None}, TaskStep(t, after)
      PROVE  FollowsWhatWas' /\ NoCircle(tasks')
  <2>1. /\ UNCHANGED <<words, gone>> /\ DOMAIN tasks' = DOMAIN tasks \union {t}
        /\ \A x \in DOMAIN tasks : tasks'[x].after = tasks[x].after
        /\ t \notin DOMAIN tasks => t \notin gone /\ tasks'[t].after = after
    BY <1>0, <1>1, Changed
  <2>2. FollowsWhatWas'
    BY <1>0, <2>1 DEF LineInv, FollowsWhatWas
  <2>3. CASE t \in DOMAIN tasks
    BY <2>1, <2>2, <2>3 DEF LineInv, NoCircle
  <2>4. CASE t \notin DOMAIN tasks
    <3>1. \A x \in DOMAIN tasks' : tasks'[x].after # t
      BY <2>1, <2>4, TurnsAssumption DEF LineInv, FollowsWhatWas, Known
    <3>2. ASSUME NEW s \in SUBSET DOMAIN tasks', s # {}
          PROVE  \E x \in s : tasks'[x].after \notin s
      <4>1. CASE s \ {t} = {}
        BY <3>1, <3>2, <4>1
      <4>2. CASE s \ {t} # {}
        <5>1. PICK x \in s \ {t} : tasks[x].after \notin s \ {t}
          BY <2>1, <4>2 DEF LineInv, NoCircle
        <5> QED BY <2>1, <3>1, <5>1
      <4> QED BY <4>1, <4>2
    <3> QED BY <2>2, <3>2 DEF NoCircle
  <2> QED BY <2>2, <2>3, <2>4 DEF NoCircle
<1>2. ASSUME NEW t \in Known, TaskDelete(t)
      PROVE  FollowsWhatWas' /\ NoCircle(tasks')
  <2>1. /\ DOMAIN tasks' = DOMAIN tasks \ {t}
        /\ \A x \in DOMAIN tasks' : tasks'[x].after = tasks[x].after
    BY <1>0, <1>2, Deleted
  <2> QED BY <1>0, <2>1 DEF LineInv, FollowsWhatWas, NoCircle
<1>3. CASE tasks' = tasks
  BY <1>0, <1>3 DEF LineInv, FollowsWhatWas, NoCircle
<1>4. ASSUME NEW t \in Known, NEW n \in 1 .. MaxWords, WordsAdd(t, n)
      PROVE  tasks' = tasks
  BY <1>4 DEF WordsAdd
<1>5. ASSUME NEW w \in words, WordsDelete(w)
      PROVE  tasks' = tasks
  BY <1>5 DEF WordsDelete
<1>6. UNCHANGED vars => tasks' = tasks
  BY DEF vars
<1>7. tasks' = tasks \/ (FollowsWhatWas' /\ NoCircle(tasks'))
  BY <1>1, <1>2, <1>4, <1>5, <1>6, NextSteps
<1> QED BY <1>0, <1>3, <1>7 DEF LineInv

LEMMA LinesAlways == Spec => []LineInv
<1>1. Init => LineInv
  BY DEF Init, LineInv, TypeOK, FollowsWhatWas, NoCircle
<1> QED BY <1>1, StepsKeepLines, PTL DEF Spec

-----------------------------------------------------------------------------
(* The first turn, and the words it owns                                   *)

ClosedBackwards(ts, s) == \A x \in s : ts[x].after \in DOMAIN ts => ts[x].after \in s

LEMMA TurnIs ==
    ASSUME NEW ts, NEW t
    PROVE  Turn(ts, t) = {x \in DOMAIN ts :
               \A s \in SUBSET DOMAIN ts : (t \in s /\ ClosedBackwards(ts, s)) => x \in s}
BY DEF Turn, ClosedBackwards

LEMMA TurnFacts ==
    ASSUME NEW ts, NEW t \in DOMAIN ts
    PROVE  /\ t \in Turn(ts, t) /\ Turn(ts, t) \subseteq DOMAIN ts
           /\ ClosedBackwards(ts, Turn(ts, t))
           /\ \A s \in SUBSET DOMAIN ts : (t \in s /\ ClosedBackwards(ts, s)) => Turn(ts, t) \subseteq s
<1>1. ASSUME NEW x \in Turn(ts, t), ts[x].after \in DOMAIN ts
      PROVE  ts[x].after \in Turn(ts, t)
  BY <1>1, TurnIs DEF ClosedBackwards
<1> QED BY <1>1, TurnIs DEF ClosedBackwards

\* A turn is led to by itself and by what leads to the turn before it.
LEMMA TurnByTurn ==
    ASSUME NEW ts, NEW t \in DOMAIN ts
    PROVE  /\ ts[t].after \notin DOMAIN ts => Turn(ts, t) = {t}
           /\ ts[t].after \in DOMAIN ts => Turn(ts, t) \subseteq {t} \union Turn(ts, ts[t].after)
<1>1. CASE ts[t].after \notin DOMAIN ts
  <2>1. ClosedBackwards(ts, {t})
    BY <1>1 DEF ClosedBackwards
  <2> QED BY <1>1, <2>1, TurnFacts
<1>2. CASE ts[t].after \in DOMAIN ts
  <2> DEFINE s == {t} \union Turn(ts, ts[t].after)
  <2>1. s \in SUBSET DOMAIN ts /\ ClosedBackwards(ts, s)
    BY <1>2, TurnFacts DEF ClosedBackwards
  <2> HIDE DEF s
  <2>2. t \in s
    BY DEF s
  <2>3. Turn(ts, t) \subseteq s
    BY <2>1, <2>2, TurnFacts
  <2> QED BY <1>2, <2>3 DEF s
<1> QED BY <1>1, <1>2

IsFirst(ts, t, x) == x \in Turn(ts, t) /\ ts[x].after \notin DOMAIN ts

\* Every turn has one first turn that stands.
LEMMA OneFirst ==
    ASSUME NEW ts, NoCircle(ts), NEW t \in DOMAIN ts
    PROVE  /\ \E x \in DOMAIN ts : IsFirst(ts, t, x)
           /\ \A x, y : IsFirst(ts, t, x) /\ IsFirst(ts, t, y) => x = y
<1>1. \E x \in DOMAIN ts : IsFirst(ts, t, x)
  <2>1. PICK x \in Turn(ts, t) : ts[x].after \notin Turn(ts, t)
    BY TurnFacts DEF NoCircle
  <2>2. x \in DOMAIN ts /\ ts[x].after \notin DOMAIN ts
    BY <2>1, TurnFacts DEF ClosedBackwards
  <2> QED BY <2>1, <2>2 DEF IsFirst
<1>2. ASSUME NEW x, NEW y, IsFirst(ts, t, x), IsFirst(ts, t, y), x # y
      PROVE  FALSE
  <2> DEFINE both == {z \in Turn(ts, t) : x \in Turn(ts, z) /\ y \in Turn(ts, z)}
  <2>1. t \in both /\ both \in SUBSET DOMAIN ts
    BY <1>2, TurnFacts DEF IsFirst
  <2>2. PICK z \in both : ts[z].after \notin both
    BY <2>1 DEF NoCircle
  <2>3. z \in DOMAIN ts /\ z \in Turn(ts, t) /\ x \in Turn(ts, z) /\ y \in Turn(ts, z)
    BY <2>1, <2>2
  <2>4. ts[z].after \in DOMAIN ts
    BY <1>2, <2>3, TurnByTurn
  <2>5. z # x /\ z # y
    BY <1>2, <2>4 DEF IsFirst
  <2>6. x \in Turn(ts, ts[z].after) /\ y \in Turn(ts, ts[z].after)
    BY <2>3, <2>4, <2>5, TurnByTurn
  <2>7. ts[z].after \in Turn(ts, t)
    BY <2>3, <2>4, TurnFacts DEF ClosedBackwards
  <2> QED BY <2>2, <2>6, <2>7
<1> QED BY <1>1, <1>2

\* Whose words a turn writes in, told by its first turn.
LEMMA OwnerIs ==
    ASSUME NEW ts, NEW ws, NoCircle(ts), NEW t \in DOMAIN ts
    PROVE  \E first \in DOMAIN ts :
              /\ IsFirst(ts, t, first)
              /\ Owner(ts, ws, t) = IF ts[first].after # None /\ HasWords(ws, ts[first].after)
                                    THEN ts[first].after ELSE first
<1> DEFINE first == CHOOSE x \in Turn(ts, t) : ts[x].after \notin DOMAIN ts
<1>1. first \in Turn(ts, t) /\ ts[first].after \notin DOMAIN ts
  <2>1. \E x \in Turn(ts, t) : ts[x].after \notin DOMAIN ts
    BY OneFirst DEF IsFirst
  <2> QED BY <2>1
<1>2. Owner(ts, ws, t) = IF ts[first].after # None /\ HasWords(ws, ts[first].after)
                         THEN ts[first].after ELSE first
  BY DEF Owner, Standing
<1> HIDE DEF first
<1>3. first \in DOMAIN ts
  BY <1>1, TurnFacts
<1> QED BY <1>1, <1>2, <1>3 DEF IsFirst

\* A turn that follows nothing that stands is its own first turn.
LEMMA FirstOwns ==
    ASSUME NEW ts, NEW ws, NoCircle(ts), NEW t \in DOMAIN ts, ts[t].after \notin DOMAIN ts
    PROVE  Owner(ts, ws, t) = IF ts[t].after # None /\ HasWords(ws, ts[t].after)
                              THEN ts[t].after ELSE t
<1>1. Turn(ts, t) = {t}
  BY TurnByTurn
<1> QED BY <1>1, OwnerIs DEF IsFirst

-----------------------------------------------------------------------------
(* The first turn, erased, leaves its words to the turns after it          *)

\* What an erased task leaves of the line of another.
LEMMA LineLeft ==
    ASSUME NEW ts, NoCircle(ts), NEW root \in DOMAIN ts, ts[root].after \notin DOMAIN ts,
           NEW left, DOMAIN left = DOMAIN ts \ {root},
           \A x \in DOMAIN left : left[x].after = ts[x].after,
           NEW t \in DOMAIN left, IsFirst(ts, t, root)
    PROVE  /\ NoCircle(left) /\ ts[t].after = left[t].after
           /\ \A x : IsFirst(left, t, x) => left[x].after = root
<1>1. NoCircle(left)
  BY DEF NoCircle
<1>2. Turn(left, t) \subseteq Turn(ts, t)
  <2>1. ASSUME NEW x \in Turn(left, t), NEW s \in SUBSET DOMAIN ts, t \in s, ClosedBackwards(ts, s)
        PROVE  x \in s
    <3>1. s \ {root} \in SUBSET DOMAIN left /\ t \in s \ {root}
      BY <2>1
    <3>2. ClosedBackwards(left, s \ {root})
      BY <2>1, <3>1 DEF ClosedBackwards
    <3>3. Turn(left, t) \subseteq s \ {root}
      BY <3>1, <3>2, TurnFacts
    <3> QED BY <2>1, <3>3
  <2>2. Turn(left, t) \subseteq DOMAIN ts
    BY TurnFacts
  <2> QED BY <2>1, <2>2, TurnIs
<1>3. ASSUME NEW x, IsFirst(left, t, x)
      PROVE  left[x].after = root
  <2>1. x \in DOMAIN left /\ x \in Turn(ts, t) /\ ts[x].after \notin DOMAIN left
    BY <1>2, <1>3, TurnFacts DEF IsFirst
  <2>2. CASE ts[x].after \notin DOMAIN ts
    BY <2>1, <2>2, OneFirst DEF IsFirst
  <2>3. CASE ts[x].after \in DOMAIN ts
    BY <2>1, <2>3
  <2> QED BY <2>2, <2>3
<1> QED BY <1>1, <1>3

\* Turns that write in the words of a task that stands know it for their first turn.
LEMMA OwnedByFirst ==
    ASSUME LineInv, NEW ws, NEW t \in DOMAIN tasks, Owner(tasks, ws, t) \in DOMAIN tasks
    PROVE  IsFirst(tasks, t, Owner(tasks, ws, t))
<1>1. PICK first \in DOMAIN tasks :
          /\ IsFirst(tasks, t, first)
          /\ Owner(tasks, ws, t) = IF tasks[first].after # None /\ HasWords(ws, tasks[first].after)
                                   THEN tasks[first].after ELSE first
  BY OwnerIs DEF LineInv
<1>2. tasks[first].after \notin DOMAIN tasks
  BY <1>1 DEF IsFirst
<1> QED BY <1>1, <1>2

\* The words of a first turn that is erased go to the turns that wrote in them.
LEMMA ErasedLeavesWords ==
    ASSUME LineInv, NEW root \in Known, TaskDelete(root), HasWords(words, root),
           NEW t \in DOMAIN tasks \intersect DOMAIN tasks', Owner(tasks, words, t) = root
    PROVE  HasWords(words', root) /\ Owner(tasks', words', t) = root
<1>0. /\ TypeOK /\ root \in DOMAIN tasks /\ root \in Tasks /\ root # None
      /\ DOMAIN tasks' = DOMAIN tasks \ {root}
      /\ \A x \in DOMAIN tasks' : tasks'[x].after = tasks[x].after
      /\ t \in DOMAIN tasks' /\ t # root
  BY Deleted, TurnsAssumption DEF LineInv
<1>1. IsFirst(tasks, t, root) /\ tasks[root].after \notin DOMAIN tasks
  <2>1. IsFirst(tasks, t, root)
    BY <1>0, OwnedByFirst
  <2> QED BY <2>1 DEF IsFirst
<1>2. /\ NoCircle(tasks')
      /\ \A x : IsFirst(tasks', t, x) => tasks'[x].after = root
  BY <1>0, <1>1, LineLeft DEF LineInv
<1>3. \A ws : HasWords(ws, root) => Owner(tasks', ws, t) = root
  <2>1. ASSUME NEW ws, HasWords(ws, root)
        PROVE  Owner(tasks', ws, t) = root
    <3>1. PICK first \in DOMAIN tasks' :
              /\ IsFirst(tasks', t, first)
              /\ Owner(tasks', ws, t) =
                   IF tasks'[first].after # None /\ HasWords(ws, tasks'[first].after)
                   THEN tasks'[first].after ELSE first
      BY <1>0, <1>2, OwnerIs
    <3> QED BY <1>0, <1>2, <2>1, <3>1
  <2> QED BY <2>1
<1>4. Owner(tasks, words, root) = root
  <2>1. PICK first \in DOMAIN tasks :
            /\ IsFirst(tasks, t, first)
            /\ root = IF tasks[first].after # None /\ HasWords(words, tasks[first].after)
                      THEN tasks[first].after ELSE first
    BY OwnerIs DEF LineInv
  <2>2. first = root
    BY <1>1, <2>1, OneFirst DEF LineInv
  <2> QED BY <1>0, <1>1, <2>1, <2>2, FirstOwns DEF LineInv
<1>5. tasks'[t].after # None
  <2>1. t = root \/ tasks[t].after \in DOMAIN tasks
    BY <1>1, TurnByTurn DEF IsFirst
  <2> QED BY <1>0, <2>1, TurnsAssumption DEF TypeOK
<1>6. t \in TurnsLeft(tasks', words, root)
  BY <1>0, <1>3, <1>5 DEF TurnsLeft
<1>7. words' = words
  BY <1>4, <1>6 DEF TaskDelete
<1> QED BY <1>3, <1>7

\* A first turn erased leaves its words to the turns that wrote in them, and they write there still:
\* for any number of turns in any lines, erased in any order (owner, task_deleted).
THEOREM WordsPassOn == Spec => LaterTurnsKeepTheirWords
<1> DEFINE Kept == \A t \in DOMAIN tasks \intersect DOMAIN tasks' :
                LET root == Owner(tasks, words, t)
                IN  (root \in DOMAIN tasks /\ root \in gone' /\ HasWords(words, root))
                        => HasWords(words', root) /\ Owner(tasks', words', t) = root
<1>1. LineInv /\ [Next]_vars => [Kept]_vars
  <2> SUFFICES ASSUME LineInv, [Next]_vars,
                      NEW t \in DOMAIN tasks \intersect DOMAIN tasks',
                      NEW root \in DOMAIN tasks, root = Owner(tasks, words, t),
                      root \in gone', HasWords(words, root)
               PROVE  HasWords(words', root) /\ Owner(tasks', words', t) = root
    OBVIOUS
  <2>1. TypeOK /\ root \in Tasks /\ root \notin gone /\ root \notin Words
    BY WordsApart DEF LineInv, TypeOK
  <2>2. ASSUME NEW x \in Tasks, NEW after \in Known \union {None}, TaskStep(x, after)
        PROVE  FALSE
    BY <2>1, <2>2, Changed
  <2>3. ASSUME NEW x \in Known, TaskDelete(x)
        PROVE  x = root
    BY <2>1, <2>3, Deleted DEF TypeOK
  <2>4. ASSUME NEW x \in Known, NEW n \in 1 .. MaxWords, WordsAdd(x, n)
        PROVE  FALSE
    <3>1. <<x, n>> \in Words
      BY <2>1 DEF Words, Known, TypeOK
    <3> QED BY <2>1, <2>4, <3>1 DEF WordsAdd
  <2>5. ASSUME NEW w \in words, WordsDelete(w)
        PROVE  FALSE
    BY <2>1, <2>5 DEF WordsDelete, TypeOK
  <2>6. ~UNCHANGED vars
    BY <2>1 DEF vars
  <2>7. root \in Known /\ TaskDelete(root)
    BY <2>2, <2>3, <2>4, <2>5, <2>6, NextSteps
  <2> QED BY <2>7, ErasedLeavesWords
<1> QED BY <1>1, LinesAlways, PTL DEF Spec, LaterTurnsKeepTheirWords

-----------------------------------------------------------------------------
(* Words are always read from a task                                       *)

\* Words are named for a task that was made.
WordsAreKnown == \A w \in words : w[1] \in Known

\* A task that has words of its own follows nothing that stands and writes in no other's.
OwnWords ==
    \A w \in words : w[1] \in DOMAIN tasks =>
        /\ tasks[w[1]].after \notin DOMAIN tasks
        /\ ~HasWords(words, tasks[w[1]].after)

\* Words of a task that is gone are those a turn that stands follows.
WordsAreFollowed ==
    \A w \in words : w[1] \in DOMAIN tasks \/ \E x \in DOMAIN tasks : tasks[x].after = w[1]

WordsInv == LineInv /\ WordsAreKnown /\ OwnWords /\ WordsAreFollowed

\* A task nobody made yet has no words and is followed by nobody.
LEMMA Unmade ==
    ASSUME WordsInv, NEW t \in Tasks, t \notin Known
    PROVE  /\ \A w \in words : w[1] # t
           /\ \A x \in DOMAIN tasks : tasks[x].after # t
BY TurnsAssumption DEF WordsInv, WordsAreKnown, LineInv, FollowsWhatWas

LEMMA HasWordsIs ==
    ASSUME NEW ws \in SUBSET Words, NEW t
    PROVE  HasWords(ws, t) <=> \E w \in ws : w[1] = t
<1>1. ASSUME NEW w \in ws, w[1] = t
      PROVE  HasWords(ws, t)
  BY <1>1 DEF HasWords, Words
<1>2. ASSUME HasWords(ws, t)
      PROVE  \E w \in ws : w[1] = t
  BY <1>2 DEF HasWords
<1> QED BY <1>1, <1>2

\* What the turns left write in is followed by one of them.
LEMMA LeftFollow ==
    ASSUME NEW ts, NEW ws, NoCircle(ts), NEW root, root \notin DOMAIN ts,
           TurnsLeft(ts, ws, root) # {}
    PROVE  \E x \in DOMAIN ts : ts[x].after = root
<1>1. PICK t \in DOMAIN ts : Owner(ts, ws, t) = root
  BY DEF TurnsLeft
<1> QED BY <1>1, OwnerIs

LEMMA ErasingKeepsWords ==
    ASSUME WordsInv, NEW t \in Known, TaskDelete(t)
    PROVE  WordsInv'
<1>0. [Next]_vars
  BY Zenon DEF Next
<1>1. LineInv' /\ Known \subseteq Known' /\ TypeOK /\ TypeOK'
  BY <1>0, StepsKeepLines, KnownStays DEF WordsInv, LineInv
<1>2. /\ t \in DOMAIN tasks /\ t \in Tasks
      /\ DOMAIN tasks' = DOMAIN tasks \ {t}
      /\ \A x \in DOMAIN tasks' : tasks'[x].after = tasks[x].after
      /\ words' \subseteq words
  BY <1>1, Deleted
<1>3. WordsAreKnown'
  BY <1>1, <1>2 DEF WordsInv, WordsAreKnown
<1>4. OwnWords'
  <2>1. \A x : HasWords(words', x) => HasWords(words, x)
    BY <1>2 DEF HasWords
  <2> QED BY <1>2, <2>1 DEF WordsInv, OwnWords
<1>5. WordsAreFollowed'
  <2> SUFFICES ASSUME NEW w \in words', w[1] \notin DOMAIN tasks'
               PROVE  \E x \in DOMAIN tasks' : tasks'[x].after = w[1]
    BY DEF WordsAreFollowed
  <2> DEFINE root == Owner(tasks, words, t)
             kept == root \in DOMAIN tasks' \/ TurnsLeft(tasks', words, root) # {}
  <2>1. words' = words \ (IF kept THEN {} ELSE WordsOf(words, root))
    BY DEF TaskDelete
  <2>2. CASE w[1] = root
    <3>1. kept
      BY <1>2, <2>1, <2>2 DEF WordsOf
    <3> QED BY <1>1, <2>2, <3>1, LeftFollow DEF LineInv
  <2>3. CASE w[1] # root
    <3>1. (w \in words /\ w[1] # t) \/ w[1] = t
      BY <1>2
    <3>2. w[1] # t
      <4>1. ASSUME w[1] = t
            PROVE  root = t
        <5>1. tasks[t].after \notin DOMAIN tasks /\ ~HasWords(words, tasks[t].after)
          BY <1>2, <4>1 DEF WordsInv, OwnWords
        <5> QED BY <1>2, <5>1, FirstOwns DEF WordsInv, LineInv
      <4> QED BY <2>3, <4>1
    <3>3. w[1] \notin DOMAIN tasks
      BY <1>2, <3>2
    <3>4. PICK x \in DOMAIN tasks : tasks[x].after = w[1]
      BY <1>2, <3>3 DEF WordsInv, WordsAreFollowed
    <3>5. x # t
      <4>1. ASSUME x = t
            PROVE  root = w[1]
        <5>1. HasWords(words, w[1])
          BY <1>1, <1>2, HasWordsIs DEF TypeOK
        <5>2. w[1] \in Tasks
          BY <1>1, <1>2 DEF TypeOK, Words
        <5> QED BY <1>2, <3>3, <3>4, <4>1, <5>1, <5>2, FirstOwns, TurnsAssumption DEF WordsInv, LineInv
      <4> QED BY <2>3, <4>1
    <3> QED BY <1>2, <3>4, <3>5
  <2> QED BY <2>2, <2>3
<1> QED BY <1>1, <1>3, <1>4, <1>5 DEF WordsInv

LEMMA StepsKeepWords ==
    ASSUME Crossed = FALSE, WordsInv, [Next]_vars
    PROVE  WordsInv'
<1>1. LineInv' /\ LineInv /\ Known \subseteq Known' /\ TypeOK /\ TypeOK'
  BY StepsKeepLines, KnownStays DEF WordsInv, LineInv
<1>2. ASSUME NEW t \in Tasks, NEW after \in Known \union {None}, TaskStep(t, after)
      PROVE  WordsInv'
  <2>1. /\ UNCHANGED <<words, gone>>
        /\ DOMAIN tasks' = DOMAIN tasks \union {t}
        /\ \A x \in DOMAIN tasks : tasks'[x].after = tasks[x].after
        /\ t \notin DOMAIN tasks => t \notin gone
    BY <1>1, <1>2, Changed
  <2>2. t \notin DOMAIN tasks =>
            /\ \A w \in words : w[1] # t
            /\ \A x \in DOMAIN tasks : tasks[x].after # t
    BY <2>1, Unmade DEF Known
  <2>3. WordsAreKnown'
    BY <1>1, <2>1 DEF WordsInv, WordsAreKnown
  <2>4. OwnWords'
    <3>1. ASSUME NEW w \in words', w[1] \in DOMAIN tasks'
          PROVE  /\ tasks'[w[1]].after \notin DOMAIN tasks'
                 /\ ~HasWords(words', tasks'[w[1]].after)
      <4>1. w \in words /\ w[1] \in DOMAIN tasks
        BY <2>1, <2>2, <3>1
      <4>2. tasks[w[1]].after \notin DOMAIN tasks /\ ~HasWords(words, tasks[w[1]].after)
        BY <4>1 DEF WordsInv, OwnWords
      <4> QED BY <2>1, <2>2, <4>1, <4>2
    <3> QED BY <3>1 DEF OwnWords
  <2>5. WordsAreFollowed'
    BY <2>1 DEF WordsInv, WordsAreFollowed
  <2> QED BY <1>1, <2>3, <2>4, <2>5 DEF WordsInv
<1>3. ASSUME NEW t \in Known, NEW n \in 1 .. MaxWords, WordsAdd(t, n)
      PROVE  WordsInv'
  <2>1. tasks' = tasks /\ words \subseteq words' /\ words' \subseteq words \union {<<t, n>>} /\ ~Double(t)
    BY <1>3 DEF WordsAdd
  <2>2. WordsAreKnown'
    BY <1>1, <2>1 DEF WordsInv, WordsAreKnown
  <2>3. CASE words' = words
    BY <1>1, <2>1, <2>2, <2>3 DEF WordsInv, OwnWords, WordsAreFollowed
  <2>4. CASE words' # words
    <3>1. /\ words' = words \union {<<t, n>>}
          /\ t \in gone => \E x \in DOMAIN tasks : tasks[x].after = t
          /\ t \in DOMAIN tasks => tasks[t].after \notin DOMAIN tasks
      BY <1>3, <2>4 DEF WordsAdd, Standing
    <3>2. \A x : x # t => (HasWords(words', x) <=> HasWords(words, x))
      BY <3>1 DEF HasWords
    <3>3. \A x \in DOMAIN tasks : tasks[x].after = t => ~HasWords(words, x)
      BY <2>1 DEF Double
    <3>4. ASSUME t \in DOMAIN tasks
          PROVE  tasks[t].after # t /\ ~HasWords(words, tasks[t].after)
      <4>1. Owner(tasks, words, t) = t
        BY <2>1 DEF Double
      <4>2. Owner(tasks, words, t) = IF tasks[t].after # None /\ HasWords(words, tasks[t].after)
                                     THEN tasks[t].after ELSE t
        BY <1>1, <3>1, <3>4, FirstOwns DEF LineInv
      <4>3. ~HasWords(words, None)
        BY TurnsAssumption, <1>1, HasWordsIs DEF TypeOK, Words
      <4>4. tasks[t].after # t
        BY <3>1, <3>4
      <4> QED BY <4>1, <4>2, <4>3, <4>4
    <3>5. OwnWords'
      <4>1. ASSUME NEW w \in words', w[1] \in DOMAIN tasks
            PROVE  tasks[w[1]].after \notin DOMAIN tasks /\ ~HasWords(words', tasks[w[1]].after)
        <5>1. CASE w[1] = t
          BY <3>1, <3>2, <3>4, <4>1, <5>1
        <5>2. CASE w[1] # t
          <6>1. w \in words
            BY <3>1, <5>2
          <6>2. HasWords(words, w[1])
            BY <1>1, <6>1, HasWordsIs DEF TypeOK
          <6>3. tasks[w[1]].after # t
            BY <3>3, <4>1, <6>2
          <6> QED BY <3>2, <4>1, <6>1, <6>3 DEF WordsInv, OwnWords
        <5> QED BY <5>1, <5>2
      <4> QED BY <2>1, <4>1 DEF OwnWords
    <3>6. WordsAreFollowed'
      BY <2>1, <3>1 DEF WordsInv, WordsAreFollowed, Known
    <3> QED BY <1>1, <2>2, <3>5, <3>6 DEF WordsInv
  <2> QED BY <2>3, <2>4
<1>4. ASSUME NEW w \in words, WordsDelete(w)
      PROVE  WordsInv'
  <2>1. tasks' = tasks /\ words' \subseteq words
    BY <1>4 DEF WordsDelete
  <2>2. \A x : HasWords(words', x) => HasWords(words, x)
    BY <2>1 DEF HasWords
  <2> QED BY <1>1, <2>1, <2>2 DEF WordsInv, WordsAreKnown, OwnWords, WordsAreFollowed
<1>5. CASE UNCHANGED vars
  BY <1>1, <1>5 DEF vars, WordsInv, WordsAreKnown, OwnWords, WordsAreFollowed, Known
<1> QED BY <1>2, <1>3, <1>4, <1>5, ErasingKeepsWords, NextSteps

\* Words that stand are read from a task that stands, the one they are named for or a turn that
\* follows it, for any number of tasks and turns: no delete, late or repeated, leaves words nobody
\* can reach (task_deleted, doc_added).  It holds where the machines name the words of a routine
\* alike, as planned does on each of them; two machines that crossed may each leave a copy.
THEOREM WordsAlwaysRead ==
    ASSUME Crossed = FALSE
    PROVE  Spec => []WordsHaveATask
<1>1. Init => WordsInv
  BY DEF Init, WordsInv, LineInv, TypeOK, FollowsWhatWas, NoCircle, WordsAreKnown, OwnWords,
         WordsAreFollowed
<1>2. WordsInv /\ [Next]_vars => WordsInv'
  BY StepsKeepWords
<1>3. WordsInv => WordsHaveATask
  <2> SUFFICES ASSUME WordsInv, NEW w \in words, w[1] \notin DOMAIN tasks
               PROVE  TurnsLeft(tasks, words, w[1]) # {}
    BY DEF WordsHaveATask
  <2>1. PICK x \in DOMAIN tasks : tasks[x].after = w[1]
    BY DEF WordsInv, WordsAreFollowed
  <2>2. HasWords(words, w[1]) /\ w[1] # None
    BY HasWordsIs, TurnsAssumption DEF WordsInv, LineInv, TypeOK, Words
  <2>3. Owner(tasks, words, x) = w[1]
    BY <2>1, <2>2, FirstOwns DEF WordsInv, LineInv
  <2> QED BY <2>1, <2>2, <2>3 DEF TurnsLeft
<1> QED BY <1>1, <1>2, <1>3, PTL DEF Spec
=============================================================================
