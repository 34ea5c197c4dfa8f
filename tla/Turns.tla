------------------------------- MODULE Turns -------------------------------
(***************************************************************************)
(* What State::apply makes of the events about tasks: the parts of a task, *)
(* the turns of a routine, and the documents that hold the words of a      *)
(* task.  As in Shelves, any event may follow any other, and only what the *)
(* replay refuses is refused.                                              *)
(*                                                                         *)
(* Left out: dates, bells, lists, tags, steps, the journal, whether a task *)
(* is open, closed or hidden, what the words say, and the door that turns  *)
(* away some of the events an assistant writes.                            *)
(***************************************************************************)
EXTENDS Naturals, FiniteSets

CONSTANTS
    Tasks,      \* the identities of tasks
    MaxWords,   \* how often the words of a task are made anew, a bound of the model
    Crossed,    \* whether two machines may name the words of one routine differently
    None        \* no task

ASSUME TurnsAssumption ==
    /\ IsFiniteSet(Tasks)
    /\ MaxWords \in Nat \ {0}
    /\ Crossed \in BOOLEAN
    /\ None \notin Tasks
    /\ Tasks \intersect (Tasks \X (1 .. MaxWords)) = {}    \* no document is a task

VARIABLES
    tasks,      \* the tasks that stand
    words,      \* the documents that hold a task's words, named for the task and a number
    gone        \* the tombstones, of tasks and of words

vars == <<tasks, words, gone>>

Words == Tasks \X (1 .. MaxWords)

Task == [after : Tasks \union {None}, part_of : Tasks \union {None},
         repeats : BOOLEAN, story : BOOLEAN]

-----------------------------------------------------------------------------
(* What is read in the state. *)

Standing(ts, t) == t \in DOMAIN ts

HoldsParts(ts, t) == \E p \in DOMAIN ts : ts[p].part_of = t

\* Judged at replay, so two machines that crossed a move agree on where the part landed.
MayHold(ts, whole, part, repeats) ==
    /\ whole \in DOMAIN ts
    /\ whole # part
    /\ ts[whole].part_of = None
    /\ ~HoldsParts(ts, part)
    /\ ~ts[whole].repeats
    /\ ~repeats

\* The turns that lead to this one and stand, this one among them: what every set
\* closed backwards that holds it holds.
Turn(ts, t) ==
    LET ClosedBackwards(s) == \A x \in s : ts[x].after \in DOMAIN ts => ts[x].after \in s
    IN  {x \in DOMAIN ts : \A s \in SUBSET DOMAIN ts : (t \in s /\ ClosedBackwards(s)) => x \in s}

HasWords(ws, t) == \E n \in 1 .. MaxWords : <<t, n>> \in ws

\* The task whose words a turn writes in: the first turn that stands, or the one
\* before it when that one is erased and its words are kept.
Owner(ts, ws, t) ==
    IF ~Standing(ts, t) THEN t
    ELSE LET first == CHOOSE x \in Turn(ts, t) : ts[x].after \notin DOMAIN ts
         IN  IF ts[first].after # None /\ HasWords(ws, ts[first].after)
             THEN ts[first].after
             ELSE first

-----------------------------------------------------------------------------
(* Tasks. *)

\* Mutant: a tombstone does not keep a task from being made again.
TaskAddAgain(t, after, whole, repeats) ==
    /\ t \notin DOMAIN tasks
    /\ tasks' = [x \in DOMAIN tasks \union {t} |->
           IF x # t THEN tasks[x]
           ELSE [after |-> after, part_of |-> None, repeats |-> repeats, story |-> FALSE]]
    /\ UNCHANGED <<words, gone>>

TaskAdd(t, after, whole, repeats) ==
    /\ t \notin DOMAIN tasks \union gone
    /\ tasks' = [x \in DOMAIN tasks \union {t} |->
           IF x # t THEN tasks[x]
           ELSE [after |-> after,
                 part_of |-> IF MayHold(tasks, whole, t, repeats) THEN whole ELSE None,
                 repeats |-> repeats,
                 story |-> FALSE]]
    /\ UNCHANGED <<words, gone>>

\* Mutant: a whole set to repeat keeps its parts.
TurnedRoutineItself(ts, t) ==
    IF ts[t].repeats THEN [ts EXCEPT ![t].part_of = None] ELSE ts

\* A task that comes back is no part and no whole.
TurnedRoutine(ts, t) ==
    [x \in DOMAIN ts |->
        IF ts[t].repeats /\ (x = t \/ ts[x].part_of = t)
        THEN [ts[x] EXCEPT !.part_of = None]
        ELSE ts[x]]

TaskRepeats(t, repeats) ==
    /\ t \in DOMAIN tasks
    /\ tasks' = TurnedRoutine([tasks EXCEPT ![t].repeats = repeats], t)
    /\ UNCHANGED <<words, gone>>

\* Kept as a story by the person, or no longer; a turn of a routine never is.
TaskPin(t, story) ==
    /\ t \in DOMAIN tasks
    /\ tasks[t].after = None
    /\ tasks' = [tasks EXCEPT ![t].story = story]
    /\ UNCHANGED <<words, gone>>

TaskMove(t, whole) ==
    /\ t \in DOMAIN tasks
    /\ whole = None \/ MayHold(tasks, whole, t, tasks[t].repeats)
    /\ tasks' = [tasks EXCEPT ![t].part_of = whole]
    /\ UNCHANGED <<words, gone>>

\* Mutant: only the task the words are named for is looked at.
NoTurnsLeft(ts, ws, root) == {}

\* The turns that are left and write in the words of this task.
TurnsLeft(ts, ws, root) == {t \in DOMAIN ts : ts[t].after # None /\ Owner(ts, ws, t) = root}

WordsOf(ws, t) == {w \in ws : w[1] = t}

\* A delete that never named the task's words takes them, unless another turn of
\* its routine writes there.  A task kept as a story lets no delete in.
TaskDelete(t) ==
    /\ t \notin gone
    /\ Standing(tasks, t) => ~tasks[t].story
    /\ LET root == Owner(tasks, words, t)
           left == [x \in DOMAIN tasks \ {t} |->
                       IF tasks[x].part_of = t
                       THEN [tasks[x] EXCEPT !.part_of = None]
                       ELSE tasks[x]]
           kept == root \in DOMAIN left \/ TurnsLeft(left, words, root) # {}
           dropped == IF kept THEN {} ELSE WordsOf(words, root)
       IN  /\ tasks' = left
           /\ words' = words \ dropped
           /\ gone' = gone \union {t} \union dropped

-----------------------------------------------------------------------------
(* The words of a task. *)

\* Two machines name the words of one routine differently when one of them has not
\* seen the first turn erased, or not seen the words that stand.
Double(t) ==
    \/ Owner(tasks, words, t) # t
    \/ \E x \in DOMAIN tasks : tasks[x].after = t /\ HasWords(words, x)

\* Mutant: words are taken for a task erased elsewhere.
WordsAddAnyway(t, n) ==
    /\ <<t, n>> \notin words \union gone
    /\ \A m \in 1 .. n - 1 : <<t, m>> \in gone
    /\ Crossed \/ ~Double(t)
    /\ Standing(tasks, t) => ~Standing(tasks, tasks[t].after)
    /\ words' = words \union {<<t, n>>}
    /\ UNCHANGED <<tasks, gone>>

\* Every machine names them alike, with the first number that is not erased, so
\* the second making changes nothing.  A turn writes in the words of its first one.
\* Words for a task erased elsewhere, that no turn follows, are erased as they arrive.
WordsAdd(t, n) ==
    /\ <<t, n>> \notin words \union gone
    /\ \A m \in 1 .. n - 1 : <<t, m>> \in gone
    /\ Crossed \/ ~Double(t)
    /\ Standing(tasks, t) => ~Standing(tasks, tasks[t].after)
    /\ IF t \in gone /\ \A x \in DOMAIN tasks : tasks[x].after # t
       THEN gone' = gone \union {<<t, n>>} /\ UNCHANGED words
       ELSE words' = words \union {<<t, n>>} /\ UNCHANGED gone
    /\ UNCHANGED tasks

\* A task's words go with it or not at all, so a story keeps them.
WordsDelete(w) ==
    /\ w \notin gone
    /\ w \in words /\ Standing(tasks, w[1]) => ~tasks[w[1]].story
    /\ words' = words \ {w}
    /\ gone' = gone \union {w}
    /\ UNCHANGED tasks

-----------------------------------------------------------------------------

Init ==
    /\ tasks = [t \in {} |-> None]
    /\ words = {}
    /\ gone = {}

\* What an event may name: what was made before it, deleted since or not.
Known == DOMAIN tasks \union (gone \intersect Tasks)

\* The turn that follows repeats as the one it follows did.
Next ==
    \/ \E t \in Tasks, whole \in Known \union {None}, repeats \in BOOLEAN :
           TaskAdd(t, None, whole, repeats)
    \/ \E t \in Tasks, after \in Known : TaskAdd(t, after, None, TRUE)
    \/ \E t \in Tasks, repeats \in BOOLEAN : TaskRepeats(t, repeats)
    \/ \E t \in Tasks, story \in BOOLEAN : TaskPin(t, story)
    \/ \E t \in Tasks, whole \in Known \union {None} : TaskMove(t, whole)
    \/ \E t \in Known : TaskDelete(t)
    \/ \E t \in Known, n \in 1 .. MaxWords : WordsAdd(t, n)
    \/ \E w \in words : WordsDelete(w)

Spec == Init /\ [][Next]_vars

-----------------------------------------------------------------------------
(* Properties. *)

\* What stands is well formed, and nothing that stands is a tombstone.
TypeOK ==
    /\ DOMAIN tasks \subseteq Tasks
    /\ \A t \in DOMAIN tasks : tasks[t] \in Task
    /\ words \subseteq Words
    /\ gone \subseteq (Tasks \union Words) \ (DOMAIN tasks \union words)

\* A part is in a whole that stands, that is no part itself and holds it to the
\* end: neither comes back as a routine, whichever machine moved the one or set
\* the other to repeat first.
PartsStandInTheirWhole ==
    \A p \in DOMAIN tasks : tasks[p].part_of # None =>
        /\ tasks[p].part_of \in DOMAIN tasks
        /\ tasks[tasks[p].part_of].part_of = None
        /\ ~tasks[p].repeats
        /\ ~tasks[tasks[p].part_of].repeats

\* Words that stand are read from a task: the one they are named for, or a turn
\* that follows it.
WordsHaveATask ==
    \A w \in words : w[1] \in DOMAIN tasks \/ TurnsLeft(tasks, words, w[1]) # {}

\* A first turn erased leaves its words to the turns that write in them.
LaterTurnsKeepTheirWords ==
    [][\A t \in DOMAIN tasks \intersect DOMAIN tasks' :
        LET root == Owner(tasks, words, t)
        IN  (root \in DOMAIN tasks /\ root \in gone' /\ HasWords(words, root))
                => HasWords(words', root) /\ Owner(tasks', words', t) = root]_vars
=============================================================================
