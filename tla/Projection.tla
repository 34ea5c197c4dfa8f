----------------------------- MODULE Projection -----------------------------
(***************************************************************************)
(* The projection cache: what the log comes to, kept in a database beside  *)
(* a fingerprint of the files it was read from.  The window, the           *)
(* assistants' server and the herald's thread all read through it, and     *)
(* each writes it: a program whose fingerprint is not the cache's reads    *)
(* one file's tail on top of it (caught_up) or the whole log (projected),  *)
(* and the window adds a row for every line it writes (advance).           *)
(*                                                                         *)
(* A machine's log is one file that grows: what a rotation does to the     *)
(* fingerprint (another number of files) only ever asks for the whole log. *)
(* Its lines are stamped upwards, so a file is the set of its lines, and   *)
(* its length, which is all a fingerprint says, what it held so far.       *)
(* A line reaches one row, or all of them; a row is the lines that reached *)
(* it, as long as they were applied in the order of the sorted log, since  *)
(* applying one twice, or two in another order, is not the same            *)
(* (add_log_entry pushes) and no later line makes up for it.  Left out:    *)
(* the schema, cards and gists, a database that cannot be opened or is     *)
(* busy, the row of when each machine was heard (written whole every time).*)
(***************************************************************************)
EXTENDS Naturals, FiniteSets

CONSTANTS
    Devices,      \* one log each; numbers, since a stamp ends in its device
    Window,       \* the device the window writes as, and the window as a program
    Others,       \* other programs: assistants, the round, the herald's thread
    Rows,
    All,          \* what a line reaches that no row at a time can say
    None,
    MaxLines,     \* a bound of the model
    MaxAt,        \* a bound of the model: the latest instant
    Mishaps,      \* a subset of AllMishaps
    MaxCrashes    \* a bound of the model

\* What nothing prevents, and what the instances can leave out:
\*   unseen_line        a line lands after the window last looked, before it adds its own
\*   written_in_between another program writes the cache between what a step read and the step
\*   unmarked           somebody looks, or the program dies, after a write and before its mark
\*   clock_behind       the window's clock is behind a line it has read
AllMishaps == {"unseen_line", "written_in_between", "unmarked", "clock_behind"}

Programs == {Window} \union Others

ASSUME ProjectionAssumption ==
    /\ Devices \subseteq Nat \ {0} /\ IsFiniteSet(Devices) /\ Window \in Devices
    /\ MaxLines \in Nat /\ MaxAt \in Nat \ {0} /\ MaxCrashes \in Nat
    /\ Mishaps \subseteq AllMishaps
    /\ All \notin Rows /\ None \notin Rows

VARIABLES
    files,     \* each device's lines
    print,     \* of the cache: the fingerprint it was kept under
    kept,      \* of the cache: its rows
    last,      \* of the cache: the latest key it took in
    pc,        \* where each program's projection is
    looked,    \* the fingerprint it began with
    got,       \* the rows it has in hand
    tail,      \* the lines it takes in, or read
    shown,     \* of the window: its rows
    seen,      \* of the window: the fingerprint it believes it stands at
    behind,    \* of the window: whether it knows that it is behind
    pending,   \* of the window: the line it wrote and has not carried on
    overtaken, \* whether another Store wrote to the window's own log since it was opened
    mine,      \* what that log held when the window's Store last wrote
    crashes

cache    == <<print, kept, last>>
session  == <<shown, seen, behind, pending>>
inFlight == <<pc, looked, got, tail>>
vars     == <<files, cache, inFlight, session, overtaken, mine, crashes>>

---------------------------------------------------------------------------
\* What the log comes to.

Line == [dev: Devices, at: 1 .. MaxAt, reaches: Rows \union {All}]

\* sort_key; a device never stamps two lines alike, so it also names the line.
Key(line) == <<line.at, line.dev>>
NoKey == <<0, 0>>
Sooner(a, b) == a[1] < b[1] \/ (a[1] = b[1] /\ a[2] < b[2])

ASSUME LineAssumption == None \notin Line \union [Devices -> SUBSET Line]

Keys(lines) == {Key(l) : l \in lines}

Reaches(line, row) == line.reaches \in {row, All}
Reached(lines, row) == {l \in lines : Reaches(l, row)}

Told == UNION {files[d] : d \in Devices}

\* State::replay of read_all: every line there is, sorted, whatever file it stood in.
Replay(lines) == [r \in Rows |-> Keys(Reached(lines, r))]

\* A row to which a line was applied twice, or after a later one; no line has that key.
Wrong == {NoKey}

\* State::apply, the lines of one file one after another, on top of what is there.
After(row, keys) ==
    IF row # Wrong /\ \A k \in row, n \in keys : Sooner(k, n) THEN row \union keys ELSE Wrong

Applied(rows, lines) == [r \in Rows |-> After(rows[r], Keys(Reached(lines, r)))]

Nothing == [r \in Rows |-> {}]

Highest(lines) ==
    IF lines = {} THEN NoKey ELSE CHOOSE k \in Keys(lines) : \A l \in lines : ~ Sooner(k, Key(l))

\* fingerprint.
Now == files

---------------------------------------------------------------------------
\* A projection, step by step.

\* grown: one file is longer than it was, it was not empty, and no other has changed.
Grown(before, now) ==
    {d \in Devices : /\ before[d] # {} /\ before[d] \subseteq now[d] /\ before[d] # now[d]
                     /\ \A e \in Devices \ {d} : before[e] = now[e]}

\* read_tail: to the end of the file as it is by now.
Fresh(p) == UNION {files[d] \ print[d] : d \in Grown(print, looked[p])}

Catchable(p) ==
    /\ print # None /\ last # NoKey
    /\ Grown(print, looked[p]) # {}
    /\ \A l \in Fresh(p) : Sooner(last, Key(l))

\* The fingerprint is taken first, so what is read afterwards may hold more than it says.
Look(p) ==
    /\ pc[p] = "idle"
    /\ p = Window => (behind \/ seen # Now)
    /\ pc' = [pc EXCEPT ![p] = "load"]
    /\ looked' = [looked EXCEPT ![p] = Now]
    /\ UNCHANGED <<files, cache, got, tail, session, overtaken, mine, crashes>>

Load(p) ==
    /\ pc[p] = "load" /\ print = looked[p]
    /\ got' = [got EXCEPT ![p] = kept]
    /\ pc' = [pc EXCEPT ![p] = "done"]
    /\ UNCHANGED <<files, cache, looked, tail, session, overtaken, mine, crashes>>

\* Nobody writes under a step that is being added, unless this instance lets it happen.
Undisturbed(p) ==
    \/ "written_in_between" \in Mishaps
    \/ pending = None /\ \A q \in Programs \ {p} : pc[q] # "reach"

\* Nobody looks between a write and its mark, unless this instance lets it happen.
Marked(p) == "unmarked" \in Mishaps \/ \A q \in Programs \ {p} : pc[q] # "mark"

CatchUp(p) ==
    /\ pc[p] = "load" /\ print # looked[p] /\ Catchable(p)
    /\ Marked(p) /\ Undisturbed(p)
    /\ tail' = [tail EXCEPT ![p] = Fresh(p)]
    /\ got' = [got EXCEPT ![p] = Applied(kept, Fresh(p))]
    /\ pc' = [pc EXCEPT ![p] = "reach"]
    /\ UNCHANGED <<files, cache, looked, session, overtaken, mine, crashes>>

\* What cannot be caught up is read from the start, and so is the light projection (bodies
\* unasked for), which others than the window may want.
ReadAll(p) ==
    /\ pc[p] = "load" /\ print # looked[p] /\ (p # Window \/ ~ Catchable(p))
    /\ got' = [got EXCEPT ![p] = Replay(Told)]
    /\ tail' = [tail EXCEPT ![p] = Told]
    /\ pc' = [pc EXCEPT ![p] = "store"]
    /\ UNCHANGED <<files, cache, looked, session, overtaken, mine, crashes>>

\* The rows and the fingerprint go in as one transaction; the latest key does not.
Store(p) ==
    /\ pc[p] = "store" /\ Undisturbed(p)
    /\ print' = looked[p] /\ kept' = got[p]
    /\ pc' = [pc EXCEPT ![p] = "mark"]
    /\ UNCHANGED <<files, last, looked, got, tail, session, overtaken, mine, crashes>>

\* What reached does to the cache, but for the mark: rows nobody can tell throw it out, and
\* what was thrown out stays so.
Stepped(rows, lines, now) ==
    IF \E l \in lines : l.reaches = All THEN print' = None /\ kept' = kept
    ELSE IF print = None                 THEN UNCHANGED <<print, kept>>
    ELSE /\ print' = now
         /\ kept' = [r \in Rows |-> IF Reached(lines, r) # {} THEN rows[r] ELSE kept[r]]

\* Mutant: the mark is whatever was taken in last.
MarkedAsCame(had, lines) == Highest(lines)

\* mark: only ever upward, whatever was stored meanwhile.
MarkedUp(had, lines) == IF Sooner(had, Highest(lines)) THEN Highest(lines) ELSE had

Reach(p) ==
    /\ pc[p] = "reach"
    /\ Stepped(got[p], tail[p], looked[p])
    /\ pc' = [pc EXCEPT ![p] = IF \E l \in tail[p] : l.reaches = All THEN "done" ELSE "mark"]
    /\ UNCHANGED <<files, last, looked, got, tail, session, overtaken, mine, crashes>>

Mark(p) ==
    /\ pc[p] = "mark"
    /\ last' = MarkedUp(last, tail[p])
    /\ pc' = [pc EXCEPT ![p] = "done"]
    /\ UNCHANGED <<files, print, kept, looked, got, tail, session, overtaken, mine, crashes>>

\* Mutant: what the program looked at stays with it.
EmptyButTheLook(p) ==
    /\ pc' = [pc EXCEPT ![p] = "idle"]
    /\ got' = [got EXCEPT ![p] = Nothing]
    /\ tail' = [tail EXCEPT ![p] = {}]
    /\ UNCHANGED looked

\* The program lets go of what it had in hand.
Empty(p) ==
    /\ pc' = [pc EXCEPT ![p] = "idle"]
    /\ looked' = [looked EXCEPT ![p] = None]
    /\ got' = [got EXCEPT ![p] = Nothing]
    /\ tail' = [tail EXCEPT ![p] = {}]

\* Mutant: the fingerprint is taken after the reading, not before it.
AdoptAsOfNow ==
    /\ pc[Window] = "done" /\ pending = None
    /\ shown' = got[Window] /\ seen' = Now /\ behind' = FALSE
    /\ Empty(Window)
    /\ UNCHANGED <<files, cache, pending, overtaken, mine, crashes>>

\* The window takes what was projected, and knows it is behind if the files moved meanwhile.
Adopt ==
    /\ pc[Window] = "done" /\ pending = None
    /\ shown' = got[Window] /\ seen' = looked[Window]
    /\ behind' = (Now # looked[Window])
    /\ Empty(Window)
    /\ UNCHANGED <<files, cache, pending, overtaken, mine, crashes>>

\* fell_behind: the round tells the window that something came, before the window says so in
\* its own log.
FellBehind ==
    /\ pending = None /\ ~ behind
    /\ behind' = TRUE
    /\ UNCHANGED <<files, cache, inFlight, shown, seen, pending, overtaken, mine, crashes>>

\* An assistant, the round or the herald has its answer.
Answered(p) ==
    /\ p # Window /\ pc[p] = "done"
    /\ Empty(p)
    /\ UNCHANGED <<files, cache, session, overtaken, mine, crashes>>

\* A program is killed, and what it had in hand is lost.
Crash(p) ==
    /\ p # Window /\ pc[p] # "idle" /\ crashes < MaxCrashes
    /\ "unmarked" \in Mishaps \/ pc[p] # "mark"
    /\ crashes' = crashes + 1
    /\ Empty(p)
    /\ UNCHANGED <<files, cache, session, overtaken, mine>>

---------------------------------------------------------------------------
\* Lines.

Fits == Cardinality(Told) < MaxLines

Stamped(d) == {at \in 1 .. MaxAt : \A l \in files[d] : l.at < at}

\* A line somebody else wrote: an assistant under its own name, a stitch or a command under the
\* window's, or one the round brought.
Arrive(d) ==
    /\ Fits
    /\ "unseen_line" \in Mishaps \/ pending = None
    /\ \E at \in Stamped(d), reaches \in Rows \union {All} :
          files' = [files EXCEPT ![d] = @ \union {[dev |-> d, at |-> at, reaches |-> reaches]}]
    /\ UNCHANGED <<cache, inFlight, session, overtaken, mine, crashes>>

\* Session::commit, up to what it carries on: the Store finds out whether another wrote to its log.
Commit ==
    /\ Fits /\ pending = None
    /\ "unseen_line" \in Mishaps \/ behind \/ seen = Now
    /\ Undisturbed(Window)
    /\ "written_in_between" \in Mishaps \/ print \in {None, seen}
    /\ \E at \in Stamped(Window), reaches \in Rows \union {All} :
          LET line == [dev |-> Window, at |-> at, reaches |-> reaches]
          IN  /\ "clock_behind" \in Mishaps \/ \A l \in Told : Sooner(Key(l), Key(line))
              /\ files' = [files EXCEPT ![Window] = @ \union {line}]
              /\ shown' = Applied(shown, {line})
              /\ pending' = line
    /\ overtaken' = (overtaken \/ mine # files[Window])
    /\ mine' = files'[Window]
    /\ UNCHANGED <<cache, inFlight, seen, behind, crashes>>

\* Session::carry and advance: a window that knows it is behind leaves the cache alone.
CarryOn ==
    /\ pending # None
    /\ pending' = None /\ seen' = Now
    /\ \/ behind /\ UNCHANGED cache
       \/ ~ behind /\ overtaken /\ print' = None /\ UNCHANGED <<kept, last>>
       \/ /\ ~ behind /\ ~ overtaken
          /\ Stepped(shown, {pending}, Now)
          /\ last' = IF pending.reaches = All THEN last ELSE MarkedUp(last, {pending})
    /\ UNCHANGED <<files, inFlight, shown, behind, overtaken, mine, crashes>>

---------------------------------------------------------------------------
\* Session::at, over a log in which every device has said one thing.
Joined == [d \in Devices |-> {[dev |-> d, at |-> 1, reaches |-> All]}]

Init ==
    /\ files = Joined
    /\ print = Now /\ kept = Replay(Told) /\ last = Highest(Told)
    /\ pc = [p \in Programs |-> "idle"]
    /\ looked = [p \in Programs |-> None]
    /\ got = [p \in Programs |-> Nothing]
    /\ tail = [p \in Programs |-> {}]
    /\ shown = Replay(Told) /\ seen = Now /\ behind = FALSE /\ pending = None
    /\ overtaken = FALSE /\ mine = files[Window] /\ crashes = 0

Project(p) ==
    Look(p) \/ Load(p) \/ CatchUp(p) \/ ReadAll(p) \/ Store(p) \/ Reach(p) \/ Mark(p)

Next ==
    \/ \E p \in Programs : Project(p) \/ Answered(p) \/ Crash(p)
    \/ \E d \in Devices : Arrive(d)
    \/ Adopt \/ FellBehind \/ Commit \/ CarryOn

Spec == Init /\ [][Next]_vars

---------------------------------------------------------------------------
Prints == [Devices -> SUBSET Line]
RowsOf == [Rows -> {Wrong} \union SUBSET Keys(Told)]

\* Every variable holds a value of its type, and nobody has in hand, shows or believes in a line
\* that is not in the files.
TypeOK ==
    /\ files \in Prints
    /\ print \in {None} \union Prints /\ kept \in RowsOf /\ last \in {NoKey} \union Keys(Told)
    /\ pc \in [Programs -> {"idle", "load", "reach", "store", "mark", "done"}]
    /\ looked \in [Programs -> {None} \union Prints]
    /\ \A p \in Programs : (pc[p] = "idle") <=> (looked[p] = None)
    /\ got \in [Programs -> RowsOf] /\ tail \in [Programs -> SUBSET Told]
    /\ shown \in RowsOf /\ \A d \in Devices : seen[d] \subseteq files[d]
    /\ behind \in BOOLEAN /\ pending \in {None} \union files[Window]
    /\ overtaken \in BOOLEAN /\ mine \subseteq files[Window]
    /\ crashes \in 0 .. MaxCrashes

\* A cache that calls itself current is what a replay of the whole log gives, row by row: what
\* the audit at an update looks for, at every moment and whoever wrote the cache last.
CacheAnswers == print = Now => kept = Replay(Told)

\* A window that does not know itself to be behind, and finds the files as it left them, shows
\* what the log says.
WindowAnswers ==
    ~ behind /\ seen = Now /\ pending = None => shown = Replay(Told)
=============================================================================
