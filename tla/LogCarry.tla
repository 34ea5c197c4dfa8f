------------------------------ MODULE LogCarry ------------------------------
(***************************************************************************)
(* How one machine's log travels (tisty-sync): its owner copies it to the  *)
(* shared folder, every other machine keeps a copy brought from there, and *)
(* hands its copy on where the folder holds less.  Logs travel one by one, *)
(* so the module follows one of them.                                      *)
(*                                                                         *)
(* The owner's events are numbered in the order it wrote them, and a       *)
(* segment closes when it is full (DeviceLog), so a closed file is known   *)
(* by its number and the active one by its last event.  A file is copied   *)
(* beside its name and renamed, one step; a directory is copied file by    *)
(* file, with everybody else's steps in between.                           *)
(***************************************************************************)
EXTENDS Integers, FiniteSets

CONSTANTS
    Owner,        \* the machine that writes the log
    Keepers,      \* the machines that hold a copy
    SegmentSize,  \* events of a full segment
    MaxEvents,    \* bound: how many the owner ever writes
    Mishaps,      \* what this instance lets happen
    MaxMishaps    \* bound

AllMishaps == {"crash", "emptied", "set_back", "rotated_under_a_push", "emptied_in_a_round"}

ASSUME MachinesAssumption == Owner \notin Keepers
ASSUME SizesAssumption == SegmentSize \in Nat \ {0} /\ MaxEvents \in Nat /\ MaxMishaps \in Nat
ASSUME KindsAssumption == Mishaps \subseteq AllMishaps

Machines == Keepers \cup {Owner}
SegNos   == 1..MaxEvents

\* The files of a directory, numbered as segments_in sorts them: the closed ones, the active one.
Active == MaxEvents + 1
Names  == 1..Active

VARIABLES
    written,  \* how many events the owner has written
    home,     \* each machine's directory of this log
    folder,   \* the shared folder's
    round,    \* how far each machine's round is
    mishaps

vars == <<written, home, folder, round, mishaps>>

-----------------------------------------------------------------------------
(* A directory of the log                                                  *)

\* active is the last event of the active file, 0 without one.
Dirs    == [closed : SUBSET SegNos, active : 0..MaxEvents]
Nothing == [closed |-> {}, active |-> 0]

SegOf(e)   == ((e - 1) \div SegmentSize) + 1
FirstOf(s) == (s - 1) * SegmentSize + 1

FilesOf(dir) == dir.closed \cup (IF dir.active = 0 THEN {} ELSE {Active})

EventsOf(dir) ==
    (UNION {FirstOf(s)..(s * SegmentSize) : s \in dir.closed})
    \cup (IF dir.active = 0 THEN {} ELSE FirstOf(SegOf(dir.active))..dir.active)

\* distinct_in: a left over active file counts once.
Count(dir) == Cardinality(EventsOf(dir))

\* The active file only repeats what one of the listed closed ones opens with.
LeftOver(listed, dir) == dir.active # 0 /\ SegOf(dir.active) \in listed

\* check_device: no closed segment is missing before another.
Contiguous(dir) == \A s \in dir.closed : 1..s \subseteq dir.closed

\* answers: the chain the seals recompute runs through the closed segments into the active one,
\* unless that is left over.
ChainHolds(dir) ==
    /\ Contiguous(dir)
    /\ dir.active # 0 => SegOf(dir.active) <= Cardinality(dir.closed) + 1

\* one_grew_from_the_other, both being there: the shorter is what the longer opens with.
Opens(a, b) == a # {} /\ a \subseteq b /\ \A e \in b \ a, f \in a : e > f
OneGrew(a, b) == Opens(EventsOf(a), EventsOf(b)) \/ Opens(EventsOf(b), EventsOf(a))

\* Mutants: no need to be longer; nothing is not something to be ahead of.
AheadIfItGrew(a, b)    == Count(b) = 0 \/ OneGrew(a, b)
AheadOfSomething(a, b) == Count(a) > Count(b) /\ OneGrew(a, b)

\* ours_went_missing and ours_reaches_further, the two ways to be ahead.
Ahead(a, b) == Count(a) > Count(b) /\ (Count(b) = 0 \/ OneGrew(a, b))
OursWentMissing(mine, theirs)    == Contiguous(theirs) /\ Ahead(theirs, mine)
OursReachesFurther(mine, theirs) == Contiguous(theirs) /\ Ahead(mine, theirs)

\* Mutant: the memo goes by name and not by what the files say.
AlikeByName(a, b) == FilesOf(a) \cap FilesOf(b)

\* alike_in: the files both hold byte for byte.
Alike(a, b) ==
    (a.closed \cap b.closed) \cup (IF a.active # 0 /\ a.active = b.active THEN {Active} ELSE {})

\* all_of: everything this directory holds is known to stand at the other side.
AllOf(dir, known) == FilesOf(dir) # {} /\ FilesOf(dir) \subseteq known

\* Mutant: the active file is taken for one more closed one.
CopyFileAsClosed(from, into, name) == [into EXCEPT !.closed = @ \cup {name}]

CopyFile(from, into, name) ==
    IF name = Active
    THEN [into EXCEPT !.active = from.active]
    ELSE [into EXCEPT !.closed = @ \cup {name}]

-----------------------------------------------------------------------------
(* Rounds                                                                  *)

\* known is the memo of what both sides hold alike, {0} before anybody asked; listed are the
\* files a copy set out with, todo those still to copy; copied tells whether one was; staged is
\* the copy of the folder a round checks and installs from.
Unasked == {0}
Steps   == {"idle", "staging", "installing", "giving", "pushing"}
Rounds  == [step : Steps, known : (SUBSET Names) \cup {Unasked}, listed : SUBSET Names,
            todo : SUBSET Names, copied : BOOLEAN, staged : Dirs]
Idle    == [step |-> "idle", known |-> Unasked, listed |-> {}, todo |-> {},
            copied |-> FALSE, staged |-> Nothing]

Init ==
    /\ written = 0
    /\ home = [m \in Machines |-> Nothing]
    /\ folder = Nothing
    /\ round = [m \in Machines |-> Idle]
    /\ mishaps = 0

Mishap(kind) ==
    /\ kind \in Mishaps
    /\ mishaps < MaxMishaps
    /\ mishaps' = mishaps + 1

\* The owner writes with all of its history here, and not while a round holds its lock.  (A
\* write to a history that was set back and not yet taken back would fork it; see the README.)
MayWrite ==
    /\ written < MaxEvents
    /\ EventsOf(home[Owner]) = 1..written
    /\ round[Owner].step # "installing"

Full(dir) == dir.active # 0 /\ dir.active = SegOf(dir.active) * SegmentSize

Write ==
    /\ MayWrite /\ ~Full(home[Owner])
    /\ written' = written + 1
    /\ home' = [home EXCEPT ![Owner].active = written + 1]
    /\ UNCHANGED <<folder, round, mishaps>>

\* The first half of a write to a full segment; a reader may come between the two.
Rotate ==
    /\ MayWrite /\ Full(home[Owner])
    /\ IF round[Owner].step = "pushing" /\ Active \in round[Owner].todo
       THEN Mishap("rotated_under_a_push")
       ELSE UNCHANGED mishaps
    /\ home' = [home EXCEPT ![Owner] = [closed |-> @.closed \cup {SegOf(@.active)}, active |-> 0]]
    /\ UNCHANGED <<written, folder, round>>

To(m, step, files) ==
    [round[m] EXCEPT !.step = step, !.listed = files, !.todo = files, !.copied = FALSE]

\* bring, up to the decision whether there is something to bring.
Begin(m) ==
    /\ round[m].step = "idle"
    /\ LET known == IF FilesOf(folder) = {} THEN Unasked ELSE Alike(folder, home[m])
           wants == /\ FilesOf(folder) # {} /\ ~AllOf(folder, known)
                    /\ m = Owner => OursWentMissing(home[m], folder)
           next  == IF wants THEN To(m, "staging", FilesOf(folder)) ELSE To(m, "giving", {})
       IN  round' = [round EXCEPT ![m] = [next EXCEPT !.known = known]]
    /\ UNCHANGED <<written, home, folder, mishaps>>

\* The round with one more file staged.
Staging(m, from, name) ==
    [round[m] EXCEPT !.todo = @ \ {name}, !.staged = CopyFile(from, @, name)]

\* staged: one file copied aside, ours where it is known to be the same.  One that has gone since
\* it was listed leaves the whole history out this time.
Stage(m) ==
    /\ round[m].step = "staging"
    /\ \E name \in round[m].todo :
        LET from == IF name \in round[m].known \cap FilesOf(home[m]) THEN home[m] ELSE folder
        IN  round' = [round EXCEPT ![m] =
                IF name \in FilesOf(from)
                THEN Staging(m, from, name)
                ELSE [To(m, "giving", {}) EXCEPT !.staged = Nothing]]
    /\ UNCHANGED <<written, home, folder, mishaps>>

\* Mutant: what was staged is taken on its count alone.
AcceptedOnItsCount(m) == Count(round[m].staged) >= Count(home[m])

\* What was staged answers for itself and is no shorter than what is here; our own history is
\* looked at again under its lock.
Accepted(m) ==
    /\ ChainHolds(round[m].staged)
    /\ IF m = Owner
       THEN OursWentMissing(home[m], round[m].staged)
       ELSE Count(round[m].staged) >= Count(home[m])

Check(m) ==
    /\ round[m].step = "staging" /\ round[m].todo = {}
    /\ round' = [round EXCEPT ![m] =
            IF Accepted(m)
            THEN To(m, "installing", FilesOf(@.staged))
            ELSE [To(m, "giving", {}) EXCEPT !.staged = Nothing]]
    /\ UNCHANGED <<written, home, folder, mishaps>>

-----------------------------------------------------------------------------
(* copy_segments, one file a step: the closed ones first, then the active one *)

\* Mutant: the active file goes first.
NewestFirst(m, name) == name \in round[m].todo /\ \A other \in round[m].todo : other <= name

NextFile(m, name) == name \in round[m].todo /\ \A other \in round[m].todo : name <= other

\* The file needs no copying: it stands there already, as far as the memo or a comparison tells.
Stands(m, from, into, name) ==
    \/ name # Active /\ name \in round[m].known
    \/ name \in Alike(from, into)

\* The active file is not copied when it only repeats a closed one that was listed with it.
Spent(m, from, name) == name = Active /\ LeftOver(round[m].listed, from)

Copied(m, from, into, name) ==
    IF Stands(m, from, into, name) \/ Spent(m, from, name) THEN into ELSE CopyFile(from, into, name)

\* The round after a file; once something was copied the memo is no longer believed.
Copying(m, from, into, name) ==
    [round[m] EXCEPT !.todo = @ \ {name},
                     !.copied = @ \/ ~(Stands(m, from, into, name) \/ Spent(m, from, name))]

Forgetting(r) == [r EXCEPT !.known = IF r.copied THEN Unasked ELSE @, !.listed = {}, !.copied = FALSE]

Install(m) ==
    /\ round[m].step = "installing"
    /\ \E name \in Names :
        /\ NextFile(m, name)
        /\ home' = [home EXCEPT ![m] = Copied(m, round[m].staged, @, name)]
        /\ LET after == Copying(m, round[m].staged, home[m], name)
           IN  round' = [round EXCEPT ![m] =
                   IF after.todo # {} THEN after
                   ELSE [Forgetting(after) EXCEPT !.step = "giving", !.staged = Nothing]]
    /\ UNCHANGED <<written, folder, mishaps>>

\* The owner writes what it has unless the folder holds more of it; the others hand their copy on
\* only where it reaches further than the folder's.
Gives(m, known) ==
    IF m = Owner
    THEN ~OursWentMissing(home[m], folder)
    ELSE ~AllOf(home[m], known) /\ OursReachesFurther(home[m], folder)

Give(m) ==
    /\ round[m].step = "giving"
    /\ LET known == IF round[m].known = Unasked THEN Alike(folder, home[m]) ELSE round[m].known
       IN  round' = [round EXCEPT ![m] =
               IF Gives(m, known) /\ FilesOf(home[m]) # {}
               THEN [To(m, "pushing", FilesOf(home[m])) EXCEPT !.known = known]
               ELSE Idle]
    /\ UNCHANGED <<written, home, folder, mishaps>>

\* An active file renamed since it was listed fails the round.
Push(m) ==
    /\ round[m].step = "pushing"
    /\ \E name \in Names :
        /\ NextFile(m, name)
        /\ IF name \in FilesOf(home[m])
           THEN /\ folder' = Copied(m, home[m], folder, name)
                /\ LET after == Copying(m, home[m], folder, name)
                   IN  round' = [round EXCEPT ![m] = IF after.todo # {} THEN after ELSE Idle]
           ELSE /\ folder' = folder
                /\ round' = [round EXCEPT ![m] = Idle]
    /\ UNCHANGED <<written, home, mishaps>>

-----------------------------------------------------------------------------
(* What goes wrong                                                         *)

Crash(m) ==
    /\ Mishap("crash")
    /\ round[m].step # "idle"
    /\ round' = [round EXCEPT ![m] = Idle]
    /\ UNCHANGED <<written, home, folder>>

\* Somebody deletes the log's directory in the shared folder.
Emptied ==
    /\ folder # Nothing
    /\ Mishap(IF \A m \in Machines : round[m].step = "idle" THEN "emptied" ELSE "emptied_in_a_round")
    /\ folder' = Nothing
    /\ UNCHANGED <<written, home, round>>

\* The owner's directory as it was after n events.
AsOf(n) ==
    IF n = 0 THEN Nothing ELSE [closed |-> 1..(SegOf(n) - 1), active |-> n]

\* Somebody puts an older copy of the owner's data in its place while nothing runs there.
SetBack ==
    /\ Mishap("set_back")
    /\ round[Owner].step = "idle"
    /\ \E n \in 0..(written - 1) : home' = [home EXCEPT ![Owner] = AsOf(n)]
    /\ UNCHANGED <<written, folder, round>>

RoundStep(m) == Begin(m) \/ Stage(m) \/ Check(m) \/ Install(m) \/ Give(m) \/ Push(m)

Next ==
    \/ Write \/ Rotate \/ Emptied \/ SetBack
    \/ \E m \in Machines : RoundStep(m) \/ Crash(m)

Spec == Init /\ [][Next]_vars

\* Every machine goes on with its rounds (the app starts one on its own again and again).
FairSpec == Spec /\ \A m \in Machines : WF_vars(RoundStep(m))

\* The owner may be gone for good.
FairToKeepers == Spec /\ \A k \in Keepers : WF_vars(RoundStep(k))

-----------------------------------------------------------------------------
(* What is promised                                                        *)

\* Every variable keeps to its type: a log holds no file but closed segments and the active one,
\* and a round no step but those of bring and of handing on.
TypeOK ==
    /\ written \in 0..MaxEvents
    /\ home \in [Machines -> Dirs]
    /\ folder \in Dirs
    /\ round \in [Machines -> Rounds]
    /\ mishaps \in 0..MaxMishaps

\* Whatever was pushed, deleted, cut short or put back around it, what a machine keeps of
\* another's log is the log's own beginning, with no line missing in between, and its chain still
\* answers: bring checks and installs from a staged copy, file by file and with rounds cut off
\* between two files.
CopiesAreHistories ==
    \A k \in Keepers : EventsOf(home[k]) = 1..Count(home[k]) /\ ChainHolds(home[k])

\* No step takes a line away from a copy, and but for a backup put back none from the owner:
\* bring lets in only a history as long as the one here, for our own name a longer one that opens
\* with it, whatever shorter one the folder has come to hold.
CopiesGrow ==
    [][\A m \in Machines :
        EventsOf(home[m]) \subseteq EventsOf(home'[m]) \/ (m = Owner /\ SetBack)]_vars

\* Every machine that reads the folder between two copied files finds a history it could take
\* (the order of copy_segments, whoever else is copying): true unless the log is deleted from the
\* folder under a round, or its owner rotates between the files of a push.
FolderIsAHistory == ChainHolds(folder)

\* In the end every copy is what the owner has, the folder having been deleted or misread half
\* way or the owner set back: carry_through keeps pushing and bringing until the sides agree.
Converges == <>[](\A k \in Keepers : EventsOf(home[k]) = EventsOf(home[Owner]))

\* What one machine keeps of the log reaches all the others, the owner gone and the folder
\* emptied: hand_on_leaving gives the folder what it lost (the test
\* a_history_this_machine_inherited_reaches_the_folder_too, lib_test.rs:2829).
HandedOn ==
    \A e \in 1..MaxEvents :
        (\E k \in Keepers : e \in EventsOf(home[k])) ~> (\A k \in Keepers : e \in EventsOf(home[k]))

\* A line somebody keeps comes back to its owner, whose directory was set back: the folder never
\* becomes shorter for good, and bring's own branch restores from it
\* (a_machine_that_lost_its_own_history_takes_it_back_from_the_folder, lib_test.rs:3039).
TakenBack ==
    \A e \in 1..MaxEvents :
        (\E k \in Keepers : e \in EventsOf(home[k])) ~> e \in EventsOf(home[Owner])
=============================================================================
