------------------------------ MODULE Stitching ------------------------------
(***************************************************************************)
(* Whose history a folder holds.  Every store has a name, minted when it   *)
(* is first opened; a round goes on only where the folder carries the      *)
(* machine's own name, where the folder is new, or where the machine is.   *)
(* A folder of another name opens three doors: to stitch the two histories *)
(* (an event that says so, and then the folder's name), to take the        *)
(* folder's (the machine starts anew), or to take the folder over.         *)
(*                                                                         *)
(* One folder, which every machine sees as it is.  A log is a length: its  *)
(* owner alone writes it, and a copy is a beginning of it (LogCarry says   *)
(* how far that is so).  Left out: names that clash and logs that cannot   *)
(* be read (Kin::Clash, Kin::Unsure), machines removed, admission,         *)
(* documents and attachments, and the step a take-over can be cut at.      *)
(***************************************************************************)
EXTENDS Naturals, Sequences, FiniteSets

CONSTANTS
    Machines,
    Writers,        \* the machines somebody writes on; the others only carry
    Folder,         \* the one place all of them carry to
    None,           \* no name
    AtOnce,         \* whether rounds of two machines, or a round and a door, may overlap
    MaxResets,      \* how often a machine starts anew, a bound of the model
    MaxWords,       \* how long a log grows by plain writing, a bound of the model
    MaxDoors,       \* how often a folder or a store is given up, a bound of the model
    Mishaps,        \* a subset of AllMishaps
    MaxMishaps      \* a bound of the model

AllMishaps == {"crash", "emptied", "late"}

\* A machine that starts anew writes under a new device name.
Devices == Machines \X (0 .. MaxResets)

\* A store is named by the device that first opened it.
Stores == Devices

Places == Machines \union {Folder}

ASSUME StitchingAssumption ==
    /\ IsFiniteSet(Machines)
    /\ Writers \subseteq Machines
    /\ Folder \notin Machines
    /\ None \notin Stores
    /\ AtOnce \in BOOLEAN
    /\ {MaxResets, MaxWords, MaxDoors, MaxMishaps} \subseteq Nat
    /\ Mishaps \subseteq AllMishaps

VARIABLES
    device,     \* the device each machine writes as
    mark,       \* the name in the .store-id of each place
    said,       \* what each device ever wrote: the pair of names each event holds together
    has,        \* how much of each device's log each place holds
    carried,    \* the device whose round here the machine's memo remembers
    doing,      \* what each machine is in the middle of
    doors,      \* how often a folder or a store was given up
    mishaps     \* how many mishaps there were

vars == <<device, mark, said, has, carried, doing, doors, mishaps>>

Idle == [at |-> "idle", name |-> None]

TypeOK ==
    /\ device \in [Machines -> Devices]
    /\ mark \in [Places -> Stores \union {None}]
    /\ \A m \in Machines : device[m][1] = m /\ mark[m] # None
    /\ \A d \in Devices : said[d] \in Seq(Stores \X Stores)
    /\ DOMAIN has = Places
    /\ \A p \in Places : DOMAIN has[p] = Devices /\ \A d \in Devices : has[p][d] \in 0 .. Len(said[d])
    /\ \A m \in Machines : has[m][device[m]] = Len(said[device[m]])
    /\ carried \in [Machines -> Devices \union {None}]
    /\ doing \in [Machines -> [at : {"idle", "taking", "naming", "giving", "stitching"},
                               name : Stores \union {None}]]
    /\ doors \in 0 .. MaxDoors
    /\ mishaps \in 0 .. MaxMishaps

Nothing == [d \in Devices |-> 0]

Init ==
    /\ device = [m \in Machines |-> <<m, 0>>]
    /\ mark = [p \in Places |-> IF p = Folder THEN None ELSE <<p, 0>>]
    /\ said = [d \in Devices |-> <<>>]
    /\ has = [p \in Places |-> Nothing]
    /\ carried = [m \in Machines |-> None]
    /\ doing = [m \in Machines |-> Idle]
    /\ doors = 0
    /\ mishaps = 0

-----------------------------------------------------------------------------
(* What is read. *)

Inhabited(p) == \E d \in Devices : has[p][d] > 0

\* The memo of a machine that started anew is gone with its cache; one another device
\* left does not count.
BeenHere(m) == carried[m] = device[m]

\* Mutant: the doors are not offered to a machine that carried here before.
ApartAtFirstOnly(m) ==
    mark[Folder] # None /\ mark[Folder] # mark[m] /\ Inhabited(m) /\ ~BeenHere(m)

Apart(m) == mark[Folder] # None /\ mark[Folder] # mark[m] /\ Inhabited(m)

\* Two copies of one log, of which one is the beginning of the other.
SameLineage(m) == \E d \in Devices : has[m][d] > 0 /\ has[Folder][d] > 0

Free(m) == doing[m] = Idle /\ (AtOnce \/ \A o \in Machines : doing[o] = Idle)

\* The longer of two copies, log by log.
Further(mine, theirs) == [d \in Devices |-> IF mine[d] < theirs[d] THEN theirs[d] ELSE mine[d]]

May(kind) == kind \in Mishaps /\ mishaps < MaxMishaps

-----------------------------------------------------------------------------
(* A machine on its own. *)

Says(m, event) ==
    /\ said' = [said EXCEPT ![device[m]] = Append(@, event)]
    /\ has' = [has EXCEPT ![m][device[m]] = @ + 1]

Write(m) ==
    /\ m \in Writers
    /\ Len(said[device[m]]) < MaxWords
    /\ Says(m, <<mark[m], mark[m]>>)
    /\ UNCHANGED <<device, mark, carried, doing, doors, mishaps>>

-----------------------------------------------------------------------------
(* A round: whose history is there, what it holds, its name, what is given. *)

\* The name a round goes on under, or None where it stops.
Settled(m, again) ==
    IF mark[Folder] # None
    THEN IF ~Inhabited(m) \/ mark[Folder] = mark[m] THEN mark[Folder] ELSE None
    ELSE IF ~Inhabited(Folder) /\ (again \/ ~BeenHere(m)) THEN mark[m] ELSE None

Begin(m, again) ==
    /\ Free(m)
    /\ Settled(m, again) # None
    /\ mark' = [mark EXCEPT ![m] = Settled(m, again)]
    /\ doing' = [doing EXCEPT ![m] = [at |-> "taking", name |-> Settled(m, again)]]
    /\ UNCHANGED <<device, said, has, carried, doors, mishaps>>

Take(m) ==
    /\ doing[m].at = "taking"
    /\ has' = [has EXCEPT ![m] = Further(@, has[Folder])]
    /\ doing' = [doing EXCEPT ![m].at = "naming"]
    /\ UNCHANGED <<device, mark, said, carried, doors, mishaps>>

\* Some of the folder's logs are not on this disk yet.
TakeLate(m) ==
    /\ doing[m].at = "taking"
    /\ May("late")
    /\ \E d \in Devices :
        /\ has[m][d] < has[Folder][d]
        /\ has' = [has EXCEPT ![m] = Further(@, [has[Folder] EXCEPT ![d] = 0])]
    /\ doing' = [doing EXCEPT ![m].at = "naming"]
    /\ mishaps' = mishaps + 1
    /\ UNCHANGED <<device, mark, said, carried, doors>>

\* The name the round settled on at its beginning is written over whatever is there now.
Name(m) ==
    /\ doing[m].at = "naming"
    /\ mark' = [mark EXCEPT ![Folder] = doing[m].name]
    /\ doing' = [doing EXCEPT ![m].at = "giving"]
    /\ UNCHANGED <<device, said, has, carried, doors, mishaps>>

\* Its own log and those it holds further than the folder; then the memo.
Give(m) ==
    /\ doing[m].at = "giving"
    /\ has' = [has EXCEPT ![Folder] = Further(@, has[m])]
    /\ carried' = [carried EXCEPT ![m] = device[m]]
    /\ doing' = [doing EXCEPT ![m] = Idle]
    /\ UNCHANGED <<device, mark, said, doors, mishaps>>

-----------------------------------------------------------------------------
(* The three doors. *)

\* Histories that share a log are one already: only the name is taken.
StitchKin(m) ==
    /\ Free(m) /\ Apart(m)
    /\ SameLineage(m)
    /\ mark' = [mark EXCEPT ![m] = mark[Folder]]
    /\ UNCHANGED <<device, said, has, carried, doing, doors, mishaps>>

\* Mutant: strangers are stitched as kin are, by the name alone.
StitchStrangersSilently(m) ==
    /\ Free(m) /\ Apart(m)
    /\ ~SameLineage(m)
    /\ doing' = [doing EXCEPT ![m] = [at |-> "stitching", name |-> mark[Folder]]]
    /\ UNCHANGED <<device, mark, said, has, carried, doors, mishaps>>

\* The event is written first ...
StitchStrangers(m) ==
    /\ Free(m) /\ Apart(m)
    /\ ~SameLineage(m)
    /\ Says(m, <<mark[m], mark[Folder]>>)
    /\ doing' = [doing EXCEPT ![m] = [at |-> "stitching", name |-> mark[Folder]]]
    /\ UNCHANGED <<device, mark, carried, doors, mishaps>>

\* ... and then the name.
Renamed(m) ==
    /\ doing[m].at = "stitching"
    /\ mark' = [mark EXCEPT ![m] = doing[m].name]
    /\ doing' = [doing EXCEPT ![m] = Idle]
    /\ UNCHANGED <<device, said, has, carried, doors, mishaps>>

\* Mutant: the machine starts anew under the device name it had.
StartAnewAsItWas(m) ==
    /\ Free(m) /\ Apart(m)
    /\ device[m][2] < MaxResets /\ doors < MaxDoors
    /\ mark' = [mark EXCEPT ![m] = <<m, device[m][2] + 1>>]
    /\ has' = [has EXCEPT ![m] = Nothing]
    /\ carried' = [carried EXCEPT ![m] = None]
    /\ doors' = doors + 1
    /\ UNCHANGED <<device, said, doing, mishaps>>

\* Take what the folder has: the store goes, and with it the memo; the next to be
\* opened has a name and a device of its own, and nothing in it.
StartAnew(m) ==
    /\ Free(m) /\ Apart(m)
    /\ device[m][2] < MaxResets /\ doors < MaxDoors
    /\ LET now == <<m, device[m][2] + 1>>
       IN  /\ device' = [device EXCEPT ![m] = now]
           /\ mark' = [mark EXCEPT ![m] = now]
    /\ has' = [has EXCEPT ![m] = Nothing]
    /\ carried' = [carried EXCEPT ![m] = None]
    /\ doors' = doors + 1
    /\ UNCHANGED <<said, doing, mishaps>>

\* Keep this machine: what the folder held goes, and it is given this store's name.
TakeOver(m) ==
    /\ Free(m) /\ Apart(m)
    /\ doors < MaxDoors
    /\ mark' = [mark EXCEPT ![Folder] = mark[m]]
    /\ has' = [has EXCEPT ![Folder] = Nothing]
    /\ doors' = doors + 1
    /\ UNCHANGED <<device, said, carried, doing, mishaps>>

-----------------------------------------------------------------------------
(* What goes wrong. *)

Crash(m) ==
    /\ May("crash")
    /\ doing[m] # Idle
    /\ doing' = [doing EXCEPT ![m] = Idle]
    /\ mishaps' = mishaps + 1
    /\ UNCHANGED <<device, mark, said, has, carried, doors>>

\* Somebody empties the folder.
Emptied ==
    /\ May("emptied")
    /\ AtOnce \/ \A m \in Machines : doing[m] = Idle
    /\ mark[Folder] # None
    /\ mark' = [mark EXCEPT ![Folder] = None]
    /\ has' = [has EXCEPT ![Folder] = Nothing]
    /\ mishaps' = mishaps + 1
    /\ UNCHANGED <<device, said, carried, doing, doors>>

Step(m) == Take(m) \/ TakeLate(m) \/ Name(m) \/ Give(m) \/ Renamed(m)

Stitch(m) == StitchKin(m) \/ StitchStrangers(m)

\* What the person comes back to: a round, or the question where the two are apart.
Attend(m) == Begin(m, TRUE) \/ Stitch(m)

Next ==
    \/ Emptied
    \/ \E m \in Machines :
        \/ Write(m) \/ Step(m) \/ Stitch(m) \/ StartAnew(m) \/ TakeOver(m) \/ Crash(m)
        \/ \E again \in BOOLEAN : Begin(m, again)

Spec == Init /\ [][Next]_vars

\* A machine goes on with its rounds, and where it is asked its person stitches, until
\* the two are stitched; where the folder was emptied the person asks again.  Rounds
\* are timed: no machine's is always the one that finds another at work.
FairSpec == Spec /\ \A m \in Machines : WF_vars(Step(m)) /\ SF_vars(Attend(m))

-----------------------------------------------------------------------------
(* Properties. *)

\* What the logs of a place hold together.
Told(p) == UNION {{said[d][i] : i \in 1 .. has[p][d]} : d \in Devices}

\* Every name is reached from every other: no part of them is closed on its own.
AllJoined(pairs) ==
    LET names == UNION {{e[1], e[2]} : e \in pairs}
    IN  \A part \in SUBSET names :
            (\A e \in pairs : e[1] \in part <=> e[2] \in part) => part \in {{}, names}

\* The machines are in one store: one name, and all of every log everywhere.
Agreed == \A m \in Machines : mark[m] = mark[Folder] /\ has[m] = has[Folder]

\* Where machines have come to one store, its logs hold the events that joined what it
\* is made of: from any name written under, every other is reached, so a seed kept under
\* a name that was taken in is found (State::forebears, app identity.rs kept).
JoinsAreTold == Agreed => AllJoined(Told(Folder))

\* However the stitching was cut, carried on with it comes to one store.
ComesToOneStore == <>[]Agreed
=============================================================================
