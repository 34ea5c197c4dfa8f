--------------------------- MODULE StitchingProofs ---------------------------
(***************************************************************************)
(* What is proved of Stitching for any number of machines, words, mishaps  *)
(* and doors: its types with rounds in any order, and, with rounds one     *)
(* after the other, that the logs of a store are joined by what was        *)
(* written, so that no join is silent where nobody starts anew.            *)
(***************************************************************************)
EXTENDS Stitching, TLAPS

-----------------------------------------------------------------------------
(* Types                                                                   *)

Copies == [Devices -> Nat]
Logs   == [Devices -> Seq(Stores \X Stores)]
Names  == Stores \union {None}
Doings == [at : {"idle", "taking", "naming", "giving", "stitching"}, name : Names]

Types ==
    /\ device \in [Machines -> Devices]
    /\ mark \in [Places -> Names]
    /\ said \in Logs
    /\ has \in [Places -> Copies]
    /\ carried \in [Machines -> Devices \union {None}]
    /\ doing \in [Machines -> Doings]
    /\ doors \in 0 .. MaxDoors
    /\ mishaps \in 0 .. MaxMishaps

\* A machine writes its own log and holds all of it.
OwnLog == \A m \in Machines : device[m][1] = m /\ has[m][device[m]] = Len(said[device[m]])

Named == \A m \in Machines : mark[m] # None /\ (doing[m].at # "idle" => doing[m].name # None)

Beginnings == \A p \in Places, d \in Devices : has[p][d] <= Len(said[d])

\* Nothing is written yet under the names a machine has not come to.
NotYet == \A m \in Machines, n \in 0 .. MaxResets : device[m][2] < n => said[<<m, n>>] = <<>>

Standing == OwnLog /\ Named /\ Beginnings /\ NotYet

TInv == Types /\ Standing

LEMMA Constants ==
    /\ Folder \in Places /\ Folder \notin Machines
    /\ \A m \in Machines : m \in Places /\ m # Folder
    /\ None \notin Stores /\ Stores = Devices
    /\ MaxResets \in Nat /\ MaxWords \in Nat /\ MaxDoors \in Nat /\ MaxMishaps \in Nat
    /\ Nothing \in Copies /\ Idle \in Doings
BY StitchingAssumption DEF Places, Stores, Nothing, Copies, Idle, Doings, Names

LEMMA FurtherIs ==
    ASSUME NEW mine \in Copies, NEW theirs \in Copies
    PROVE  /\ Further(mine, theirs) \in Copies
           /\ \A d \in Devices :
                /\ Further(mine, theirs)[d] \in {mine[d], theirs[d]}
                /\ Further(mine, theirs)[d] >= mine[d]
                /\ Further(mine, theirs)[d] >= theirs[d]
BY DEF Further, Copies

\* A place that is given what is no more than was written.
LEMMA TakenTypes ==
    ASSUME TInv, NEW p \in Places, NEW more \in Copies,
           \A d \in Devices : more[d] <= Len(said[d]),
           has' = [has EXCEPT ![p] = Further(has[p], more)], said' = said, device' = device
    PROVE  has' \in [Places -> Copies] /\ OwnLog' /\ Beginnings' /\ NotYet'
<1> DEFINE new == Further(has[p], more)
<1>1. has[p] \in Copies /\ has \in [Places -> Copies]
  BY DEF TInv, Types
<1>2. /\ new \in Copies
      /\ \A d \in Devices : /\ new[d] \in {has[p][d], more[d]}
                            /\ new[d] >= has[p][d] /\ new[d] >= more[d]
  BY <1>1, FurtherIs
<1>3. has' = [has EXCEPT ![p] = new]
  OBVIOUS
<1> HIDE DEF new
<1>4. has' \in [Places -> Copies]
  BY <1>1, <1>2, <1>3
<1>5. Beginnings'
  <2> SUFFICES ASSUME NEW q \in Places, NEW d \in Devices
               PROVE  has'[q][d] <= Len(said[d])
    BY DEF Beginnings
  <2>1. has[q][d] <= Len(said[d]) /\ has[p][d] <= Len(said[d]) /\ more[d] <= Len(said[d])
    BY DEF TInv, Standing, Beginnings
  <2>2. CASE q = p
    BY <2>1, <2>2, <1>1, <1>2, <1>3
  <2>3. CASE q # p
    BY <2>1, <2>3, <1>1, <1>3
  <2> QED BY <2>2, <2>3
<1>6. OwnLog'
  <2> SUFFICES ASSUME NEW m \in Machines
               PROVE  device[m][1] = m /\ has'[m][device[m]] = Len(said[device[m]])
    BY DEF OwnLog
  <2>1. device[m] \in Devices /\ m \in Places
    BY Constants DEF TInv, Types
  <2>2. device[m][1] = m /\ has[m][device[m]] = Len(said[device[m]])
    BY DEF TInv, Standing, OwnLog
  <2>3. Len(said[device[m]]) \in Nat /\ more[device[m]] \in Nat /\ more[device[m]] <= Len(said[device[m]])
    BY <2>1 DEF TInv, Types, Logs, Copies
  <2>4. CASE m = p
    BY <2>1, <2>2, <2>3, <2>4, <1>1, <1>2, <1>3
  <2>5. CASE m # p
    BY <2>1, <2>2, <2>5, <1>1, <1>3
  <2> QED BY <2>4, <2>5
<1>7. NotYet'
  BY DEF TInv, Standing, NotYet
<1> QED BY <1>4, <1>5, <1>6, <1>7

\* The folder emptied.
LEMMA EmptiedTypes ==
    ASSUME TInv, has' = [has EXCEPT ![Folder] = Nothing], said' = said, device' = device
    PROVE  has' \in [Places -> Copies] /\ OwnLog' /\ Beginnings' /\ NotYet'
<1>1. has' \in [Places -> Copies] /\ \A m \in Machines : has'[m] = has[m]
  BY Constants DEF TInv, Types
<1>2. Beginnings'
  <2> SUFFICES ASSUME NEW q \in Places, NEW d \in Devices
               PROVE  has'[q][d] <= Len(said[d])
    BY DEF Beginnings
  <2>1. has[q][d] <= Len(said[d]) /\ Len(said[d]) \in Nat
    BY DEF TInv, Standing, Beginnings, Types, Logs
  <2>2. has'[q] = has[q] \/ has'[q][d] = 0
    BY Constants DEF TInv, Types, Nothing
  <2> QED BY <2>1, <2>2
<1>3. OwnLog' /\ NotYet'
  BY <1>1 DEF TInv, Standing, OwnLog, NotYet
<1> QED BY <1>1, <1>2, <1>3

\* What a log is once its owner has written in it.
LEMMA SaidIs ==
    ASSUME TInv, NEW m \in Machines, NEW event \in Stores \X Stores, Says(m, event)
    PROVE  /\ said' \in Logs
           /\ \A d \in Devices \ {device[m]} : said'[d] = said[d]
           /\ device[m] \in Devices
           /\ Len(said'[device[m]]) = Len(said[device[m]]) + 1
           /\ \A i \in 1 .. Len(said[device[m]]) : said'[device[m]][i] = said[device[m]][i]
           /\ said'[device[m]][Len(said[device[m]]) + 1] = event
<1> DEFINE d == device[m]
<1>1. d \in Devices /\ said \in Logs /\ said[d] \in Seq(Stores \X Stores)
  BY DEF TInv, Types, Logs
<1>2. said' = [said EXCEPT ![d] = Append(said[d], event)]
  BY DEF Says
<1>3. Append(said[d], event) \in Seq(Stores \X Stores)
  BY <1>1
<1> HIDE DEF d
<1>4. said' \in Logs /\ said'[d] = Append(said[d], event) /\ \A e \in Devices \ {d} : said'[e] = said[e]
  BY <1>1, <1>2, <1>3 DEF Logs
<1>5. /\ Len(Append(said[d], event)) = Len(said[d]) + 1
      /\ \A i \in 1 .. Len(said[d]) : Append(said[d], event)[i] = said[d][i]
      /\ Append(said[d], event)[Len(said[d]) + 1] = event
  BY <1>1
<1> QED BY <1>1, <1>4, <1>5 DEF d

LEMMA SaysTypes ==
    ASSUME TInv, NEW m \in Machines, NEW event \in Stores \X Stores, Says(m, event), device' = device
    PROVE  said' \in Logs /\ has' \in [Places -> Copies] /\ OwnLog' /\ Beginnings' /\ NotYet'
<1> DEFINE d == device[m]
<1>1. /\ said' \in Logs /\ said \in Logs
      /\ \A e \in Devices \ {d} : said'[e] = said[e]
      /\ d \in Devices
      /\ Len(said'[d]) = Len(said[d]) + 1 /\ Len(said[d]) \in Nat
  BY SaidIs DEF TInv, Types, Logs
<1>2. has \in [Places -> Copies] /\ m \in Places
  BY Constants DEF TInv, Types
<1>3. has' = [has EXCEPT ![m] = [has[m] EXCEPT ![d] = has[m][d] + 1]]
  BY DEF Says
<1>4. has[m] \in Copies /\ has[m][d] \in Nat /\ has[m][d] = Len(said[d]) /\ d[1] = m
  BY <1>1, <1>2 DEF Copies, TInv, Standing, OwnLog
<1>5. [has[m] EXCEPT ![d] = has[m][d] + 1] \in Copies
  <2>1. has[m][d] + 1 \in Nat
    BY <1>4
  <2> HIDE DEF d
  <2> QED BY <2>1, <1>1, <1>4 DEF Copies
<1>6. has' \in [Places -> Copies]
  BY <1>2, <1>3, <1>5
<1>7. has'[m][d] = has[m][d] + 1
  BY <1>1, <1>2, <1>3, <1>4 DEF Copies
<1>8. \A e \in Devices \ {d} : has'[m][e] = has[m][e]
  BY <1>2, <1>3, <1>4 DEF Copies
<1>9. \A q \in Places \ {m} : has'[q] = has[q]
  BY <1>2, <1>3
<1> HIDE DEF d
<1>10. Beginnings'
  <2> SUFFICES ASSUME NEW q \in Places, NEW e \in Devices
               PROVE  has'[q][e] <= Len(said'[e])
    BY DEF Beginnings
  <2>1. has[q][e] <= Len(said[e]) /\ has[q][e] \in Nat /\ Len(said[e]) \in Nat
    BY <1>1, <1>2 DEF TInv, Standing, Beginnings, Copies, Logs
  <2>2. CASE q = m /\ e = d
    BY <2>2, <1>1, <1>4, <1>7
  <2>3. CASE q = m /\ e # d
    BY <2>1, <2>3, <1>1, <1>8
  <2>4. CASE q # m
    BY <2>1, <2>4, <1>1, <1>9
  <2> QED BY <2>2, <2>3, <2>4
<1>11. OwnLog'
  <2> SUFFICES ASSUME NEW o \in Machines
               PROVE  device[o][1] = o /\ has'[o][device[o]] = Len(said'[device[o]])
    BY DEF OwnLog
  <2>1. device[o] \in Devices /\ o \in Places /\ device[o][1] = o
        /\ has[o][device[o]] = Len(said[device[o]])
    BY Constants DEF TInv, Types, Standing, OwnLog
  <2>2. CASE o = m
    BY <2>1, <2>2, <1>1, <1>4, <1>7 DEF d
  <2>3. CASE o # m
    BY <2>1, <2>3, <1>1, <1>4, <1>9
  <2> QED BY <2>2, <2>3
<1>12. NotYet'
  <2> SUFFICES ASSUME NEW o \in Machines, NEW n \in 0 .. MaxResets, device[o][2] < n
               PROVE  said'[<<o, n>>] = <<>>
    BY DEF NotYet
  <2>1. said[<<o, n>>] = <<>> /\ <<o, n>> \in Devices /\ device[m] \in Devices
    BY DEF TInv, Types, Standing, NotYet, Devices
  <2>2. <<o, n>> # d
    <3> SUFFICES ASSUME <<o, n>> = d PROVE FALSE
      OBVIOUS
    <3>1. o = m /\ device[m][2] = n
      BY <1>4 DEF d
    <3>2. n \in Nat /\ device[m][2] < n
      BY <3>1, Constants
    <3> QED BY <3>1, <3>2
  <2> QED BY <2>1, <2>2, <1>1
<1> QED BY <1>1, <1>6, <1>10, <1>11, <1>12

LEMMA TInvAtFirst == Init => TInv
<1> SUFFICES ASSUME Init PROVE TInv
  OBVIOUS
<1>1. \A m \in Machines : <<m, 0>> \in Devices
  BY Constants DEF Devices
<1>2. device \in [Machines -> Devices] /\ carried \in [Machines -> Devices \union {None}]
  BY <1>1 DEF Init
<1>3. mark \in [Places -> Names]
  BY <1>1, Constants DEF Init, Names, Places
<1>4. said \in Logs /\ has \in [Places -> Copies] /\ doing \in [Machines -> Doings]
  BY Constants DEF Init, Logs
<1>5. doors \in 0 .. MaxDoors /\ mishaps \in 0 .. MaxMishaps
  BY Constants DEF Init
<1>6. \A d \in Devices : said[d] = <<>> /\ \A p \in Places : has[p][d] = 0
  BY DEF Init, Nothing
<1>7. OwnLog /\ Beginnings /\ NotYet
  BY <1>1, <1>6, Constants DEF Init, OwnLog, Beginnings, NotYet, Devices
<1>8. Named
  BY <1>1, Constants DEF Init, Named, Idle, Places
<1> QED BY <1>2, <1>3, <1>4, <1>5, <1>7, <1>8 DEF TInv, Types, Standing

LEMMA SettledIs ==
    ASSUME TInv, NEW m \in Machines, NEW again, Settled(m, again) # None
    PROVE  /\ Settled(m, again) \in Stores
           /\ Settled(m, again) = mark[m] \/ ~Inhabited(m)
           /\ mark[Folder] \in {None, Settled(m, again)}
           /\ mark[Folder] # None \/ ~Inhabited(Folder)
<1>1. mark[m] \in Names /\ mark[Folder] \in Names
  BY Constants DEF TInv, Types
<1> QED BY <1>1 DEF Settled, Names

LEMMA WriteTypes ==
    ASSUME TInv, NEW m \in Machines, Write(m)
    PROVE  TInv'
<1>1. mark[m] \in Stores
  BY Constants DEF TInv, Types, Standing, Named, Names
<1>2. Says(m, <<mark[m], mark[m]>>) /\ <<mark[m], mark[m]>> \in Stores \X Stores /\ device' = device
  BY <1>1 DEF Write
<1>3. said' \in Logs /\ has' \in [Places -> Copies] /\ OwnLog' /\ Beginnings' /\ NotYet'
  BY <1>2, SaysTypes
<1> QED BY <1>3 DEF TInv, Types, Standing, Named, Write

LEMMA BeginTypes ==
    ASSUME TInv, NEW m \in Machines, NEW again, Begin(m, again)
    PROVE  TInv'
<1> DEFINE name == Settled(m, again)
<1>1. name \in Stores
  BY SettledIs DEF Begin
<1>2. /\ mark' = [mark EXCEPT ![m] = name]
      /\ doing' = [doing EXCEPT ![m] = [at |-> "taking", name |-> name]]
      /\ UNCHANGED <<device, said, has, carried, doors, mishaps>>
  BY DEF Begin
<1> HIDE DEF name
<1>3. mark' \in [Places -> Names] /\ doing' \in [Machines -> Doings]
  BY <1>1, <1>2, Constants DEF TInv, Types, Names, Doings
<1>4. Named'
  BY <1>1, <1>2, Constants DEF TInv, Types, Standing, Named
<1> QED BY <1>2, <1>3, <1>4 DEF TInv, Types, Standing, OwnLog, Beginnings, NotYet

\* A machine goes from one step to the next.
LEMMA GoesOn ==
    ASSUME TInv, NEW m \in Machines, NEW at \in {"naming", "giving"},
           doing[m].at # "idle", doing' = [doing EXCEPT ![m].at = at]
    PROVE  /\ doing' \in [Machines -> Doings]
           /\ doing'[m] = [at |-> at, name |-> doing[m].name]
           /\ \A o \in Machines \ {m} : doing'[o] = doing[o]
           /\ mark' = mark => Named'
<1>1. doing \in [Machines -> Doings] /\ doing[m] \in Doings /\ doing[m].name # None
  BY DEF TInv, Types, Standing, Named
<1>2. [doing[m] EXCEPT !.at = at] = [at |-> at, name |-> doing[m].name]
  BY <1>1 DEF Doings
<1>3. doing' = [doing EXCEPT ![m] = [at |-> at, name |-> doing[m].name]]
  BY <1>2
<1>4. [at |-> at, name |-> doing[m].name] \in Doings
  BY <1>1 DEF Doings
<1>5. doing' \in [Machines -> Doings]
  BY <1>1, <1>3, <1>4
<1>6. doing'[m] = [at |-> at, name |-> doing[m].name] /\ \A o \in Machines \ {m} : doing'[o] = doing[o]
  BY <1>1, <1>3
<1>7. mark' = mark => Named'
  BY <1>1, <1>6 DEF TInv, Standing, Named
<1> QED BY <1>5, <1>6, <1>7

\* A machine is done, or cut.
LEMMA Rests ==
    ASSUME TInv, NEW m \in Machines, doing' = [doing EXCEPT ![m] = Idle]
    PROVE  /\ doing' \in [Machines -> Doings]
           /\ doing'[m].at = "idle"
           /\ \A o \in Machines \ {m} : doing'[o] = doing[o]
           /\ mark' = mark => Named'
<1>1. doing' \in [Machines -> Doings] /\ doing'[m] = Idle /\ \A o \in Machines \ {m} : doing'[o] = doing[o]
  BY Constants DEF TInv, Types
<1> QED BY <1>1 DEF Idle, TInv, Standing, Named

LEMMA TakeTypes ==
    ASSUME TInv, NEW m \in Machines, Take(m)
    PROVE  TInv'
<1>1. has[Folder] \in Copies /\ m \in Places
  BY Constants DEF TInv, Types
<1>2. \A d \in Devices : has[Folder][d] <= Len(said[d])
  BY Constants DEF TInv, Standing, Beginnings
<1>3. has' = [has EXCEPT ![m] = Further(has[m], has[Folder])] /\ said' = said /\ device' = device
  BY DEF Take
<1>4. has' \in [Places -> Copies] /\ OwnLog' /\ Beginnings' /\ NotYet'
  BY <1>1, <1>2, <1>3, TakenTypes
<1>5. doing[m].at # "idle" /\ doing' = [doing EXCEPT ![m].at = "naming"] /\ mark' = mark
  BY DEF Take
<1>6. doing' \in [Machines -> Doings] /\ Named'
  BY <1>5, GoesOn
<1> QED BY <1>4, <1>6 DEF TInv, Types, Standing, Take

\* What comes where one log is not there yet.
LEMMA LateIs ==
    ASSUME TInv, NEW d \in Devices
    PROVE  /\ [has[Folder] EXCEPT ![d] = 0] \in Copies
           /\ \A e \in Devices : [has[Folder] EXCEPT ![d] = 0][e] <= has[Folder][e]
           /\ \A e \in Devices : has[Folder][e] <= Len(said[e]) /\ Len(said[e]) \in Nat
<1>1. has[Folder] \in Copies /\ said \in Logs
  BY Constants DEF TInv, Types
<1>2. \A e \in Devices : has[Folder][e] <= Len(said[e])
  BY Constants DEF TInv, Standing, Beginnings
<1> QED BY <1>1, <1>2 DEF Copies, Logs

LEMMA TakeLateTypes ==
    ASSUME TInv, NEW m \in Machines, TakeLate(m)
    PROVE  TInv'
<1>1. PICK d \in Devices : has' = [has EXCEPT ![m] = Further(has[m], [has[Folder] EXCEPT ![d] = 0])]
  BY DEF TakeLate
<1> DEFINE more == [has[Folder] EXCEPT ![d] = 0]
<1>2. more \in Copies /\ m \in Places /\ \A e \in Devices : more[e] <= Len(said[e])
  <2>1. more \in Copies /\ \A e \in Devices : more[e] <= has[Folder][e]
    BY LateIs
  <2>2. \A e \in Devices : has[Folder][e] <= Len(said[e]) /\ Len(said[e]) \in Nat
    BY LateIs
  <2>3. has[Folder] \in Copies
    BY Constants DEF TInv, Types
  <2> HIDE DEF more
  <2> QED BY <2>1, <2>2, <2>3, Constants DEF Copies
<1>3. has' = [has EXCEPT ![m] = Further(has[m], more)] /\ said' = said /\ device' = device
  BY <1>1 DEF TakeLate
<1> HIDE DEF more
<1>4. has' \in [Places -> Copies] /\ OwnLog' /\ Beginnings' /\ NotYet'
  BY <1>2, <1>3, TakenTypes
<1>5. doing[m].at # "idle" /\ doing' = [doing EXCEPT ![m].at = "naming"] /\ mark' = mark
  BY DEF TakeLate
<1>6. doing' \in [Machines -> Doings] /\ Named'
  BY <1>5, GoesOn
<1>7. mishaps' \in 0 .. MaxMishaps
  BY Constants DEF TakeLate, May, TInv, Types
<1> QED BY <1>4, <1>6, <1>7 DEF TInv, Types, Standing, TakeLate

LEMMA NameTypes ==
    ASSUME TInv, NEW m \in Machines, Name(m)
    PROVE  TInv'
<1>1. doing[m].at # "idle" /\ doing' = [doing EXCEPT ![m].at = "giving"]
  BY DEF Name
<1>2. doing[m].name # None /\ doing[m].name \in Names
  BY <1>1 DEF TInv, Types, Standing, Named, Doings
<1>3. mark' \in [Places -> Names] /\ \A o \in Machines : mark'[o] = mark[o]
  BY <1>2, Constants DEF TInv, Types, Name
<1>4. /\ doing' \in [Machines -> Doings]
      /\ doing'[m] = [at |-> "giving", name |-> doing[m].name]
      /\ \A o \in Machines \ {m} : doing'[o] = doing[o]
  BY <1>1, GoesOn
<1>5. Named'
  BY <1>2, <1>3, <1>4 DEF TInv, Standing, Named
<1> QED BY <1>3, <1>4, <1>5 DEF TInv, Types, Standing, Name, OwnLog, Beginnings, NotYet

LEMMA GiveTypes ==
    ASSUME TInv, NEW m \in Machines, Give(m)
    PROVE  TInv'
<1>1. has[m] \in Copies /\ Folder \in Places
  BY Constants DEF TInv, Types
<1>2. \A d \in Devices : has[m][d] <= Len(said[d])
  BY Constants DEF TInv, Standing, Beginnings
<1>3. has' = [has EXCEPT ![Folder] = Further(has[Folder], has[m])] /\ said' = said /\ device' = device
  BY DEF Give
<1>4. has' \in [Places -> Copies] /\ OwnLog' /\ Beginnings' /\ NotYet'
  BY <1>1, <1>2, <1>3, TakenTypes
<1>5. doing' \in [Machines -> Doings] /\ Named'
  BY Rests DEF Give
<1>6. carried' \in [Machines -> Devices \union {None}]
  BY DEF Give, TInv, Types
<1> QED BY <1>4, <1>5, <1>6 DEF TInv, Types, Standing, Give

LEMMA StitchKinTypes ==
    ASSUME TInv, NEW m \in Machines, StitchKin(m)
    PROVE  TInv'
<1>1. mark[Folder] # None /\ mark[Folder] \in Names /\ mark' = [mark EXCEPT ![m] = mark[Folder]]
  BY Constants DEF StitchKin, Apart, TInv, Types
<1>2. mark' \in [Places -> Names] /\ Named'
  BY <1>1, Constants DEF StitchKin, TInv, Types, Standing, Named
<1> QED BY <1>2 DEF TInv, Types, Standing, StitchKin, OwnLog, Beginnings, NotYet

LEMMA StitchStrangersTypes ==
    ASSUME TInv, NEW m \in Machines, StitchStrangers(m)
    PROVE  TInv'
<1>1. mark[m] \in Stores /\ mark[Folder] \in Stores
  BY Constants DEF StitchStrangers, Apart, TInv, Types, Standing, Named, Names
<1>2. /\ Says(m, <<mark[m], mark[Folder]>>) /\ <<mark[m], mark[Folder]>> \in Stores \X Stores
      /\ device' = device
  BY <1>1 DEF StitchStrangers
<1>3. said' \in Logs /\ has' \in [Places -> Copies] /\ OwnLog' /\ Beginnings' /\ NotYet'
  BY <1>2, SaysTypes
<1>4. doing' \in [Machines -> Doings] /\ Named'
  BY <1>1, Constants DEF StitchStrangers, TInv, Types, Standing, Named, Doings, Names
<1> QED BY <1>3, <1>4 DEF TInv, Types, Standing, StitchStrangers

LEMMA RenamedTypes ==
    ASSUME TInv, NEW m \in Machines, Renamed(m)
    PROVE  TInv'
<1>1. doing[m].name # None /\ doing[m].name \in Names /\ mark' = [mark EXCEPT ![m] = doing[m].name]
  BY DEF Renamed, TInv, Types, Standing, Named, Doings
<1>2. mark' \in [Places -> Names] /\ \A o \in Machines : mark'[o] # None
  BY <1>1, Constants DEF TInv, Types, Standing, Named
<1>3. /\ doing' \in [Machines -> Doings] /\ doing'[m].at = "idle"
      /\ \A o \in Machines \ {m} : doing'[o] = doing[o]
  BY Rests DEF Renamed
<1>4. Named'
  BY <1>2, <1>3 DEF TInv, Standing, Named
<1> QED BY <1>2, <1>3, <1>4 DEF TInv, Types, Standing, Renamed, OwnLog, Beginnings, NotYet

LEMMA StartAnewTypes ==
    ASSUME TInv, NEW m \in Machines, StartAnew(m)
    PROVE  TInv'
<1> DEFINE now == <<m, device[m][2] + 1>>
<1>1. device \in [Machines -> Devices] /\ device[m] \in Devices /\ device[m][2] < MaxResets
  BY DEF StartAnew, TInv, Types
<1>2. now \in Devices /\ now[1] = m /\ now[2] = device[m][2] + 1 /\ device[m][2] \in 0 .. MaxResets
  BY <1>1, Constants DEF Devices
<1>3. said[now] = <<>>
  BY <1>2, Constants DEF TInv, Standing, NotYet, Devices
<1>4. /\ device' = [device EXCEPT ![m] = now] /\ mark' = [mark EXCEPT ![m] = now]
      /\ has' = [has EXCEPT ![m] = Nothing] /\ said' = said /\ doing' = doing
  BY DEF StartAnew
<1> HIDE DEF now
<1>5. /\ device' \in [Machines -> Devices] /\ device'[m] = now
      /\ \A o \in Machines \ {m} : device'[o] = device[o]
  BY <1>1, <1>2, <1>4
<1>6. has' \in [Places -> Copies] /\ has'[m] = Nothing /\ \A p \in Places \ {m} : has'[p] = has[p]
  BY <1>4, Constants DEF TInv, Types
<1>7. OwnLog'
  <2>1. \A o \in Machines \ {m} : device'[o][1] = o /\ has'[o][device'[o]] = Len(said[device'[o]])
    BY <1>5, <1>6, Constants DEF TInv, Standing, OwnLog
  <2>2. device'[m][1] = m /\ has'[m][device'[m]] = Len(said[device'[m]])
    BY <1>2, <1>3, <1>5, <1>6 DEF Nothing
  <2> QED BY <2>1, <2>2, <1>4 DEF OwnLog
<1>8. Beginnings'
  <2> SUFFICES ASSUME NEW p \in Places, NEW d \in Devices
               PROVE  has'[p][d] <= Len(said[d])
    BY <1>4 DEF Beginnings
  <2>1. has[p][d] <= Len(said[d]) /\ Len(said[d]) \in Nat
    BY DEF TInv, Types, Standing, Beginnings, Logs
  <2>2. has'[p] = has[p] \/ has'[p][d] = 0
    BY <1>6 DEF Nothing
  <2> QED BY <2>1, <2>2
<1>9. NotYet'
  <2> SUFFICES ASSUME NEW o \in Machines, NEW n \in 0 .. MaxResets, device'[o][2] < n
               PROVE  said[<<o, n>>] = <<>>
    BY <1>4 DEF NotYet
  <2>1. CASE o = m
    <3>1. device[m][2] < n
      BY <2>1, <1>2, <1>5, Constants
    <3> QED BY <3>1, <2>1 DEF TInv, Standing, NotYet
  <2>2. CASE o # m
    BY <2>2, <1>5 DEF TInv, Standing, NotYet
  <2> QED BY <2>1, <2>2
<1>10. mark' \in [Places -> Names] /\ Named'
  BY <1>2, <1>4, Constants DEF TInv, Types, Standing, Named, Names
<1>11. carried' \in [Machines -> Devices \union {None}] /\ doors' \in 0 .. MaxDoors
  BY Constants DEF StartAnew, TInv, Types
<1> QED BY <1>5, <1>6, <1>7, <1>8, <1>9, <1>10, <1>11 DEF TInv, Types, Standing, StartAnew

LEMMA TakeOverTypes ==
    ASSUME TInv, NEW m \in Machines, TakeOver(m)
    PROVE  TInv'
<1>1. mark[m] \in Names /\ mark' = [mark EXCEPT ![Folder] = mark[m]]
  BY Constants DEF TakeOver, TInv, Types
<1>2. mark' \in [Places -> Names] /\ Named'
  BY <1>1, Constants DEF TakeOver, TInv, Types, Standing, Named
<1>3. has' = [has EXCEPT ![Folder] = Nothing] /\ said' = said /\ device' = device
  BY DEF TakeOver
<1>4. has' \in [Places -> Copies] /\ OwnLog' /\ Beginnings' /\ NotYet'
  BY <1>3, EmptiedTypes
<1>5. doors' \in 0 .. MaxDoors
  BY Constants DEF TakeOver, TInv, Types
<1> QED BY <1>2, <1>4, <1>5 DEF TInv, Types, Standing, TakeOver

LEMMA CrashTypes ==
    ASSUME TInv, NEW m \in Machines, Crash(m)
    PROVE  TInv'
<1>1. doing' \in [Machines -> Doings] /\ Named'
  BY Rests DEF Crash
<1>2. mishaps' \in 0 .. MaxMishaps
  BY Constants DEF Crash, May, TInv, Types
<1> QED BY <1>1, <1>2 DEF TInv, Types, Standing, Crash, OwnLog, Beginnings, NotYet

LEMMA FolderEmptiedTypes ==
    ASSUME TInv, Emptied
    PROVE  TInv'
<1>1. mark' \in [Places -> Names] /\ Named'
  BY Constants DEF Emptied, TInv, Types, Standing, Named, Names
<1>2. has' = [has EXCEPT ![Folder] = Nothing] /\ said' = said /\ device' = device
  BY DEF Emptied
<1>3. has' \in [Places -> Copies] /\ OwnLog' /\ Beginnings' /\ NotYet'
  BY <1>2, EmptiedTypes
<1>4. mishaps' \in 0 .. MaxMishaps
  BY Constants DEF Emptied, May, TInv, Types
<1> QED BY <1>1, <1>3, <1>4 DEF TInv, Types, Standing, Emptied

LEMMA TInvStays == TInv /\ [Next]_vars => TInv'
<1> SUFFICES ASSUME TInv, [Next]_vars PROVE TInv'
  OBVIOUS
<1>1. CASE UNCHANGED vars
  BY <1>1 DEF TInv, Types, Standing, OwnLog, Named, Beginnings, NotYet, vars
<1>2. CASE Emptied
  BY <1>2, FolderEmptiedTypes
<1>3. CASE \E m \in Machines : Write(m) \/ StartAnew(m) \/ TakeOver(m) \/ Crash(m)
  BY <1>3, WriteTypes, StartAnewTypes, TakeOverTypes, CrashTypes
<1>4. CASE \E m \in Machines : Step(m)
  BY <1>4, TakeTypes, TakeLateTypes, NameTypes, GiveTypes, RenamedTypes DEF Step
<1>5. CASE \E m \in Machines : Stitch(m)
  BY <1>5, StitchKinTypes, StitchStrangersTypes DEF Stitch
<1>6. CASE \E m \in Machines, again \in BOOLEAN : Begin(m, again)
  BY <1>6, BeginTypes
<1> QED BY <1>1, <1>2, <1>3, <1>4, <1>5, <1>6 DEF Next

LEMMA TypedThen == TInv => TypeOK
<1> SUFFICES ASSUME TInv PROVE TypeOK
  OBVIOUS
<1>1. \A p \in Places : /\ DOMAIN has[p] = Devices
                        /\ \A d \in Devices : has[p][d] \in 0 .. Len(said[d])
  BY DEF TInv, Types, Standing, Beginnings, Copies, Logs
<1>2. \A d \in Devices : said[d] \in Seq(Stores \X Stores)
  BY DEF TInv, Types, Logs
<1>3. doing \in [Machines -> [at : {"idle", "taking", "naming", "giving", "stitching"},
                              name : Stores \union {None}]]
  BY DEF TInv, Types, Doings, Names
<1>4. mark \in [Places -> Stores \union {None}] /\ DOMAIN has = Places
  BY DEF TInv, Types, Names
<1> QED BY <1>1, <1>2, <1>3, <1>4 DEF TypeOK, TInv, Types, Standing, OwnLog, Named

\* Whatever the rounds, stitches, doors, crashes and emptied folders of any number of
\* machines, a place never holds more of a log than its owner wrote, the owner holds all of
\* it under the device it writes as now, and a store is never without a name.
THEOREM TypeCorrect == Spec => []TypeOK
<1>1. Init => TInv
  BY TInvAtFirst
<1>2. TInv /\ [Next]_vars => TInv'
  BY TInvStays
<1>3. TInv => TypeOK
  BY TypedThen
<1> QED BY <1>1, <1>2, <1>3, PTL DEF Spec

-----------------------------------------------------------------------------
(* What is joined.  Two names are joined by the logs where no set of names  *)
(* that every event is in or out of with both of its names parts them.      *)

Uncut(logs, part) ==
    \A d \in Devices : \A i \in 1 .. Len(logs[d]) : logs[d][i][1] \in part <=> logs[d][i][2] \in part

Joined(logs, a, b) ==
    \A part \in SUBSET Stores : Uncut(logs, part) => (a \in part <=> b \in part)

LEMMA JoinedToItself == ASSUME NEW logs, NEW a PROVE Joined(logs, a, a)
BY DEF Joined

LEMMA JoinedEitherWay ==
    ASSUME NEW logs, NEW a, NEW b, Joined(logs, a, b)
    PROVE  Joined(logs, b, a)
BY DEF Joined

LEMMA JoinedOn ==
    ASSUME NEW logs, NEW a, NEW b, NEW c, Joined(logs, a, b), Joined(logs, b, c)
    PROVE  Joined(logs, a, c)
BY DEF Joined

LEMMA EventsJoin ==
    ASSUME NEW logs, NEW d \in Devices, NEW i \in 1 .. Len(logs[d])
    PROVE  Joined(logs, logs[d][i][1], logs[d][i][2])
BY DEF Joined, Uncut

\* Logs that only grow keep joined what they joined.
Continues(logs, longer) ==
    \A d \in Devices : /\ Len(logs[d]) <= Len(longer[d])
                       /\ \A i \in 1 .. Len(logs[d]) : longer[d][i] = logs[d][i]

LEMMA StaysJoined ==
    ASSUME NEW logs \in Logs, NEW longer \in Logs, Continues(logs, longer),
           NEW a, NEW b, Joined(logs, a, b)
    PROVE  Joined(longer, a, b)
<1> SUFFICES ASSUME NEW part \in SUBSET Stores, Uncut(longer, part)
             PROVE  a \in part <=> b \in part
  BY DEF Joined
<1>1. Uncut(logs, part)
  <2> SUFFICES ASSUME NEW d \in Devices, NEW i \in 1 .. Len(logs[d])
               PROVE  logs[d][i][1] \in part <=> logs[d][i][2] \in part
    BY DEF Uncut
  <2>1. Len(logs[d]) \in Nat /\ Len(longer[d]) \in Nat
    BY DEF Logs
  <2>2. i \in 1 .. Len(longer[d]) /\ longer[d][i] = logs[d][i]
    BY <2>1 DEF Continues
  <2> QED BY <2>2 DEF Uncut
<1> QED BY <1>1 DEF Joined

-----------------------------------------------------------------------------
(* With rounds one after the other, the names a log was written under are   *)
(* joined, and a place that holds anything of a log goes by a name joined   *)
(* to it.                                                                    *)

OneLogOneStore ==
    \A d \in Devices : \A i \in 1 .. Len(said[d]) : Joined(said, said[d][i][1], said[d][1][1])

HeldUnderItsName ==
    \A p \in Places, d \in Devices :
        has[p][d] > 0 => mark[p] # None /\ Joined(said, mark[p], said[d][1][1])

InRound(m) == doing[m].at \in {"taking", "naming", "giving"}

\* A round keeps to the name it settled on, and nobody names the folder otherwise meanwhile.
RoundsKeepTheirName ==
    \A m \in Machines : InRound(m) =>
        /\ mark[m] = doing[m].name
        /\ mark[Folder] \in {None, doing[m].name}
        /\ doing[m].at = "giving" => mark[Folder] = doing[m].name

StitchesAreWritten ==
    \A m \in Machines : doing[m].at = "stitching" => Joined(said, mark[m], doing[m].name)

OneAtATime ==
    \A m \in Machines, o \in Machines :
        doing[m].at # "idle" /\ doing[o].at # "idle" => m = o

JInv == OneLogOneStore /\ HeldUnderItsName /\ RoundsKeepTheirName /\ StitchesAreWritten /\ OneAtATime

\* What is the same where nothing is written.
LEMMA SameLogs ==
    ASSUME JInv, said' = said
    PROVE  OneLogOneStore'
BY DEF JInv, OneLogOneStore

LEMMA FreeIs ==
    ASSUME ~AtOnce, NEW m \in Machines, Free(m)
    PROVE  \A o \in Machines : doing[o].at = "idle"
BY DEF Free, Idle

\* A place is given what is held under a name joined to its own.
LEMMA HeldTaken ==
    ASSUME TInv, JInv, NEW p \in Places, NEW more \in Copies,
           \A d \in Devices : more[d] > 0 => mark[p] # None /\ Joined(said, mark[p], said[d][1][1]),
           has' = [has EXCEPT ![p] = Further(has[p], more)], said' = said, mark' = mark
    PROVE  HeldUnderItsName'
<1> SUFFICES ASSUME NEW q \in Places, NEW d \in Devices, has'[q][d] > 0
             PROVE  mark[q] # None /\ Joined(said, mark[q], said[d][1][1])
  BY DEF HeldUnderItsName
<1>1. has \in [Places -> Copies] /\ has[p] \in Copies
  BY DEF TInv, Types
<1>2. Further(has[p], more)[d] \in {has[p][d], more[d]}
  BY <1>1, FurtherIs
<1>3. has[q][d] > 0 => mark[q] # None /\ Joined(said, mark[q], said[d][1][1])
  BY DEF JInv, HeldUnderItsName
<1>4. CASE q = p
  <2>1. has'[q][d] = Further(has[p], more)[d]
    BY <1>1, <1>4
  <2>2. has[q][d] > 0 \/ more[d] > 0
    BY <2>1, <1>2, <1>4
  <2> QED BY <2>2, <1>3, <1>4
<1>5. CASE q # p
  <2>1. has'[q] = has[q]
    BY <1>1, <1>5
  <2> QED BY <2>1, <1>3
<1> QED BY <1>4, <1>5

\* A place emptied has nothing to answer for.
LEMMA HeldEmptied ==
    ASSUME TInv, JInv, NEW p \in Places, has' = [has EXCEPT ![p] = Nothing], said' = said,
           \A q \in Places \ {p} : mark'[q] = mark[q]
    PROVE  HeldUnderItsName'
<1> SUFFICES ASSUME NEW q \in Places, NEW d \in Devices, has'[q][d] > 0
             PROVE  mark'[q] # None /\ Joined(said, mark'[q], said[d][1][1])
  BY DEF HeldUnderItsName
<1>1. q # p /\ has'[q] = has[q]
  BY DEF TInv, Types, Nothing
<1> QED BY <1>1 DEF JInv, HeldUnderItsName

\* A place renamed where it holds nothing, or to a name joined to its own.
LEMMA HeldRenamed ==
    ASSUME TInv, JInv, NEW p \in Places, has' = has, said' = said,
           \A q \in Places \ {p} : mark'[q] = mark[q], mark'[p] # None,
           ~Inhabited(p) \/ Joined(said, mark'[p], mark[p])
    PROVE  HeldUnderItsName'
<1> SUFFICES ASSUME NEW q \in Places, NEW d \in Devices, has[q][d] > 0
             PROVE  mark'[q] # None /\ Joined(said, mark'[q], said[d][1][1])
  BY DEF HeldUnderItsName
<1>1. mark[q] # None /\ Joined(said, mark[q], said[d][1][1])
  BY DEF JInv, HeldUnderItsName
<1>2. CASE q # p
  BY <1>1, <1>2
<1>3. CASE q = p
  <2>1. Joined(said, mark'[p], mark[p])
    BY <1>3 DEF Inhabited
  <2>2. Joined(said, mark'[p], said[d][1][1])
    BY <2>1, <1>1, <1>3, JoinedOn
  <2> QED BY <2>2, <1>3
<1> QED BY <1>2, <1>3

\* A machine writes under its own name.
LEMMA SaysJoined ==
    ASSUME TInv, JInv, NEW m \in Machines, NEW other \in Stores,
           Says(m, <<mark[m], other>>), mark' = mark
    PROVE  /\ Continues(said, said') /\ said \in Logs /\ said' \in Logs
           /\ OneLogOneStore' /\ HeldUnderItsName'
           /\ Joined(said', mark[m], other)
<1> DEFINE d == device[m]
           event == <<mark[m], other>>
<1>1. mark[m] \in Stores /\ m \in Places /\ mark[m] # None
  BY Constants DEF TInv, Types, Standing, Named, Names
<1>2. event \in Stores \X Stores /\ Says(m, event)
  BY <1>1
<1> HIDE DEF event
<1>3. /\ said' \in Logs
      /\ \A e \in Devices \ {d} : said'[e] = said[e]
      /\ d \in Devices
      /\ Len(said'[d]) = Len(said[d]) + 1
      /\ \A i \in 1 .. Len(said[d]) : said'[d][i] = said[d][i]
      /\ said'[d][Len(said[d]) + 1] = event
  BY <1>2, SaidIs
<1>4. said \in Logs /\ Len(said[d]) \in Nat /\ has[m][d] = Len(said[d])
  BY <1>3 DEF TInv, Types, Standing, OwnLog, Logs
<1>5. \A q \in Places, e \in Devices : (q # m \/ e # d) => has'[q][e] = has[q][e]
  BY <1>1, <1>3 DEF Says, TInv, Types, Copies
<1> HIDE DEF d
<1>6. Continues(said, said')
  <2> SUFFICES ASSUME NEW e \in Devices
               PROVE  /\ Len(said[e]) <= Len(said'[e])
                      /\ \A i \in 1 .. Len(said[e]) : said'[e][i] = said[e][i]
    BY DEF Continues
  <2>1. Len(said[e]) \in Nat
    BY <1>4 DEF Logs
  <2> QED BY <2>1, <1>3
<1>7. \A a, b : Joined(said, a, b) => Joined(said', a, b)
  BY <1>3, <1>4, <1>6, StaysJoined
<1>8. event[1] = mark[m] /\ event[2] = other
  BY DEF event
<1>9. Joined(said', mark[m], said'[d][1][1])
  <2>1. CASE Len(said[d]) = 0
    <3>1. said'[d][1][1] = mark[m]
      BY <2>1, <1>3, <1>8
    <3> QED BY <3>1, JoinedToItself
  <2>2. CASE Len(said[d]) > 0
    <3>1. Joined(said, mark[m], said[d][1][1])
      BY <2>2, <1>1, <1>3, <1>4 DEF JInv, HeldUnderItsName
    <3>2. said'[d][1] = said[d][1]
      BY <2>2, <1>3, <1>4
    <3>3. Joined(said', mark[m], said[d][1][1])
      BY <3>1, <1>7
    <3> QED BY <3>2, <3>3
  <2> QED BY <2>1, <2>2, <1>4
<1>10. Joined(said', mark[m], other)
  <2>1. Len(said[d]) + 1 \in 1 .. Len(said'[d])
    BY <1>3, <1>4
  <2>2. Joined(said', said'[d][Len(said[d]) + 1][1], said'[d][Len(said[d]) + 1][2])
    BY <2>1, <1>3, EventsJoin
  <2> QED BY <2>2, <1>3, <1>8
<1>11. OneLogOneStore'
  <2> SUFFICES ASSUME NEW e \in Devices, NEW i \in 1 .. Len(said'[e])
               PROVE  Joined(said', said'[e][i][1], said'[e][1][1])
    BY DEF OneLogOneStore
  <2>1. CASE e = d /\ i = Len(said[d]) + 1
    <3>1. said'[e][i][1] = mark[m]
      BY <2>1, <1>3, <1>8
    <3> QED BY <3>1, <2>1, <1>9
  <2>2. CASE ~(e = d /\ i = Len(said[d]) + 1)
    <3>1. i \in 1 .. Len(said[e]) /\ 1 \in 1 .. Len(said[e])
      <4>1. Len(said[e]) \in Nat
        BY <1>4 DEF Logs
      <4>2. CASE e = d
        BY <4>1, <4>2, <2>2, <1>3, <1>4
      <4>3. CASE e # d
        BY <4>1, <4>3, <1>3
      <4> QED BY <4>2, <4>3
    <3>2. said'[e][i] = said[e][i] /\ said'[e][1] = said[e][1]
      BY <3>1, <1>6 DEF Continues
    <3>3. Joined(said, said[e][i][1], said[e][1][1])
      BY <3>1 DEF JInv, OneLogOneStore
    <3>4. Joined(said', said[e][i][1], said[e][1][1])
      BY <3>3, <1>7
    <3> QED BY <3>2, <3>4
  <2> QED BY <2>1, <2>2
<1>12. HeldUnderItsName'
  <2> SUFFICES ASSUME NEW q \in Places, NEW e \in Devices, has'[q][e] > 0
               PROVE  mark[q] # None /\ Joined(said', mark[q], said'[e][1][1])
    BY DEF HeldUnderItsName
  <2>1. CASE q = m /\ e = d
    BY <2>1, <1>1, <1>9
  <2>2. CASE q # m \/ e # d
    <3>1. has[q][e] > 0
      BY <2>2, <1>5
    <3>2. mark[q] # None /\ Joined(said, mark[q], said[e][1][1])
      BY <3>1 DEF JInv, HeldUnderItsName
    <3>3. 1 \in 1 .. Len(said[e])
      BY <3>1, <1>4 DEF TInv, Types, Standing, Beginnings, Copies, Logs
    <3>4. said'[e][1] = said[e][1]
      BY <3>3, <1>6 DEF Continues
    <3>5. Joined(said', mark[q], said[e][1][1])
      BY <3>2, <1>7
    <3> QED BY <3>2, <3>4, <3>5
  <2> QED BY <2>1, <2>2
<1> QED BY <1>3, <1>4, <1>6, <1>10, <1>11, <1>12

\* Where one machine alone is in the middle of something, it is all there is to look at.
LEMMA OneAlone ==
    ASSUME NEW m \in Machines, \A o \in Machines \ {m} : doing'[o].at = "idle",
           doing'[m].at \in {"taking", "naming", "giving"} =>
                /\ mark'[m] = doing'[m].name
                /\ mark'[Folder] \in {None, doing'[m].name}
                /\ doing'[m].at = "giving" => mark'[Folder] = doing'[m].name,
           doing'[m].at = "stitching" => Joined(said', mark'[m], doing'[m].name)
    PROVE  RoundsKeepTheirName' /\ StitchesAreWritten' /\ OneAtATime'
<1>1. RoundsKeepTheirName'
  <2> SUFFICES ASSUME NEW o \in Machines, doing'[o].at \in {"taking", "naming", "giving"}
               PROVE  /\ mark'[o] = doing'[o].name
                      /\ mark'[Folder] \in {None, doing'[o].name}
                      /\ doing'[o].at = "giving" => mark'[Folder] = doing'[o].name
    BY DEF RoundsKeepTheirName, InRound
  <2>1. o = m
    OBVIOUS
  <2> QED BY <2>1
<1>2. StitchesAreWritten'
  <2> SUFFICES ASSUME NEW o \in Machines, doing'[o].at = "stitching"
               PROVE  Joined(said', mark'[o], doing'[o].name)
    BY DEF StitchesAreWritten
  <2>1. o = m
    OBVIOUS
  <2> QED BY <2>1
<1>3. OneAtATime'
  BY DEF OneAtATime
<1> QED BY <1>1, <1>2, <1>3

LEMMA OthersRest ==
    ASSUME JInv, NEW m \in Machines, doing[m].at # "idle"
    PROVE  \A o \in Machines \ {m} : doing[o].at = "idle"
BY DEF JInv, OneAtATime

\* Where nobody is in the middle of anything.
LEMMA AllRest ==
    ASSUME \A m \in Machines : doing'[m].at = "idle"
    PROVE  RoundsKeepTheirName' /\ StitchesAreWritten' /\ OneAtATime'
BY DEF RoundsKeepTheirName, StitchesAreWritten, OneAtATime, InRound

LEMMA WriteJoins ==
    ASSUME TInv, JInv, NEW m \in Machines, Write(m)
    PROVE  JInv'
<1>1. mark[m] \in Stores
  BY Constants DEF TInv, Types, Standing, Named, Names
<1>2. Says(m, <<mark[m], mark[m]>>) /\ mark' = mark /\ doing' = doing
  BY DEF Write
<1>3. /\ Continues(said, said') /\ said \in Logs /\ said' \in Logs
      /\ OneLogOneStore' /\ HeldUnderItsName'
  BY <1>1, <1>2, SaysJoined
<1>4. StitchesAreWritten'
  <2> SUFFICES ASSUME NEW o \in Machines, doing[o].at = "stitching"
               PROVE  Joined(said', mark[o], doing[o].name)
    BY <1>2 DEF StitchesAreWritten
  <2>1. Joined(said, mark[o], doing[o].name)
    BY DEF JInv, StitchesAreWritten
  <2> QED BY <2>1, <1>3, StaysJoined
<1>5. RoundsKeepTheirName' /\ OneAtATime'
  BY <1>2 DEF JInv, RoundsKeepTheirName, OneAtATime, InRound
<1> QED BY <1>3, <1>4, <1>5 DEF JInv

LEMMA BeginJoins ==
    ASSUME ~AtOnce, TInv, JInv, NEW m \in Machines, NEW again, Begin(m, again)
    PROVE  JInv'
<1> DEFINE name == Settled(m, again)
<1>1. /\ name \in Stores /\ (name = mark[m] \/ ~Inhabited(m))
      /\ mark[Folder] \in {None, name}
  BY SettledIs DEF Begin
<1>2. /\ mark' = [mark EXCEPT ![m] = name] /\ Free(m)
      /\ doing' = [doing EXCEPT ![m] = [at |-> "taking", name |-> name]]
      /\ said' = said /\ has' = has
  BY DEF Begin
<1> HIDE DEF name
<1>3. mark'[m] = name /\ \A q \in Places \ {m} : mark'[q] = mark[q]
  BY <1>2, Constants DEF TInv, Types
<1>4. ~Inhabited(m) \/ Joined(said, mark'[m], mark[m])
  BY <1>1, <1>3, JoinedToItself
<1>5. HeldUnderItsName'
  BY <1>1, <1>2, <1>3, <1>4, Constants, HeldRenamed
<1>6. /\ \A o \in Machines \ {m} : doing'[o].at = "idle"
      /\ doing'[m] = [at |-> "taking", name |-> name]
  BY <1>2, FreeIs DEF TInv, Types
<1>7. mark'[Folder] = mark[Folder]
  BY <1>3, Constants
<1>8. RoundsKeepTheirName' /\ StitchesAreWritten' /\ OneAtATime'
  BY <1>1, <1>3, <1>6, <1>7, OneAlone
<1> QED BY <1>2, <1>5, <1>8, SameLogs DEF JInv

\* What the folder holds is held under the name of the round that takes it.
LEMMA TakenIsJoined ==
    ASSUME TInv, JInv, NEW m \in Machines, InRound(m)
    PROVE  /\ \A d \in Devices : has[Folder][d] > 0 =>
                mark[m] # None /\ Joined(said, mark[m], said[d][1][1])
           /\ mark[Folder] = None \/ mark[Folder] = mark[m]
<1>1. mark[m] = doing[m].name /\ mark[Folder] \in {None, doing[m].name}
  BY DEF JInv, RoundsKeepTheirName
<1>2. \A d \in Devices : has[Folder][d] > 0 =>
        mark[Folder] # None /\ Joined(said, mark[Folder], said[d][1][1])
  BY Constants DEF JInv, HeldUnderItsName
<1> QED BY <1>1, <1>2

\* The round goes on, all the names as they were.
LEMMA RoundGoesOn ==
    ASSUME TInv, JInv, NEW m \in Machines, doing[m].at = "taking",
           doing' = [doing EXCEPT ![m].at = "naming"], mark' = mark
    PROVE  RoundsKeepTheirName' /\ StitchesAreWritten' /\ OneAtATime'
<1>1. /\ doing'[m] = [at |-> "naming", name |-> doing[m].name]
      /\ \A o \in Machines \ {m} : doing'[o] = doing[o]
  BY GoesOn
<1>2. \A o \in Machines \ {m} : doing'[o].at = "idle"
  BY <1>1, OthersRest
<1>3. mark[m] = doing[m].name /\ mark[Folder] \in {None, doing[m].name}
  BY DEF JInv, RoundsKeepTheirName, InRound
<1> QED BY <1>1, <1>2, <1>3, OneAlone

LEMMA TakeJoins ==
    ASSUME TInv, JInv, NEW m \in Machines, Take(m)
    PROVE  JInv'
<1>1. has[Folder] \in Copies /\ m \in Places /\ InRound(m)
  BY Constants DEF TInv, Types, Take, InRound
<1>2. \A d \in Devices : has[Folder][d] > 0 => mark[m] # None /\ Joined(said, mark[m], said[d][1][1])
  BY <1>1, TakenIsJoined
<1>3. has' = [has EXCEPT ![m] = Further(has[m], has[Folder])] /\ said' = said /\ mark' = mark
  BY DEF Take
<1>4. HeldUnderItsName'
  BY <1>1, <1>2, <1>3, HeldTaken
<1>5. RoundsKeepTheirName' /\ StitchesAreWritten' /\ OneAtATime'
  BY RoundGoesOn DEF Take
<1> QED BY <1>3, <1>4, <1>5, SameLogs DEF JInv

LEMMA TakeLateJoins ==
    ASSUME TInv, JInv, NEW m \in Machines, TakeLate(m)
    PROVE  JInv'
<1>1. m \in Places /\ InRound(m) /\ has[Folder] \in Copies
  BY Constants DEF TInv, Types, TakeLate, InRound
<1>2. PICK d \in Devices : has' = [has EXCEPT ![m] = Further(has[m], [has[Folder] EXCEPT ![d] = 0])]
  BY DEF TakeLate
<1> DEFINE more == [has[Folder] EXCEPT ![d] = 0]
<1>3. more \in Copies /\ \A e \in Devices : more[e] <= has[Folder][e]
  BY LateIs
<1>4. has' = [has EXCEPT ![m] = Further(has[m], more)] /\ said' = said /\ mark' = mark
  BY <1>2 DEF TakeLate
<1> HIDE DEF more
<1>5. \A e \in Devices : more[e] > 0 => has[Folder][e] > 0
  BY <1>1, <1>3 DEF Copies
<1>6. \A e \in Devices : more[e] > 0 => mark[m] # None /\ Joined(said, mark[m], said[e][1][1])
  BY <1>1, <1>5, TakenIsJoined
<1>7. HeldUnderItsName'
  BY <1>1, <1>3, <1>4, <1>6, HeldTaken
<1>8. RoundsKeepTheirName' /\ StitchesAreWritten' /\ OneAtATime'
  BY RoundGoesOn DEF TakeLate
<1> QED BY <1>4, <1>7, <1>8, SameLogs DEF JInv

LEMMA NameJoins ==
    ASSUME TInv, JInv, NEW m \in Machines, Name(m)
    PROVE  JInv'
<1>1. doing[m].at = "naming" /\ InRound(m) /\ doing[m].name # None
  BY DEF Name, InRound, TInv, Standing, Named
<1>2. mark[m] = doing[m].name /\ mark[Folder] \in {None, doing[m].name}
  BY <1>1 DEF JInv, RoundsKeepTheirName
<1>3. said' = said /\ has' = has /\ doing' = [doing EXCEPT ![m].at = "giving"]
  BY DEF Name
<1>4. mark'[Folder] = doing[m].name /\ \A q \in Places \ {Folder} : mark'[q] = mark[q]
  BY Constants DEF Name, TInv, Types
<1>5. ~Inhabited(Folder) \/ Joined(said, mark'[Folder], mark[Folder])
  <2>1. CASE mark[Folder] = None
    BY <2>1, Constants DEF JInv, HeldUnderItsName, Inhabited
  <2>2. CASE mark[Folder] # None
    BY <2>2, <1>2, <1>4, JoinedToItself
  <2> QED BY <2>1, <2>2
<1>6. HeldUnderItsName'
  BY <1>1, <1>3, <1>4, <1>5, Constants, HeldRenamed
<1>7. /\ doing'[m] = [at |-> "giving", name |-> doing[m].name]
      /\ \A o \in Machines \ {m} : doing'[o] = doing[o]
  BY <1>1, <1>3, GoesOn
<1>8. \A o \in Machines \ {m} : doing'[o].at = "idle"
  BY <1>1, <1>7, OthersRest
<1>9. mark'[m] = doing[m].name
  BY <1>2, <1>4, Constants
<1>10. RoundsKeepTheirName' /\ StitchesAreWritten' /\ OneAtATime'
  BY <1>4, <1>7, <1>8, <1>9, OneAlone
<1> QED BY <1>3, <1>6, <1>10, SameLogs DEF JInv

LEMMA GiveJoins ==
    ASSUME TInv, JInv, NEW m \in Machines, Give(m)
    PROVE  JInv'
<1>1. /\ has[m] \in Copies /\ Folder \in Places /\ m \in Places
      /\ doing[m].at = "giving" /\ InRound(m)
  BY Constants DEF TInv, Types, Give, InRound
<1>2. mark[Folder] = mark[m]
  BY <1>1 DEF JInv, RoundsKeepTheirName
<1>3. \A d \in Devices : has[m][d] > 0 =>
        mark[Folder] # None /\ Joined(said, mark[Folder], said[d][1][1])
  BY <1>1, <1>2 DEF JInv, HeldUnderItsName
<1>4. has' = [has EXCEPT ![Folder] = Further(has[Folder], has[m])] /\ said' = said /\ mark' = mark
  BY DEF Give
<1>5. HeldUnderItsName'
  BY <1>1, <1>3, <1>4, HeldTaken
<1>6. \A o \in Machines : doing'[o].at = "idle"
  BY <1>1, Rests, OthersRest DEF Give
<1>7. RoundsKeepTheirName' /\ StitchesAreWritten' /\ OneAtATime'
  BY <1>6, AllRest
<1> QED BY <1>4, <1>5, <1>7, SameLogs DEF JInv

\* Two stores that hold something of one log are joined already.
LEMMA StitchKinJoins ==
    ASSUME ~AtOnce, TInv, JInv, NEW m \in Machines, StitchKin(m)
    PROVE  JInv'
<1>1. PICK d \in Devices : has[m][d] > 0 /\ has[Folder][d] > 0
  BY DEF StitchKin, SameLineage
<1>2. Joined(said, mark[m], said[d][1][1]) /\ Joined(said, mark[Folder], said[d][1][1])
  BY <1>1, Constants DEF JInv, HeldUnderItsName
<1>3. Joined(said, mark[Folder], mark[m])
  BY <1>2, JoinedEitherWay, JoinedOn
<1>4. mark[Folder] # None /\ said' = said /\ has' = has /\ doing' = doing /\ Free(m)
  BY DEF StitchKin, Apart
<1>5. mark'[m] = mark[Folder] /\ \A q \in Places \ {m} : mark'[q] = mark[q]
  BY Constants DEF StitchKin, TInv, Types
<1>6. HeldUnderItsName'
  BY <1>3, <1>4, <1>5, Constants, HeldRenamed
<1>7. RoundsKeepTheirName' /\ StitchesAreWritten' /\ OneAtATime'
  BY <1>4, FreeIs, AllRest
<1> QED BY <1>4, <1>6, <1>7, SameLogs DEF JInv

LEMMA StitchStrangersJoins ==
    ASSUME ~AtOnce, TInv, JInv, NEW m \in Machines, StitchStrangers(m)
    PROVE  JInv'
<1>1. mark[Folder] \in Stores
  BY Constants DEF StitchStrangers, Apart, TInv, Types, Names
<1>2. Says(m, <<mark[m], mark[Folder]>>) /\ mark' = mark /\ Free(m)
  BY DEF StitchStrangers
<1>3. OneLogOneStore' /\ HeldUnderItsName' /\ Joined(said', mark[m], mark[Folder])
  BY <1>1, <1>2, SaysJoined
<1>4. /\ doing'[m] = [at |-> "stitching", name |-> mark[Folder]]
      /\ \A o \in Machines \ {m} : doing'[o].at = "idle"
  BY <1>2, FreeIs DEF StitchStrangers, TInv, Types
<1>5. RoundsKeepTheirName' /\ StitchesAreWritten' /\ OneAtATime'
  BY <1>2, <1>3, <1>4, OneAlone
<1> QED BY <1>3, <1>5 DEF JInv

LEMMA RenamedJoins ==
    ASSUME TInv, JInv, NEW m \in Machines, Renamed(m)
    PROVE  JInv'
<1>1. doing[m].at = "stitching" /\ doing[m].name # None /\ said' = said /\ has' = has
  BY DEF Renamed, TInv, Standing, Named
<1>2. Joined(said, doing[m].name, mark[m])
  BY <1>1, JoinedEitherWay DEF JInv, StitchesAreWritten
<1>3. mark'[m] = doing[m].name /\ \A q \in Places \ {m} : mark'[q] = mark[q]
  BY Constants DEF Renamed, TInv, Types
<1>4. HeldUnderItsName'
  BY <1>1, <1>2, <1>3, Constants, HeldRenamed
<1>5. \A o \in Machines : doing'[o].at = "idle"
  BY <1>1, Rests, OthersRest DEF Renamed
<1>6. RoundsKeepTheirName' /\ StitchesAreWritten' /\ OneAtATime'
  BY <1>5, AllRest
<1> QED BY <1>1, <1>4, <1>6, SameLogs DEF JInv

LEMMA StartAnewJoins ==
    ASSUME ~AtOnce, TInv, JInv, NEW m \in Machines, StartAnew(m)
    PROVE  JInv'
<1>1. has' = [has EXCEPT ![m] = Nothing] /\ said' = said /\ doing' = doing /\ Free(m)
  BY DEF StartAnew
<1>2. \A q \in Places \ {m} : mark'[q] = mark[q]
  BY DEF StartAnew, TInv, Types
<1>3. HeldUnderItsName'
  BY <1>1, <1>2, Constants, HeldEmptied
<1>4. RoundsKeepTheirName' /\ StitchesAreWritten' /\ OneAtATime'
  BY <1>1, FreeIs, AllRest
<1> QED BY <1>1, <1>3, <1>4, SameLogs DEF JInv

LEMMA TakeOverJoins ==
    ASSUME ~AtOnce, TInv, JInv, NEW m \in Machines, TakeOver(m)
    PROVE  JInv'
<1>1. has' = [has EXCEPT ![Folder] = Nothing] /\ said' = said /\ doing' = doing /\ Free(m)
  BY DEF TakeOver
<1>2. \A q \in Places \ {Folder} : mark'[q] = mark[q]
  BY DEF TakeOver, TInv, Types
<1>3. HeldUnderItsName'
  BY <1>1, <1>2, Constants, HeldEmptied
<1>4. RoundsKeepTheirName' /\ StitchesAreWritten' /\ OneAtATime'
  BY <1>1, FreeIs, AllRest
<1> QED BY <1>1, <1>3, <1>4, SameLogs DEF JInv

LEMMA CrashJoins ==
    ASSUME TInv, JInv, NEW m \in Machines, Crash(m)
    PROVE  JInv'
<1>1. said' = said /\ has' = has /\ mark' = mark
  BY DEF Crash
<1>2. /\ doing'[m].at = "idle"
      /\ \A o \in Machines \ {m} : doing'[o] = doing[o]
  BY Rests DEF Crash
<1>3. HeldUnderItsName'
  BY <1>1 DEF JInv, HeldUnderItsName
<1>4. RoundsKeepTheirName' /\ StitchesAreWritten' /\ OneAtATime'
  <2>1. RoundsKeepTheirName'
    BY <1>1, <1>2 DEF JInv, RoundsKeepTheirName, InRound
  <2>2. StitchesAreWritten'
    <3> SUFFICES ASSUME NEW o \in Machines, doing'[o].at = "stitching"
                 PROVE  Joined(said, mark[o], doing'[o].name)
      BY <1>1 DEF StitchesAreWritten
    <3> QED BY <1>2 DEF JInv, StitchesAreWritten
  <2>3. OneAtATime'
    BY <1>2 DEF JInv, OneAtATime
  <2> QED BY <2>1, <2>2, <2>3
<1> QED BY <1>1, <1>3, <1>4, SameLogs DEF JInv

LEMMA EmptiedJoins ==
    ASSUME ~AtOnce, TInv, JInv, Emptied
    PROVE  JInv'
<1>1. has' = [has EXCEPT ![Folder] = Nothing] /\ said' = said /\ doing' = doing
  BY DEF Emptied
<1>2. \A q \in Places \ {Folder} : mark'[q] = mark[q]
  BY DEF Emptied, TInv, Types
<1>3. HeldUnderItsName'
  BY <1>1, <1>2, Constants, HeldEmptied
<1>4. \A m \in Machines : doing'[m].at = "idle"
  BY <1>1 DEF Emptied, Idle
<1>5. RoundsKeepTheirName' /\ StitchesAreWritten' /\ OneAtATime'
  BY <1>4, AllRest
<1> QED BY <1>1, <1>3, <1>5, SameLogs DEF JInv

LEMMA JInvAtFirst == Init => JInv
<1> SUFFICES ASSUME Init PROVE JInv
  OBVIOUS
<1>1. \A d \in Devices : Len(said[d]) = 0 /\ \A p \in Places : has[p][d] = 0
  BY DEF Init, Nothing
<1>2. OneLogOneStore /\ HeldUnderItsName
  BY <1>1 DEF OneLogOneStore, HeldUnderItsName
<1>3. \A m \in Machines : doing[m].at = "idle"
  BY DEF Init, Idle
<1>4. RoundsKeepTheirName /\ StitchesAreWritten /\ OneAtATime
  BY <1>3 DEF RoundsKeepTheirName, StitchesAreWritten, OneAtATime, InRound
<1> QED BY <1>2, <1>4 DEF JInv

LEMMA JInvStays ==
    ASSUME ~AtOnce
    PROVE  TInv /\ JInv /\ [Next]_vars => JInv'
<1> SUFFICES ASSUME TInv, JInv, [Next]_vars PROVE JInv'
  OBVIOUS
<1>1. CASE UNCHANGED vars
  BY <1>1 DEF JInv, OneLogOneStore, HeldUnderItsName, RoundsKeepTheirName, StitchesAreWritten,
              OneAtATime, InRound, vars
<1>2. CASE Emptied
  BY <1>2, EmptiedJoins
<1>3. CASE \E m \in Machines : Write(m) \/ StartAnew(m) \/ TakeOver(m) \/ Crash(m)
  BY <1>3, WriteJoins, StartAnewJoins, TakeOverJoins, CrashJoins
<1>4. CASE \E m \in Machines : Step(m)
  BY <1>4, TakeJoins, TakeLateJoins, NameJoins, GiveJoins, RenamedJoins DEF Step
<1>5. CASE \E m \in Machines : Stitch(m)
  BY <1>5, StitchKinJoins, StitchStrangersJoins DEF Stitch
<1>6. CASE \E m \in Machines, again \in BOOLEAN : Begin(m, again)
  BY <1>6, BeginJoins
<1> QED BY <1>1, <1>2, <1>3, <1>4, <1>5, <1>6 DEF Next

-----------------------------------------------------------------------------
(* Where nobody starts anew, every device is some machine's to this day:    *)
(* machines that agree hold all that was ever written.                      *)

LEMMA NothingIsLost ==
    ASSUME MaxResets = 0, TInv, Agreed, NEW d \in Devices
    PROVE  /\ has[Folder][d] = Len(said[d])
           /\ mark[Folder] # None
<1>1. PICK m \in Machines : d = <<m, 0>>
  BY DEF Devices
<1>2. device[m] = d
  BY <1>1 DEF TInv, Types, Standing, OwnLog, Devices
<1>3. has[m][d] = Len(said[d]) /\ mark[m] # None
  BY <1>2 DEF TInv, Standing, OwnLog, Named
<1> QED BY <1>3 DEF Agreed

LEMMA ToldThen ==
    ASSUME MaxResets = 0, TInv, JInv
    PROVE  JoinsAreTold
<1> SUFFICES ASSUME Agreed PROVE AllJoined(Told(Folder))
  BY DEF JoinsAreTold
<1> DEFINE pairs == Told(Folder)
           names == UNION {{e[1], e[2]} : e \in pairs}
<1> SUFFICES ASSUME NEW part \in SUBSET names,
                    \A e \in pairs : e[1] \in part <=> e[2] \in part
             PROVE  part \in {{}, names}
  BY DEF AllJoined
<1>1. /\ \A d \in Devices : said[d] \in Seq(Stores \X Stores) /\ Len(said[d]) \in Nat
      /\ \A d \in Devices : \A i \in 1 .. Len(said[d]) : said[d][i] \in Stores \X Stores
  BY DEF TInv, Types, Logs
<1>2. \A e : e \in pairs <=> \E d \in Devices : \E i \in 1 .. Len(said[d]) : e = said[d][i]
  <2>1. \A d \in Devices : has[Folder][d] = Len(said[d])
    BY NothingIsLost
  <2> QED BY <2>1 DEF Told
<1> HIDE DEF pairs
<1>3. \A x \in names : \E e \in pairs : x = e[1] \/ x = e[2]
  OBVIOUS
<1>4. names \subseteq Stores
  BY <1>1, <1>2, <1>3
<1>5. Uncut(said, part) /\ part \in SUBSET Stores
  <2>1. \A d \in Devices : \A i \in 1 .. Len(said[d]) : said[d][i] \in pairs
    BY <1>2
  <2> QED BY <2>1, <1>4 DEF Uncut
<1>6. \A a, b : Joined(said, a, b) => (a \in part <=> b \in part)
  BY <1>5 DEF Joined
<1>7. \A e \in pairs : e[1] \in part <=> mark[Folder] \in part
  <2> SUFFICES ASSUME NEW d \in Devices, NEW i \in 1 .. Len(said[d])
               PROVE  said[d][i][1] \in part <=> mark[Folder] \in part
    BY <1>2
  <2>1. Joined(said, said[d][i][1], said[d][1][1])
    BY DEF JInv, OneLogOneStore
  <2>2. has[Folder][d] > 0
    BY <1>1, NothingIsLost
  <2>3. Joined(said, mark[Folder], said[d][1][1])
    BY <2>2, Constants DEF JInv, HeldUnderItsName
  <2> QED BY <2>1, <2>3, <1>6
<1>8. \A x \in names : x \in part <=> mark[Folder] \in part
  BY <1>3, <1>7
<1> QED BY <1>8

\* However many machines with stores of their own come to one folder, stitched by an event or
\* as kin, cut at any step, with folders emptied, taken over or read before all of it is there:
\* with rounds one after the other and nobody starting anew, machines that have come to one
\* store hold the events that lead from every name it was written under to every other.
THEOREM EveryJoinIsTold ==
    ASSUME ~AtOnce, MaxResets = 0
    PROVE  Spec => []JoinsAreTold
<1>1. Init => TInv /\ JInv
  BY TInvAtFirst, JInvAtFirst
<1>2. TInv /\ JInv /\ [Next]_vars => (TInv /\ JInv)'
  BY TInvStays, JInvStays
<1>3. TInv /\ JInv => JoinsAreTold
  BY ToldThen
<1> QED BY <1>1, <1>2, <1>3, PTL DEF Spec

\* Even where machines start anew: whatever a place holds of a log, the name it goes by is
\* joined, by events somebody wrote, to the name the log began under.
THEOREM HeldUnderJoinedNames ==
    ASSUME ~AtOnce
    PROVE  Spec => []HeldUnderItsName
<1>1. Init => TInv /\ JInv
  BY TInvAtFirst, JInvAtFirst
<1>2. TInv /\ JInv /\ [Next]_vars => (TInv /\ JInv)'
  BY TInvStays, JInvStays
<1>3. JInv => HeldUnderItsName
  BY DEF JInv
<1> QED BY <1>1, <1>2, <1>3, PTL DEF Spec
=============================================================================
