----------------------------- MODULE PapersProofs -----------------------------
(***************************************************************************)
(* What is proved of Papers for any number of machines, blocks, edits and  *)
(* settlings: its types and, where no two sends meet in the folder and the *)
(* folder's file is lost only where every machine has it, that no edit     *)
(* goes away from every file but by what was made, or chosen, over it.     *)
(***************************************************************************)
EXTENDS Papers, FiniteSetTheorems, WellFoundedInduction, TLAPS

-----------------------------------------------------------------------------
(* Types                                                                   *)

Pairs == ({0} \cup Edits) \X Edits
Asked == [theirs : Prints, mine : Prints]
Times == {"no", "waits", "due"}

\* The clocks have been somewhere: the newest note of a machine's own is one of them.
ClocksStand == \E top \in Nat : \A m \in Machines : knows[m][m].at <= top

TInv == TypeOK /\ ClocksStand

LEMMA Constants ==
    /\ Blank \in Bodies /\ Blank \in Prints /\ None \in Prints /\ None \notin Bodies
    /\ NoNote \in Notes /\ NoView \in Views /\ Idle \in Rounds
    /\ MaxEdits \in Nat /\ MaxSettles \in Nat /\ MaxMishaps \in Nat
<1>1. Blank \in Bodies /\ None \notin Bodies
  BY NoneAssumption DEF Blank, Bodies
<1>2. Blank \in Prints /\ None \in Prints
  BY <1>1 DEF Prints
<1>3. NoNote \in Notes /\ NoView \in Views
  BY <1>2 DEF NoNote, Notes, NoView, Views
<1>4. Idle \in Rounds
  BY <1>2, <1>3 DEF Idle, Rounds, Steps
<1> QED BY <1>1, <1>2, <1>3, <1>4, PapersAssumption

LEMMA NewestIs ==
    ASSUME NEW notes \in [Machines -> Notes]
    PROVE  NewestOf(notes) \in Prints
<1> DEFINE last == {m \in Machines : /\ notes[m].print # None
                                     /\ \A n \in Machines : notes[n].print # None
                                           => ~Sooner(m, notes[m], n, notes[n])}
<1>1. NewestOf(notes) = IF last = {} THEN None ELSE notes[CHOOSE m \in last : TRUE].print
  BY DEF NewestOf
<1>2. \A m \in last : notes[m].print \in Prints
  BY DEF Notes
<1> HIDE DEF last
<1> QED BY <1>1, <1>2, Constants

LEMMA ViewIs ==
    ASSUME NEW m \in Machines, NEW notes \in [Machines -> Notes]
    PROVE  View(m, notes) \in Views
<1>1. NewestOf(notes) \in Prints
  BY NewestIs
<1>2. \A n \in Machines : notes[n].print \in Prints
  BY DEF Notes
<1>3. {notes[n].print : n \in Machines \ {m}} \ {None} \subseteq Bodies
  BY <1>2 DEF Prints
<1> QED BY <1>1, <1>2, <1>3 DEF View, Views

\* Some of the numbers up to one of them: what is past each of them is a finite set, and of
\* those sets one has none within it.
LEMMA LatestOf ==
    ASSUME NEW top \in Nat, NEW ats \in SUBSET (0..top), ats # {}
    PROVE  \E at \in ats : \A other \in ats : other <= at
<1> DEFINE past(at) == {other \in ats : other > at}
           pasts == {past(at) : at \in ats}
<1>1. IsFiniteSet(ats) /\ \A at \in ats : at \in Int
  <2>1. IsFiniteSet(0..top)
    BY FS_Interval
  <2>2. IsFiniteSet(ats)
    BY <2>1, FS_Subset
  <2> QED BY <2>2
<1>2. pasts \subseteq FiniteSubsetsOf(ats) /\ pasts # {}
  <2>1. \A at : past(at) \in SUBSET ats /\ IsFiniteSet(past(at))
    BY <1>1, FS_Subset
  <2> QED BY <2>1 DEF FiniteSubsetsOf
<1>3. PICK least \in pasts : \A some \in pasts : <<some, least>> \notin StrictSubsetOrdering(ats)
  <2>1. IsWellFoundedOn(StrictSubsetOrdering(ats), FiniteSubsetsOf(ats))
    BY FS_StrictSubsetOrderingWellFounded
  <2> HIDE DEF pasts
  <2> QED BY <1>2, <2>1, WFMin
<1>4. PICK at \in ats : least = past(at)
  BY <1>3
<1>5. ASSUME NEW other \in ats, other > at PROVE FALSE
  <2>1. past(other) \in SUBSET ats /\ other \in past(at) /\ other \notin past(other)
    BY <1>1, <1>5
  <2>2. \A x \in past(other) : x \in past(at)
    BY <1>1, <1>5
  <2>3. <<past(other), past(at)>> \in StrictSubsetOrdering(ats)
    BY <2>1, <2>2 DEF StrictSubsetOrdering
  <2> QED BY <1>3, <1>4, <2>3
<1> QED BY <1>1, <1>5

LEMMA LastIs ==
    ASSUME TInv, NEW m \in Machines
    PROVE  LastAt \in Nat /\ \A n \in Machines : knows[n][n].at <= LastAt
<1> DEFINE ats == {knows[n][n].at : n \in Machines}
<1>1. \A n \in Machines : knows[n][n].at \in Nat
  BY DEF TInv, TypeOK, Notes
<1>2. PICK top \in Nat : \A n \in Machines : knows[n][n].at <= top
  BY DEF TInv, ClocksStand
<1>3. ats \in SUBSET (0..top) /\ ats # {}
  BY <1>1, <1>2
<1>4. PICK at \in ats : \A other \in ats : other <= at
  <2> HIDE DEF ats
  <2> QED BY <1>3, LatestOf
<1>5. LastAt \in ats /\ \A n \in Machines : knows[n][n].at <= LastAt
  BY <1>4 DEF LastAt
<1> QED BY <1>1, <1>5

LEMMA NotedIs ==
    ASSUME TInv, NEW m \in Machines, NEW after, after = Noted(m)
    PROVE  /\ after \in [Machines -> [Machines -> Notes]]
           /\ \E top \in Nat : \A n \in Machines : after[n][n].at <= top
<1>1. knows \in [Machines -> [Machines -> Notes]] /\ body[m] \in Prints
  BY DEF TInv, TypeOK
<1>2. CASE after = knows
  BY <1>1, <1>2 DEF TInv, ClocksStand
<1>3. CASE after = [knows EXCEPT ![m][m] = [at |-> LastAt + 1, print |-> body[m]]]
  <2>1. LastAt \in Nat /\ \A n \in Machines : knows[n][n].at <= LastAt
    BY LastIs
  <2>2. [at |-> LastAt + 1, print |-> body[m]] \in Notes
    BY <2>1, <1>1 DEF Notes
  <2>3. after \in [Machines -> [Machines -> Notes]]
    BY <2>2, <1>1, <1>3
  <2>4. \A n \in Machines : after[n][n].at <= LastAt + 1
    <3> TAKE n \in Machines
    <3>1. CASE n = m
      BY <3>1, <2>1, <1>1, <1>3
    <3>2. CASE n # m
      <4>1. after[n] = knows[n] /\ knows[n][n].at \in Nat
        BY <3>2, <1>1, <1>3 DEF Notes
      <4> QED BY <4>1, <2>1
    <3> QED BY <3>1, <3>2
  <2> QED BY <2>1, <2>3, <2>4
<1> QED BY <1>2, <1>3 DEF Noted

LEMMA ThenIs ==
    ASSUME NEW said \in SUBSET Pairs, NEW new, NEW old
    PROVE  Then(said, new, old) \in SUBSET Pairs
BY DEF Then, Pairs

LEMMA ChosenIs ==
    ASSUME over \in [Blocks -> SUBSET Pairs], NEW new, NEW old
    PROVE  ChosenOver(new, old) \in [Blocks -> SUBSET Pairs]
<1>1. \A b \in Blocks : over[b] \in SUBSET Pairs
  OBVIOUS
<1>2. \A b \in Blocks : Then(over[b], new[b], old[b]) \in SUBSET Pairs
  BY <1>1, ThenIs
<1> HIDE DEF Pairs
<1> QED BY <1>1, <1>2 DEF ChosenOver

LEMMA MergedIs ==
    ASSUME NEW base \in Bodies, NEW ours \in Bodies, NEW theirs \in Bodies,
           Merged(base, ours, theirs) # None
    PROVE  /\ Merged(base, ours, theirs) \in Bodies
           /\ \A b \in Blocks :
                /\ Merged(base, ours, theirs)[b] = IF ours[b] = base[b] THEN theirs[b] ELSE ours[b]
                /\ ours[b] # base[b] => theirs[b] \in {base[b], ours[b]}
BY DEF Merged, Bodies

\* The round at its end, written out.
EndOf(m, said, waits, owes) ==
    [step |-> "ending", taking |-> TRUE, view |-> NoView,
     ours |-> IF owes = "ask" THEN round[m].ours ELSE None,
     theirs |-> IF owes = "ask" THEN round[m].theirs ELSE None,
     said |-> said, awaits |-> waits, owes |-> owes]

LEMMA EndsIs ==
    ASSUME TypeOK, NEW m \in Machines, NEW said \in Prints, NEW waits \in Times,
           NEW owes \in {"nothing", "answer", "ask"}
    PROVE  /\ Ends(m, said, waits, owes) = [round EXCEPT ![m] = EndOf(m, said, waits, owes)]
           /\ Ends(m, said, waits, owes) \in [Machines -> Rounds]
           /\ Ends(m, said, waits, owes)[m] = EndOf(m, said, waits, owes)
<1>1. round \in [Machines -> Rounds] /\ round[m] \in Rounds
  BY DEF TypeOK
<1>2. Ends(m, said, waits, owes) = [round EXCEPT ![m] = EndOf(m, said, waits, owes)]
  BY DEF Ends, EndOf
<1>3. EndOf(m, said, waits, owes) \in Rounds
  BY <1>1, Constants DEF EndOf, Rounds, Steps, Times
<1> QED BY <1>1, <1>2, <1>3

LEMMA HowIs ==
    ASSUME NEW base, NEW ours, NEW theirs
    PROVE  LET how == Moved(base, ours, theirs)
           IN  /\ how = "nothing" => ours = theirs
               /\ how = "send" => ours # None /\ (theirs = None \/ theirs = base)
               /\ how = "bring" => theirs # None /\ (ours = None \/ ours = base)
               /\ how = "they_decide" => theirs # None /\ ours # None
               /\ how \in {"nothing", "send", "bring", "they_decide"}
BY DEF Moved

LEMMA TInvAtFirst == Init => TInv
<1> SUFFICES ASSUME Init PROVE TInv
  OBVIOUS
<1>1. NoNotes \in [Machines -> Notes] /\ FirstNotes \in [Machines -> Notes]
  BY Constants DEF NoNotes, FirstNotes, Notes
<1>2. /\ body \in [Machines -> Prints] /\ folder \in Prints /\ carried \in [Machines -> Prints]
      /\ kept \in [Machines -> Prints] /\ aside \in [Machines -> Prints] /\ beside \subseteq Bodies
  BY Constants DEF Init
<1>3. knows \in [Machines -> [Machines -> Notes]] /\ shelf \in [Machines -> Notes]
  BY <1>1 DEF Init
<1>4. /\ written \in 0..MaxEdits /\ settles \in 0..MaxSettles /\ mishaps \in 0..MaxMishaps
      /\ over \in [Blocks -> SUBSET (({0} \cup Edits) \X Edits)]
      /\ asked \in [Machines -> {None} \cup [theirs : Prints, mine : Prints]]
      /\ awaits \in [Machines -> {"no", "waits", "due"}] /\ round \in [Machines -> Rounds]
  BY Constants DEF Init
<1>5. \A m \in Machines : knows[m][m].at <= 1
  BY DEF Init, FirstNotes, NoNotes, NoNote
<1> QED BY <1>2, <1>3, <1>4, <1>5 DEF TInv, TypeOK, ClocksStand

\* What concerns the clocks only where a machine notes something of its own.
LEMMA ClocksAsTheyWere ==
    ASSUME TInv, \A m \in Machines : knows'[m][m] = knows[m][m]
    PROVE  ClocksStand'
BY DEF TInv, ClocksStand

LEMMA EditTypes ==
    ASSUME TInv, NEW m \in Machines, Edit(m)
    PROVE  TInv'
<1>1. PICK b \in Blocks :
        /\ body' = [body EXCEPT ![m][b] = written + 1]
        /\ over' = [over EXCEPT ![b] = Then(over[b], written + 1, body[m][b])]
  BY DEF Edit
<1>2. /\ written + 1 \in Edits /\ written' \in 0..MaxEdits /\ body[m] \in Bodies
      /\ body \in [Machines -> Prints] /\ over \in [Blocks -> SUBSET Pairs]
  BY Constants DEF Edit, TInv, TypeOK, Edits, Prints, Pairs
<1>3. [body[m] EXCEPT ![b] = written + 1] \in Prints
  BY <1>2 DEF Bodies, Prints
<1>4. body' \in [Machines -> Prints]
  BY <1>1, <1>2, <1>3
<1>5. Then(over[b], written + 1, body[m][b]) \in SUBSET Pairs
  BY <1>2, ThenIs
<1>6. over' \in [Blocks -> SUBSET Pairs]
  BY <1>1, <1>2, <1>5
<1>7. ClocksStand'
  BY ClocksAsTheyWere DEF Edit, log
<1> QED BY <1>2, <1>4, <1>6, <1>7 DEF TInv, TypeOK, Edit, log, Pairs

LEMMA TellTypes ==
    ASSUME TInv, NEW m \in Machines, Tell(m)
    PROVE  TInv'
<1>1. knows' \in [Machines -> [Machines -> Notes]] /\ ClocksStand'
  BY NotedIs DEF Tell, ClocksStand
<1> QED BY <1>1 DEF TInv, TypeOK, Tell, files

\* A round that waits to answer, and one that begins, written out.
LEMMA AnsweringIs ==
    [Idle EXCEPT !.step = "answering"] =
        [step |-> "answering", taking |-> TRUE, view |-> NoView, ours |-> None,
         theirs |-> None, said |-> None, awaits |-> "no", owes |-> "nothing"]
<1> DEFINE r == Idle
           one == [r EXCEPT !.step = "answering"]
<1>0. r \in Rounds
  BY Constants
<1> HIDE DEF r
<1>1. one =
        [step |-> "answering", taking |-> r.taking, view |-> r.view, ours |-> r.ours,
         theirs |-> r.theirs, said |-> r.said, awaits |-> r.awaits, owes |-> r.owes]
  BY <1>0 DEF Rounds
<1> HIDE DEF one
<1>2. r.taking = TRUE /\ r.view = NoView /\ r.ours = None /\ r.theirs = None /\ r.said = None /\ r.awaits = "no" /\ r.owes = "nothing"
  BY DEF r, Idle
<1>3. one =
        [step |-> "answering", taking |-> TRUE, view |-> NoView, ours |-> None,
         theirs |-> None, said |-> None, awaits |-> "no", owes |-> "nothing"]
  BY <1>1, <1>2
<1> QED BY <1>3 DEF r, one

LEMMA StartIs ==
    ASSUME TypeOK, NEW m \in Machines, NEW taking \in BOOLEAN, NEW notes \in [Machines -> Notes]
    PROVE  Start(m, taking, notes) \in Rounds
<1>1. View(m, notes) \in Views
  BY ViewIs
<1>2. carried[m] \in Prints /\ awaits[m] \in {"no", "waits", "due"}
  BY DEF TypeOK
<1> QED BY <1>1, <1>2, Constants DEF Start, Rounds, Steps

LEMMA BeginTypes ==
    ASSUME TInv, NEW m \in Machines, Begin(m)
    PROVE  TInv'
<1> DEFINE heard == [n \in Machines |-> IF n # m /\ shelf[n].at > knows[m][n].at THEN shelf[n] ELSE knows[m][n]]
<1>1. knows \in [Machines -> [Machines -> Notes]] /\ shelf \in [Machines -> Notes]
  BY DEF TInv, TypeOK
<1>2. heard \in [Machines -> Notes] /\ heard[m] = knows[m][m]
  BY <1>1
<1>3. knows' = [knows EXCEPT ![m] = heard]
  BY DEF Begin
<1> HIDE DEF heard
<1>4. knows' \in [Machines -> [Machines -> Notes]] /\ \A n \in Machines : knows'[n][n] = knows[n][n]
  BY <1>1, <1>2, <1>3
<1>5. shelf' \in [Machines -> Notes]
  BY <1>1 DEF Begin
<1>6. knows'[m] \in [Machines -> Notes]
  BY <1>4
<1>7. Start(m, TRUE, knows'[m]) \in Rounds
  BY <1>6, StartIs DEF TInv
<1>8. round' \in [Machines -> Rounds]
  BY <1>7 DEF TInv, TypeOK, Begin
<1>9. ClocksStand'
  BY <1>4, ClocksAsTheyWere
<1> QED BY <1>4, <1>5, <1>8, <1>9 DEF TInv, TypeOK, Begin, files

LEMMA MeetsTypes ==
    ASSUME TInv, NEW m \in Machines, Meets(m) \/ UNCHANGED mishaps
    PROVE  mishaps' \in 0..MaxMishaps
BY Constants DEF Meets, Mishap, TInv, TypeOK

\* A round that goes on, written out.
LEMMA RoundIs ==
    ASSUME TypeOK, NEW m \in Machines, NEW step \in Steps, NEW view \in Views,
           NEW ours \in Prints, NEW theirs \in Prints,
           round' = [round EXCEPT ![m] = [step |-> step, taking |-> round[m].taking, view |-> view,
                                          ours |-> ours, theirs |-> theirs, said |-> round[m].said,
                                          awaits |-> round[m].awaits, owes |-> round[m].owes]]
    PROVE  round' \in [Machines -> Rounds]
<1>1. round \in [Machines -> Rounds] /\ round[m] \in Rounds
  BY DEF TypeOK
<1>2. [step |-> step, taking |-> round[m].taking, view |-> view,
       ours |-> ours, theirs |-> theirs, said |-> round[m].said,
       awaits |-> round[m].awaits, owes |-> round[m].owes] \in Rounds
  BY <1>1 DEF Rounds
<1> QED BY <1>1, <1>2

LEMMA LookIs ==
    ASSUME TypeOK, NEW m \in Machines, Look(m)
    PROVE  round' = [round EXCEPT ![m] = [step |-> "acting", taking |-> round[m].taking,
                        view |-> round[m].view, ours |-> body[m], theirs |-> folder,
                        said |-> round[m].said, awaits |-> round[m].awaits, owes |-> round[m].owes]]
<1> DEFINE r == round[m]
           one == [r EXCEPT !.step = "acting"]
           two == [one EXCEPT !.ours = body[m]]
           three == [two EXCEPT !.theirs = folder]
<1>1. round \in [Machines -> Rounds] /\ r \in Rounds
  BY DEF TypeOK
<1>2. round' = [round EXCEPT ![m] = three]
  BY <1>1 DEF Look
<1> HIDE DEF r
<1>3. one =
        [step |-> "acting", taking |-> r.taking, view |-> r.view, ours |-> r.ours,
         theirs |-> r.theirs, said |-> r.said, awaits |-> r.awaits, owes |-> r.owes]
  BY <1>1 DEF Rounds
<1>4. two =
        [step |-> "acting", taking |-> r.taking, view |-> r.view, ours |-> body[m],
         theirs |-> r.theirs, said |-> r.said, awaits |-> r.awaits, owes |-> r.owes]
  <2> HIDE DEF one
  <2> QED BY <1>3
<1>5. three =
        [step |-> "acting", taking |-> r.taking, view |-> r.view, ours |-> body[m],
         theirs |-> folder, said |-> r.said, awaits |-> r.awaits, owes |-> r.owes]
  <2> HIDE DEF two
  <2> QED BY <1>4
<1> HIDE DEF three
<1> QED BY <1>2, <1>5 DEF r

LEMMA LookTypes ==
    ASSUME TInv, NEW m \in Machines, Look(m)
    PROVE  TInv'
<1>1. body[m] \in Prints /\ folder \in Prints /\ "acting" \in Steps /\ round[m].view \in Views
  BY DEF TInv, TypeOK, Steps, Rounds
<1>2. round' \in [Machines -> Rounds]
  BY <1>1, LookIs, RoundIs DEF TInv
<1>3. mishaps' \in 0..MaxMishaps
  BY MeetsTypes DEF Look
<1>4. ClocksStand'
  BY ClocksAsTheyWere DEF Look, log
<1> QED BY <1>2, <1>3, <1>4 DEF TInv, TypeOK, Look, files, log

\* A turn that leaves the document as it is.
LEMMA LeavesTypes ==
    ASSUME TInv, NEW m \in Machines, NEW owes \in {"nothing", "answer", "ask"}, Leaves(m, owes),
           mishaps' = mishaps
    PROVE  TInv'
<1>1. round[m].said \in Prints /\ round[m].awaits \in Times
  BY DEF TInv, TypeOK, Rounds, Times
<1>2. round' \in [Machines -> Rounds]
  BY <1>1, EndsIs DEF TInv, Leaves
<1>3. ClocksStand'
  BY ClocksAsTheyWere DEF Leaves, log
<1> QED BY <1>2, <1>3 DEF TInv, TypeOK, Leaves, files, log

LEMMA AgreeTypes ==
    ASSUME TInv, NEW m \in Machines, Agree(m)
    PROVE  TInv'
<1>1. round[m].said \in Prints /\ round[m].awaits \in Times /\ round[m].ours \in Prints
  BY DEF TInv, TypeOK, Rounds, Times
<1>2. PICK said \in Prints : round' = Ends(m, said, round[m].awaits, "nothing")
  BY <1>1 DEF Agree
<1>3. round' \in [Machines -> Rounds]
  BY <1>1, <1>2, EndsIs DEF TInv
<1>4. kept' \in [Machines -> Prints]
  BY DEF TInv, TypeOK, Agree
<1>5. ClocksStand'
  BY ClocksAsTheyWere DEF Agree, log
<1> QED BY <1>3, <1>4, <1>5 DEF TInv, TypeOK, Agree, log

LEMMA SendIs ==
    ASSUME TypeOK, NEW m \in Machines, Send(m)
    PROVE  round' = [round EXCEPT ![m] = [step |-> "sent", taking |-> round[m].taking,
                        view |-> NoView, ours |-> round[m].ours, theirs |-> None,
                        said |-> round[m].said, awaits |-> round[m].awaits, owes |-> round[m].owes]]
<1> DEFINE r == round[m]
           one == [r EXCEPT !.step = "sent"]
           two == [one EXCEPT !.view = NoView]
           three == [two EXCEPT !.theirs = None]
<1>1. round \in [Machines -> Rounds] /\ r \in Rounds
  BY DEF TypeOK
<1>2. round' = [round EXCEPT ![m] = three]
  BY <1>1 DEF Send
<1> HIDE DEF r
<1>3. one =
        [step |-> "sent", taking |-> r.taking, view |-> r.view, ours |-> r.ours,
         theirs |-> r.theirs, said |-> r.said, awaits |-> r.awaits, owes |-> r.owes]
  BY <1>1 DEF Rounds
<1>4. two =
        [step |-> "sent", taking |-> r.taking, view |-> NoView, ours |-> r.ours,
         theirs |-> r.theirs, said |-> r.said, awaits |-> r.awaits, owes |-> r.owes]
  <2> HIDE DEF one
  <2> QED BY <1>3
<1>5. three =
        [step |-> "sent", taking |-> r.taking, view |-> NoView, ours |-> r.ours,
         theirs |-> None, said |-> r.said, awaits |-> r.awaits, owes |-> r.owes]
  <2> HIDE DEF two
  <2> QED BY <1>4
<1> HIDE DEF three
<1> QED BY <1>2, <1>5 DEF r

LEMMA SendTypes ==
    ASSUME TInv, NEW m \in Machines, Send(m)
    PROVE  TInv'
<1>1. round[m].ours \in Prints /\ "sent" \in Steps
  BY DEF TInv, TypeOK, Steps, Rounds
<1>2. round' \in [Machines -> Rounds]
  BY <1>1, Constants, SendIs, RoundIs DEF TInv
<1>3. ClocksStand'
  BY ClocksAsTheyWere DEF Send, log
<1> QED BY <1>2, <1>3 DEF TInv, TypeOK, Send, log

LEMMA SentTypes ==
    ASSUME TInv, NEW m \in Machines, Sent(m)
    PROVE  TInv'
<1>1. round[m].ours \in Prints /\ round[m].awaits \in Times
  BY DEF TInv, TypeOK, Rounds, Times
<1>2. round' \in [Machines -> Rounds]
  BY <1>1, EndsIs DEF TInv, Sent
<1>3. kept' \in [Machines -> Prints]
  BY Constants DEF TInv, TypeOK, Sent, SettledAs
<1>4. ClocksStand'
  BY ClocksAsTheyWere DEF Sent, log
<1> QED BY <1>2, <1>3, <1>4 DEF TInv, TypeOK, Sent, log

LEMMA UnansweredTypes ==
    ASSUME TInv, NEW m \in Machines, Unanswered(m)
    PROVE  TInv'
<1>1. round[m].said \in Prints /\ round[m].awaits \in Times
  BY DEF TInv, TypeOK, Rounds, Times
<1>2. PICK waits \in Times, owes \in {"nothing", "ask"} : round' = Ends(m, round[m].said, waits, owes)
  BY <1>1 DEF Unanswered, Awaits, Times
<1>3. round' \in [Machines -> Rounds]
  BY <1>1, <1>2, EndsIs DEF TInv
<1>4. ClocksStand'
  BY ClocksAsTheyWere DEF Unanswered, log
<1> QED BY <1>3, <1>4 DEF TInv, TypeOK, Unanswered, files, log

\* What takes the folder's body in.
LEMMA TakesInTypes ==
    ASSUME TInv, NEW m \in Machines, NEW whole \in Bodies, NEW owes \in {"nothing", "answer"},
           TakesIn(m, whole, owes)
    PROVE  TInv'
<1>1. round[m].theirs \in Prints /\ "no" \in Times
  BY DEF TInv, TypeOK, Rounds, Times
<1>2. round' \in [Machines -> Rounds]
  BY <1>1, EndsIs DEF TInv, TakesIn
<1>3. /\ body' \in [Machines -> Prints] /\ aside' \in [Machines -> Prints]
      /\ kept' \in [Machines -> Prints]
  BY <1>1 DEF TInv, TypeOK, TakesIn, SetAside, Prints
<1>4. ClocksStand'
  BY ClocksAsTheyWere DEF TakesIn, log
<1> QED BY <1>2, <1>3, <1>4 DEF TInv, TypeOK, TakesIn, log

\* What a round that is to take the folder's body in, or to join the two, has weighed.
LEMMA WeighedIs ==
    ASSUME TInv, NEW m \in Machines, NEW how \in {"bring", "they_decide"}, Answered(m, how)
    PROVE  /\ round[m].theirs \in Bodies
           /\ how = "they_decide" => round[m].ours \in Bodies
           /\ how = "bring" => round[m].ours = None \/ round[m].ours = round[m].said
<1>1. how = Moved(round[m].said, round[m].ours, round[m].theirs)
  BY DEF Answered, Taking, Acting, How
<1>2. round[m].theirs \in Prints /\ round[m].ours \in Prints
  BY DEF TInv, TypeOK, Rounds
<1> QED BY <1>1, <1>2, HowIs DEF Prints

LEMMA JoinedIs ==
    ASSUME TInv, NEW m \in Machines, Join(m)
    PROVE  LET ours == body[m]
               theirs == folder
               base == round[m].said
               whole == Joined(m)
           IN  /\ whole \in Bodies /\ ours \in Bodies /\ theirs \in Bodies /\ base \in Bodies
               /\ \A b \in Blocks : whole[b] = IF ours[b] = base[b] THEN theirs[b] ELSE ours[b]
               /\ \A b \in Blocks : ours[b] # base[b] => theirs[b] \in {base[b], ours[b]}
               /\ TakesIn(m, whole, "answer") /\ theirs = round[m].theirs
<1>1. folder = round[m].theirs /\ folder \in Bodies
  BY WeighedIs DEF Join
<1>2. /\ kept[m] # None /\ kept[m] = round[m].said /\ body[m] # None
      /\ Joined(m) = Merged(kept[m], body[m], folder) /\ Joined(m) # None
  BY DEF Join, Joined
<1>3. kept[m] \in Bodies /\ body[m] \in Bodies
  BY <1>2 DEF TInv, TypeOK, Prints
<1> QED BY <1>1, <1>2, <1>3, MergedIs DEF Join

LEMMA TurnTypes ==
    ASSUME TInv, NEW m \in Machines, Bring(m) \/ LetBe(m) \/ Join(m) \/ CannotJoin(m)
    PROVE  TInv'
<1>1. CASE Bring(m)
  <2>1. folder \in Bodies
    BY <1>1, WeighedIs DEF Bring
  <2> QED BY <1>1, <2>1, TakesInTypes DEF Bring
<1>2. CASE LetBe(m)
  BY <1>2, LeavesTypes DEF LetBe
<1>3. CASE Join(m)
  BY <1>3, JoinedIs, TakesInTypes
<1>4. CASE CannotJoin(m)
  BY <1>4, LeavesTypes DEF CannotJoin
<1> QED BY <1>1, <1>2, <1>3, <1>4

LEMMA EndTypes ==
    ASSUME TInv, NEW m \in Machines, End(m)
    PROVE  TInv'
<1>1. round[m].said \in Prints /\ round[m].ours \in Prints /\ round[m].theirs \in Prints
      /\ round[m].awaits \in Times /\ awaits[m] \in Times
  BY DEF TInv, TypeOK, Rounds, Times
<1>2. carried' \in [Machines -> Prints]
  BY <1>1 DEF TInv, TypeOK, End
<1>3. awaits' \in [Machines -> Times]
  BY <1>1 DEF TInv, TypeOK, End, Times
<1>4. asked' \in [Machines -> {None} \cup Asked]
  BY <1>1 DEF TInv, TypeOK, End, Asked
<1>5. [Idle EXCEPT !.step = "answering"] \in Rounds
  BY AnsweringIs, Constants DEF Rounds, Steps
<1>6. round' \in [Machines -> Rounds]
  BY <1>5, Constants DEF TInv, TypeOK, End
<1>7. ClocksStand'
  BY ClocksAsTheyWere DEF End, log
<1> QED BY <1>2, <1>3, <1>4, <1>6, <1>7 DEF TInv, TypeOK, End, log, Asked, Times

LEMMA AnswerItTypes ==
    ASSUME TInv, NEW m \in Machines, AnswerIt(m)
    PROVE  TInv'
<1>1. knows' \in [Machines -> [Machines -> Notes]] /\ ClocksStand'
  BY NotedIs DEF AnswerIt, ClocksStand
<1>2. knows'[m] \in [Machines -> Notes] /\ knows'[m][m] \in Notes
  BY <1>1
<1>3. Start(m, FALSE, knows'[m]) \in Rounds
  BY <1>2, StartIs DEF TInv
<1>4. shelf' \in [Machines -> Notes]
  BY <1>2 DEF TInv, TypeOK, AnswerIt
<1>6. round' \in [Machines -> Rounds]
  BY <1>3, Constants DEF TInv, TypeOK, AnswerIt
<1> QED BY <1>1, <1>4, <1>6 DEF TInv, TypeOK, AnswerIt, files

LEMMA SettleTypes ==
    ASSUME TInv, NEW m \in Machines, Settle(m)
    PROVE  TInv'
<1>1. body[m] \in Prints /\ folder \in Prints
  BY DEF TInv, TypeOK
<1>2. PICK whole \in Prints : Settled(m, whole)
  BY <1>1 DEF Settle, KeepTheirs, KeepMine, KeepBoth
<1>3. /\ settles' \in 0..MaxSettles /\ carried' \in [Machines -> Prints]
      /\ kept' \in [Machines -> Prints]
      /\ asked' \in [Machines -> {None} \cup [theirs : Prints, mine : Prints]]
      /\ UNCHANGED <<written, aside, log, awaits, round>>
  BY <1>2, Constants DEF Settled, TInv, TypeOK
<1>4. over' \in [Blocks -> SUBSET (({0} \cup Edits) \X Edits)]
  BY ChosenIs DEF Settle, KeepTheirs, KeepMine, KeepBoth, TInv, TypeOK, Pairs
<1>5. /\ body' \in [Machines -> Prints] /\ folder' \in Prints
      /\ beside' \subseteq Bodies
  BY <1>1 DEF Settle, KeepTheirs, KeepMine, KeepBoth, TInv, TypeOK, Prints
<1>6. mishaps' \in 0..MaxMishaps
  BY MeetsTypes DEF Settle, KeepTheirs, KeepMine, KeepBoth
<1>7. ClocksStand'
  BY <1>3, ClocksAsTheyWere DEF log
<1> QED BY <1>3, <1>4, <1>5, <1>6, <1>7 DEF TInv, TypeOK, log

LEMMA TimeTypes ==
    ASSUME TInv, NEW m \in Machines, HourPasses(m) \/ DayPasses(m) \/ Crash(m)
    PROVE  TInv'
<1>1. ClocksStand'
  BY ClocksAsTheyWere DEF HourPasses, DayPasses, Crash, log
<1>2. CASE HourPasses(m)
  BY <1>1, <1>2 DEF TInv, TypeOK, HourPasses, files, log
<1>3. CASE DayPasses(m)
  BY <1>1, <1>3 DEF TInv, TypeOK, DayPasses, files, log
<1>4. CASE Crash(m)
  <2>1. round' \in [Machines -> Rounds] /\ mishaps' \in 0..MaxMishaps
    BY <1>4, Constants DEF TInv, TypeOK, Crash, Mishap
  <2>2. asked' \in [Machines -> {None} \cup [theirs : Prints, mine : Prints]]
    BY <1>4 DEF TInv, TypeOK, Crash
  <2> QED BY <1>1, <1>4, <2>1, <2>2 DEF TInv, TypeOK, Crash, files, log
<1> QED BY <1>2, <1>3, <1>4

LEMMA FolderLostTypes ==
    ASSUME TInv, FolderLost
    PROVE  TInv'
<1>1. ClocksStand'
  BY ClocksAsTheyWere DEF FolderLost, log
<1> QED BY <1>1, Constants DEF TInv, TypeOK, FolderLost, Mishap, log

LEMMA TInvStays == TInv /\ [Next]_vars => TInv'
<1> SUFFICES ASSUME TInv, [Next]_vars PROVE TInv'
  OBVIOUS
<1>1. CASE UNCHANGED vars
  BY <1>1 DEF TInv, TypeOK, ClocksStand, vars, files, log
<1>2. CASE FolderLost
  BY <1>2, FolderLostTypes
<1>3. CASE \E m \in Machines : Edit(m) \/ Tell(m) \/ Settle(m)
  BY <1>3, EditTypes, TellTypes, SettleTypes
<1>4. CASE \E m \in Machines : HourPasses(m) \/ DayPasses(m) \/ Crash(m)
  BY <1>4, TimeTypes
<1>5. CASE \E m \in Machines : RoundStep(m)
  <2> SUFFICES ASSUME NEW m \in Machines, RoundStep(m) PROVE TInv'
    BY <1>5
  <2>1. CASE LeaveToTake(m) \/ HoldBack(m)
    BY <2>1, LeavesTypes DEF LeaveToTake, HoldBack
  <2>2. CASE Bring(m) \/ LetBe(m) \/ Join(m) \/ CannotJoin(m)
    BY <2>2, TurnTypes
  <2>3. CASE Begin(m) \/ Look(m) \/ Agree(m) \/ Send(m) \/ Sent(m)
    BY <2>3, BeginTypes, LookTypes, AgreeTypes, SendTypes, SentTypes
  <2>4. CASE Unanswered(m) \/ End(m) \/ AnswerIt(m)
    BY <2>4, UnansweredTypes, EndTypes, AnswerItTypes
  <2> QED BY <2>1, <2>2, <2>3, <2>4 DEF RoundStep
<1> QED BY <1>1, <1>2, <1>3, <1>4, <1>5 DEF Next

\* Whatever the rounds, answers, settlings, crashes and losses of any number of machines: the
\* files, ledgers, notes, waits and questions about a document are bodies, prints and steps of a
\* round: no copy, join or settlement makes a file of what is none.
THEOREM TypeCorrect == Spec => []TypeOK
<1>1. Init => TInv
  BY TInvAtFirst
<1>2. TInv /\ [Next]_vars => TInv'
  BY TInvStays
<1>3. TInv => TypeOK
  BY DEF TInv
<1> QED BY <1>1, <1>2, <1>3, PTL DEF Spec

-----------------------------------------------------------------------------
(* What covers what: a body covers another when every edit that one holds, *)
(* or was made over, is held by it, made over by it, or given up.  The     *)
(* relation is on the history (said, all) and the documents beside (docs)  *)
(* it is given, so that a step is spoken of before and after.              *)

Reach(said, x, e)      == x = e \/ <<x, e>> \in said
Gone(said, docs, b, e) == <<0, e>> \in said \/ \E v \in docs : Reach(said, v[b], e)

Covers(all, docs, X, Y) ==
    \A b \in Blocks, e \in Edits :
        Reach(all[b], Y[b], e) => Reach(all[b], X[b], e) \/ Gone(all[b], docs, b, e)

Transitive(said) ==
    \A x \in {0} \cup Edits, y \in Edits, z \in Edits :
        <<x, y>> \in said /\ <<y, z>> \in said => <<x, z>> \in said

Closed(all) == \A b \in Blocks : Transitive(all[b])

Histories == [Blocks -> SUBSET Pairs]

\* What a step may do to the history and to the documents beside.
Grown(all, docs, after, more) ==
    /\ docs \subseteq more
    /\ \A b \in Blocks :
        \/ after[b] = all[b]
        \/ \E new \in {0} \cup Edits, old \in {0} \cup Edits : after[b] = Then(all[b], new, old)

LEMMA ThenHas ==
    ASSUME NEW said, NEW new, NEW old, NEW x, NEW e
    PROVE  <<x, e>> \in Then(said, new, old) <=>
              \/ <<x, e>> \in said
              \/ x \in {0} \cup Edits /\ e \in Edits /\ Reach(said, x, new) /\ Reach(said, old, e)
<1> DEFINE more == {p \in Pairs : /\ p[1] = new \/ <<p[1], new>> \in said
                                  /\ p[2] = old \/ <<old, p[2]>> \in said}
<1>1. <<x, e>> \in more <=>
        x \in {0} \cup Edits /\ e \in Edits /\ Reach(said, x, new) /\ Reach(said, old, e)
  BY DEF Pairs, Reach
<1>2. Then(said, new, old) = said \cup more
  BY DEF Then, Pairs
<1> HIDE DEF more
<1> QED BY <1>1, <1>2

LEMMA ThenTransitive ==
    ASSUME NEW said \in SUBSET Pairs, Transitive(said),
           NEW new \in {0} \cup Edits, NEW old \in {0} \cup Edits
    PROVE  Transitive(Then(said, new, old))
<1> SUFFICES ASSUME NEW x \in {0} \cup Edits, NEW y \in Edits, NEW z \in Edits,
                    <<x, y>> \in Then(said, new, old), <<y, z>> \in Then(said, new, old)
             PROVE  <<x, z>> \in Then(said, new, old)
  BY DEF Transitive
<1>1. \/ <<x, y>> \in said
      \/ Reach(said, x, new) /\ Reach(said, old, y)
  BY ThenHas
<1>2. \/ <<y, z>> \in said
      \/ Reach(said, y, new) /\ Reach(said, old, z)
  BY ThenHas
<1>3. CASE <<x, y>> \in said /\ <<y, z>> \in said
  BY <1>3, ThenHas DEF Transitive
<1>4. ASSUME <<x, y>> \in said, Reach(said, y, new), Reach(said, old, z)
      PROVE  <<x, z>> \in Then(said, new, old)
  <2>1. Reach(said, x, new)
    <3>1. CASE y = new
      BY <3>1, <1>4 DEF Reach
    <3>2. CASE <<y, new>> \in said
      <4>1. new \in Edits
        BY <3>2 DEF Pairs
      <4> QED BY <4>1, <3>2, <1>4 DEF Reach, Transitive
    <3> QED BY <3>1, <3>2, <1>4 DEF Reach
  <2> QED BY <2>1, <1>4, ThenHas
<1>5. ASSUME Reach(said, x, new), Reach(said, old, y), <<y, z>> \in said
      PROVE  <<x, z>> \in Then(said, new, old)
  <2>1. Reach(said, old, z)
    BY <1>5 DEF Reach, Transitive
  <2> QED BY <2>1, <1>5, ThenHas
<1>6. ASSUME Reach(said, x, new), Reach(said, old, z)
      PROVE  <<x, z>> \in Then(said, new, old)
  BY <1>6, ThenHas
<1> QED BY <1>1, <1>2, <1>3, <1>4, <1>5, <1>6

LEMMA CoversItself ==
    ASSUME NEW all, NEW docs, NEW X
    PROVE  Covers(all, docs, X, X)
BY DEF Covers

LEMMA CoversThrough ==
    ASSUME NEW all, NEW docs, NEW X, NEW Y, NEW Z,
           Covers(all, docs, X, Y), Covers(all, docs, Y, Z)
    PROVE  Covers(all, docs, X, Z)
BY DEF Covers

\* A document beside is covered by whatever stands in its place.
LEMMA BesideCovers ==
    ASSUME NEW all, NEW docs, NEW X, NEW Y \in docs
    PROVE  Covers(all, docs, X, Y)
BY DEF Covers, Gone

\* What was written, or chosen, over another covers it.
LEMMA OverCovers ==
    ASSUME NEW all \in Histories, NEW after, NEW docs, NEW X \in Bodies, NEW Y \in Bodies,
           \A b \in Blocks : X[b] = Y[b] \/ after[b] = Then(all[b], X[b], Y[b])
    PROVE  Covers(after, docs, X, Y)
<1> SUFFICES ASSUME NEW b \in Blocks, NEW e \in Edits, Reach(after[b], Y[b], e), X[b] # Y[b]
             PROVE  Reach(after[b], X[b], e)
  BY DEF Covers
<1>1. after[b] = Then(all[b], X[b], Y[b]) /\ X[b] \in {0} \cup Edits /\ Y[b] \in {0} \cup Edits
  BY DEF Bodies
<1>2. Reach(all[b], Y[b], e)
  <2>1. CASE Y[b] = e
    BY <2>1 DEF Reach
  <2>2. CASE <<Y[b], e>> \in Then(all[b], X[b], Y[b])
    BY <2>2, ThenHas DEF Reach
  <2> QED BY <2>1, <2>2, <1>1 DEF Reach
<1>3. Reach(all[b], X[b], X[b])
  BY DEF Reach
<1>4. <<X[b], e>> \in Then(all[b], X[b], Y[b])
  BY <1>1, <1>2, <1>3, ThenHas
<1> QED BY <1>4, <1>1 DEF Reach

LEMMA ReachGrows ==
    ASSUME NEW all, NEW docs, NEW after, NEW more, Grown(all, docs, after, more),
           NEW b \in Blocks, NEW x, NEW e, Reach(all[b], x, e)
    PROVE  Reach(after[b], x, e)
<1>1. CASE x = e
  BY <1>1 DEF Reach
<1>2. ASSUME <<x, e>> \in all[b] PROVE <<x, e>> \in after[b]
  <2>1. \A new, old : <<x, e>> \in Then(all[b], new, old)
    BY <1>2, ThenHas
  <2> QED BY <1>2, <2>1 DEF Grown
<1> QED BY <1>1, <1>2 DEF Reach

LEMMA GoneGrows ==
    ASSUME NEW all, NEW docs, NEW after, NEW more, Grown(all, docs, after, more),
           NEW b \in Blocks, NEW e, Gone(all[b], docs, b, e)
    PROVE  Gone(after[b], more, b, e)
<1>1. CASE <<0, e>> \in all[b]
  BY <1>1, ThenHas DEF Grown, Gone
<1>2. CASE \E v \in docs : Reach(all[b], v[b], e)
  BY <1>2, ReachGrows DEF Grown, Gone
<1> QED BY <1>1, <1>2 DEF Gone

LEMMA CoversGrows ==
    ASSUME NEW all \in Histories, NEW docs \in SUBSET Bodies, NEW after, NEW more,
           Grown(all, docs, after, more), NEW X \in Bodies, NEW Y \in Bodies,
           Covers(all, docs, X, Y)
    PROVE  Covers(after, more, X, Y)
<1> SUFFICES ASSUME NEW b \in Blocks, NEW e \in Edits, Reach(after[b], Y[b], e)
             PROVE  Reach(after[b], X[b], e) \/ Gone(after[b], more, b, e)
  BY DEF Covers
<1>1. X[b] \in {0} \cup Edits /\ Y[b] \in {0} \cup Edits
  BY DEF Bodies
<1>2. CASE Reach(all[b], Y[b], e)
  <2>1. Reach(all[b], X[b], e) \/ Gone(all[b], docs, b, e)
    BY <1>2 DEF Covers
  <2> QED BY <2>1, ReachGrows, GoneGrows
<1>3. CASE ~Reach(all[b], Y[b], e)
  <2>1. PICK new \in {0} \cup Edits, old \in {0} \cup Edits : after[b] = Then(all[b], new, old)
    BY <1>3 DEF Grown
  <2>2. Reach(all[b], Y[b], new) /\ Reach(all[b], old, e)
    BY <1>3, <2>1, ThenHas DEF Reach
  <2>3. ASSUME NEW x \in {0} \cup Edits, Reach(all[b], x, new)
        PROVE  <<x, e>> \in after[b]
    BY <2>1, <2>2, <2>3, ThenHas
  <2>4. CASE new = 0
    <3>1. <<0, e>> \in after[b]
      BY <2>3, <2>4 DEF Reach
    <3> QED BY <3>1 DEF Gone
  <2>5. CASE new \in Edits
    <3>1. Reach(all[b], X[b], new) \/ Gone(all[b], docs, b, new)
      BY <2>2, <2>5 DEF Covers
    <3>2. CASE Reach(all[b], X[b], new)
      BY <3>2, <2>3, <1>1 DEF Reach
    <3>3. CASE <<0, new>> \in all[b]
      <4>1. <<0, e>> \in after[b]
        BY <2>3, <3>3 DEF Reach
      <4> QED BY <4>1 DEF Gone
    <3>4. CASE \E v \in docs : Reach(all[b], v[b], new)
      <4>1. PICK v \in docs : Reach(all[b], v[b], new)
        BY <3>4
      <4>2. v[b] \in {0} \cup Edits /\ v \in more
        BY DEF Grown, Bodies
      <4>3. Reach(after[b], v[b], e)
        BY <4>1, <4>2, <2>3 DEF Reach
      <4> QED BY <4>2, <4>3 DEF Gone
    <3> QED BY <3>1, <3>2, <3>3, <3>4 DEF Gone
  <2> QED BY <2>4, <2>5
<1> QED BY <1>2, <1>3

LEMMA ClosedGrows ==
    ASSUME NEW all \in Histories, NEW docs, NEW after, NEW more,
           Grown(all, docs, after, more), Closed(all)
    PROVE  Closed(after)
<1> SUFFICES ASSUME NEW b \in Blocks PROVE Transitive(after[b])
  BY DEF Closed
<1>1. all[b] \in SUBSET Pairs /\ Transitive(all[b])
  BY DEF Closed, Histories
<1>2. CASE after[b] = all[b]
  BY <1>1, <1>2
<1>3. CASE \E new \in {0} \cup Edits, old \in {0} \cup Edits : after[b] = Then(all[b], new, old)
  BY <1>1, <1>3, ThenTransitive
<1> QED BY <1>2, <1>3 DEF Grown

-----------------------------------------------------------------------------
(* What is below the files: a print whose edits are all in the folder, or, *)
(* where the folder has no file, in every machine's.                       *)

Under(all, docs, bodies, file, p) ==
    p # None => IF file # None THEN Covers(all, docs, file, p)
                ELSE \A n \in Machines : Covers(all, docs, bodies[n], p)

\* And in the body of the machine whose print it is, where it has one.
Beneath(all, docs, bodies, file, m, p) ==
    /\ Under(all, docs, bodies, file, p)
    /\ bodies[m] # None /\ p # None => Covers(all, docs, bodies[m], p)

\* An edit that some file has, or that was given up.
Held(all, docs, bodies, file, e) ==
    \E b \in Blocks :
        \/ Gone(all[b], docs, b, e)
        \/ file # None /\ Reach(all[b], file[b], e)
        \/ \E m \in Machines : bodies[m] # None /\ Reach(all[b], bodies[m][b], e)

\* A machine's body goes on to what covers it, or is the folder's where it had none.
BodyOnward(after, more, was, is, file, there) ==
    \/ is = was
    \/ was # None /\ is # None /\ Covers(after, more, is, was)
    \/ was = None /\ is # None /\ is = file /\ there = file

\* The folder's goes on to what covers it, to a machine's where it had none, or is lost where
\* every machine has it.
FileOnward(after, more, bodies, then, file, there) ==
    \/ there = file
    \/ there # None /\ file # None /\ Covers(after, more, there, file)
    \/ there # None /\ file = None /\ \E m \in Machines : there = bodies[m]
    \/ /\ there = None /\ file # None /\ then = bodies
       /\ \A m \in Machines : bodies[m] = file
       /\ \E m \in Machines : bodies[m] = file

Onward(all, docs, bodies, file, after, more, then, there) ==
    /\ Grown(all, docs, after, more)
    /\ \A m \in Machines : BodyOnward(after, more, bodies[m], then[m], file, there)
    /\ FileOnward(after, more, bodies, then, file, there)

\* Where the folder has no file, every machine has one.
Somewhere(bodies, file) == file = None => \A m \in Machines : bodies[m] # None

LEMMA OnwardUnder ==
    ASSUME NEW all \in Histories, NEW docs \in SUBSET Bodies,
           NEW bodies \in [Machines -> Prints], NEW file \in Prints,
           NEW after, NEW more, NEW then \in [Machines -> Prints], NEW there \in Prints,
           Onward(all, docs, bodies, file, after, more, then, there), Somewhere(bodies, file),
           NEW p \in Prints, Under(all, docs, bodies, file, p)
    PROVE  Under(after, more, then, there, p)
<1> SUFFICES ASSUME p # None PROVE Under(after, more, then, there, p)
  BY DEF Under
<1>0. Grown(all, docs, after, more) /\ p \in Bodies
  BY DEF Onward, Prints
<1>1. CASE file # None
  <2>1. Covers(all, docs, file, p) /\ file \in Bodies
    BY <1>1 DEF Under, Prints
  <2>2. Covers(after, more, file, p)
    BY <1>0, <2>1, CoversGrows
  <2>3. CASE there = file
    BY <1>1, <2>2, <2>3 DEF Under
  <2>4. CASE there # None /\ Covers(after, more, there, file)
    BY <2>2, <2>4, CoversThrough DEF Under
  <2>5. CASE there = None /\ \A m \in Machines : then[m] = file
    BY <2>2, <2>5 DEF Under
  <2> QED BY <1>1, <2>3, <2>4, <2>5 DEF Onward, FileOnward
<1>2. CASE file = None
  <2>1. \A n \in Machines : bodies[n] \in Bodies /\ Covers(all, docs, bodies[n], p)
    BY <1>2 DEF Under, Prints, Somewhere
  <2>2. \A n \in Machines : Covers(after, more, bodies[n], p)
    BY <1>0, <2>1, CoversGrows
  <2>3. CASE there # None
    BY <1>2, <2>2, <2>3 DEF Under, Onward, FileOnward
  <2>4. CASE there = None
    <3>1. \A n \in Machines : then[n] = bodies[n] \/ Covers(after, more, then[n], bodies[n])
      BY <1>2 DEF Onward, BodyOnward
    <3>2. \A n \in Machines : Covers(after, more, then[n], p)
      BY <2>2, <3>1, CoversThrough
    <3> QED BY <2>4, <3>2 DEF Under
  <2> QED BY <2>3, <2>4
<1> QED BY <1>1, <1>2

LEMMA OnwardCovers ==
    ASSUME NEW all \in Histories, NEW docs \in SUBSET Bodies,
           NEW bodies \in [Machines -> Prints], NEW file \in Prints,
           NEW after, NEW more, NEW then \in [Machines -> Prints], NEW there \in Prints,
           Onward(all, docs, bodies, file, after, more, then, there),
           NEW m \in Machines, NEW p \in Bodies, bodies[m] # None,
           Covers(all, docs, bodies[m], p)
    PROVE  then[m] # None /\ Covers(after, more, then[m], p)
<1>1. bodies[m] \in Bodies /\ Grown(all, docs, after, more)
  BY DEF Onward, Prints
<1>2. Covers(after, more, bodies[m], p)
  BY <1>1, CoversGrows
<1>3. then[m] # None /\ (then[m] = bodies[m] \/ Covers(after, more, then[m], bodies[m]))
  BY DEF Onward, BodyOnward
<1> QED BY <1>2, <1>3, CoversThrough

LEMMA OnwardBeneath ==
    ASSUME NEW all \in Histories, NEW docs \in SUBSET Bodies,
           NEW bodies \in [Machines -> Prints], NEW file \in Prints,
           NEW after, NEW more, NEW then \in [Machines -> Prints], NEW there \in Prints,
           Onward(all, docs, bodies, file, after, more, then, there), Somewhere(bodies, file),
           NEW m \in Machines, NEW p \in Prints, Beneath(all, docs, bodies, file, m, p)
    PROVE  Beneath(after, more, then, there, m, p)
<1>1. Under(after, more, then, there, p)
  BY OnwardUnder DEF Beneath
<1>2. ASSUME then[m] # None, p # None PROVE Covers(after, more, then[m], p)
  <2>1. CASE bodies[m] # None
    <3>1. p \in Bodies /\ Covers(all, docs, bodies[m], p)
      BY <1>2, <2>1 DEF Beneath, Prints
    <3> QED BY <2>1, <3>1, OnwardCovers
  <2>2. CASE bodies[m] = None
    <3>1. then[m] = there /\ there # None
      BY <1>2, <2>2 DEF Onward, BodyOnward
    <3> QED BY <1>1, <1>2, <3>1 DEF Under
  <2> QED BY <2>1, <2>2
<1> QED BY <1>1, <1>2 DEF Beneath

LEMMA OnwardHeld ==
    ASSUME NEW all \in Histories, NEW docs \in SUBSET Bodies,
           NEW bodies \in [Machines -> Prints], NEW file \in Prints,
           NEW after, NEW more, NEW then \in [Machines -> Prints], NEW there \in Prints,
           Onward(all, docs, bodies, file, after, more, then, there),
           NEW e \in Edits, Held(all, docs, bodies, file, e)
    PROVE  Held(after, more, then, there, e)
<1>0. Grown(all, docs, after, more)
  BY DEF Onward
<1>1. PICK b \in Blocks :
        \/ Gone(all[b], docs, b, e)
        \/ file # None /\ Reach(all[b], file[b], e)
        \/ \E m \in Machines : bodies[m] # None /\ Reach(all[b], bodies[m][b], e)
  BY DEF Held
<1>2. CASE Gone(all[b], docs, b, e)
  BY <1>0, <1>2, GoneGrows DEF Held
<1>3. CASE file # None /\ Reach(all[b], file[b], e)
  <2>1. Reach(after[b], file[b], e)
    BY <1>0, <1>3, ReachGrows
  <2>2. CASE there = file
    BY <1>3, <2>1, <2>2 DEF Held
  <2>3. CASE there # None /\ Covers(after, more, there, file)
    <3>1. Reach(after[b], there[b], e) \/ Gone(after[b], more, b, e)
      BY <2>1, <2>3 DEF Covers
    <3> QED BY <2>3, <3>1 DEF Held
  <2>4. CASE \E m \in Machines : then[m] = file
    BY <1>3, <2>1, <2>4 DEF Held
  <2> QED BY <1>3, <2>2, <2>3, <2>4 DEF Onward, FileOnward
<1>4. CASE \E m \in Machines : bodies[m] # None /\ Reach(all[b], bodies[m][b], e)
  <2>1. PICK m \in Machines : bodies[m] # None /\ Reach(all[b], bodies[m][b], e)
    BY <1>4
  <2>2. Reach(after[b], bodies[m][b], e)
    BY <1>0, <2>1, ReachGrows
  <2>3. then[m] # None /\ (then[m] = bodies[m] \/ Covers(after, more, then[m], bodies[m]))
    BY <2>1 DEF Onward, BodyOnward
  <2>4. Reach(after[b], then[m][b], e) \/ Gone(after[b], more, b, e)
    BY <2>2, <2>3 DEF Covers
  <2> QED BY <2>3, <2>4 DEF Held
<1> QED BY <1>1, <1>2, <1>3, <1>4

-----------------------------------------------------------------------------
(* The invariant                                                           *)

\* No send meets another's in the folder, and the folder's file is lost only where every
\* machine has it.
Quiet == Mishaps \subseteq {"crash", "lost_there"}

\* What a round remembers is beneath the files; what it found here is so where it was.
RoundStands(all, docs, bodies, file, m, r) ==
    /\ Beneath(all, docs, bodies, file, m, r.said)
    /\ Under(all, docs, bodies, file, r.theirs)
    /\ r.step = "sent" => Under(all, docs, bodies, file, r.ours)
    /\ r.ours # None => bodies[m] # None /\ Covers(all, docs, bodies[m], r.ours)

\* A round that is to write over the folder's body.
Sends(r) == r.step = "acting" /\ Moved(r.said, r.ours, r.theirs) = "send"

\* It has a body that covers the folder's, and it is the only one.
SendsStand(all, docs, bodies, file, rounds) ==
    \A m \in Machines : Sends(rounds[m]) =>
        /\ bodies[m] # None
        /\ file # None => Covers(all, docs, bodies[m], file)
        /\ \A n \in Machines \ {m} : ~Sends(rounds[n])

SInv ==
    /\ Closed(over)
    /\ Somewhere(body, folder)
    /\ \A m \in Machines : Beneath(over, beside, body, folder, m, carried[m])
    /\ \A m \in Machines : RoundStands(over, beside, body, folder, m, round[m])
    /\ SendsStand(over, beside, body, folder, round)
    /\ \A e \in 1..written : Held(over, beside, body, folder, e)

Still == over' = over /\ beside' = beside /\ body' = body /\ folder' = folder

\* What a step does to the files and to what is written over what.
Goes == Onward(over, beside, body, folder, over', beside', body', folder')

LEMMA TypesGive ==
    ASSUME TInv
    PROVE  /\ over \in Histories /\ beside \in SUBSET Bodies /\ written \in 0..MaxEdits
           /\ body \in [Machines -> Prints] /\ folder \in Prints
           /\ carried \in [Machines -> Prints] /\ round \in [Machines -> Rounds]
           /\ \A m \in Machines : /\ round[m].said \in Prints /\ round[m].ours \in Prints
                                  /\ round[m].theirs \in Prints
BY DEF TInv, TypeOK, Histories, Pairs, Rounds

LEMMA StillGoes == Still => Goes
BY DEF Still, Goes, Onward, Grown, BodyOnward, FileOnward

LEMMA NothingBeneath ==
    ASSUME NEW all, NEW docs, NEW bodies, NEW file, NEW m
    PROVE  Beneath(all, docs, bodies, file, m, None) /\ Under(all, docs, bodies, file, None)
BY DEF Beneath, Under

LEMMA OnwardRound ==
    ASSUME TInv, TInv', SInv, Goes, NEW m \in Machines, round'[m] = round[m]
    PROVE  RoundStands(over', beside', body', folder', m, round'[m])
<1> DEFINE r == round[m]
<1>1. /\ Beneath(over, beside, body, folder, m, r.said)
      /\ Under(over, beside, body, folder, r.theirs)
      /\ r.step = "sent" => Under(over, beside, body, folder, r.ours)
      /\ r.ours # None => body[m] # None /\ Covers(over, beside, body[m], r.ours)
  BY DEF SInv, RoundStands
<1>2. /\ over \in Histories /\ beside \in SUBSET Bodies
      /\ body \in [Machines -> Prints] /\ folder \in Prints
      /\ body' \in [Machines -> Prints] /\ folder' \in Prints
      /\ r.said \in Prints /\ r.ours \in Prints /\ r.theirs \in Prints
      /\ Somewhere(body, folder)
  BY TypesGive DEF SInv, TInv, TypeOK
<1>3. Onward(over, beside, body, folder, over', beside', body', folder')
  BY DEF Goes
<1> HIDE DEF r
<1>4. Beneath(over', beside', body', folder', m, r.said)
  BY <1>1, <1>2, <1>3, OnwardBeneath
<1>5. Under(over', beside', body', folder', r.theirs)
  BY <1>1, <1>2, <1>3, OnwardUnder
<1>6. r.step = "sent" => Under(over', beside', body', folder', r.ours)
  BY <1>1, <1>2, <1>3, OnwardUnder
<1>7. r.ours # None => body'[m] # None /\ Covers(over', beside', body'[m], r.ours)
  <2>1. r.ours # None => r.ours \in Bodies
    BY <1>2 DEF Prints
  <2> QED BY <1>1, <1>2, <1>3, <2>1, OnwardCovers
<1>8. round'[m] = r
  BY DEF r
<1> QED BY <1>4, <1>5, <1>6, <1>7, <1>8 DEF RoundStands

\* What is left to show of a step that moves the files onward.
LEMMA Moves ==
    ASSUME TInv, TInv', SInv, Goes,
           \A m \in Machines : \/ carried'[m] = carried[m]
                               \/ Beneath(over', beside', body', folder', m, carried'[m]),
           \A m \in Machines : \/ round'[m] = round[m]
                               \/ RoundStands(over', beside', body', folder', m, round'[m]),
           SendsStand(over', beside', body', folder', round'),
           \/ written' = written
           \/ written' = written + 1 /\ Held(over', beside', body', folder', written + 1)
    PROVE  SInv'
<1>1. /\ over \in Histories /\ beside \in SUBSET Bodies
      /\ body \in [Machines -> Prints] /\ folder \in Prints
      /\ body' \in [Machines -> Prints] /\ folder' \in Prints
      /\ \A m \in Machines : carried[m] \in Prints
      /\ Somewhere(body, folder) /\ Closed(over)
  BY TypesGive DEF SInv, TInv, TypeOK
<1>2. Onward(over, beside, body, folder, over', beside', body', folder')
  BY DEF Goes
<1>3. Closed(over')
  BY <1>1, <1>2, ClosedGrows DEF Onward
<1>4. Somewhere(body', folder')
  BY <1>1, <1>2 DEF Somewhere, Onward, BodyOnward, FileOnward
<1>5. \A m \in Machines : Beneath(over', beside', body', folder', m, carried'[m])
  <2> SUFFICES ASSUME NEW m \in Machines, carried'[m] = carried[m]
               PROVE  Beneath(over', beside', body', folder', m, carried[m])
    OBVIOUS
  <2>1. Beneath(over, beside, body, folder, m, carried[m])
    BY DEF SInv
  <2> QED BY <1>1, <1>2, <2>1, OnwardBeneath
<1>6. \A m \in Machines : RoundStands(over', beside', body', folder', m, round'[m])
  BY OnwardRound
<1>7. \A e \in 1..written' : Held(over', beside', body', folder', e)
  <2>1. written \in 0..MaxEdits /\ written' \in 0..MaxEdits /\ MaxEdits \in Nat
    BY TypesGive, Constants DEF TInv, TypeOK
  <2>2. \A e \in 1..written : e \in Edits /\ Held(over, beside, body, folder, e)
    BY <2>1 DEF SInv, Edits
  <2>3. \A e \in 1..written : Held(over', beside', body', folder', e)
    BY <1>1, <1>2, <2>2, OnwardHeld
  <2>4. CASE written' = written
    BY <2>3, <2>4
  <2>5. CASE written' = written + 1 /\ Held(over', beside', body', folder', written + 1)
    <3> TAKE e \in 1..written'
    <3>1. e \in 1..written \/ e = written + 1
      BY <2>1, <2>5
    <3> QED BY <2>3, <2>5, <3>1
  <2> QED BY <2>4, <2>5
<1> QED BY <1>3, <1>4, <1>5, <1>6, <1>7 DEF SInv

\* A step of a round that leaves the files as they are, and sends nothing yet.
LEMMA RoundMoves ==
    ASSUME TInv, TInv', SInv, Still, written' = written, NEW m \in Machines,
           \A n \in Machines \ {m} : round'[n] = round[n] /\ carried'[n] = carried[n],
           Beneath(over, beside, body, folder, m, carried'[m]),
           RoundStands(over, beside, body, folder, m, round'[m]), ~Sends(round'[m])
    PROVE  SInv'
<1>1. Goes
  BY StillGoes
<1>2. \A n \in Machines : \/ carried'[n] = carried[n]
                          \/ Beneath(over', beside', body', folder', n, carried'[n])
  BY DEF Still
<1>3. \A n \in Machines : \/ round'[n] = round[n]
                          \/ RoundStands(over', beside', body', folder', n, round'[n])
  BY DEF Still
<1>4. SendsStand(over', beside', body', folder', round')
  BY DEF Still, SInv, SendsStand
<1> QED BY <1>1, <1>2, <1>3, <1>4, Moves

-----------------------------------------------------------------------------
(* Steps that leave the files as they are                                  *)

LEMMA SInvAtFirst == Init => SInv
<1> SUFFICES ASSUME Init PROVE SInv
  OBVIOUS
<1>1. Closed(over)
  BY DEF Init, Closed, Transitive
<1>2. Somewhere(body, folder) /\ folder = Blank
  BY Constants DEF Init, Somewhere
<1>3. \A m \in Machines : Beneath(over, beside, body, folder, m, carried[m])
  <2>1. \A m \in Machines : /\ carried[m] \in {None, Blank}
                            /\ body[m] # None => body[m] = Blank
    BY DEF Init
  <2> QED BY <1>2, <2>1, Constants, CoversItself DEF Beneath, Under
<1>4. \A m \in Machines : round[m] = Idle
  BY DEF Init
<1>5. \A m \in Machines : RoundStands(over, beside, body, folder, m, round[m])
  BY <1>4, NothingBeneath DEF RoundStands, Idle
<1>6. SendsStand(over, beside, body, folder, round)
  BY <1>4 DEF SendsStand, Sends, Idle
<1>7. \A e \in 1..written : FALSE
  BY DEF Init
<1> QED BY <1>1, <1>2, <1>3, <1>5, <1>6, <1>7 DEF SInv

LEMMA BeginsStand ==
    ASSUME TInv, SInv, NEW m \in Machines, NEW taking, NEW notes
    PROVE  /\ RoundStands(over, beside, body, folder, m, Start(m, taking, notes))
           /\ ~Sends(Start(m, taking, notes))
<1> DEFINE r == Start(m, taking, notes)
<1>1. r.step = "looking" /\ r.ours = None /\ r.theirs = None /\ r.said = carried[m]
  BY DEF Start
<1>2. Beneath(over, beside, body, folder, m, carried[m])
  BY DEF SInv
<1> HIDE DEF r
<1>3. RoundStands(over, beside, body, folder, m, r) /\ ~Sends(r)
  BY <1>1, <1>2, NothingBeneath DEF RoundStands, Sends
<1> QED BY <1>3 DEF r

LEMMA RestsStand ==
    ASSUME NEW m \in Machines, NEW r \in {Idle, [Idle EXCEPT !.step = "answering"]}
    PROVE  RoundStands(over, beside, body, folder, m, r) /\ ~Sends(r)
<1>1. r.step \in {"idle", "answering"} /\ r.ours = None /\ r.theirs = None /\ r.said = None
  BY AnsweringIs DEF Idle
<1> QED BY <1>1, NothingBeneath DEF RoundStands, Sends

LEMMA EndsStand ==
    ASSUME TInv, SInv, Still, NEW m \in Machines, NEW said \in Prints,
           Beneath(over, beside, body, folder, m, said),
           NEW waits \in Times, NEW owes \in {"nothing", "answer", "ask"},
           round' = Ends(m, said, waits, owes)
    PROVE  /\ RoundStands(over, beside, body, folder, m, round'[m]) /\ ~Sends(round'[m])
           /\ \A n \in Machines \ {m} : round'[n] = round[n]
<1> DEFINE r == EndOf(m, said, waits, owes)
<1>1. round'[m] = r /\ \A n \in Machines \ {m} : round'[n] = round[n]
  BY EndsIs DEF TInv, TypeOK
<1>2. /\ r.step = "ending" /\ r.said = said /\ r.ours \in {None, round[m].ours}
      /\ r.theirs \in {None, round[m].theirs}
  BY DEF EndOf
<1> HIDE DEF r
<1>3. RoundStands(over, beside, body, folder, m, round[m])
  BY DEF SInv
<1>4. RoundStands(over, beside, body, folder, m, r) /\ ~Sends(r)
  BY <1>2, <1>3, NothingBeneath DEF RoundStands, Sends
<1> QED BY <1>1, <1>4

\* The end of a turn that moved no file.
LEMMA TurnMoves ==
    ASSUME TInv, TInv', SInv, Still, written' = written, carried' = carried,
           NEW m \in Machines, NEW said \in Prints,
           Beneath(over, beside, body, folder, m, said),
           NEW waits \in Times, NEW owes \in {"nothing", "answer", "ask"},
           round' = Ends(m, said, waits, owes)
    PROVE  SInv'
<1>1. Beneath(over, beside, body, folder, m, carried'[m])
  BY DEF SInv
<1>2. /\ RoundStands(over, beside, body, folder, m, round'[m]) /\ ~Sends(round'[m])
      /\ \A n \in Machines \ {m} : round'[n] = round[n]
  BY EndsStand
<1> QED BY <1>1, <1>2, RoundMoves

LEMMA LeavesMoves ==
    ASSUME TInv, TInv', SInv, NEW m \in Machines, NEW owes \in {"nothing", "answer", "ask"},
           Leaves(m, owes)
    PROVE  SInv' /\ Still
<1>1. round[m].said \in Prints /\ round[m].awaits \in Times
  BY DEF TInv, TypeOK, Rounds, Times
<1>2. Beneath(over, beside, body, folder, m, round[m].said)
  BY DEF SInv, RoundStands
<1>3. Still /\ written' = written /\ carried' = carried
  BY DEF Leaves, Still, files
<1> QED BY <1>1, <1>2, <1>3, TurnMoves DEF Leaves

LEMMA UnansweredMoves ==
    ASSUME TInv, TInv', SInv, NEW m \in Machines, Unanswered(m)
    PROVE  SInv' /\ Still
<1>1. round[m].said \in Prints /\ round[m].awaits \in Times
  BY DEF TInv, TypeOK, Rounds, Times
<1>2. PICK waits \in Times, owes \in {"nothing", "ask"} : round' = Ends(m, round[m].said, waits, owes)
  BY <1>1 DEF Unanswered, Awaits, Times
<1>3. Beneath(over, beside, body, folder, m, round[m].said)
  BY DEF SInv, RoundStands
<1>4. Still /\ written' = written /\ carried' = carried
  BY DEF Unanswered, Still, files
<1> QED BY <1>1, <1>2, <1>3, <1>4, TurnMoves

\* Both sides hold the print the round saw.
LEMMA AgreeMoves ==
    ASSUME TInv, TInv', SInv, NEW m \in Machines, Agree(m)
    PROVE  SInv' /\ Still
<1> DEFINE print == round[m].ours
           said == IF print = None THEN round[m].said ELSE print
<1>1. /\ round[m].said \in Prints /\ round[m].awaits \in Times /\ said \in Prints
      /\ round' = Ends(m, said, round[m].awaits, "nothing") /\ print = round[m].theirs
  <2>1. print = round[m].theirs
    BY HowIs DEF Agree, Acting, How
  <2> QED BY <2>1 DEF TInv, TypeOK, Rounds, Times, Agree
<1>2. RoundStands(over, beside, body, folder, m, round[m])
  BY DEF SInv
<1>3. Beneath(over, beside, body, folder, m, said)
  BY <1>1, <1>2 DEF RoundStands, Beneath
<1>4. Still /\ written' = written /\ carried' = carried
  BY DEF Agree, Still
<1> HIDE DEF said
<1> QED BY <1>1, <1>3, <1>4, TurnMoves

\* What was sent is in the folder.
LEMMA SentMoves ==
    ASSUME TInv, TInv', SInv, NEW m \in Machines, Sent(m)
    PROVE  SInv' /\ Still
<1>1. round[m].ours \in Prints /\ round[m].awaits \in Times
  BY DEF TInv, TypeOK, Rounds, Times
<1>2. RoundStands(over, beside, body, folder, m, round[m]) /\ round[m].step = "sent"
  BY DEF SInv, Sent
<1>3. Beneath(over, beside, body, folder, m, round[m].ours)
  BY <1>2 DEF RoundStands, Beneath
<1>4. Still /\ written' = written /\ carried' = carried
      /\ round' = Ends(m, round[m].ours, round[m].awaits, "nothing")
  BY DEF Sent, Still
<1> QED BY <1>1, <1>3, <1>4, TurnMoves

LEMMA BeginMoves ==
    ASSUME TInv, TInv', SInv, NEW m \in Machines, Begin(m)
    PROVE  SInv' /\ Still
<1>1. Still /\ written' = written /\ carried' = carried
  BY DEF Begin, Still, files
<1>2. round'[m] = Start(m, TRUE, knows'[m]) /\ \A n \in Machines \ {m} : round'[n] = round[n]
  BY DEF Begin, TInv, TypeOK
<1>3. RoundStands(over, beside, body, folder, m, round'[m]) /\ ~Sends(round'[m])
  BY <1>2, BeginsStand
<1>4. Beneath(over, beside, body, folder, m, carried'[m])
  BY <1>1 DEF SInv
<1> QED BY <1>1, <1>2, <1>3, <1>4, RoundMoves

LEMMA AnswerItMoves ==
    ASSUME TInv, TInv', SInv, NEW m \in Machines, AnswerIt(m)
    PROVE  SInv' /\ Still
<1>1. Still /\ written' = written /\ carried' = carried
  BY DEF AnswerIt, Still, files
<1>2. /\ round'[m] \in {Idle, Start(m, FALSE, knows'[m])}
      /\ \A n \in Machines \ {m} : round'[n] = round[n]
  BY DEF AnswerIt, TInv, TypeOK
<1>3. RoundStands(over, beside, body, folder, m, round'[m]) /\ ~Sends(round'[m])
  <2>1. CASE round'[m] = Idle
    BY <2>1, RestsStand
  <2>2. CASE round'[m] = Start(m, FALSE, knows'[m])
    <3> DEFINE notes == knows'[m]
    <3>1. /\ RoundStands(over, beside, body, folder, m, Start(m, FALSE, notes))
          /\ ~Sends(Start(m, FALSE, notes))
      <4> HIDE DEF notes
      <4> QED BY BeginsStand
    <3> QED BY <2>2, <3>1
  <2> QED BY <1>2, <2>1, <2>2
<1>4. Beneath(over, beside, body, folder, m, carried'[m])
  BY <1>1 DEF SInv
<1> QED BY <1>1, <1>2, <1>3, <1>4, RoundMoves

LEMMA EndMoves ==
    ASSUME TInv, TInv', SInv, NEW m \in Machines, End(m)
    PROVE  SInv' /\ Still
<1>1. Still /\ written' = written
  BY DEF End, Still
<1>2. /\ round'[m] \in {Idle, [Idle EXCEPT !.step = "answering"]}
      /\ \A n \in Machines \ {m} : round'[n] = round[n] /\ carried'[n] = carried[n]
      /\ carried'[m] = round[m].said
  BY DEF End, TInv, TypeOK
<1>3. RoundStands(over, beside, body, folder, m, round'[m]) /\ ~Sends(round'[m])
  BY <1>2, RestsStand
<1>4. Beneath(over, beside, body, folder, m, carried'[m])
  BY <1>2 DEF SInv, RoundStands
<1> QED BY <1>1, <1>2, <1>3, <1>4, RoundMoves

\* The program stops, and its round with it.
LEMMA CrashMoves ==
    ASSUME TInv, TInv', SInv, NEW m \in Machines, Crash(m)
    PROVE  SInv' /\ Still
<1>1. Still /\ written' = written /\ carried' = carried
  BY DEF Crash, Still, files
<1>2. round'[m] = Idle /\ \A n \in Machines \ {m} : round'[n] = round[n]
  BY DEF Crash, TInv, TypeOK
<1>3. RoundStands(over, beside, body, folder, m, round'[m]) /\ ~Sends(round'[m])
  BY <1>2, RestsStand
<1>4. Beneath(over, beside, body, folder, m, carried'[m])
  BY <1>1 DEF SInv
<1> QED BY <1>1, <1>2, <1>3, <1>4, RoundMoves

\* Steps that concern neither the files nor any round.
LEMMA RestMoves ==
    ASSUME TInv, TInv', SInv, Still, written' = written, carried' = carried, round' = round
    PROVE  SInv'
<1>1. Goes
  BY StillGoes
<1>2. SendsStand(over', beside', body', folder', round')
  BY DEF Still, SInv, SendsStand
<1> QED BY <1>1, <1>2, Moves

\* A round looks at the two bodies: where it is to send, nobody else is, and what was last
\* carried, which is what the folder has, is beneath the body here.
LEMMA LookMoves ==
    ASSUME TInv, TInv', SInv, Quiet, NEW m \in Machines, Look(m)
    PROVE  SInv' /\ Still
<1> DEFINE r == [step |-> "acting", taking |-> round[m].taking,
                 view |-> round[m].view, ours |-> body[m], theirs |-> folder,
                 said |-> round[m].said, awaits |-> round[m].awaits, owes |-> round[m].owes]
<1>1. Still /\ written' = written /\ carried' = carried
  BY DEF Look, Still, files
<1>2. round'[m] = r /\ \A n \in Machines \ {m} : round'[n] = round[n]
  BY LookIs DEF TInv, TypeOK
<1>3. r.step = "acting" /\ r.ours = body[m] /\ r.theirs = folder /\ r.said = round[m].said
  OBVIOUS
<1> HIDE DEF r
<1>4. Beneath(over, beside, body, folder, m, r.said)
  BY <1>3 DEF SInv, RoundStands
<1>5. RoundStands(over, beside, body, folder, m, r)
  BY <1>3, <1>4, CoversItself DEF RoundStands, Under
<1>6. ASSUME Sends(r)
      PROVE  /\ body[m] # None /\ (folder # None => Covers(over, beside, body[m], folder))
             /\ \A n \in Machines \ {m} : ~Sends(round[n])
  <2>1. body[m] # None /\ (folder = None \/ folder = r.said)
    BY <1>3, <1>6, HowIs DEF Sends
  <2>2. folder # None => Covers(over, beside, body[m], folder)
    BY <2>1, <1>4 DEF Beneath
  <2>3. ~Sending(m)
    <3>1. How(m)' = "send"
      BY <1>2, <1>6 DEF How, Sends
    <3>2. Meets(m)
      BY <3>1 DEF Look
    <3> QED BY <3>2 DEF Meets, Mishap, Quiet
  <2>4. \A n \in Machines \ {m} : ~Sends(round[n])
    BY <2>3 DEF Sending, Acting, How, Sends
  <2> QED BY <2>1, <2>2, <2>4
<1>7. SendsStand(over', beside', body', folder', round')
  <2>1. \A n \in Machines \ {m} : Sends(round[n]) =>
            /\ body[n] # None
            /\ folder # None => Covers(over, beside, body[n], folder)
            /\ \A k \in Machines \ {n} : ~Sends(round[k])
    BY DEF SInv, SendsStand
  <2>2. CASE Sends(r)
    BY <1>1, <1>2, <1>6, <2>2 DEF SendsStand, Still
  <2>3. CASE ~Sends(r)
    BY <1>1, <1>2, <2>1, <2>3 DEF SendsStand, Still
  <2> QED BY <2>2, <2>3
<1>8. Goes
  BY <1>1, StillGoes
<1>9. \A n \in Machines : \/ round'[n] = round[n]
                          \/ RoundStands(over', beside', body', folder', n, round'[n])
  BY <1>1, <1>2, <1>5 DEF Still
<1> QED BY <1>1, <1>7, <1>8, <1>9, Moves

-----------------------------------------------------------------------------
(* Steps that move a file                                                  *)

\* Another's round that sends goes on sending: the folder's body is the one it weighed, or there
\* is none.
LEMMA SendsOnward ==
    ASSUME TInv, TInv', SInv, Goes,
           \A n \in Machines : round'[n] = round[n] \/ ~Sends(round'[n]),
           \/ folder' = folder
           \/ folder' = None
           \/ \E m \in Machines : /\ folder' = body[m] /\ body' = body
                                  /\ \A n \in Machines \ {m} : ~Sends(round[n])
    PROVE  SendsStand(over', beside', body', folder', round')
<1> SUFFICES ASSUME NEW n \in Machines, Sends(round'[n])
             PROVE  /\ body'[n] # None
                    /\ folder' # None => Covers(over', beside', body'[n], folder')
                    /\ \A k \in Machines \ {n} : ~Sends(round'[k])
  BY DEF SendsStand
<1>1. round'[n] = round[n] /\ Sends(round[n])
  OBVIOUS
<1>2. /\ body[n] # None /\ (folder # None => Covers(over, beside, body[n], folder))
      /\ \A k \in Machines \ {n} : ~Sends(round[k])
  BY <1>1 DEF SInv, SendsStand
<1>3. \A k \in Machines \ {n} : ~Sends(round'[k])
  BY <1>2
<1>4. /\ over \in Histories /\ beside \in SUBSET Bodies
      /\ body \in [Machines -> Prints] /\ folder \in Prints
      /\ body' \in [Machines -> Prints] /\ folder' \in Prints
  BY TypesGive DEF TInv, TypeOK
<1>5. Onward(over, beside, body, folder, over', beside', body', folder')
  BY DEF Goes
<1>6. body'[n] # None
  BY <1>2, <1>5 DEF Onward, BodyOnward
<1>7. ASSUME folder' # None PROVE Covers(over', beside', body'[n], folder')
  <2>1. CASE folder' = folder
    <3>1. folder \in Bodies
      BY <1>4, <1>7, <2>1 DEF Prints
    <3>2. Covers(over', beside', body'[n], folder)
      BY <1>2, <1>4, <1>5, <1>7, <2>1, <3>1, OnwardCovers
    <3> QED BY <2>1, <3>2
  <2>2. CASE \E m \in Machines : /\ folder' = body[m] /\ body' = body
                                 /\ \A k \in Machines \ {m} : ~Sends(round[k])
    BY <1>1, <2>2, CoversItself
  <2> QED BY <1>7, <2>1, <2>2
<1> QED BY <1>3, <1>6, <1>7

\* An edit is written over what stood in its block.
LEMMA EditMoves ==
    ASSUME TInv, TInv', SInv, NEW m \in Machines, Edit(m)
    PROVE  SInv' /\ Goes
<1>1. PICK b \in Blocks :
        /\ body' = [body EXCEPT ![m][b] = written + 1]
        /\ over' = [over EXCEPT ![b] = Then(over[b], written + 1, body[m][b])]
  BY DEF Edit
<1>2. /\ written + 1 \in Edits /\ body[m] \in Bodies /\ body[m] # None /\ written' = written + 1
      /\ body \in [Machines -> Prints] /\ over \in Histories
  BY Constants, TypesGive DEF Edit, TInv, TypeOK, Edits, Prints
<1>3. beside' = beside /\ folder' = folder /\ carried' = carried /\ round' = round
  BY DEF Edit
<1>4. /\ body'[m] = [body[m] EXCEPT ![b] = written + 1]
      /\ \A n \in Machines \ {m} : body'[n] = body[n]
  BY <1>1, <1>2
<1>5. body'[m] \in Bodies /\ body'[m][b] = written + 1 /\ \A c \in Blocks \ {b} : body'[m][c] = body[m][c]
  BY <1>2, <1>4 DEF Bodies
<1>6. /\ over'[b] = Then(over[b], written + 1, body[m][b])
      /\ \A c \in Blocks \ {b} : over'[c] = over[c]
  BY <1>1, <1>2 DEF Histories
<1>7. body[m][b] \in {0} \cup Edits
  BY <1>2 DEF Bodies
<1>8. Covers(over', beside', body'[m], body[m])
  <2>1. \A c \in Blocks : \/ body'[m][c] = body[m][c]
                          \/ over'[c] = Then(over[c], body'[m][c], body[m][c])
    BY <1>5, <1>6
  <2> QED BY <1>2, <1>5, <2>1, OverCovers
<1>9. Grown(over, beside, over', beside')
  BY <1>2, <1>3, <1>6, <1>7 DEF Grown
<1>10. body'[m] # None
  BY <1>5, Constants
<1>11. Goes
  BY <1>2, <1>3, <1>4, <1>8, <1>9, <1>10 DEF Goes, Onward, BodyOnward, FileOnward
<1>12. Held(over', beside', body', folder', written + 1)
  BY <1>5, <1>10 DEF Held, Reach
<1>13. SendsStand(over', beside', body', folder', round')
  BY <1>3, <1>11, SendsOnward
<1> QED BY <1>2, <1>3, <1>11, <1>12, <1>13, Moves

\* The end of a round that took the folder's body in.
LEMMA TakesInMoves ==
    ASSUME TInv, TInv', SInv, NEW m \in Machines, NEW whole \in Bodies,
           NEW owes \in {"nothing", "answer"}, TakesIn(m, whole, owes),
           folder = round[m].theirs, folder \in Bodies,
           Covers(over, beside, whole, folder),
           IF body[m] = None THEN whole = folder ELSE Covers(over, beside, whole, body[m])
    PROVE  SInv' /\ Goes
<1>1. /\ over' = over /\ beside' = beside /\ folder' = folder /\ carried' = carried
      /\ written' = written /\ body' = [body EXCEPT ![m] = whole]
      /\ round' = Ends(m, folder, "no", owes)
  BY DEF TakesIn, log
<1>2. body'[m] = whole /\ \A n \in Machines \ {m} : body'[n] = body[n]
  BY <1>1 DEF TInv, TypeOK
<1>3. whole # None /\ folder # None
  BY Constants
<1>4. Grown(over, beside, over', beside')
  BY <1>1 DEF Grown
<1>5. Goes
  BY <1>1, <1>2, <1>3, <1>4 DEF Goes, Onward, BodyOnward, FileOnward
<1>6. folder \in Prints /\ "no" \in Times
  BY DEF Prints, Times
<1> DEFINE r == EndOf(m, folder, "no", owes)
<1>7. round'[m] = r /\ \A n \in Machines \ {m} : round'[n] = round[n]
  BY <1>1, <1>6, EndsIs DEF TInv, TypeOK
<1>8. r.step = "ending" /\ r.said = folder /\ r.ours = None /\ r.theirs = None
  BY DEF EndOf
<1> HIDE DEF r
<1>9. Beneath(over', beside', body', folder', m, folder)
  BY <1>1, <1>2, <1>3, CoversItself DEF Beneath, Under
<1>10. RoundStands(over', beside', body', folder', m, r) /\ ~Sends(r)
  BY <1>8, <1>9, NothingBeneath DEF RoundStands, Sends
<1>11. \A n \in Machines : \/ round'[n] = round[n]
                           \/ RoundStands(over', beside', body', folder', n, round'[n])
  BY <1>7, <1>10
<1>12. SendsStand(over', beside', body', folder', round')
  BY <1>1, <1>5, <1>7, <1>10, SendsOnward
<1> QED BY <1>1, <1>5, <1>11, <1>12, Moves

\* What is here is what was last carried, which is beneath the folder's.
LEMMA BringMoves ==
    ASSUME TInv, TInv', SInv, NEW m \in Machines, Bring(m)
    PROVE  SInv' /\ Goes
<1>1. folder \in Bodies /\ folder = round[m].theirs /\ body[m] = round[m].ours
  BY WeighedIs DEF Bring, Untouched
<1>2. body[m] = None \/ body[m] = round[m].said
  BY <1>1, WeighedIs DEF Bring
<1>3. Under(over, beside, body, folder, round[m].said)
  BY DEF SInv, RoundStands, Beneath
<1>4. body[m] # None => Covers(over, beside, folder, body[m])
  BY <1>1, <1>2, <1>3, Constants DEF Under
<1>5. Covers(over, beside, folder, folder)
  BY CoversItself
<1>6. TakesIn(m, folder, "nothing")
  BY DEF Bring
<1> QED BY <1>1, <1>4, <1>5, <1>6, TakesInMoves

\* The join has, block by block, the side that moved away from the base, and both sides cover it.
LEMMA JoinMoves ==
    ASSUME TInv, TInv', SInv, NEW m \in Machines, Join(m)
    PROVE  SInv' /\ Goes
<1> DEFINE ours == body[m]
           theirs == folder
           base == round[m].said
           whole == Joined(m)
<1>1. /\ whole \in Bodies /\ ours \in Bodies /\ theirs \in Bodies /\ base \in Bodies
      /\ \A b \in Blocks : whole[b] = IF ours[b] = base[b] THEN theirs[b] ELSE ours[b]
      /\ \A b \in Blocks : ours[b] # base[b] => theirs[b] \in {base[b], ours[b]}
      /\ TakesIn(m, whole, "answer") /\ theirs = round[m].theirs
  BY JoinedIs
<1>2. ours # None /\ theirs # None /\ base # None
  BY <1>1, Constants
<1>3. Covers(over, beside, ours, base) /\ Covers(over, beside, theirs, base)
  <2>1. Beneath(over, beside, body, folder, m, base)
    BY DEF SInv, RoundStands
  <2> QED BY <1>2, <2>1 DEF Beneath, Under
<1> HIDE DEF ours, theirs, base, whole
<1>4. Covers(over, beside, whole, ours)
  <2> SUFFICES ASSUME NEW b \in Blocks, NEW e \in Edits, Reach(over[b], ours[b], e)
               PROVE  Reach(over[b], whole[b], e) \/ Gone(over[b], beside, b, e)
    BY DEF Covers
  <2> QED BY <1>1, <1>3 DEF Covers
<1>5. Covers(over, beside, whole, theirs)
  <2> SUFFICES ASSUME NEW b \in Blocks, NEW e \in Edits, Reach(over[b], theirs[b], e)
               PROVE  Reach(over[b], whole[b], e) \/ Gone(over[b], beside, b, e)
    BY DEF Covers
  <2>1. whole[b] = theirs[b] \/ (whole[b] = ours[b] /\ theirs[b] = base[b])
    BY <1>1
  <2> QED BY <1>3, <2>1 DEF Covers
<1>6. /\ folder = round[m].theirs /\ folder \in Bodies /\ body[m] # None
      /\ Covers(over, beside, whole, folder) /\ Covers(over, beside, whole, body[m])
  BY <1>1, <1>2, <1>4, <1>5 DEF ours, theirs
<1> QED BY <1>1, <1>6, TakesInMoves

\* The folder's body goes under this machine's, which covers it.
LEMMA SendMoves ==
    ASSUME TInv, TInv', SInv, NEW m \in Machines, Send(m)
    PROVE  SInv' /\ Goes
<1> DEFINE r == [step |-> "sent", taking |-> round[m].taking,
                 view |-> NoView, ours |-> round[m].ours, theirs |-> None,
                 said |-> round[m].said, awaits |-> round[m].awaits, owes |-> round[m].owes]
<1>1. /\ over' = over /\ beside' = beside /\ body' = body /\ folder' = body[m]
      /\ carried' = carried /\ written' = written
  BY DEF Send
<1>2. round'[m] = r /\ \A n \in Machines \ {m} : round'[n] = round[n]
  BY SendIs DEF TInv, TypeOK
<1>3. r.step = "sent" /\ r.ours = round[m].ours /\ r.theirs = None /\ r.said = round[m].said
  OBVIOUS
<1> HIDE DEF r
<1>4. Sends(round[m])
  BY DEF Send, Acting, How, Sends
<1>5. /\ body[m] # None /\ (folder # None => Covers(over, beside, body[m], folder))
      /\ \A n \in Machines \ {m} : ~Sends(round[n])
  BY <1>4 DEF SInv, SendsStand
<1>6. Grown(over, beside, over', beside')
  BY <1>1 DEF Grown
<1>7. Goes
  BY <1>1, <1>5, <1>6 DEF Goes, Onward, BodyOnward, FileOnward
<1>8. RoundStands(over, beside, body, folder, m, round[m])
  BY DEF SInv
<1>9. /\ over \in Histories /\ beside \in SUBSET Bodies
      /\ body \in [Machines -> Prints] /\ folder \in Prints
      /\ body' \in [Machines -> Prints] /\ folder' \in Prints
      /\ r.said \in Prints /\ Somewhere(body, folder)
  BY <1>3, TypesGive DEF SInv, TInv, TypeOK
<1>10. Beneath(over', beside', body', folder', m, r.said)
  <2>1. Onward(over, beside, body, folder, over', beside', body', folder')
    BY <1>7 DEF Goes
  <2>2. Beneath(over, beside, body, folder, m, r.said)
    BY <1>3, <1>8 DEF RoundStands
  <2> QED BY <1>9, <2>1, <2>2, OnwardBeneath
<1>11. r.ours # None => body'[m] # None /\ Covers(over', beside', body'[m], r.ours)
  BY <1>1, <1>3, <1>8 DEF RoundStands
<1>12. Under(over', beside', body', folder', r.ours)
  BY <1>1, <1>5, <1>11 DEF Under
<1>13. RoundStands(over', beside', body', folder', m, r) /\ ~Sends(r)
  BY <1>3, <1>10, <1>11, <1>12, NothingBeneath DEF RoundStands, Sends
<1>14. \A n \in Machines : \/ round'[n] = round[n]
                           \/ RoundStands(over', beside', body', folder', n, round'[n])
  BY <1>2, <1>13
<1>15. SendsStand(over', beside', body', folder', round')
  BY <1>1, <1>2, <1>5, <1>7, <1>13, SendsOnward
<1> QED BY <1>1, <1>7, <1>14, <1>15, Moves

\* What is chosen over another covers it, and the history grows by no more.
LEMMA ChosenCovers ==
    ASSUME TInv, NEW new \in Bodies, NEW old \in Bodies, over' = ChosenOver(new, old)
    PROVE  Covers(over', beside', new, old) /\ Grown(over, beside, over', beside)
<1>1. over \in Histories /\ new # None /\ old # None
  BY Constants, TypesGive
<1>2. \A b \in Blocks : over'[b] = IF new[b] = old[b] THEN over[b] ELSE Then(over[b], new[b], old[b])
  BY <1>1 DEF ChosenOver
<1>3. \A b \in Blocks : new[b] \in {0} \cup Edits /\ old[b] \in {0} \cup Edits
  BY DEF Bodies
<1>4. Grown(over, beside, over', beside)
  BY <1>2, <1>3 DEF Grown
<1>5. \A b \in Blocks : new[b] = old[b] \/ over'[b] = Then(over[b], new[b], old[b])
  BY <1>2
<1> QED BY <1>1, <1>4, <1>5, OverCovers

\* What settling leaves to show: its ledger names what both sides then hold.
LEMMA SettledMoves ==
    ASSUME TInv, TInv', SInv, Goes, NEW m \in Machines, NEW whole \in Bodies, Settled(m, whole),
           body'[m] = whole, folder' = whole,
           \/ folder' = folder
           \/ /\ folder' = body[m] /\ body' = body
              /\ \A n \in Machines \ {m} : ~Sends(round[n])
    PROVE  SInv'
<1>1. /\ round' = round /\ written' = written
      /\ carried'[m] = whole /\ \A n \in Machines \ {m} : carried'[n] = carried[n]
  BY TypesGive DEF Settled
<1>2. Beneath(over', beside', body', folder', m, whole)
  BY CoversItself DEF Beneath, Under
<1>3. SendsStand(over', beside', body', folder', round')
  BY <1>1, SendsOnward
<1>4. \A n \in Machines : \/ carried'[n] = carried[n]
                          \/ Beneath(over', beside', body', folder', n, carried'[n])
  BY <1>1, <1>2
<1> QED BY <1>1, <1>3, <1>4, Moves

\* Where no send meets another, nobody sends while a version is kept over the folder's.
LEMMA NobodySends ==
    ASSUME Quiet, NEW m \in Machines, Meets(m)
    PROVE  \A n \in Machines \ {m} : ~Sends(round[n])
<1>1. ~Sending(m)
  BY DEF Meets, Mishap, Quiet
<1> QED BY <1>1 DEF Sending, Acting, How, Sends

LEMMA KeepTheirsMoves ==
    ASSUME TInv, TInv', SInv, NEW m \in Machines, KeepTheirs(m)
    PROVE  SInv' /\ Goes
<1>1. /\ body' = [body EXCEPT ![m] = folder] /\ folder' = folder /\ beside' = beside
      /\ over' = ChosenOver(folder, body[m]) /\ Settled(m, folder) /\ folder # None
  BY DEF KeepTheirs
<1>2. /\ folder \in Bodies /\ body[m] \in Prints
      /\ body'[m] = folder /\ \A n \in Machines \ {m} : body'[n] = body[n]
  BY <1>1, TypesGive DEF Prints
<1>3. Grown(over, beside, over', beside') /\ BodyOnward(over', beside', body[m], body'[m], folder, folder')
  <2>1. CASE body[m] = None
    <3>1. over' = over
      BY <1>1, <2>1 DEF ChosenOver
    <3> QED BY <1>1, <1>2, <2>1, <3>1 DEF Grown, BodyOnward
  <2>2. CASE body[m] # None
    <3>1. body[m] \in Bodies
      BY <1>2, <2>2 DEF Prints
    <3>2. Covers(over', beside', folder, body[m]) /\ Grown(over, beside, over', beside)
      BY <1>1, <1>2, <3>1, ChosenCovers
    <3> QED BY <1>1, <1>2, <2>2, <3>2 DEF BodyOnward
  <2> QED BY <2>1, <2>2
<1>4. Goes
  BY <1>1, <1>2, <1>3 DEF Goes, Onward, BodyOnward, FileOnward
<1> QED BY <1>1, <1>2, <1>4, SettledMoves

LEMMA KeepMineMoves ==
    ASSUME TInv, TInv', SInv, Quiet, NEW m \in Machines, KeepMine(m) \/ KeepBoth(m)
    PROVE  SInv' /\ Goes
<1>1. body' = body /\ folder' = body[m] /\ Settled(m, body[m]) /\ Meets(m) /\ body[m] # None
  BY DEF KeepMine, KeepBoth
<1>2. body[m] \in Bodies /\ folder \in Prints
  BY <1>1, TypesGive DEF Prints
<1>3. /\ Grown(over, beside, over', beside')
      /\ folder # None => Covers(over', beside', body[m], folder)
  <2>1. CASE KeepMine(m)
    <3>1. over' = ChosenOver(body[m], folder) /\ beside' = beside
      BY <2>1 DEF KeepMine
    <3>2. CASE folder = None
      BY <3>1, <3>2 DEF ChosenOver, Grown
    <3>3. CASE folder # None
      <4>1. folder \in Bodies
        BY <1>2, <3>3 DEF Prints
      <4> QED BY <1>2, <3>1, <4>1, ChosenCovers
    <3> QED BY <3>2, <3>3
  <2>2. CASE KeepBoth(m)
    <3>1. over' = over /\ beside' = beside \cup {folder}
      BY <2>2 DEF KeepBoth
    <3>2. Covers(over', beside', body[m], folder)
      BY <3>1, BesideCovers
    <3> QED BY <3>1, <3>2 DEF Grown
  <2> QED BY <2>1, <2>2
<1>4. Goes
  BY <1>1, <1>3 DEF Goes, Onward, BodyOnward, FileOnward
<1>5. \A n \in Machines \ {m} : ~Sends(round[n])
  BY <1>1, NobodySends
<1> QED BY <1>1, <1>2, <1>4, <1>5, SettledMoves

\* The folder's file is lost where every machine has it.
LEMMA FolderLostMoves ==
    ASSUME TInv, TInv', SInv, Quiet, FolderLost
    PROVE  SInv' /\ Goes
<1>1. /\ over' = over /\ beside' = beside /\ body' = body /\ folder' = None /\ folder # None
      /\ carried' = carried /\ written' = written /\ round' = round
      /\ \E m \in Machines : body[m] = folder
  BY DEF FolderLost
<1>2. \A m \in Machines : body[m] = folder
  <2>1. (IF \A m \in Machines : body[m] = folder THEN "lost_there" ELSE "lost_while_behind")
            \in {"crash", "lost_there"}
    BY DEF FolderLost, Mishap, Quiet
  <2> QED BY <2>1
<1>3. Goes
  BY <1>1, <1>2 DEF Goes, Onward, Grown, BodyOnward, FileOnward
<1>4. SendsStand(over', beside', body', folder', round')
  BY <1>1, <1>3, SendsOnward
<1> QED BY <1>1, <1>3, <1>4, Moves

LEMMA SInvStays ==
    ASSUME Quiet, TInv, SInv, [Next]_vars
    PROVE  SInv' /\ Goes
<1>0. TInv'
  BY TInvStays
<1>1. CASE UNCHANGED vars
  <2>1. Still /\ written' = written /\ carried' = carried /\ round' = round
    BY <1>1 DEF vars, files, Still
  <2> QED BY <1>0, <2>1, RestMoves, StillGoes
<1>2. CASE FolderLost
  BY <1>0, <1>2, FolderLostMoves
<1>3. CASE \E m \in Machines : Edit(m) \/ Settle(m)
  BY <1>0, <1>3, EditMoves, KeepTheirsMoves, KeepMineMoves DEF Settle
<1>4. CASE \E m \in Machines : Tell(m) \/ HourPasses(m) \/ DayPasses(m)
  <2>1. Still /\ written' = written /\ carried' = carried /\ round' = round
    BY <1>4 DEF Tell, HourPasses, DayPasses, files, Still
  <2> QED BY <1>0, <2>1, RestMoves, StillGoes
<1>5. CASE \E m \in Machines : Crash(m)
  BY <1>0, <1>5, CrashMoves, StillGoes
<1>6. CASE \E m \in Machines : RoundStep(m)
  <2> SUFFICES ASSUME NEW m \in Machines, RoundStep(m) PROVE SInv' /\ Goes
    BY <1>6
  <2>1. CASE LeaveToTake(m) \/ HoldBack(m) \/ LetBe(m) \/ CannotJoin(m)
    BY <1>0, <2>1, LeavesMoves, StillGoes DEF LeaveToTake, HoldBack, LetBe, CannotJoin
  <2>2. CASE Bring(m) \/ Join(m) \/ Send(m)
    BY <1>0, <2>2, BringMoves, JoinMoves, SendMoves
  <2>3. CASE Begin(m) \/ Look(m) \/ Agree(m) \/ Sent(m)
    BY <1>0, <2>3, BeginMoves, LookMoves, AgreeMoves, SentMoves, StillGoes
  <2>4. CASE Unanswered(m) \/ End(m) \/ AnswerIt(m)
    BY <1>0, <2>4, UnansweredMoves, EndMoves, AnswerItMoves, StillGoes
  <2> QED BY <2>1, <2>2, <2>3, <2>4 DEF RoundStep
<1> QED BY <1>1, <1>2, <1>3, <1>4, <1>5, <1>6 DEF Next

LEMMA HeldStands == TInv /\ SInv => EveryEditStands
<1> SUFFICES ASSUME TInv, SInv, NEW e \in 1..written PROVE Stands(e) \/ GivenUp(e)
  BY DEF EveryEditStands
<1>1. e # 0
  BY TypesGive, Constants
<1>2. \A b \in Blocks : \A x : Reach(over[b], x, e) => Has(over[b], x, e) \/ <<0, e>> \in over[b]
  BY DEF Reach, Has
<1>3. PICK b \in Blocks :
        \/ Gone(over[b], beside, b, e)
        \/ folder # None /\ Reach(over[b], folder[b], e)
        \/ \E m \in Machines : body[m] # None /\ Reach(over[b], body[m][b], e)
  BY DEF SInv, Held
<1>4. CASE <<0, e>> \in over[b]
  BY <1>4 DEF GivenUp
<1>5. CASE \E v \in Versions : Reach(over[b], v[b], e)
  BY <1>2, <1>5 DEF Stands, GivenUp
<1>6. beside \subseteq Versions
  BY TypesGive, Constants DEF Versions
<1>7. folder # None => folder \in Versions
  BY DEF Versions
<1>8. \A m \in Machines : body[m] # None => body[m] \in Versions
  BY DEF Versions
<1> QED BY <1>3, <1>4, <1>5, <1>6, <1>7, <1>8 DEF Gone

LEMMA GoesKeeps ==
    ASSUME TInv, TInv', Goes, NEW m \in Machines, body[m] \notin {None, body'[m]}
    PROVE  Keeps(body'[m], body[m])
<1>1. body'[m] # None /\ Covers(over', beside', body'[m], body[m])
  BY DEF Goes, Onward, BodyOnward
<1> DEFINE new == body'[m]
           old == body[m]
<1>2. old \in Bodies
  BY TypesGive DEF Prints
<1>3. ASSUME NEW b \in Blocks, old[b] # 0
      PROVE  \/ \E v \in {new} \cup beside' : Has(over'[b], v[b], old[b])
             \/ <<0, old[b]>> \in over'[b]
  <2> DEFINE e == old[b]
  <2>1. e \in Edits
    BY <1>2, <1>3 DEF Bodies
  <2>2. Reach(over'[b], old[b], e)
    BY DEF Reach
  <2>3. Reach(over'[b], new[b], e) \/ Gone(over'[b], beside', b, e)
    BY <1>1, <2>1, <2>2 DEF Covers
  <2>4. \A x : Reach(over'[b], x, e) => Has(over'[b], x, e) \/ <<0, e>> \in over'[b]
    BY <1>3 DEF Reach, Has
  <2> QED BY <2>3, <2>4 DEF Gone
<1> QED BY <1>1, <1>3 DEF Keeps

-----------------------------------------------------------------------------
(* Nothing that was written goes away                                      *)

\* Rounds that weigh the two bodies long before they write (Look, then Send, Bring or Join),
\* holds, waits, settlings, crashes and a folder emptied once everyone has it never lose an edit
\* from every file of any number of machines, but where the person chose a version without it.
THEOREM NothingWrittenIsLost ==
    ASSUME Quiet
    PROVE  Spec => []EveryEditStands
<1>1. Init => TInv /\ SInv
  BY TInvAtFirst, SInvAtFirst
<1>2. TInv /\ SInv /\ [Next]_vars => TInv' /\ SInv'
  BY Quiet, TInvStays, SInvStays
<1>3. TInv /\ SInv => EveryEditStands
  BY HeldStands
<1> QED BY <1>1, <1>2, <1>3, PTL DEF Spec

\* Whenever a round or the person puts another body in the place of a machine's own, that one
\* has, block by block, what was there or what was made over it: untouched, the base of a join
\* and the shown version of a question are looked at again under the lock, and that is enough.
THEOREM ReplacedByWhatKeepsIt ==
    ASSUME Quiet
    PROVE  Spec => OnlyOverWhatItKeeps
<1>1. Init => TInv /\ SInv
  BY TInvAtFirst, SInvAtFirst
<1>2. TInv /\ SInv /\ [Next]_vars => TInv' /\ SInv'
  BY Quiet, TInvStays, SInvStays
<1>3. ASSUME TInv, SInv, [Next]_vars
      PROVE  [\A m \in Machines : body[m] \notin {None, body'[m]} => Keeps(body'[m], body[m])]_vars
  <2>1. Goes /\ TInv'
    BY <1>3, Quiet, TInvStays, SInvStays
  <2> QED BY <1>3, <2>1, GoesKeeps
<1> QED BY <1>1, <1>2, <1>3, PTL DEF Spec, OnlyOverWhatItKeeps
=============================================================================
