-------------------------------- MODULE Papers --------------------------------
(***************************************************************************)
(* The body of one document on several machines and in the shared folder   *)
(* (tisty-sync/src/papers.rs, tisty-core/src/docs.rs).  A body is no part  *)
(* of the log: it is a file, carried beside it.  The log only says which   *)
(* prints were written, and a round weighs the two files against the print *)
(* last carried and against what the log it has read answers for.          *)
(*                                                                         *)
(* A body is its blocks; a block is the number of the edit that left it    *)
(* as it is, 0 for what the document began with.  A print is the body it   *)
(* is the print of.  Which edit was made over which is kept in over, a     *)
(* history the program does not have: it says what may be replaced.        *)
(***************************************************************************)
EXTENDS Integers, FiniteSets

CONSTANTS
    Machines,    \* numbered, as their names order what carries the same stamp
    Blocks,      \* the blocks of the document
    None,        \* no file, no print, nobody asked
    Fast,        \* the machines whose clock is ahead of all the others'
    MaxEdits,    \* bound: what the person writes
    MaxSettles,  \* bound: how often the person settles what differs
    MaxNotes,    \* bound: how many prints reach the log by being read or written
    Mishaps,     \* what this instance lets happen
    MaxMishaps   \* bound

AllMishaps == {"crash", "lost_there", "lost_while_behind", "sent_over"}

ASSUME PapersAssumption ==
    /\ Machines \subseteq Nat /\ Fast \subseteq Machines
    /\ MaxEdits \in Nat /\ MaxSettles \in Nat /\ MaxNotes \in Nat /\ MaxMishaps \in Nat
    /\ Mishaps \subseteq AllMishaps

Edits  == 1..MaxEdits
Bodies == [Blocks -> {0} \cup Edits]

ASSUME NoneAssumption == None \notin Bodies

Blank  == [b \in Blocks |-> 0]
Prints == Bodies \cup {None}

VARIABLES
    written,  \* how many edits the person has made
    over,     \* <<e, f>>: e was written, or chosen, over f there; 0 for what there was at first
    settles,  \* how often the person has settled
    body,     \* each machine's file
    folder,   \* the shared folder's
    carried,  \* the print each machine's ledger says was last carried
    kept,     \* the body each machine keeps beside it, the base of a join
    aside,    \* the body set aside before another's replaced it
    beside,   \* versions kept as documents of their own
    knows,    \* the last note of each machine in the log as each machine has it
    shelf,    \* the last note of each machine in the log in the folder
    asked,    \* what the person is asked about on each machine
    awaits,   \* the wait for a history that answers for the body in the folder
    round,    \* how far each machine's round is
    mishaps

files == <<body, folder, carried, kept, aside, beside>>
log   == <<knows, shelf>>
vars  == <<written, over, settles, files, log, asked, awaits, round, mishaps>>

-----------------------------------------------------------------------------
(* What the log says                                                       *)

\* doc.said: the print of the body its machine had, when it was noted.
Notes   == [at : Nat, print : Prints]
NoNote  == [at |-> 0, print |-> None]

\* The order of the sorted log: by the clock, a fast one always last.
Sooner(m, a, n, b) ==
    \/ m \notin Fast /\ n \in Fast
    \/ (m \in Fast <=> n \in Fast) /\ a.at < b.at

\* Kept.print, the newest of the notes a machine has.
NewestOf(notes) ==
    LET last == {m \in Machines : /\ notes[m].print # None
                                  /\ \A n \in Machines : notes[n].print # None
                                        => ~Sooner(m, notes[m], n, notes[n])}
    IN  IF last = {} THEN None ELSE notes[CHOOSE m \in last : TRUE].print

\* Answers: what the log as it was projected says of the document.
View(m, notes) ==
    [newest |-> NewestOf(notes), own |-> notes[m].print,
     others |-> {notes[n].print : n \in Machines \ {m}} \ {None}]
Views  == [newest : Prints, own : Prints, others : SUBSET Bodies]
NoView == [newest |-> None, own |-> None, others |-> {}]

Silent(view) == view.newest = None /\ view.own = None /\ view.others = {}

AnswersOurs(view, ours) == Silent(view) \/ ours \in {view.own, view.newest}

\* answered_for.
AnsweredFor(view, theirs) ==
    IF view.newest = None /\ view.others = {} THEN "doubtful"
    ELSE IF theirs = view.newest              THEN "yes"
    ELSE IF theirs \in view.others            THEN "doubtful"
    ELSE "no"

\* docs::moved: what has to be done for this document.
Moved(base, ours, theirs) ==
    IF ours = theirs      THEN "nothing"
    ELSE IF theirs = None THEN "send"
    ELSE IF ours = None   THEN "bring"
    ELSE IF base = ours   THEN "bring"
    ELSE IF base = theirs THEN "send"
    ELSE "they_decide"

\* Mutant: where both wrote the same block, ours stands.
MergedOursFirst(base, ours, theirs) ==
    [b \in Blocks |-> IF ours[b] = base[b] THEN theirs[b] ELSE ours[b]]

\* Mutant: what the base did not have yet is left out of the join.
MergedWithinTheBase(base, ours, theirs) ==
    [b \in {x \in Blocks : base[x] # 0} |-> IF ours[b] = base[b] THEN theirs[b] ELSE ours[b]]

\* merge::merged, block by block: None where both changed the same one.
Merged(base, ours, theirs) ==
    IF \E b \in Blocks : ours[b] # base[b] /\ theirs[b] # base[b] /\ ours[b] # theirs[b]
    THEN None
    ELSE [b \in Blocks |-> IF ours[b] = base[b] THEN theirs[b] ELSE ours[b]]

-----------------------------------------------------------------------------
(* Rounds                                                                  *)

Steps  == {"idle", "looking", "acting", "sent", "ending", "answering"}
\* taking is FALSE in the round that only pushes; said is the ledger as the round has it in
\* memory, due what it makes of the wait; owes what is left for its end.
Rounds == [step : Steps, taking : BOOLEAN, view : Views, ours : Prints, theirs : Prints,
           said : Prints, awaits : {"no", "waits", "due"}, owes : {"nothing", "answer", "ask"}]
Idle   == [step |-> "idle", taking |-> TRUE, view |-> NoView, ours |-> None, theirs |-> None,
           said |-> None, awaits |-> "no", owes |-> "nothing"]

\* The document was made and noted on one machine, and carried from there to the folder.
FirstMachine == CHOOSE m \in Machines : \A n \in Machines : m <= n
NoNotes      == [n \in Machines |-> NoNote]
FirstNotes   == [n \in Machines |->
                    IF n = FirstMachine THEN [at |-> 1, print |-> Blank] ELSE NoNote]

Init ==
    /\ written = 0
    /\ over = [b \in Blocks |-> {}]
    /\ settles = 0
    /\ body = [m \in Machines |-> IF m = FirstMachine THEN Blank ELSE None]
    /\ folder = Blank
    /\ carried = body
    /\ kept = body
    /\ aside = [m \in Machines |-> None]
    /\ beside = {}
    /\ knows = [m \in Machines |-> IF m = FirstMachine THEN FirstNotes ELSE NoNotes]
    /\ shelf = FirstNotes
    /\ asked = [m \in Machines |-> None]
    /\ awaits = [m \in Machines |-> "no"]
    /\ round = [m \in Machines |-> Idle]
    /\ mishaps = 0

Mishap(kind) ==
    /\ kind \in Mishaps
    /\ mishaps < MaxMishaps
    /\ mishaps' = mishaps + 1

\* A block over another, with what the one was over before and what was over the other.
Then(said, new, old) ==
    said \cup {p \in ({0} \cup Edits) \X Edits :
                (p[1] = new \/ <<p[1], new>> \in said) /\ (p[2] = old \/ <<old, p[2]>> \in said)}

\* Chosen over the other, block by block.
ChosenOver(new, old) ==
    IF new = None \/ old = None THEN over
    ELSE [b \in Blocks |-> IF new[b] = old[b] THEN over[b] ELSE Then(over[b], new[b], old[b])]

\* write_over and the retelling that goes with it in two steps: this is the first.
Edit(m) ==
    /\ written < MaxEdits /\ body[m] # None
    /\ written' = written + 1
    /\ \E b \in Blocks :
        /\ body' = [body EXCEPT ![m][b] = written + 1]
        /\ over' = [over EXCEPT ![b] = Then(@, written + 1, body[m][b])]
    /\ UNCHANGED <<settles, folder, carried, kept, aside, beside, log, asked, awaits, round, mishaps>>

LastAt == CHOOSE at \in {knows[m][m].at : m \in Machines} :
              \A m \in Machines : knows[m][m].at <= at

\* news_for: only what differs from the newest print known is worth a note.
Noted(m) ==
    IF body[m] # None /\ body[m] # NewestOf(knows[m])
    THEN [knows EXCEPT ![m][m] = [at |-> LastAt + 1, print |-> body[m]]]
    ELSE knows

\* retell after a write, noted when the document is opened.
Tell(m) ==
    /\ LastAt < MaxNotes
    /\ Noted(m) # knows
    /\ knows' = Noted(m)
    /\ UNCHANGED <<written, over, settles, files, shelf, asked, awaits, round, mishaps>>

\* A round begins with what the log says and with the ledger and the waits as they were left.
Start(m, taking, notes) ==
    [step |-> "looking", taking |-> taking, view |-> View(m, notes), ours |-> None,
     theirs |-> None, said |-> carried[m], awaits |-> awaits[m], owes |-> "nothing"]

\* carry_through, taking: the others' notes come in, the log is projected, and our own goes out
\* before any body.
Begin(m) ==
    /\ round[m].step = "idle"
    /\ knows' = [knows EXCEPT ![m] = [n \in Machines |->
                    IF n # m /\ shelf[n].at > @[n].at THEN shelf[n] ELSE @[n]]]
    /\ shelf' = [shelf EXCEPT ![m] = knows[m][m]]
    /\ round' = [round EXCEPT ![m] = Start(m, TRUE, knows'[m])]
    /\ UNCHANGED <<written, over, settles, files, asked, awaits, mishaps>>

How(m)    == Moved(round[m].said, round[m].ours, round[m].theirs)
Answer(m) == AnsweredFor(round[m].view, round[m].theirs)

Acting(m, hows) == round[m].step = "acting" /\ How(m) \in hows
Taking(m, hows) == Acting(m, hows) /\ round[m].taking

\* Another round has weighed the folder's body and goes to write over it.
Sending(m) == \E n \in Machines \ {m} : Acting(n, {"send"})

\* Nothing keeps another from doing the same: where Mishaps leaves it out, nobody happens to.
Meets(m) == IF Sending(m) THEN Mishap("sent_over") ELSE UNCHANGED mishaps

\* both_seen.
Look(m) ==
    /\ round[m].step = "looking"
    /\ round' = [round EXCEPT ![m].step = "acting", ![m].ours = body[m], ![m].theirs = folder]
    /\ IF How(m)' = "send" THEN Meets(m) ELSE UNCHANGED mishaps
    /\ UNCHANGED <<written, over, settles, files, log, asked, awaits>>

\* What a turn leaves for the end of the round.
Ends(m, said, waits, owes) ==
    [round EXCEPT ![m] =
        [step |-> "ending", taking |-> TRUE, view |-> NoView,
         ours |-> IF owes = "ask" THEN round[m].ours ELSE None,
         theirs |-> IF owes = "ask" THEN round[m].theirs ELSE None,
         said |-> said, awaits |-> waits, owes |-> owes]]

\* A turn that leaves the document as it is.
Leaves(m, owes) ==
    /\ round' = Ends(m, round[m].said, round[m].awaits, owes)
    /\ UNCHANGED <<written, over, settles, files, log, asked, awaits>>

LeaveToTake(m) ==
    /\ Acting(m, {"bring", "they_decide"}) /\ ~round[m].taking
    /\ Leaves(m, "nothing") /\ UNCHANGED mishaps

\* Move::Nothing: the base is put right where it is not what both sides hold.
Agree(m) ==
    /\ Acting(m, {"nothing"})
    /\ LET print  == round[m].ours
           steady == round[m].said = print /\ kept[m] = print
       IN  /\ round' = Ends(m, IF print = None THEN round[m].said ELSE print,
                            round[m].awaits, "nothing")
           /\ kept' = IF print = None \/ steady THEN kept
                      ELSE [kept EXCEPT ![m] = IF body[m] # None THEN body[m] ELSE folder]
    /\ UNCHANGED <<written, over, settles, body, folder, carried, aside, beside, log, asked, awaits, mishaps>>

\* What the log does not say we have is not sent before it does.
HoldBack(m) ==
    /\ Acting(m, {"send"}) /\ ~AnswersOurs(round[m].view, round[m].ours)
    /\ Leaves(m, "answer") /\ UNCHANGED mishaps

\* copy_onto: what is here by now goes over what is there by now, neither looked at again.
Send(m) ==
    /\ Acting(m, {"send"}) /\ AnswersOurs(round[m].view, round[m].ours)
    /\ folder' = body[m]
    /\ round' = [round EXCEPT ![m].step = "sent", ![m].view = NoView, ![m].theirs = None]
    /\ UNCHANGED <<written, over, settles, body, carried, kept, aside, beside, log, asked, awaits, mishaps>>

\* settled_as: a base only while what was sent stands there as it was weighed.
SettledAs(m) == IF folder = round[m].ours THEN folder ELSE None

Sent(m) ==
    /\ round[m].step = "sent"
    /\ kept' = [kept EXCEPT ![m] = SettledAs(m)]
    /\ round' = Ends(m, round[m].ours, round[m].awaits, "nothing")
    /\ UNCHANGED <<written, over, settles, body, folder, carried, aside, beside, log, asked, awaits, mishaps>>

\* Mutant: the hour counts anew from every sight.
AwaitsAnew(m) == "waits"

\* still_landing: the hour counts from the first sight.
Awaits(m) == IF round[m].awaits = "no" THEN "waits" ELSE round[m].awaits

\* A body no history answers for yet waits; once the hour is over, or where both sides moved,
\* the person is asked.
Unanswered(m) ==
    /\ Taking(m, {"bring", "they_decide"}) /\ Answer(m) = "no"
    /\ LET waits == How(m) = "bring"
       IN  round' = Ends(m, round[m].said, IF waits THEN Awaits(m) ELSE round[m].awaits,
                         IF waits /\ Awaits(m) = "waits" THEN "nothing" ELSE "ask")
    /\ UNCHANGED <<written, over, settles, files, log, asked, awaits, mishaps>>

Answered(m, how) == Taking(m, {how}) /\ Answer(m) # "no"

\* The body that was here, set aside where the log answers for the new one without naming it newest.
SetAside(m) ==
    IF Answer(m) = "doubtful" /\ body[m] # None THEN [aside EXCEPT ![m] = body[m]] ELSE aside

\* Mutant: what is here by now is not looked at again.
UntouchedSince(m) == TRUE

\* untouched, and taken's reading of theirs as it was printed.
Untouched(m) == body[m] = round[m].ours

\* What takes theirs in: the base and the ledger follow, and nobody waits any more.
TakesIn(m, whole, owes) ==
    /\ body' = [body EXCEPT ![m] = whole]
    /\ aside' = SetAside(m)
    /\ kept' = [kept EXCEPT ![m] = round[m].theirs]
    /\ round' = Ends(m, round[m].theirs, "no", owes)
    /\ UNCHANGED <<written, over, settles, folder, carried, beside, log, asked, awaits, mishaps>>

\* Move::Bring, under the lock of the documents.
Bring(m) ==
    /\ Answered(m, "bring")
    /\ Untouched(m) /\ folder = round[m].theirs
    /\ TakesIn(m, folder, "nothing")

\* What moved since it was weighed, here or there, is left for the next round.
LetBe(m) ==
    /\ \/ /\ Answered(m, "bring")
          /\ ~(Untouched(m) /\ folder = round[m].theirs)
       \/ Answered(m, "they_decide") /\ folder # round[m].theirs
    /\ Leaves(m, "nothing") /\ UNCHANGED mishaps

\* joined, on the base the ledger names, with what is here by now.
Joined(m) ==
    IF kept[m] = None \/ kept[m] # round[m].said \/ body[m] = None THEN None
    ELSE Merged(kept[m], body[m], folder)

\* Move::TheyDecide, under the lock of the documents.
Join(m) ==
    /\ Answered(m, "they_decide") /\ folder = round[m].theirs
    /\ Joined(m) # None
    /\ TakesIn(m, Joined(m), "answer")

CannotJoin(m) ==
    /\ Answered(m, "they_decide") /\ folder = round[m].theirs
    /\ Joined(m) = None
    /\ Leaves(m, "ask") /\ UNCHANGED mishaps

\* The end of the round: the ledger, the wait and the questions are written down.  The ledger
\* covers every document, so it may be written though nothing of this one changed.
End(m) ==
    /\ round[m].step = "ending"
    /\ \/ carried' = [carried EXCEPT ![m] = round[m].said]
       \/ round[m].said = carried[m] /\ carried' = carried
    /\ awaits' = [awaits EXCEPT ![m] =
            IF round[m].awaits # "no" /\ @ = "due" THEN "due" ELSE round[m].awaits]
    /\ asked' = IF round[m].owes = "ask"
                THEN [asked EXCEPT ![m] = [theirs |-> round[m].theirs, mine |-> round[m].ours]]
                ELSE asked
    /\ round' = [round EXCEPT ![m] =
            IF @.owes = "answer" THEN [Idle EXCEPT !.step = "answering"] ELSE Idle]
    /\ UNCHANGED <<written, over, settles, body, folder, kept, aside, beside, log, mishaps>>

\* answering: what was joined, or held back, is noted, and a round that only pushes follows.
AnswerIt(m) ==
    /\ round[m].step = "answering"
    /\ knows' = Noted(m)
    /\ round' = [round EXCEPT ![m] =
            IF Noted(m) = knows THEN Idle
            ELSE Start(m, FALSE, knows'[m])]
    /\ shelf' = IF Noted(m) = knows THEN shelf ELSE [shelf EXCEPT ![m] = knows'[m][m]]
    /\ UNCHANGED <<written, over, settles, files, asked, awaits, mishaps>>

-----------------------------------------------------------------------------
(* The person settles a document two machines wrote                        *)

\* What settling leaves: both files alike, the ledger and the base with them.
Settled(m, whole) ==
    /\ settles < MaxSettles /\ settles' = settles + 1
    /\ carried' = [carried EXCEPT ![m] = whole]
    /\ kept' = [kept EXCEPT ![m] = whole]
    /\ asked' = [asked EXCEPT ![m] = None]
    /\ UNCHANGED <<written, aside, log, awaits, round>>

\* Keep::Theirs, refused when the body here is not the one that was shown.
KeepTheirs(m) ==
    /\ asked[m] # None /\ folder # None
    /\ asked[m].mine \in {None, body[m]}
    /\ body' = [body EXCEPT ![m] = folder]
    /\ over' = ChosenOver(folder, body[m])
    /\ Settled(m, folder)
    /\ UNCHANGED <<folder, beside, mishaps>>

\* Keep::Mine, refused when the folder's is not the one that was shown.
KeepMine(m) ==
    /\ asked[m] # None /\ body[m] # None
    /\ folder = asked[m].theirs
    /\ folder' = body[m]
    /\ over' = ChosenOver(body[m], folder)
    /\ Settled(m, body[m])
    /\ Meets(m)
    /\ UNCHANGED <<body, beside>>

\* Keep::Both: theirs becomes a document of its own, and mine is kept.
KeepBoth(m) ==
    /\ asked[m] # None /\ body[m] # None
    /\ folder = asked[m].theirs /\ folder # None
    /\ beside' = beside \cup {folder}
    /\ folder' = body[m]
    /\ Settled(m, body[m])
    /\ Meets(m)
    /\ UNCHANGED <<body, over>>

-----------------------------------------------------------------------------
(* Time, and what goes wrong                                               *)

HourPasses(m) ==
    /\ awaits[m] = "waits"
    /\ awaits' = [awaits EXCEPT ![m] = "due"]
    /\ UNCHANGED <<written, over, settles, files, log, asked, round, mishaps>>

\* forget_settled: a day without the wait being looked at.
DayPasses(m) ==
    /\ awaits[m] # "no" /\ round[m].step = "idle"
    /\ Moved(carried[m], body[m], folder) # "bring"
    /\ awaits' = [awaits EXCEPT ![m] = "no"]
    /\ UNCHANGED <<written, over, settles, files, log, asked, round, mishaps>>

\* The program stops: the round is cut before its end, and nobody is asked any more.
Crash(m) ==
    /\ Mishap("crash")
    /\ round' = [round EXCEPT ![m] = Idle]
    /\ asked' = [asked EXCEPT ![m] = None]
    /\ UNCHANGED <<written, over, settles, files, log, awaits>>

\* Somebody deletes the file in the folder, or it never gets there.
FolderLost ==
    /\ folder # None /\ \E m \in Machines : body[m] = folder
    /\ Mishap(IF \A m \in Machines : body[m] = folder THEN "lost_there" ELSE "lost_while_behind")
    /\ folder' = None
    /\ UNCHANGED <<written, over, settles, body, carried, kept, aside, beside, log, asked, awaits, round>>

RoundStep(m) ==
    \/ Begin(m) \/ Look(m)
    \/ LeaveToTake(m) \/ Agree(m) \/ HoldBack(m) \/ Send(m) \/ Sent(m)
    \/ Unanswered(m) \/ Bring(m) \/ LetBe(m) \/ Join(m) \/ CannotJoin(m)
    \/ End(m) \/ AnswerIt(m)

Settle(m) == KeepTheirs(m) \/ KeepMine(m) \/ KeepBoth(m)

Next ==
    \/ FolderLost
    \/ \E m \in Machines :
        \/ Edit(m) \/ Tell(m) \/ RoundStep(m) \/ Settle(m)
        \/ HourPasses(m) \/ DayPasses(m) \/ Crash(m)

Spec == Init /\ [][Next]_vars

\* A machine goes on with its rounds and the hour passes; nobody has to write, tell or settle.
FairSpec ==
    /\ Spec
    /\ \A m \in Machines : WF_vars(RoundStep(m)) /\ WF_vars(HourPasses(m))

-----------------------------------------------------------------------------
(* Properties                                                              *)

\* Every variable stays within what its comment says it holds.
TypeOK ==
    /\ written \in 0..MaxEdits
    /\ over \in [Blocks -> SUBSET (({0} \cup Edits) \X Edits)]
    /\ settles \in 0..MaxSettles
    /\ body \in [Machines -> Prints] /\ folder \in Prints
    /\ carried \in [Machines -> Prints] /\ kept \in [Machines -> Prints]
    /\ aside \in [Machines -> Prints] /\ beside \subseteq Bodies
    /\ knows \in [Machines -> [Machines -> Notes]] /\ shelf \in [Machines -> Notes]
    /\ asked \in [Machines -> {None} \cup [theirs : Prints, mine : Prints]]
    /\ awaits \in [Machines -> {"no", "waits", "due"}]
    /\ round \in [Machines -> Rounds]
    /\ mishaps \in 0..MaxMishaps

Versions == ({body[m] : m \in Machines} \cup {folder} \cup {aside[m] : m \in Machines}
             \cup beside) \ {None}

\* What a block holds is the edit, or was made over it.
Has(said, block, edit) == block = edit \/ (block # 0 /\ <<block, edit>> \in said)

Stands(edit) == \E v \in Versions, b \in Blocks : Has(over[b], v[b], edit)

\* The person chose a version that does not have it.
GivenUp(edit) == \E b \in Blocks : <<0, edit>> \in over[b]

\* Nothing the person wrote goes away but by what was written, or chosen, over it: rounds of two
\* machines that read before the other writes, waits, joins and crashes between never lose an
\* edit from every file at once.
EveryEditStands == \A edit \in 1..written : Stands(edit) \/ GivenUp(edit)

\* Block by block, by the history as it then is: the new body is what the old one was or was
\* made over it, or a document of its own is, or the person chose to do without it.
Keeps(new, old) ==
    new # None /\ \A b \in Blocks : old[b] # 0 =>
        \/ \E v \in {new} \cup beside' : Has(over'[b], v[b], old[b])
        \/ <<0, old[b]>> \in over'[b]

\* A machine's body gives way to another only where that one keeps what it was: what a round
\* weighed long before it writes never lets it write over what came since, or over what nobody
\* joined.
OnlyOverWhatItKeeps ==
    [][\A m \in Machines : body[m] \notin {None, body'[m]} => Keeps(body'[m], body[m])]_vars

\* Once the person has written and settled for the last time, every machine has the body the
\* folder has, or its person is asked about the two that differ, as they now are.
Converges ==
    <>[](\A m \in Machines :
            body[m] = folder \/ asked[m] = [theirs |-> folder, mine |-> body[m]])
=============================================================================
