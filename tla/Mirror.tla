-------------------------------- MODULE Mirror --------------------------------
(***************************************************************************)
(* A store in a provider's cloud and the copy of it each machine keeps     *)
(* (tisty-carrier/src/cloud/mirror.rs, cloud.rs, cloud/index.rs).  A round *)
(* reads what changed up there into the copy, does its work between the    *)
(* copy and the person's data as it would with a shared folder, and sends  *)
(* up what the copy has new.  Nothing locks the cloud: a write names the   *)
(* revision it is made over, or that there is none, and is refused else.   *)
(*                                                                         *)
(* Three files stand for the store: the history of one machine, a document *)
(* and the word on the place's shape, which is written last of all.  A     *)
(* body is the set of the edits it was written with; content is compared   *)
(* by hash, so two bodies are taken for one exactly when they are equal.   *)
(***************************************************************************)
EXTENDS Integers, FiniteSets

CONSTANTS
    Machines,
    Owner,       \* the machine whose history is among the files
    None,        \* no file, no revision, nobody asked
    FirstUp,     \* what had been carried by everybody at the start
    MaxEdits,    \* bound: what the person writes, a deletion of the store counted with it
    MaxSettles,  \* bound: how often the person settles what differs
    MaxWrites,   \* how many changes in the cloud are enough for all that
    Drifting,    \* bound: the files the provider moves to another revision by itself
    Mishaps,     \* what this instance lets happen
    MaxMishaps   \* bound

AllMishaps == {"look", "crash", "cut", "broken", "lost_answer", "drift", "lag",
               "deleted_whole", "deleted_under_a_new_file", "settled_late"}

Names == {"store", "doc", "stamp"}
Edits == 1..MaxEdits

ASSUME MirrorAssumption ==
    /\ Owner \in Machines /\ FirstUp \subseteq Names /\ Drifting \subseteq Names
    /\ MaxEdits \in Nat /\ MaxSettles \in Nat /\ MaxWrites \in Nat /\ MaxMishaps \in Nat
    /\ Mishaps \subseteq AllMishaps
    /\ \A some \in SUBSET Edits : None # some
    /\ None \notin Nat /\ None \notin [rev : Nat, body : SUBSET Edits]

VARIABLES
    written,   \* the number of the last edit, or of the deletion
    settles,   \* how often the person has settled
    givenup,   \* the edits a person chose to do without
    body,      \* each machine's own file of the document
    carried,   \* the print each machine's ledger says was last carried
    history,   \* the history as each machine has it
    asked,     \* the two versions the person is asked about on each machine
    tree,      \* the copy of the cloud each machine keeps
    index,     \* what each machine knows of the cloud, as the round at work has it
    saved,     \* the index as it is on disk
    emptied,   \* the mark that the store was found deleted whole
    remote,    \* the cloud's files
    touched,   \* when the provider last told of a change to each
    clock,     \* how many changes the cloud has seen
    round,     \* how far each machine's round is
    mishaps    \* what has gone wrong so far

person == <<written, settles, givenup>>
data   == <<body, carried, history, asked>>
mirror == <<tree, index, saved, emptied>>
cloud  == <<remote, touched, clock>>
vars   == <<person, data, mirror, cloud, round, mishaps>>

Bodies  == SUBSET Edits
Files   == [Names -> {None} \cup Bodies]

\* What there is to know of a cloud that has seen so many changes.
Sights(past)  == [rev : 0..past, body : Bodies]
Sighted(past) == [Names -> {None} \cup Sights(past)]
\* at is the cursor; known the files as last carried either way; owed what a pull could not take.
Indexes(past) == [at : {None} \cup 0..past, known : Sighted(past), owed : Sighted(past),
                  confirmed : BOOLEAN]

Nowhere  == [n \in Names |-> None]
NewIndex == [at |-> None, known |-> Nowhere, owed |-> Nowhere, confirmed |-> FALSE]

Kinds  == {"carry", "look", "keep_mine", "keep_theirs"}
\* at is the cursor the provider answered with, due what is still to be learned, left what is
\* still to be sent; refused says that a file already was.
Rounds(past) == [step : {"idle", "pulling", "pushing"}, work : Kinds, at : 0..past,
                 due : Sighted(past), left : SUBSET Names, refused : BOOLEAN]
Idle   == [step |-> "idle", work |-> "carry", at |-> 0, due |-> Nowhere, left |-> {},
           refused |-> FALSE]

FirstSeen == [n \in Names |-> IF n \in FirstUp THEN [rev |-> 0, body |-> {}] ELSE None]
FirstTree == [n \in Names |-> IF n \in FirstUp THEN {} ELSE None]

\* A document, begun on one machine, and the rest of a store every machine has carried.
Init ==
    /\ written = 0 /\ settles = 0 /\ givenup = {}
    /\ body = [m \in Machines |-> IF m = Owner \/ "doc" \in FirstUp THEN {} ELSE None]
    /\ carried = [m \in Machines |-> FirstTree["doc"]]
    /\ history = [m \in Machines |-> {}]
    /\ asked = [m \in Machines |-> None]
    /\ tree = [m \in Machines |-> FirstTree]
    /\ index = [m \in Machines |->
                    [at |-> 0, known |-> FirstSeen, owed |-> Nowhere, confirmed |-> TRUE]]
    /\ saved = index
    /\ emptied = [m \in Machines |-> FALSE]
    /\ remote = FirstSeen
    /\ touched = [n \in Names |-> 0]
    /\ clock = 0
    /\ round = [m \in Machines |-> Idle]
    /\ mishaps = {}

Mishap(kind) ==
    /\ kind \in Mishaps
    /\ Cardinality(mishaps) < MaxMishaps
    /\ mishaps' = mishaps \cup {kind}

\* The end of a round, the index as it then is written down.
Ends(m, known) ==
    /\ index' = [index EXCEPT ![m] = known]
    /\ saved' = [saved EXCEPT ![m] = known]
    /\ round' = [round EXCEPT ![m] = Idle]

-----------------------------------------------------------------------------
(* The person                                                              *)

\* A word is written in the document, and noted in the history of its machine.
Edit(m) ==
    /\ written < MaxEdits /\ body[m] # None
    /\ written' = written + 1
    /\ body' = [body EXCEPT ![m] = @ \cup {written + 1}]
    /\ history' = IF m = Owner THEN [history EXCEPT ![m] = @ \cup {written + 1}] ELSE history
    /\ UNCHANGED <<settles, givenup, carried, asked, mirror, cloud, round, mishaps>>

-----------------------------------------------------------------------------
(* Pulling                                                                 *)

\* Remote::changes: what the provider tells since a cursor, as far as it has got to upto; without
\* a cursor, everything there is.
Told(at, upto) ==
    LET now == {n \in Names : at = None \/ (at < touched[n] /\ touched[n] <= upto)}
    IN  [changed |-> [n \in Names |-> IF n \in now THEN remote[n] ELSE None],
         gone |-> {n \in now : remote[n] = None}]

\* Mutant: whatever is gone is read as gone, all of it or not.
NeverDeletedWhole(known, told) == FALSE

\* The check of pull: of all that was known nothing is left, and the word on the shape was known.
DeletedWhole(known, told) ==
    /\ known["stamp"] # None
    /\ told.changed = Nowhere
    /\ \A n \in Names : known[n] # None => n \in told.gone

\* What is to be learned: what changed, and what was owed and has not gone.
DueAfter(from, told) ==
    [n \in Names |-> IF n \in told.gone THEN None
                     ELSE IF told.changed[n] # None THEN told.changed[n]
                     ELSE from.owed[n]]

\* forget, clear_unlisted: what is gone goes from the index and from the copy.
Forgotten(files, gone) == [n \in Names |-> IF n \in gone THEN None ELSE files[n]]

\* pull up to the first file to be learned, the provider's answer reaching to upto.  A machine that
\* starts over has neither index nor copy.
Pull(m, work, again, upto) ==
    LET from  == IF again THEN NewIndex ELSE index[m]
        files == IF again THEN Nowhere ELSE tree[m]
        told  == Told(from.at, upto)
    IN  IF DeletedWhole(from.known, told)
        THEN /\ emptied' = [emptied EXCEPT ![m] = TRUE]
             /\ Ends(m, from)
             /\ UNCHANGED tree
        ELSE /\ emptied' = [emptied EXCEPT ![m] = @ /\ ~again]
             /\ saved' = [saved EXCEPT ![m] = IF again THEN NewIndex ELSE @]
             /\ tree' = [tree EXCEPT ![m] = Forgotten(files, told.gone)]
             /\ index' = [index EXCEPT ![m] = [from EXCEPT
                    !.owed = Nowhere, !.known = Forgotten(@, told.gone)]]
             /\ round' = [round EXCEPT ![m] = [Idle EXCEPT
                    !.step = "pulling", !.work = work, !.at = upto, !.due = DueAfter(from, told)]]

Begin(m) ==
    /\ round[m].step = "idle"
    /\ Pull(m, "carry", FALSE, clock)
    /\ UNCHANGED <<person, data, cloud, mishaps>>

\* The provider tells late of what changed.
BeginBehind(m) ==
    /\ round[m].step = "idle" /\ index[m].at # None
    /\ Mishap("lag")
    /\ \E upto \in index[m].at..(clock - 1) : Pull(m, "carry", FALSE, upto)
    /\ UNCHANGED <<person, data, cloud>>

\* looked_again: a round that reads and sends, with nothing of the person's at hand.
BeginLook(m) ==
    /\ round[m].step = "idle"
    /\ Mishap("look")
    /\ Pull(m, "look", FALSE, clock)
    /\ UNCHANGED <<person, data, cloud>>

\* A document that this round's pull brings, and that nobody was shown.
Coming(m) == DueAfter(index[m], Told(index[m].at, clock))["doc"] # None

\* The person settles what differs.  Keeping ours is refused where theirs, as it was shown, does
\* not stand in the copy any more (paper_print); the pull comes after that.
Settle(m, work) ==
    /\ round[m].step = "idle" /\ asked[m] # None
    /\ work = "keep_mine" => tree[m]["doc"] = asked[m].theirs
    /\ settles < MaxSettles /\ settles' = settles + 1
    /\ Pull(m, work, FALSE, clock)
    /\ IF work = "keep_mine" /\ Coming(m) THEN Mishap("settled_late") ELSE UNCHANGED mishaps
    /\ UNCHANGED <<written, givenup, data, cloud>>

\* Way::Again, where the store was found deleted whole: everything is sent again.
Again(m) ==
    /\ round[m].step = "idle" /\ emptied[m]
    /\ Pull(m, "carry", TRUE, clock)
    /\ UNCHANGED <<person, data, cloud, mishaps>>

\* The word on the shape comes first (heeded), the rest by name.
NextDue(m, n) ==
    /\ round[m].step = "pulling" /\ round[m].due[n] # None
    /\ n = "doc" => round[m].due["stamp"] = None
    /\ n = "store" => round[m].due["stamp"] = None /\ round[m].due["doc"] = None

Seen(m, n)  == round[m].due[n]
Known(m, n) == index[m].known[n]

Unmoved(m, n)   == Known(m, n) # None /\ Known(m, n).rev = Seen(m, n).rev
Resembles(m, n) == tree[m][n] = Seen(m, n).body

\* A document of the copy that has not gone up yet.
Pending(m, n) ==
    n = "doc" /\ tree[m][n] # None /\ ~(Known(m, n) # None /\ Known(m, n).body = tree[m][n])

\* Mutant: a revision that is not ours is never read for what it holds.
NeverOurs(m, n) == FALSE

\* The provider moved a write of ours: the revision is another, what it holds is not.
OursStill(m, n) == Known(m, n) # None /\ Known(m, n).body = Seen(m, n).body

\* The round once a file was learned.
Learned(m, n) == [round EXCEPT ![m].due[n] = None]

\* What is known of a file, both ways: note, and what upload keeps.
Noted(m, n, seen) ==
    index' = [index EXCEPT ![m].known[n] = seen, ![m].confirmed = @ \/ n = "stamp"]

\* learn, where nothing has to be fetched.
Learn(m) ==
    /\ \E n \in Names :
        /\ NextDue(m, n)
        /\ \/ Unmoved(m, n) /\ UNCHANGED index
           \/ /\ ~Unmoved(m, n)
              /\ Resembles(m, n) \/ (Pending(m, n) /\ round[m].work # "look" /\ OursStill(m, n))
              /\ Noted(m, n, Seen(m, n))
           \/ /\ ~Unmoved(m, n) /\ ~Resembles(m, n)
              /\ Pending(m, n) /\ round[m].work = "look"
              /\ index' = [index EXCEPT ![m].owed[n] = Seen(m, n)]
        /\ round' = Learned(m, n)
    /\ UNCHANGED <<person, data, tree, saved, emptied, cloud, mishaps>>

MustFetch(m, n) ==
    /\ NextDue(m, n) /\ ~Unmoved(m, n) /\ ~Resembles(m, n)
    /\ Pending(m, n) => round[m].work # "look" /\ ~OursStill(m, n)

\* Mutant: what was last carried stays, whatever takes its place in the copy.
KeptBase(m, n) == carried

\* forget_base: a change of ours had not gone up when theirs came, and the person decides.
ForgottenBase(m, n) == IF Pending(m, n) THEN [carried EXCEPT ![m] = None] ELSE carried

\* download: the file as it is by now, or no longer is.
Fetch(m) ==
    /\ \E n \in Names :
        /\ MustFetch(m, n)
        /\ carried' = ForgottenBase(m, n)
        /\ IF remote[n] = None
           THEN UNCHANGED <<tree, index>>
           ELSE tree' = [tree EXCEPT ![m][n] = remote[n].body] /\ Noted(m, n, remote[n])
        /\ round' = Learned(m, n)
    /\ UNCHANGED <<person, body, history, asked, saved, emptied, cloud, mishaps>>

\* Hitch::Broke: this one waits for another round, and the others come.
FetchBroken(m) ==
    /\ Mishap("broken")
    /\ \E n \in Names \ {"stamp"} :
        /\ MustFetch(m, n)
        /\ carried' = ForgottenBase(m, n)
        /\ index' = [index EXCEPT ![m].owed[n] = Seen(m, n)]
        /\ round' = Learned(m, n)
    /\ UNCHANGED <<person, body, history, asked, tree, saved, emptied, cloud>>

\* The provider is out of reach, or the day's calls are spent: all that is left is owed.
FetchCut(m) ==
    /\ Mishap("cut")
    /\ \E n \in Names :
        /\ MustFetch(m, n)
        /\ carried' = ForgottenBase(m, n)
        /\ Ends(m, [index[m] EXCEPT !.owed =
                [f \in Names |-> IF Seen(m, f) # None THEN Seen(m, f) ELSE @[f]]])
    /\ UNCHANGED <<person, body, history, asked, tree, emptied, cloud>>

-----------------------------------------------------------------------------
(* The work between the copy and the person's data                         *)

\* Everything was learned, or is owed: the cursor moves.
Works(m, work) == round[m].step = "pulling" /\ round[m].due = Nowhere /\ round[m].work = work
Read(m)        == [index[m] EXCEPT !.at = round[m].at]

\* still_emptied: the mark stays until the word on the shape is known again.
Marked(m)      == emptied[m] /\ Known(m, "stamp") = None
Unmarked(m)    == [emptied EXCEPT ![m] = Marked(m)]
StillGone(m)   == Marked(m) /\ round[m].work # "look"

\* before_reading: the place once said what shape it is in, and says nothing.
Unshaped(m) == round[m].work = "carry" /\ index[m].confirmed /\ tree[m]["stamp"] = None

\* Keep::Theirs is refused where the body here is not the one that was shown.
Outdated(m) == round[m].work = "keep_theirs" /\ body[m] # asked[m].mine

Refuse(m) ==
    /\ Works(m, round[m].work)
    /\ StillGone(m) \/ Unshaped(m) \/ Outdated(m)
    /\ emptied' = Unmarked(m)
    /\ Ends(m, Read(m))
    /\ UNCHANGED <<person, data, tree, cloud, mishaps>>

\* Mutant: whatever is in the copy goes up, changed or not.
EverythingDirty(m, files) == {n \in Names : files[n] # None}

\* is_dirty: the digest tells, not the time.
Dirty(m, files) ==
    {n \in Names : files[n] # None /\ (Known(m, n) = None \/ Known(m, n).body # files[n])}

\* What the work leaves in the copy, on its way up.
Leaves(m, files) ==
    /\ ~StillGone(m) /\ ~Unshaped(m) /\ ~Outdated(m)
    /\ tree' = [tree EXCEPT ![m] = files]
    /\ emptied' = Unmarked(m)
    /\ index' = [index EXCEPT ![m] = Read(m)]
    /\ round' = [round EXCEPT ![m] = [Idle EXCEPT
                    !.step = "pushing", !.left = Dirty(m, files)]]
    /\ UNCHANGED <<saved, cloud>>

\* looked_again.
Look(m) ==
    /\ Works(m, "look")
    /\ Leaves(m, tree[m])
    /\ UNCHANGED <<person, data, mishaps>>

\* docs::moved, on the print last carried.
Moved(base, here, there) ==
    IF here = there      THEN "nothing"
    ELSE IF there = None THEN "send"
    ELSE IF here = None  THEN "bring"
    ELSE IF base = here  THEN "bring"
    ELSE IF base = there THEN "send"
    ELSE "they_decide"

\* What a round may make of the document, the history it has read being events: carried, asked
\* about, joined where the two did not write in one place, or left until the history says of it.
Outcomes(m, events) ==
    LET mine     == body[m]
        theirs   == tree[m]["doc"]
        how      == Moved(carried[m], mine, theirs)
        answered == theirs # None /\ theirs \cap history[Owner] \subseteq events
        becomes(whole) == [here |-> whole, there |-> whole, said |-> whole, asks |-> asked[m]]
        stays    == [here |-> mine, there |-> theirs, said |-> carried[m], asks |-> asked[m]]
        asks     == [stays EXCEPT !.asks = [mine |-> mine, theirs |-> theirs]]
    IN  CASE how = "nothing"               -> {IF mine = None THEN stays ELSE becomes(mine)}
          [] how = "send"                  -> {becomes(mine)}
          [] how = "bring"                 -> {IF answered THEN becomes(theirs) ELSE stays}
          [] how = "they_decide"           ->
                {asks} \cup (IF answered /\ carried[m] # None THEN {becomes(mine \cup theirs)} ELSE {})

\* carry_through over the copy: the history either way, the document, the word on the shape.
Carry(m) ==
    /\ Works(m, "carry")
    /\ LET events == history[m] \cup (IF tree[m]["store"] = None THEN {} ELSE tree[m]["store"])
       IN  \E done \in Outcomes(m, events) :
            /\ history' = [history EXCEPT ![m] = events]
            /\ body' = [body EXCEPT ![m] = done.here]
            /\ carried' = [carried EXCEPT ![m] = done.said]
            /\ asked' = [asked EXCEPT ![m] = done.asks]
            /\ Leaves(m, [store |-> events, doc |-> done.there, stamp |-> {}])
    /\ UNCHANGED <<person, mishaps>>

\* settle: both sides become what was chosen.
Chosen(m, whole) ==
    /\ body' = [body EXCEPT ![m] = whole]
    /\ carried' = [carried EXCEPT ![m] = whole]
    /\ asked' = [asked EXCEPT ![m] = None]
    /\ Leaves(m, [tree[m] EXCEPT !["doc"] = whole])
    /\ UNCHANGED <<written, settles, history, mishaps>>

\* Ours goes over what stands in the copy by now, which the pull of this very round may have
\* brought after it was shown.
KeepMine(m) ==
    /\ Works(m, "keep_mine")
    /\ givenup' = givenup \cup (asked[m].theirs \ body[m])
    /\ Chosen(m, body[m])

KeepTheirs(m) ==
    /\ Works(m, "keep_theirs") /\ tree[m]["doc"] # None
    /\ givenup' = givenup \cup (body[m] \ tree[m]["doc"])
    /\ Chosen(m, tree[m]["doc"])

-----------------------------------------------------------------------------
(* Pushing                                                                 *)

\* Mutant: by name.
ByName(m, n) ==
    /\ n \in round[m].left
    /\ n = "stamp" => round[m].left = {"stamp"} /\ ~round[m].refused
    /\ n = "store" => "doc" \notin round[m].left

\* The history first, and the word on the shape last, where nothing was refused.
NextLeft(m, n) ==
    /\ n \in round[m].left
    /\ n = "doc" => "store" \notin round[m].left
    /\ n = "stamp" => round[m].left = {"stamp"} /\ ~round[m].refused

\* Expect: over the revision that is known, or over nothing.
Expected(m, n) ==
    \/ Known(m, n) = None /\ remote[n] = None
    \/ Known(m, n) # None /\ remote[n] # None /\ Known(m, n).rev = remote[n].rev

\* Mutant: a change the provider does not tell of is none to it.
ToldOrNothing(n, file, told) ==
    /\ clock' = IF told THEN clock + 1 ELSE clock
    /\ remote' = [remote EXCEPT ![n] = file]
    /\ touched' = IF told THEN [touched EXCEPT ![n] = clock + 1] ELSE touched

\* A change in the cloud, told of or not.
Changes(n, file, told) ==
    /\ clock' = clock + 1
    /\ remote' = [remote EXCEPT ![n] = file]
    /\ touched' = IF told THEN [touched EXCEPT ![n] = clock + 1] ELSE touched

PutUp(m, n) ==
    /\ round[m].step = "pushing" /\ NextLeft(m, n) /\ Expected(m, n)
    /\ Changes(n, [rev |-> clock + 1, body |-> tree[m][n]], TRUE)

Put(m) ==
    /\ \E n \in Names :
        /\ PutUp(m, n)
        /\ Noted(m, n, remote'[n])
        /\ round' = [round EXCEPT ![m].left = @ \ {n}]
    /\ UNCHANGED <<person, data, tree, saved, emptied, mishaps>>

\* It landed, and the answer never came.
PutUnanswered(m) ==
    /\ Mishap("lost_answer")
    /\ \E n \in Names : PutUp(m, n)
    /\ Ends(m, index[m])
    /\ UNCHANGED <<person, data, tree, emptied>>

\* read_again: what refused the write is owed, or is not up there any more.
ReadAgain(m, n) ==
    IF remote[n] = None THEN [index[m] EXCEPT !.known[n] = None]
    ELSE [index[m] EXCEPT !.owed[n] = remote[n]]

PutRefused(m) ==
    /\ \E n \in Names :
        /\ round[m].step = "pushing" /\ NextLeft(m, n) /\ ~Expected(m, n)
        /\ index' = [index EXCEPT ![m] = ReadAgain(m, n)]
        /\ round' = [round EXCEPT ![m].left = @ \ {n}, ![m].refused = TRUE]
    /\ UNCHANGED <<person, data, tree, saved, emptied, cloud, mishaps>>

PutCut(m) ==
    /\ Mishap("cut")
    /\ \E n \in Names : round[m].step = "pushing" /\ NextLeft(m, n)
    /\ Ends(m, index[m])
    /\ UNCHANGED <<person, data, tree, emptied, cloud>>

\* The index is written down once nothing is left but a word that has to wait.
EndPush(m) ==
    /\ round[m].step = "pushing" /\ \A n \in Names : ~NextLeft(m, n)
    /\ Ends(m, index[m])
    /\ UNCHANGED <<person, data, tree, emptied, cloud, mishaps>>

-----------------------------------------------------------------------------
(* What goes wrong                                                         *)

\* The program stops, and what it knew since it last wrote it down with it.
Crash(m) ==
    /\ round[m].step # "idle"
    /\ Mishap("crash")
    /\ index' = [index EXCEPT ![m] = saved[m]]
    /\ round' = [round EXCEPT ![m] = Idle]
    /\ UNCHANGED <<person, data, tree, saved, emptied, cloud>>

\* The provider moves a file to another revision by itself, and may never tell; a round at work
\* meets it as it meets another's write.
Drift ==
    /\ \A m \in Machines : round[m].step = "idle"
    /\ Mishap("drift")
    /\ \E n \in Drifting, told \in BOOLEAN :
        /\ remote[n] # None
        /\ Changes(n, [remote[n] EXCEPT !.rev = clock + 1], told)
    /\ UNCHANGED <<person, data, mirror, round>>

\* Somebody deletes the store, which a round that has a new file to send may be about to do.
DeleteAll ==
    /\ remote # Nowhere
    /\ Mishap(IF \E m \in Machines : round[m].step # "idle" /\ Known(m, "doc") = None
              THEN "deleted_under_a_new_file" ELSE "deleted_whole")
    /\ written < MaxEdits /\ written' = written + 1
    /\ clock' = clock + 1
    /\ remote' = Nowhere
    /\ touched' = [n \in Names |-> IF remote[n] = None THEN touched[n] ELSE clock + 1]
    /\ UNCHANGED <<settles, givenup, data, mirror, round>>

-----------------------------------------------------------------------------

CarryOn(m) ==
    \/ Begin(m)
    \/ Learn(m) \/ Fetch(m) \/ Refuse(m)
    \/ Look(m) \/ Carry(m) \/ KeepMine(m) \/ KeepTheirs(m)
    \/ Put(m) \/ PutRefused(m) \/ EndPush(m)

CutShort(m) == FetchBroken(m) \/ FetchCut(m) \/ PutUnanswered(m) \/ PutCut(m) \/ Crash(m)

Next ==
    \/ Drift \/ DeleteAll
    \/ \E m \in Machines :
        \/ Edit(m) \/ Again(m) \/ BeginLook(m) \/ BeginBehind(m)
        \/ Settle(m, "keep_mine") \/ Settle(m, "keep_theirs")
        \/ CarryOn(m) \/ CutShort(m)

Spec == Init /\ [][Next]_vars

\* A machine goes on with its rounds; nobody has to look, to write, to settle or to send again.
FairSpec == Spec /\ \A m \in Machines : WF_vars(CarryOn(m))

-----------------------------------------------------------------------------
(* What is promised                                                        *)

\* Every variable keeps to its type, and nobody knows of a revision, or stands at a cursor, that
\* the cloud has not come to.
TypeOK ==
    /\ written \in 0..MaxEdits /\ settles \in 0..MaxSettles /\ givenup \subseteq Edits
    /\ body \in [Machines -> {None} \cup Bodies]
    /\ carried \in [Machines -> {None} \cup Bodies]
    /\ history \in [Machines -> Bodies]
    /\ asked \in [Machines -> {None} \cup [mine : Bodies, theirs : Bodies]]
    /\ tree \in [Machines -> Files]
    /\ clock \in Nat
    /\ index \in [Machines -> Indexes(clock)] /\ saved \in [Machines -> Indexes(clock)]
    /\ emptied \in [Machines -> BOOLEAN]
    /\ remote \in Sighted(clock) /\ touched \in [Names -> 0..clock]
    /\ round \in [Machines -> Rounds(clock)]
    /\ mishaps \subseteq Mishaps /\ Cardinality(mishaps) <= MaxMishaps

\* What is written bounds what changes in the cloud: machines that have nothing new leave it
\* alone, and never answer each other's writes.
FallsSilent == clock <= MaxWrites

\* What was written stays in a machine's document, through pulls over changes that had not gone
\* up, refused and unanswered writes and writes the provider moved, unless a person saw it and
\* chose to do without it.  (A store deleted whole may come back from a machine that had less;
\* what then gives way is set aside first, which is Papers' subject.)
NothingTakenBack ==
    [][\A m \in Machines :
        body[m] # None /\ "deleted_whole" \notin mishaps => body[m] \ body'[m] \subseteq givenup']_vars

\* Somebody is asked anew to choose between a version and one that has all of it.
AsksWithin(m) ==
    /\ asked'[m] \notin {None, asked[m]}
    /\ asked'[m].mine \subseteq asked'[m].theirs \/ asked'[m].theirs \subseteq asked'[m].mine

\* Nobody is asked to choose between a version and one that has all of it, though their own write
\* was moved by the provider or refused: only an answer that never came, a read that broke, a
\* crash before the index was written, a store deleted whole or something given up leave that open.
AskedOnlyOverTwo ==
    [][givenup = {} /\ mishaps \cap {"broken", "crash", "lost_answer", "deleted_whole"} = {}
        => \A m \in Machines : ~AsksWithin(m)]_vars

\* Whoever reads the document up there finds the history that answers for it there as well,
\* unless something was refused in a round at work, the store deleted, or the document settled by
\* hand, which carries no history: the order of push.
HistoryGoesFirst ==
    [][/\ remote'["doc"] # None
       /\ remote["doc"] = None \/ remote["doc"].body # remote'["doc"].body
       /\ settles = 0 /\ ~\E m \in Machines : round[m].refused
       /\ "deleted_whole" \notin mishaps
       => remote'["doc"].body \cap history[Owner] \subseteq remote["store"].body]_vars

\* Once the person has written and settled for the last time every machine has the document the
\* cloud has, or its person is asked about the two, or told that the store was deleted: whatever
\* was refused, owed, moved unheard or half read is tried again.
Converges ==
    <>[](\A m \in Machines :
            \/ emptied[m]
            \/ remote["doc"] # None /\ body[m] = remote["doc"].body
            \/ remote["doc"] # None /\ asked[m] = [theirs |-> remote["doc"].body, mine |-> body[m]])
=============================================================================
