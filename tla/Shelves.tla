------------------------------ MODULE Shelves ------------------------------
(***************************************************************************)
(* What State::apply makes of the events about folders and documents, one  *)
(* event at a time, in the order of their stamps.                          *)
(*                                                                         *)
(* A machine judges a change against the state it has, and writes it; the  *)
(* log it ends in also holds what the others wrote meanwhile, before it as *)
(* well as after it.  So an event meets states its writer never saw: here  *)
(* any event may follow any other, and only what the replay itself refuses *)
(* is refused.  An identity is made once (a fresh ULID) and named only     *)
(* after it, stamps following what a machine has read; but an event may    *)
(* name one that is deleted by then.  One whose log has not arrived is met *)
(* like a deleted one, and when that log arrives the replay starts anew.   *)
(*                                                                         *)
(* Left out: names, orders, colours, locks, flags, who signed and who      *)
(* wrote, and the documents that hold the words of a task (see Turns).     *)
(***************************************************************************)
EXTENDS Naturals, FiniteSets

CONSTANTS
    Folders,    \* the identities of folders
    Docs,       \* the identities of documents
    Deepest,    \* how many folders may stand inside one another
    None,       \* no folder, no document
    Unsaid      \* a move that does not speak of the folder, or of the document

ASSUME ShelvesAssumption ==
    /\ IsFiniteSet(Folders)
    /\ Deepest \in Nat \ {0}
    /\ None \notin Folders \union Docs
    /\ Unsaid \notin Folders \union Docs \union {None}
    /\ Folders \intersect Docs = {}

VARIABLES
    folders,    \* the folders that stand: what each is in, whether it is archived
    docs,       \* the documents that stand
    gone        \* the tombstones

vars == <<folders, docs, gone>>

Folder == [parent : Folders \union {None}, archived : BOOLEAN]

Doc == [folder : Folders \union {None}, page_of : Docs \union {None},
        archived : BOOLEAN, translation_of : Docs \union {None}]

-----------------------------------------------------------------------------
(* Walking up from a folder. *)

\* The folder and every one above it: those that every set of folders closed
\* upwards holds if it holds the folder, and the one that is named above them
\* and does not stand, where the walk ends.
Above(fs, at) ==
    LET ClosedUpwards(s) == \A f \in s : fs[f].parent \in s \/ fs[f].parent \notin DOMAIN fs
        Standing == {g \in DOMAIN fs : \A s \in SUBSET DOMAIN fs :
                        (at \in s /\ ClosedUpwards(s)) => g \in s}
    IN  IF at \notin DOMAIN fs
        THEN {at} \intersect Folders
        ELSE Standing \union ({fs[g].parent : g \in Standing} \intersect Folders)

\* How many folders stand from the top down to this one, and the one at `None` is none.
Depth(fs, at) == Cardinality(Above(fs, at))

\* How many levels stand from this folder down.
Tall(fs, at) ==
    LET below == {f \in DOMAIN fs : at \in Above(fs, f)}
    IN  CHOOSE n \in 1 .. Cardinality(Folders) :
            /\ \E f \in below : Depth(fs, f) + 1 = Depth(fs, at) + n
            /\ \A f \in below : Depth(fs, f) + 1 <= Depth(fs, at) + n

\* The walk stops after Deepest + 1 folders, whatever stands above.
FolderAway(fs, at) ==
    \E g \in Above(fs, at) \intersect DOMAIN fs :
        /\ Depth(fs, at) <= Depth(fs, g) + Deepest
        /\ fs[g].archived

HasRoomUnder(fs, at) == at \in DOMAIN fs /\ Depth(fs, at) < Deepest

\* Mutant: only the folder it is moved into is looked at.
WouldLoopAtOnce(fs, moving, under) == moving = under

WouldLoop(fs, moving, under) == moving \in Above(fs, under)

\* What holds a document in the archive from above: its folder, or its document.
HeldByAnother(fs, ds, d) ==
    \/ FolderAway(fs, ds[d].folder)
    \/ /\ ds[d].page_of \in DOMAIN ds
       /\ \/ ds[ds[d].page_of].archived
          \/ FolderAway(fs, ds[ds[d].page_of].folder)

HeldAway(fs, ds, d) == ds[d].archived \/ HeldByAnother(fs, ds, d)

-----------------------------------------------------------------------------
(* Folders. *)

With(f, x, v) == [y \in DOMAIN f \union {x} |-> IF y = x THEN v ELSE f[y]]

Without(f, s) == [y \in DOMAIN f \ s |-> f[y]]

FolderAdd(f, at) ==
    /\ f \notin DOMAIN folders \union gone
    /\ folders' = With(folders, f, [parent |-> IF at = f THEN None ELSE at, archived |-> FALSE])
    /\ UNCHANGED <<docs, gone>>

FolderMove(f, at) ==
    /\ f \in DOMAIN folders
    /\ at = None \/ ( /\ HasRoomUnder(folders, at)
                      /\ ~WouldLoop(folders, f, at)
                      /\ Depth(folders, at) + Tall(folders, f) <= Deepest )
    /\ folders' = [folders EXCEPT ![f].parent = at]
    /\ UNCHANGED <<docs, gone>>

FolderArchive(f, away) ==
    /\ f \in DOMAIN folders
    /\ folders' = [folders EXCEPT ![f].archived = away]
    /\ UNCHANGED <<docs, gone>>

\* Mutant: the folders inside are let go with the mark they have.
OrphanAsItWas(one, f, away) ==
    IF one.parent = f THEN [one EXCEPT !.parent = None] ELSE one

\* What the deleted folder kept away says so by itself from now on.
Orphan(one, f, away) ==
    IF one.parent = f THEN [parent |-> None, archived |-> one.archived \/ away] ELSE one

Unfiled(one, f, away) ==
    IF one.folder = f
    THEN [one EXCEPT !.folder = None, !.archived = @ \/ (away /\ one.page_of = None)]
    ELSE one

FolderDelete(f) ==
    /\ f \notin gone
    /\ LET away == FolderAway(folders, f)
           left == Without(folders, {f})
       IN  /\ folders' = [g \in DOMAIN left |-> Orphan(left[g], f, away)]
           /\ docs' = [d \in DOMAIN docs |-> Unfiled(docs[d], f, away)]
    /\ gone' = gone \union {f}

-----------------------------------------------------------------------------
(* Documents. *)

\* A page hangs from a document that stands and is itself no page.
MayHold(ds, up) == up \in DOMAIN ds /\ ds[up].page_of = None

\* Mutant: a tombstone does not keep a document from being made again.
DocAddAgain(d, at, up) ==
    /\ d \notin DOMAIN docs
    /\ docs' = With(docs, d,
               [folder |-> at, page_of |-> None, archived |-> FALSE, translation_of |-> None])
    /\ UNCHANGED <<folders, gone>>

DocAdd(d, at, up) ==
    /\ d \notin DOMAIN docs \union gone
    /\ LET hangs == MayHold(docs, up)
       IN  docs' = With(docs, d,
               [folder |-> IF hangs THEN docs[up].folder ELSE at,
                page_of |-> IF hangs THEN up ELSE None,
                archived |-> FALSE,
                translation_of |-> None])
    /\ UNCHANGED <<folders, gone>>

HoldsPages(ds, d) == \E p \in DOMAIN ds : ds[p].page_of = d

\* Hung where the event says, when it may be; a document asked to hang where it
\* may not stays where it is.
Hung(fs, ds, d, up) ==
    CASE up = Unsaid -> ds
      [] up = None ->
            LET leaving == /\ ~ds[d].archived
                           /\ ~FolderAway(fs, ds[d].folder)
                           /\ HeldAway(fs, ds, d)
            IN  [ds EXCEPT ![d].page_of = None, ![d].archived = @ \/ leaving]
      [] up \in Docs ->
            IF up # d /\ ~HoldsPages(ds, d) /\ MayHold(ds, up)
            THEN [ds EXCEPT ![d].page_of = up, ![d].folder = ds[up].folder, ![d].archived = FALSE]
            ELSE ds

Filed(ds, d, at) ==
    IF at = Unsaid \/ ds[d].page_of # None THEN ds ELSE [ds EXCEPT ![d].folder = at]

\* Mutant: only the document moves.
FollowedByNone(ds, d) == ds

\* Pages follow their document without being told.
Followed(ds, d) ==
    [p \in DOMAIN ds |->
        IF ds[p].page_of = d /\ ds[d].page_of = None
        THEN [ds[p] EXCEPT !.folder = ds[d].folder]
        ELSE ds[p]]

DocMove(d, at, up) ==
    /\ d \in DOMAIN docs
    /\ docs' = Followed(Filed(Hung(folders, docs, d, up), d, at), d)
    /\ UNCHANGED <<folders, gone>>

DocArchive(d, away) ==
    /\ d \in DOMAIN docs
    /\ docs' = [docs EXCEPT ![d].archived = away]
    /\ UNCHANGED <<folders, gone>>

\* Mutant: a language joins the language it was shown beside.
AnchorBeside(ds, of) == of

\* Joining one language of a group joins what the group gathers around.
AnchorNamed(ds, of) ==
    IF of \in DOMAIN ds /\ ds[of].translation_of # None THEN ds[of].translation_of ELSE of

DocTongue(d, of) ==
    LET anchor == AnchorNamed(docs, of)
    IN  /\ MayHold(docs, d)
        /\ anchor # d
        /\ anchor \in DOMAIN docs => MayHold(docs, anchor)
        /\ docs' = [one \in DOMAIN docs |->
               IF one = d \/ (anchor # None /\ docs[one].translation_of = d)
               THEN [docs[one] EXCEPT !.translation_of = anchor]
               ELSE docs[one]]
        /\ UNCHANGED <<folders, gone>>

\* A page is part of its document, so it goes where the document goes.
TakenAlong(ds, d) == {d} \union {p \in DOMAIN ds : ds[p].page_of = d}

DocDelete(d) ==
    /\ d \notin gone
    /\ docs' = Without(docs, TakenAlong(docs, d))
    /\ gone' = gone \union TakenAlong(docs, d)
    /\ UNCHANGED folders

-----------------------------------------------------------------------------

Init ==
    /\ folders = [f \in {} |-> None]
    /\ docs = [d \in {} |-> None]
    /\ gone = {}

\* What an event may name: what was made before it, deleted since or not.
Named(ids) == (ids \intersect (DOMAIN folders \union DOMAIN docs \union gone)) \union {None}

\* The moves that are written: to a folder, out of a document into a folder, and
\* under a document.  (An undo may say both a folder and a document: replayed, it
\* does what one of these does.)
Next ==
    \/ \E f \in Folders, at \in Named(Folders) : FolderAdd(f, at) \/ FolderMove(f, at)
    \/ \E f \in Folders, away \in BOOLEAN : FolderArchive(f, away)
    \/ \E f \in Folders : FolderDelete(f)
    \/ \E d \in Docs, at \in Named(Folders), up \in Named(Docs) : DocAdd(d, at, up)
    \/ \E d \in Docs, at \in Named(Folders) : DocMove(d, at, Unsaid) \/ DocMove(d, at, None)
    \/ \E d \in Docs, up \in Named(Docs) \ {None} : DocMove(d, Unsaid, up)
    \/ \E d \in Docs, away \in BOOLEAN : DocArchive(d, away)
    \/ \E d \in Docs, of \in Named(Docs) : DocTongue(d, of)
    \/ \E d \in Docs : DocDelete(d)

Spec == Init /\ [][Next]_vars

-----------------------------------------------------------------------------
(* Properties. *)

\* Every folder and document that stands is well formed and is not a tombstone.
TypeOK ==
    /\ DOMAIN folders \subseteq Folders
    /\ \A f \in DOMAIN folders : folders[f] \in Folder
    /\ DOMAIN docs \subseteq Docs
    /\ \A d \in DOMAIN docs : docs[d] \in Doc
    /\ gone \subseteq (Folders \union Docs) \ (DOMAIN folders \union DOMAIN docs)

\* No folder is inside itself, however many machines moved folders into one
\* another, each by a move that was sound where it was made (would_loop).
NoLoops ==
    \A f \in DOMAIN folders : f \notin Above(folders, folders[f].parent)

\* A page hangs from a document that stands, is no page itself, and is in the
\* folder the page is in: a page that lost its document would be listed nowhere.
PagesStandInTheirDocument ==
    \A p \in DOMAIN docs : docs[p].page_of # None =>
        /\ MayHold(docs, docs[p].page_of)
        /\ docs[p].folder = docs[docs[p].page_of].folder

\* A group of languages is one level deep: what a document is a language of is
\* a language of nothing, so the whole group is found from any of them.
LanguagesOneDeep ==
    \A d \in DOMAIN docs : docs[d].translation_of \in DOMAIN docs =>
        docs[docs[d].translation_of].translation_of = None

\* Both at once, whichever machine hung, moved, named or deleted what first.
GroupsStand == PagesStandInTheirDocument /\ LanguagesOneDeep

\* Deleting a folder or a document brings nothing that stays out of the archive
\* (folder_deleted writes down the mark the folder stood for).
KeptOnDeleting ==
    gone' # gone =>
        \A d \in DOMAIN docs' : HeldAway(folders, docs, d) => HeldAway(folders', docs', d)

\* A page taken out of an archived document, in a folder that is open, stays in
\* the archive wherever it lands.
KeptOnUnhanging ==
    \A d \in DOMAIN docs \intersect DOMAIN docs' :
        (/\ docs[d].page_of # None
         /\ docs'[d].page_of = None
         /\ docs[docs[d].page_of].archived
         /\ ~FolderAway(folders, docs[d].folder))
            => HeldAway(folders', docs', d)

\* Nothing walks out of the archive but by the person's word: neither when what
\* holds it there is deleted nor when it is taken out of that.
NothingLetOut == [][KeptOnDeleting /\ KeptOnUnhanging]_vars
=============================================================================
