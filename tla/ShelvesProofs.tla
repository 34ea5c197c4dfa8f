---------------------------- MODULE ShelvesProofs ----------------------------
(***************************************************************************)
(* What is proved of Shelves for any set of folders and documents and any  *)
(* depth: the types, that pages and languages stand in their groups, that  *)
(* no folder is inside itself, and that nothing is let out of the archive  *)
(* by what is deleted or moved around it.                                  *)
(***************************************************************************)
EXTENDS Shelves, FiniteSetTheorems, TLAPS

-----------------------------------------------------------------------------
(* Types                                                                   *)

LEMMA NamedType ==
    /\ Named(Folders) \subseteq Folders \union {None}
    /\ Named(Docs) \subseteq Docs \union {None}
BY DEF Named

\* What a move makes of the documents: which stand, and which are hung, filed or brought along.
LEMMA MovedDoc ==
    ASSUME TypeOK, NEW d \in DOMAIN docs, NEW at \in Folders \union {None, Unsaid},
           NEW up \in Docs \union {None, Unsaid}
    PROVE  LET hung  == Hung(folders, docs, d, up)
               filed == Filed(hung, d, at)
           IN  /\ DOMAIN hung = DOMAIN docs /\ DOMAIN filed = DOMAIN docs
               /\ \A x \in DOMAIN docs : hung[x] \in Doc /\ filed[x] \in Doc
               /\ \A x \in DOMAIN docs \ {d} : hung[x] = docs[x] /\ filed[x] = docs[x]
               /\ filed[d].page_of = hung[d].page_of /\ filed[d].archived = hung[d].archived
               /\ filed[d].translation_of = docs[d].translation_of
               /\ hung[d].translation_of = docs[d].translation_of
               /\ hung[d].page_of # None => filed[d].folder = hung[d].folder
               /\ at = Unsaid => filed[d].folder = hung[d].folder
<1> DEFINE hung == Hung(folders, docs, d, up)
<1>0. docs[d] \in Doc
  BY DEF TypeOK
<1>1. /\ DOMAIN hung = DOMAIN docs
      /\ hung[d] \in Doc
      /\ \A x \in DOMAIN docs \ {d} : hung[x] = docs[x]
      /\ hung[d].translation_of = docs[d].translation_of
  <2>1. CASE up = Unsaid
    BY <1>0, <2>1, ShelvesAssumption DEF Hung
  <2>2. CASE up = None
    BY <1>0, <2>2, ShelvesAssumption DEF Hung, Doc
  <2>3. CASE up \in Docs
    <3>1. up # Unsaid /\ up # None
      BY <2>3, ShelvesAssumption
    <3>2. MayHold(docs, up) => docs[up] \in Doc
      BY DEF MayHold, TypeOK
    <3> QED BY <1>0, <2>3, <3>1, <3>2 DEF Hung, Doc
  <2> QED BY <2>1, <2>2, <2>3
<1> HIDE DEF hung
<1>2. /\ DOMAIN Filed(hung, d, at) = DOMAIN docs
      /\ Filed(hung, d, at)[d] \in Doc
      /\ \A x \in DOMAIN docs \ {d} : Filed(hung, d, at)[x] = docs[x]
      /\ Filed(hung, d, at)[d].page_of = hung[d].page_of
      /\ Filed(hung, d, at)[d].archived = hung[d].archived
      /\ Filed(hung, d, at)[d].translation_of = docs[d].translation_of
      /\ hung[d].page_of # None => Filed(hung, d, at)[d].folder = hung[d].folder
      /\ at = Unsaid => Filed(hung, d, at)[d].folder = hung[d].folder
  BY <1>1, ShelvesAssumption DEF Filed, Doc
<1>3. \A x \in DOMAIN docs : docs[x] \in Doc
  BY DEF TypeOK
<1> QED BY <1>1, <1>2, <1>3 DEF hung

LEMMA FollowedDoc ==
    ASSUME NEW ds, NEW d \in DOMAIN ds, \A x \in DOMAIN ds : ds[x] \in Doc
    PROVE  LET f == Followed(ds, d)
           IN  /\ DOMAIN f = DOMAIN ds
               /\ \A x \in DOMAIN ds :
                    /\ f[x] \in Doc
                    /\ f[x].page_of = ds[x].page_of /\ f[x].archived = ds[x].archived
                    /\ f[x].translation_of = ds[x].translation_of
                    /\ f[x].folder = IF ds[x].page_of = d /\ ds[d].page_of = None
                                     THEN ds[d].folder ELSE ds[x].folder
BY DEF Followed, Doc

LEMMA FolderStepsKeepTypes ==
    ASSUME TypeOK, NEW f \in Folders, NEW at \in Named(Folders), NEW away \in BOOLEAN,
           FolderAdd(f, at) \/ FolderMove(f, at) \/ FolderArchive(f, away) \/ FolderDelete(f)
    PROVE  TypeOK'
<1>1. CASE FolderAdd(f, at)
  <2>1. [parent |-> IF at = f THEN None ELSE at, archived |-> FALSE] \in Folder
    BY NamedType DEF Folder
  <2> DEFINE new == [parent |-> IF at = f THEN None ELSE at, archived |-> FALSE]
  <2>2. folders' = With(folders, f, new)
    BY <1>1 DEF FolderAdd
  <2> HIDE DEF new
  <2>3. DOMAIN folders' = DOMAIN folders \union {f} /\ \A x \in DOMAIN folders' : folders'[x] \in Folder
    BY <2>1, <2>2 DEF With, TypeOK, new
  <2>4. f \notin gone /\ f \notin DOMAIN docs
    BY <1>1, ShelvesAssumption DEF FolderAdd, TypeOK
  <2> QED BY <1>1, <2>3, <2>4 DEF FolderAdd, TypeOK
<1>2. CASE FolderMove(f, at)
  BY <1>2, NamedType DEF FolderMove, TypeOK, Folder
<1>3. CASE FolderArchive(f, away)
  BY <1>3 DEF FolderArchive, TypeOK, Folder
<1>4. CASE FolderDelete(f)
  <2> DEFINE gate == FolderAway(folders, f)
             left == Without(folders, {f})
  <2>0. gate \in BOOLEAN
    BY DEF FolderAway
  <2>1. ASSUME NEW one \in Folder PROVE Orphan(one, f, gate) \in Folder
    BY DEF Orphan, Folder
  <2>2. ASSUME NEW one \in Doc PROVE Unfiled(one, f, gate) \in Doc
    BY DEF Unfiled, Doc
  <2>3. /\ folders' = [g \in DOMAIN left |-> Orphan(left[g], f, gate)]
        /\ docs' = [d \in DOMAIN docs |-> Unfiled(docs[d], f, gate)]
        /\ gone' = gone \union {f}
    BY <1>4 DEF FolderDelete
  <2> HIDE DEF gate
  <2>4. DOMAIN folders' \subseteq DOMAIN folders \ {f} /\ \A g \in DOMAIN folders' : folders'[g] \in Folder
    <3>1. DOMAIN left = DOMAIN folders \ {f} /\ \A g \in DOMAIN left : left[g] \in Folder
      BY DEF Without, TypeOK
    <3> HIDE DEF left
    <3> QED BY <2>1, <2>3, <3>1
  <2>5. DOMAIN docs' = DOMAIN docs /\ \A d \in DOMAIN docs' : docs'[d] \in Doc
    BY <2>2, <2>3 DEF TypeOK
  <2>6. f \notin DOMAIN docs
    BY ShelvesAssumption DEF TypeOK
  <2> QED BY <2>3, <2>4, <2>5, <2>6 DEF TypeOK
<1> QED BY <1>1, <1>2, <1>3, <1>4

LEMMA DocStepsKeepTypes ==
    ASSUME TypeOK, NEW d \in Docs, NEW at \in Folders \union {None, Unsaid},
           NEW up \in Docs \union {None, Unsaid}, NEW away \in BOOLEAN, NEW of \in Named(Docs),
           \/ DocAdd(d, at, up) /\ at # Unsaid /\ up # Unsaid
           \/ DocMove(d, at, up)
           \/ DocArchive(d, away)
           \/ DocTongue(d, of)
           \/ DocDelete(d)
    PROVE  TypeOK'
<1>1. CASE DocAdd(d, at, up) /\ at # Unsaid /\ up # Unsaid
  <2> DEFINE new == [folder |-> IF MayHold(docs, up) THEN docs[up].folder ELSE at,
                     page_of |-> IF MayHold(docs, up) THEN up ELSE None,
                     archived |-> FALSE, translation_of |-> None]
  <2>1. new \in Doc
    BY <1>1 DEF MayHold, TypeOK, Doc
  <2>2. docs' = With(docs, d, new)
    BY <1>1 DEF DocAdd
  <2> HIDE DEF new
  <2>3. DOMAIN docs' = DOMAIN docs \union {d} /\ \A x \in DOMAIN docs' : docs'[x] \in Doc
    BY <2>1, <2>2 DEF With, TypeOK
  <2>4. d \notin gone /\ d \notin DOMAIN folders
    BY <1>1, ShelvesAssumption DEF DocAdd, TypeOK
  <2> QED BY <1>1, <2>3, <2>4 DEF DocAdd, TypeOK
<1>2. CASE DocMove(d, at, up)
  <2> DEFINE filed == Filed(Hung(folders, docs, d, up), d, at)
  <2>1. DOMAIN filed = DOMAIN docs /\ \A x \in DOMAIN docs : filed[x] \in Doc
    BY <1>2, MovedDoc DEF DocMove
  <2>2. docs' = Followed(filed, d) /\ d \in DOMAIN docs
    BY <1>2 DEF DocMove
  <2> HIDE DEF filed
  <2>3. DOMAIN docs' = DOMAIN docs /\ \A x \in DOMAIN docs : docs'[x] \in Doc
    BY <2>1, <2>2, FollowedDoc
  <2> QED BY <1>2, <2>3 DEF DocMove, TypeOK
<1>3. CASE DocArchive(d, away)
  BY <1>3 DEF DocArchive, TypeOK, Doc
<1>4. CASE DocTongue(d, of)
  <2> DEFINE anchor == AnchorNamed(docs, of)
  <2>1. anchor \in Docs \union {None}
    BY NamedType DEF AnchorNamed, TypeOK, Doc
  <2>2. docs' = [one \in DOMAIN docs |->
               IF one = d \/ (anchor # None /\ docs[one].translation_of = d)
               THEN [docs[one] EXCEPT !.translation_of = anchor]
               ELSE docs[one]]
    BY <1>4 DEF DocTongue
  <2> HIDE DEF anchor
  <2>3. DOMAIN docs' = DOMAIN docs /\ \A x \in DOMAIN docs : docs'[x] \in Doc
    BY <2>1, <2>2 DEF TypeOK, Doc
  <2> QED BY <1>4, <2>3 DEF DocTongue, TypeOK
<1>5. CASE DocDelete(d)
  <2>1. d \notin DOMAIN folders /\ \A x \in TakenAlong(docs, d) : x \in Docs /\ x \notin DOMAIN folders
    BY ShelvesAssumption DEF TakenAlong, TypeOK
  <2>2. docs' = Without(docs, TakenAlong(docs, d)) /\ gone' = gone \union TakenAlong(docs, d)
        /\ folders' = folders
    BY <1>5 DEF DocDelete
  <2>3. /\ DOMAIN docs' = DOMAIN docs \ TakenAlong(docs, d)
        /\ \A x \in DOMAIN docs' : docs'[x] = docs[x]
    BY <2>2 DEF Without
  <2> QED BY <2>1, <2>2, <2>3 DEF TypeOK
<1> QED BY <1>1, <1>2, <1>3, <1>4, <1>5

\* A step of Next about a folder, and one about a document.
FolderStep(f, at, away) ==
    FolderAdd(f, at) \/ FolderMove(f, at) \/ FolderArchive(f, away) \/ FolderDelete(f)

DocStep(d, at, up, away, of) ==
    \/ DocAdd(d, at, up) /\ at # Unsaid /\ up # Unsaid
    \/ DocMove(d, at, up) /\ (up = Unsaid \/ up = None \/ at = Unsaid)
    \/ DocArchive(d, away)
    \/ DocTongue(d, of)
    \/ DocDelete(d)

LEMMA NextSteps ==
    ASSUME Next
    PROVE  \/ \E f \in Folders, at \in Named(Folders), away \in BOOLEAN : FolderStep(f, at, away)
           \/ \E d \in Docs, at \in Folders \union {None, Unsaid}, up \in Docs \union {None, Unsaid},
                 away \in BOOLEAN, of \in Named(Docs) : DocStep(d, at, up, away, of)
<1>1. None \in Named(Folders) /\ None \in Named(Docs) /\ TRUE \in BOOLEAN
  BY DEF Named
<1>2. /\ Named(Folders) \subseteq Folders \union {None} /\ Unsaid \notin Named(Folders)
      /\ Named(Docs) \subseteq Docs \union {None} /\ Unsaid \notin Named(Docs)
  BY NamedType, ShelvesAssumption
<1>3. CASE \E f \in Folders, at \in Named(Folders) : FolderAdd(f, at) \/ FolderMove(f, at)
  BY <1>1, <1>3 DEF FolderStep
<1>4. CASE \E f \in Folders, away \in BOOLEAN : FolderArchive(f, away)
  BY <1>1, <1>4 DEF FolderStep
<1>5. CASE \E f \in Folders : FolderDelete(f)
  BY <1>1, <1>5 DEF FolderStep
<1>6. CASE \E d \in Docs, at \in Named(Folders), up \in Named(Docs) : DocAdd(d, at, up)
  BY <1>1, <1>2, <1>6 DEF DocStep
<1>7. CASE \E d \in Docs, at \in Named(Folders) : DocMove(d, at, Unsaid) \/ DocMove(d, at, None)
  BY <1>1, <1>2, <1>7 DEF DocStep
<1>8. CASE \E d \in Docs, up \in Named(Docs) \ {None} : DocMove(d, Unsaid, up)
  BY <1>1, <1>2, <1>8 DEF DocStep
<1>9. CASE \E d \in Docs, away \in BOOLEAN : DocArchive(d, away)
  BY <1>1, <1>9 DEF DocStep
<1>10. CASE \E d \in Docs, of \in Named(Docs) : DocTongue(d, of)
  BY <1>1, <1>10 DEF DocStep
<1>11. CASE \E d \in Docs : DocDelete(d)
  BY <1>1, <1>11 DEF DocStep
<1> QED BY <1>3, <1>4, <1>5, <1>6, <1>7, <1>8, <1>9, <1>10, <1>11 DEF Next

\* Every folder and document that stands is well formed and is no tombstone, for any identities.
THEOREM TypeCorrect == Spec => []TypeOK
<1>1. Init => TypeOK
  BY DEF Init, TypeOK
<1>2. TypeOK /\ [Next]_vars => TypeOK'
  <2> SUFFICES ASSUME TypeOK, [Next]_vars PROVE TypeOK'
    OBVIOUS
  <2>1. CASE Next
    BY <2>1, NextSteps, FolderStepsKeepTypes, DocStepsKeepTypes DEF FolderStep, DocStep
  <2>2. CASE UNCHANGED vars
    BY <2>2 DEF TypeOK, vars
  <2> QED BY <2>1, <2>2
<1> QED BY <1>1, <1>2, PTL DEF Spec

-----------------------------------------------------------------------------
(* Groups of documents                                                     *)

LEMMA DeletingAFolderKeepsGroups ==
    ASSUME TypeOK, GroupsStand, NEW f \in Folders, FolderDelete(f)
    PROVE  GroupsStand'
<1> DEFINE gate == FolderAway(folders, f)
<1>1. docs' = [d \in DOMAIN docs |-> Unfiled(docs[d], f, gate)]
  BY DEF FolderDelete
<1> HIDE DEF gate
<1>2. ASSUME NEW d \in DOMAIN docs
      PROVE  /\ docs'[d].page_of = docs[d].page_of /\ docs'[d].translation_of = docs[d].translation_of
             /\ docs'[d].folder = IF docs[d].folder = f THEN None ELSE docs[d].folder
  <2>1. docs[d] \in Doc /\ docs'[d] = Unfiled(docs[d], f, gate)
    BY <1>1 DEF TypeOK
  <2> QED BY <2>1 DEF Unfiled, Doc
<1>3. DOMAIN docs' = DOMAIN docs
  BY <1>1
<1>4. PagesStandInTheirDocument'
  BY <1>2, <1>3 DEF GroupsStand, PagesStandInTheirDocument, MayHold
<1>5. LanguagesOneDeep'
  BY <1>2, <1>3 DEF GroupsStand, LanguagesOneDeep
<1> QED BY <1>4, <1>5 DEF GroupsStand

LEMMA AddingKeepsGroups ==
    ASSUME TypeOK, GroupsStand, NEW d \in Docs, NEW at, NEW up, DocAdd(d, at, up)
    PROVE  GroupsStand'
<1> DEFINE new == [folder |-> IF MayHold(docs, up) THEN docs[up].folder ELSE at,
                   page_of |-> IF MayHold(docs, up) THEN up ELSE None,
                   archived |-> FALSE, translation_of |-> None]
<1>1. docs' = With(docs, d, new) /\ d \notin DOMAIN docs
  BY DEF DocAdd
<1>2. DOMAIN docs' = DOMAIN docs \union {d} /\ docs'[d] = new /\ \A x \in DOMAIN docs : docs'[x] = docs[x]
  BY <1>1 DEF With
<1>3. None \notin DOMAIN docs /\ None # d
  BY ShelvesAssumption DEF TypeOK
<1>4. PagesStandInTheirDocument'
  <2>1. ASSUME NEW p \in DOMAIN docs, docs'[p].page_of # None
        PROVE  MayHold(docs', docs'[p].page_of) /\ docs'[p].folder = docs'[docs'[p].page_of].folder
    BY <1>2, <2>1 DEF GroupsStand, PagesStandInTheirDocument, MayHold
  <2>2. ASSUME docs'[d].page_of # None
        PROVE  MayHold(docs', docs'[d].page_of) /\ docs'[d].folder = docs'[docs'[d].page_of].folder
    <3>1. MayHold(docs, up) /\ docs'[d].page_of = up /\ docs'[d].folder = docs[up].folder
      BY <1>2, <2>2
    <3> QED BY <1>2, <3>1 DEF MayHold
  <2> QED BY <1>2, <2>1, <2>2 DEF PagesStandInTheirDocument
<1>5. LanguagesOneDeep'
  BY <1>2, <1>3 DEF GroupsStand, LanguagesOneDeep
<1> QED BY <1>4, <1>5 DEF GroupsStand

\* What a move leaves of the document that moved: a page of one that may hold it, in its folder,
\* or no page; one that holds pages is none.
LEMMA MovedStands ==
    ASSUME TypeOK, GroupsStand, NEW d \in DOMAIN docs, NEW at \in Folders \union {None, Unsaid},
           NEW up \in Docs \union {None, Unsaid}, up = Unsaid \/ up = None \/ at = Unsaid
    PROVE  LET filed == Filed(Hung(folders, docs, d, up), d, at)
           IN  /\ filed[d].page_of # None =>
                     /\ filed[d].page_of # d /\ MayHold(docs, filed[d].page_of)
                     /\ filed[d].folder = docs[filed[d].page_of].folder
                     /\ ~HoldsPages(docs, d)
<1> DEFINE hung == Hung(folders, docs, d, up)
           filed == Filed(hung, d, at)
<1>0. docs[d] \in Doc
  BY DEF TypeOK
<1>1. SUFFICES ASSUME filed[d].page_of # None
               PROVE  /\ filed[d].page_of # d /\ MayHold(docs, filed[d].page_of)
                      /\ filed[d].folder = docs[filed[d].page_of].folder
                      /\ ~HoldsPages(docs, d)
  OBVIOUS
<1>2. /\ filed[d].page_of = hung[d].page_of
      /\ hung[d].page_of # None => filed[d].folder = hung[d].folder
  BY MovedDoc
<1>3. ASSUME hung[d].page_of = docs[d].page_of, hung[d].folder = docs[d].folder
      PROVE  /\ hung[d].page_of # d /\ MayHold(docs, hung[d].page_of)
             /\ hung[d].folder = docs[hung[d].page_of].folder
             /\ ~HoldsPages(docs, d)
  <2> DEFINE top == docs[d].page_of
  <2>1. top # None /\ hung[d].page_of = top /\ hung[d].folder = docs[d].folder
    BY <1>1, <1>2, <1>3
  <2>2. MayHold(docs, top) /\ docs[d].folder = docs[top].folder
    BY <2>1 DEF GroupsStand, PagesStandInTheirDocument
  <2>3. ASSUME NEW p \in DOMAIN docs, docs[p].page_of = d PROVE FALSE
    <3>1. MayHold(docs, d)
      BY <2>3, ShelvesAssumption DEF GroupsStand, PagesStandInTheirDocument, TypeOK
    <3> QED BY <2>1, <3>1 DEF MayHold
  <2> HIDE DEF hung
  <2> QED BY <2>1, <2>2, <2>3 DEF HoldsPages
<1>4. /\ hung[d].page_of # d /\ MayHold(docs, hung[d].page_of)
      /\ hung[d].folder = docs[hung[d].page_of].folder
      /\ ~HoldsPages(docs, d)
  <2>1. CASE up = Unsaid
    BY <1>3, <2>1, ShelvesAssumption DEF Hung
  <2>2. CASE up = None
    <3>1. hung[d].page_of = None
      BY <1>0, <2>2, ShelvesAssumption DEF Hung, Doc
    <3> QED BY <1>1, <1>2, <3>1
  <2>3. CASE up \in Docs /\ up # d /\ ~HoldsPages(docs, d) /\ MayHold(docs, up)
    <3>1. hung[d].page_of = up /\ hung[d].folder = docs[up].folder
      BY <1>0, <2>3, ShelvesAssumption DEF Hung, Doc
    <3> QED BY <2>3, <3>1
  <2>4. CASE up \in Docs /\ ~(up # d /\ ~HoldsPages(docs, d) /\ MayHold(docs, up))
    BY <1>3, <2>4, ShelvesAssumption DEF Hung
  <2> QED BY <2>1, <2>2, <2>3, <2>4
<1> QED BY <1>1, <1>2, <1>4

LEMMA MovingKeepsGroups ==
    ASSUME TypeOK, GroupsStand, NEW d \in Docs, NEW at \in Folders \union {None, Unsaid},
           NEW up \in Docs \union {None, Unsaid}, up = Unsaid \/ up = None \/ at = Unsaid,
           DocMove(d, at, up)
    PROVE  GroupsStand'
<1> DEFINE filed == Filed(Hung(folders, docs, d, up), d, at)
<1>1. d \in DOMAIN docs /\ docs' = Followed(filed, d)
  BY DEF DocMove
<1>2. /\ DOMAIN filed = DOMAIN docs /\ \A x \in DOMAIN docs : filed[x] \in Doc
      /\ \A x \in DOMAIN docs \ {d} : filed[x] = docs[x]
      /\ filed[d].translation_of = docs[d].translation_of
  BY <1>1, MovedDoc
<1>3. filed[d].page_of # None =>
        /\ filed[d].page_of # d /\ MayHold(docs, filed[d].page_of)
        /\ filed[d].folder = docs[filed[d].page_of].folder
        /\ ~HoldsPages(docs, d)
  BY <1>1, MovedStands
<1> HIDE DEF filed
<1>4. /\ DOMAIN docs' = DOMAIN docs
      /\ \A x \in DOMAIN docs :
           /\ docs'[x].page_of = filed[x].page_of
           /\ docs'[x].translation_of = docs[x].translation_of
           /\ docs'[x].folder = IF filed[x].page_of = d /\ filed[d].page_of = None
                               THEN filed[d].folder ELSE filed[x].folder
  BY <1>1, <1>2, FollowedDoc
<1>5. d # None
  BY ShelvesAssumption
<1>6. ASSUME NEW p \in DOMAIN docs, docs'[p].page_of # None
      PROVE  MayHold(docs', docs'[p].page_of) /\ docs'[p].folder = docs'[docs'[p].page_of].folder
  <2>1. CASE p = d
    <3> DEFINE top == filed[d].page_of
    <3>1. top # None /\ docs'[p].page_of = top
      BY <1>1, <1>4, <1>6, <2>1
    <3>2. /\ top # d /\ top \in DOMAIN docs /\ docs[top].page_of = None
          /\ filed[d].folder = docs[top].folder
      BY <1>3, <3>1 DEF MayHold
    <3>3. docs'[p].folder = filed[d].folder
      BY <1>1, <1>4, <2>1, <3>1
    <3>4. filed[top] = docs[top]
      BY <1>2, <3>2
    <3>5. docs'[top].page_of = None /\ docs'[top].folder = docs[top].folder
      BY <1>4, <1>5, <3>2, <3>4
    <3> QED BY <1>4, <3>1, <3>2, <3>3, <3>5 DEF MayHold
  <2>2. CASE p # d
    <3> DEFINE top == docs[p].page_of
    <3>1. filed[p] = docs[p] /\ docs'[p].page_of = top /\ top # None
      BY <1>2, <1>4, <1>6, <2>2
    <3>2. top \in DOMAIN docs /\ docs[top].page_of = None /\ docs[p].folder = docs[top].folder
      BY <3>1 DEF GroupsStand, PagesStandInTheirDocument, MayHold
    <3>3. CASE top = d
      <4>1. HoldsPages(docs, d)
        BY <3>3 DEF HoldsPages
      <4>2. filed[d].page_of = None
        BY <1>3, <4>1
      <4>3. docs'[p].folder = filed[d].folder /\ docs'[d].folder = filed[d].folder
            /\ docs'[d].page_of = None
        BY <1>1, <1>4, <1>5, <3>1, <3>3, <4>2
      <4> QED BY <1>1, <1>4, <3>1, <3>3, <4>3 DEF MayHold
    <3>4. CASE top # d
      <4>1. filed[top] = docs[top]
        BY <1>2, <3>2, <3>4
      <4>2. docs'[top].page_of = None /\ docs'[top].folder = docs[top].folder
            /\ docs'[p].folder = docs[p].folder
        BY <1>4, <1>5, <3>1, <3>2, <3>4, <4>1
      <4> QED BY <1>4, <3>1, <3>2, <4>2 DEF MayHold
    <3> QED BY <3>3, <3>4
  <2> QED BY <2>1, <2>2
<1>7. PagesStandInTheirDocument'
  BY <1>4, <1>6 DEF PagesStandInTheirDocument
<1>8. LanguagesOneDeep'
  BY <1>4 DEF GroupsStand, LanguagesOneDeep
<1> QED BY <1>7, <1>8 DEF GroupsStand

LEMMA NamingKeepsGroups ==
    ASSUME TypeOK, GroupsStand, NEW d \in Docs, NEW of \in Named(Docs), DocTongue(d, of)
    PROVE  GroupsStand'
<1> DEFINE anchor == AnchorNamed(docs, of)
<1>1. /\ docs' = [one \in DOMAIN docs |->
               IF one = d \/ (anchor # None /\ docs[one].translation_of = d)
               THEN [docs[one] EXCEPT !.translation_of = anchor]
               ELSE docs[one]]
      /\ d \in DOMAIN docs /\ anchor # d
  BY DEF DocTongue, MayHold
<1>2. anchor \in DOMAIN docs => docs[anchor].translation_of = None
  BY DEF AnchorNamed, GroupsStand, LanguagesOneDeep
<1>3. None \notin DOMAIN docs
  BY ShelvesAssumption DEF TypeOK
<1> HIDE DEF anchor
<1>4. DOMAIN docs' = DOMAIN docs
  BY <1>1
<1>5. ASSUME NEW x \in DOMAIN docs
      PROVE  /\ docs'[x].page_of = docs[x].page_of /\ docs'[x].folder = docs[x].folder
             /\ docs'[x].translation_of = IF x = d \/ (anchor # None /\ docs[x].translation_of = d)
                                         THEN anchor ELSE docs[x].translation_of
  <2>1. docs[x] \in Doc
    BY DEF TypeOK
  <2> QED BY <1>1, <2>1 DEF Doc
<1>6. PagesStandInTheirDocument'
  BY <1>4, <1>5 DEF GroupsStand, PagesStandInTheirDocument, MayHold
<1>7. LanguagesOneDeep'
  <2> SUFFICES ASSUME NEW x \in DOMAIN docs, docs'[x].translation_of \in DOMAIN docs
               PROVE  docs'[docs'[x].translation_of].translation_of = None
    BY <1>4 DEF LanguagesOneDeep
  <2>1. CASE docs'[x].translation_of = anchor
    BY <1>1, <1>2, <1>3, <1>5, <2>1
  <2>2. CASE docs'[x].translation_of # anchor
    <3>1. docs'[x].translation_of = docs[x].translation_of
      BY <1>5, <2>2
    <3>2. docs[docs[x].translation_of].translation_of = None
      BY <3>1 DEF GroupsStand, LanguagesOneDeep
    <3>3. CASE docs[x].translation_of = d
      BY <1>1, <1>5, <2>2, <3>1, <3>3
    <3>4. CASE docs[x].translation_of # d
      BY <1>1, <1>3, <1>5, <3>1, <3>2, <3>4
    <3> QED BY <3>3, <3>4
  <2> QED BY <2>1, <2>2
<1> QED BY <1>6, <1>7 DEF GroupsStand

LEMMA DeletingADocKeepsGroups ==
    ASSUME TypeOK, GroupsStand, NEW d \in Docs, DocDelete(d)
    PROVE  GroupsStand'
<1>1. docs' = Without(docs, TakenAlong(docs, d))
  BY DEF DocDelete
<1>2. /\ DOMAIN docs' = DOMAIN docs \ TakenAlong(docs, d)
      /\ \A x \in DOMAIN docs' : docs'[x] = docs[x]
  BY <1>1 DEF Without
<1>3. ASSUME NEW p \in DOMAIN docs', docs'[p].page_of # None
      PROVE  MayHold(docs', docs'[p].page_of) /\ docs'[p].folder = docs'[docs'[p].page_of].folder
  <2>1. /\ docs[p].page_of \in DOMAIN docs /\ docs[docs[p].page_of].page_of = None
        /\ docs[p].folder = docs[docs[p].page_of].folder
    BY <1>2, <1>3 DEF GroupsStand, PagesStandInTheirDocument, MayHold
  <2>2. docs[p].page_of \notin TakenAlong(docs, d)
    BY <1>2, <2>1, ShelvesAssumption DEF TakenAlong
  <2> QED BY <1>2, <2>1, <2>2 DEF MayHold
<1>4. LanguagesOneDeep'
  BY <1>2 DEF GroupsStand, LanguagesOneDeep
<1> QED BY <1>3, <1>4 DEF GroupsStand, PagesStandInTheirDocument

LEMMA StepsKeepGroups ==
    ASSUME TypeOK, GroupsStand, [Next]_vars
    PROVE  GroupsStand'
<1>1. ASSUME NEW f \in Folders, NEW at \in Named(Folders), NEW away \in BOOLEAN, FolderStep(f, at, away)
      PROVE  GroupsStand'
  <2>1. CASE FolderDelete(f)
    BY <2>1, DeletingAFolderKeepsGroups
  <2>2. CASE ~FolderDelete(f)
    <3>1. docs' = docs
      BY <1>1, <2>2 DEF FolderStep, FolderAdd, FolderMove, FolderArchive
    <3> QED BY <3>1 DEF GroupsStand, PagesStandInTheirDocument, LanguagesOneDeep, MayHold
  <2> QED BY <2>1, <2>2
<1>2. ASSUME NEW d \in Docs, NEW at \in Folders \union {None, Unsaid}, NEW up \in Docs \union {None, Unsaid},
             NEW away \in BOOLEAN, NEW of \in Named(Docs), DocStep(d, at, up, away, of)
      PROVE  GroupsStand'
  <2>1. CASE DocArchive(d, away)
    <3>1. DOMAIN docs' = DOMAIN docs /\ d \in DOMAIN docs
      BY <2>1 DEF DocArchive
    <3>2. ASSUME NEW x \in DOMAIN docs
          PROVE  /\ docs'[x].page_of = docs[x].page_of /\ docs'[x].folder = docs[x].folder
                 /\ docs'[x].translation_of = docs[x].translation_of
      <4>1. docs[x] \in Doc
        BY DEF TypeOK
      <4> QED BY <2>1, <4>1 DEF DocArchive, Doc
    <3>3. PagesStandInTheirDocument'
      BY <3>1, <3>2 DEF GroupsStand, PagesStandInTheirDocument, MayHold
    <3>4. LanguagesOneDeep'
      BY <3>1, <3>2 DEF GroupsStand, LanguagesOneDeep
    <3> QED BY <3>3, <3>4 DEF GroupsStand
  <2> QED BY <1>2, <2>1, AddingKeepsGroups, MovingKeepsGroups, NamingKeepsGroups, DeletingADocKeepsGroups
          DEF DocStep
<1>3. CASE UNCHANGED vars
  BY <1>3 DEF vars, GroupsStand, PagesStandInTheirDocument, LanguagesOneDeep, MayHold
<1> QED BY <1>1, <1>2, <1>3, NextSteps

\* Whichever machine hung, moved, named or deleted what first, and however the replay orders it:
\* a page hangs from a document that stands, is no page and is in the page's folder, and what a
\* document is a language of is a language of nothing (doc_moved, doc_tongued, doc_deleted).
THEOREM GroupsAlwaysStand == Spec => []GroupsStand
<1>1. Init => GroupsStand
  BY DEF Init, GroupsStand, PagesStandInTheirDocument, LanguagesOneDeep
<1>2. TypeOK /\ GroupsStand /\ [Next]_vars => GroupsStand'
  BY StepsKeepGroups
<1> QED BY <1>1, <1>2, TypeCorrect, PTL DEF Spec

-----------------------------------------------------------------------------
(* Walking up                                                              *)

ClosedUpwards(fs, s) == \A f \in s : fs[f].parent \in s \/ fs[f].parent \notin DOMAIN fs

\* The folder and those above it that stand.
Line(fs, at) ==
    {g \in DOMAIN fs : \A s \in SUBSET DOMAIN fs : (at \in s /\ ClosedUpwards(fs, s)) => g \in s}

LEMMA AboveIs ==
    ASSUME NEW fs, NEW at
    PROVE  /\ at \notin DOMAIN fs => Above(fs, at) = {at} \intersect Folders
           /\ at \in DOMAIN fs =>
                Above(fs, at) = Line(fs, at) \union ({fs[g].parent : g \in Line(fs, at)} \intersect Folders)
BY DEF Above, Line, ClosedUpwards

LEMMA LineFacts ==
    ASSUME NEW fs, NEW at \in DOMAIN fs
    PROVE  /\ at \in Line(fs, at)
           /\ Line(fs, at) \in SUBSET DOMAIN fs
           /\ ClosedUpwards(fs, Line(fs, at))
           /\ \A s \in SUBSET DOMAIN fs : at \in s /\ ClosedUpwards(fs, s) => Line(fs, at) \subseteq s
<1>1. ASSUME NEW g \in Line(fs, at), fs[g].parent \in DOMAIN fs
      PROVE  fs[g].parent \in Line(fs, at)
  BY <1>1 DEF Line, ClosedUpwards
<1> QED BY <1>1 DEF Line, ClosedUpwards

\* Whoever is above one that is above is above.
LEMMA LineOfAbove ==
    ASSUME NEW fs, NEW at \in DOMAIN fs, NEW g \in Line(fs, at)
    PROVE  g \in DOMAIN fs /\ Line(fs, g) \subseteq Line(fs, at)
<1>1. g \in DOMAIN fs
  BY LineFacts
<1>2. Line(fs, at) \in SUBSET DOMAIN fs /\ ClosedUpwards(fs, Line(fs, at))
  BY LineFacts
<1> QED BY <1>1, <1>2, LineFacts

LEMMA LineByParent ==
    ASSUME NEW fs, NEW at \in DOMAIN fs
    PROVE  /\ fs[at].parent \in DOMAIN fs => Line(fs, at) = {at} \union Line(fs, fs[at].parent)
           /\ fs[at].parent \notin DOMAIN fs => Line(fs, at) = {at}
<1>1. ASSUME fs[at].parent \in DOMAIN fs
      PROVE  Line(fs, at) = {at} \union Line(fs, fs[at].parent)
  <2> DEFINE up == fs[at].parent
  <2>1. /\ Line(fs, up) \in SUBSET DOMAIN fs /\ up \in Line(fs, up)
        /\ ClosedUpwards(fs, Line(fs, up))
    BY <1>1, LineFacts
  <2>2. ClosedUpwards(fs, {at} \union Line(fs, up))
    BY <2>1 DEF ClosedUpwards
  <2>3. Line(fs, at) \subseteq {at} \union Line(fs, up)
    <3>1. {at} \union Line(fs, up) \in SUBSET DOMAIN fs
      BY <2>1
    <3> QED BY <2>2, <3>1, LineFacts
  <2>4. up \in Line(fs, at) /\ at \in Line(fs, at)
    BY <1>1, LineFacts DEF ClosedUpwards
  <2>5. Line(fs, up) \subseteq Line(fs, at)
    BY <2>4, LineOfAbove
  <2> QED BY <2>3, <2>4, <2>5
<1>2. ASSUME fs[at].parent \notin DOMAIN fs
      PROVE  Line(fs, at) = {at}
  <2>1. ClosedUpwards(fs, {at}) /\ {at} \in SUBSET DOMAIN fs
    BY <1>2 DEF ClosedUpwards
  <2> QED BY <2>1, LineFacts
<1> QED BY <1>1, <1>2

\* Two folders above the same one: one is above the other.
LEMMA OneLine ==
    ASSUME NEW fs, NEW at \in DOMAIN fs, NEW x \in Line(fs, at), NEW y \in Line(fs, at)
    PROVE  x \in Line(fs, y) \/ y \in Line(fs, x)
<1> DEFINE T == {z \in Line(fs, at) : x \in Line(fs, z) \/ z \in Line(fs, x)}
<1>1. x \in DOMAIN fs /\ Line(fs, at) \in SUBSET DOMAIN fs /\ ClosedUpwards(fs, Line(fs, at))
  BY LineFacts, LineOfAbove
<1>2. ASSUME NEW z \in T, fs[z].parent \in DOMAIN fs PROVE fs[z].parent \in T
  <2>1. z \in DOMAIN fs /\ fs[z].parent \in Line(fs, at)
    BY <1>1, <1>2 DEF ClosedUpwards
  <2>2. CASE z \in Line(fs, x)
    <3>1. fs[z].parent \in Line(fs, x)
      BY <1>1, <1>2, <2>2, LineFacts DEF ClosedUpwards
    <3> QED BY <2>1, <3>1
  <2>3. CASE x \in Line(fs, z)
    <3>1. Line(fs, z) = {z} \union Line(fs, fs[z].parent)
      BY <1>2, <2>1, LineByParent
    <3>2. CASE x = z
      <4>1. fs[z].parent \in Line(fs, z)
        BY <1>2, <2>1, LineFacts DEF ClosedUpwards
      <4> QED BY <2>1, <3>2, <4>1
    <3>3. CASE x # z
      BY <2>1, <2>3, <3>1, <3>3
    <3> QED BY <3>2, <3>3
  <2> QED BY <2>2, <2>3
<1>3. ClosedUpwards(fs, T) /\ T \in SUBSET DOMAIN fs
  BY <1>1, <1>2 DEF ClosedUpwards
<1>4. at \in T
  BY LineFacts
<1>5. Line(fs, at) \subseteq T
  <2> HIDE DEF T
  <2> QED BY <1>3, <1>4, LineFacts
<1> QED BY <1>5

-----------------------------------------------------------------------------
(* No folder inside itself                                                 *)

NotInItself(fs) == \A f \in DOMAIN fs : fs[f].parent \in DOMAIN fs => f \notin Line(fs, fs[f].parent)

LEMMA NoLoopsIs ==
    ASSUME TypeOK
    PROVE  NoLoops <=> NotInItself(folders)
<1>1. ASSUME NEW f \in DOMAIN folders
      PROVE  f \notin Above(folders, folders[f].parent) <=>
               (folders[f].parent \in DOMAIN folders => f \notin Line(folders, folders[f].parent))
  <2> DEFINE up == folders[f].parent
  <2>1. CASE up \notin DOMAIN folders
    BY <2>1, AboveIs
  <2>2. CASE up \in DOMAIN folders
    <3>1. f \in Folders
      BY DEF TypeOK
    <3>2. ASSUME NEW g \in Line(folders, up), folders[g].parent = f PROVE f \in Line(folders, up)
      BY <2>2, <3>2, LineFacts DEF ClosedUpwards
    <3>3. Above(folders, up) =
            Line(folders, up) \union ({folders[g].parent : g \in Line(folders, up)} \intersect Folders)
      BY <2>2, AboveIs
    <3>4. f \in Above(folders, up) <=> f \in Line(folders, up)
      BY <3>1, <3>2, <3>3
    <3> QED BY <2>2, <3>4
  <2> QED BY <2>1, <2>2
<1> QED BY <1>1 DEF NoLoops, NotInItself

\* A folder is only named after it was made: what it is in stands, or has been deleted.
ParentsAreKnown == \A f \in DOMAIN folders : folders[f].parent \in DOMAIN folders \union gone \union {None}

FoldersInv == TypeOK /\ ParentsAreKnown /\ NotInItself(folders)

\* Enough to see that a folder is not above another: a set closed upwards that holds the one
\* and not the other.
LEMMA OutsideALine ==
    ASSUME NEW fs, NEW at \in DOMAIN fs, NEW f, NEW s \in SUBSET DOMAIN fs,
           ClosedUpwards(fs, s), at \in s, f \notin s
    PROVE  f \notin Line(fs, at)
BY LineFacts

LEMMA AddingKeepsFoldersApart ==
    ASSUME FoldersInv, NEW f \in Folders, NEW at \in Named(Folders), FolderAdd(f, at)
    PROVE  NotInItself(folders') /\ ParentsAreKnown'
<1> DEFINE new == [parent |-> IF at = f THEN None ELSE at, archived |-> FALSE]
<1>1. folders' = With(folders, f, new) /\ gone' = gone /\ f \notin DOMAIN folders /\ f \notin gone
  BY DEF FolderAdd
<1>2. /\ DOMAIN folders' = DOMAIN folders \union {f}
      /\ \A x \in DOMAIN folders : folders'[x] = folders[x]
      /\ folders'[f].parent = IF at = f THEN None ELSE at
  BY <1>1 DEF With
<1>3. ASSUME NEW x \in DOMAIN folders PROVE folders[x].parent # f
  BY <1>1, ShelvesAssumption DEF FoldersInv, ParentsAreKnown
<1>4. at \in DOMAIN folders \union gone \union {None}
  BY ShelvesAssumption DEF Named, FoldersInv, TypeOK
<1>5. ParentsAreKnown'
  BY <1>1, <1>2, <1>4 DEF FoldersInv, ParentsAreKnown
<1>6. ASSUME NEW x \in DOMAIN folders', folders'[x].parent \in DOMAIN folders'
      PROVE  x \notin Line(folders', folders'[x].parent)
  <2>1. CASE x = f
    <3> DEFINE s == DOMAIN folders
    <3>1. at # f /\ folders'[x].parent = at /\ at \in s
      BY <1>2, <1>6, <2>1, ShelvesAssumption DEF FoldersInv, TypeOK
    <3>2. ClosedUpwards(folders', s)
      BY <1>2, <1>3 DEF ClosedUpwards
    <3> QED BY <1>1, <1>2, <1>6, <2>1, <3>1, <3>2, OutsideALine
  <2>2. CASE x # f
    <3> DEFINE up == folders[x].parent
               s == Line(folders, up)
    <3>1. x \in DOMAIN folders /\ folders'[x].parent = up /\ up \in DOMAIN folders
      BY <1>2, <1>3, <1>6, <2>2
    <3>2. x \notin s /\ up \in s /\ s \in SUBSET DOMAIN folders /\ ClosedUpwards(folders, s)
      BY <3>1, LineFacts DEF FoldersInv, NotInItself
    <3> HIDE DEF s
    <3>3. ClosedUpwards(folders', s)
      BY <1>2, <1>3, <3>2 DEF ClosedUpwards
    <3>4. s \in SUBSET DOMAIN folders'
      BY <1>2, <3>2
    <3> QED BY <1>6, <3>1, <3>2, <3>3, <3>4, OutsideALine
  <2> QED BY <2>1, <2>2
<1> QED BY <1>5, <1>6 DEF NotInItself

LEMMA MovingKeepsFoldersApart ==
    ASSUME FoldersInv, NEW f \in Folders, NEW at \in Named(Folders), FolderMove(f, at)
    PROVE  NotInItself(folders') /\ ParentsAreKnown'
<1>1. /\ f \in DOMAIN folders /\ gone' = gone
      /\ folders' = [folders EXCEPT ![f].parent = at]
      /\ at = None \/ (at \in DOMAIN folders /\ f \notin Above(folders, at))
  BY DEF FolderMove, HasRoomUnder, WouldLoop
<1>2. /\ DOMAIN folders' = DOMAIN folders
      /\ \A x \in DOMAIN folders : folders'[x].parent = IF x = f THEN at ELSE folders[x].parent
  <2>1. folders[f] \in Folder
    BY <1>1 DEF FoldersInv, TypeOK
  <2> QED BY <1>1, <2>1 DEF Folder
<1>3. None \notin DOMAIN folders
  BY ShelvesAssumption DEF FoldersInv, TypeOK
<1>4. at \in DOMAIN folders => f \notin Line(folders, at)
  BY <1>1, <1>3, AboveIs
<1>5. ParentsAreKnown'
  BY <1>1, <1>2 DEF FoldersInv, ParentsAreKnown
<1>6. ASSUME NEW x \in DOMAIN folders, folders'[x].parent \in DOMAIN folders
      PROVE  x \notin Line(folders', folders'[x].parent)
  <2>1. CASE x = f
    <3> DEFINE s == Line(folders, at)
    <3>1. at \in DOMAIN folders /\ folders'[x].parent = at
      BY <1>2, <1>6, <2>1
    <3>2. at \in s /\ f \notin s /\ s \in SUBSET DOMAIN folders /\ ClosedUpwards(folders, s)
      BY <1>4, <3>1, LineFacts
    <3> HIDE DEF s
    <3>3. ClosedUpwards(folders', s)
      BY <1>2, <3>2 DEF ClosedUpwards
    <3> QED BY <1>2, <2>1, <3>1, <3>2, <3>3, OutsideALine
  <2>2. CASE x # f
    <3> DEFINE up == folders[x].parent
               above == Line(folders, up)
    <3>1. folders'[x].parent = up /\ up \in DOMAIN folders
      BY <1>2, <1>6, <2>2
    <3>2. /\ x \notin above /\ up \in above
          /\ above \in SUBSET DOMAIN folders /\ ClosedUpwards(folders, above)
      BY <3>1, LineFacts DEF FoldersInv, NotInItself
    <3>3. CASE f \notin above \/ at = None
      <4> HIDE DEF above
      <4>1. ClosedUpwards(folders', above)
        BY <1>2, <1>3, <3>2, <3>3 DEF ClosedUpwards
      <4> QED BY <1>2, <3>1, <3>2, <4>1, OutsideALine
    <3>4. CASE f \in above /\ at \in DOMAIN folders
      <4> DEFINE way == Line(folders, at)
      <4>1. at \in way /\ way \in SUBSET DOMAIN folders /\ ClosedUpwards(folders, way) /\ f \notin way
        BY <1>4, <3>4, LineFacts
      <4>2. x \notin way
        <5> SUFFICES ASSUME x \in way PROVE FALSE
          OBVIOUS
        <5>1. up \in way
          BY <3>1, <4>1 DEF ClosedUpwards
        <5>2. above \subseteq way
          BY <3>4, <5>1, LineOfAbove
        <5> QED BY <3>4, <4>1, <5>2
      <4> HIDE DEF above, way
      <4>3. ClosedUpwards(folders', above \union way)
        BY <1>2, <3>2, <4>1 DEF ClosedUpwards
      <4>4. above \union way \in SUBSET DOMAIN folders'
        BY <1>2, <3>2, <4>1
      <4> QED BY <1>2, <3>1, <3>2, <4>2, <4>3, <4>4, OutsideALine
    <3> QED BY <1>1, <3>3, <3>4
  <2> QED BY <2>1, <2>2
<1> QED BY <1>2, <1>5, <1>6 DEF NotInItself

LEMMA OrphanedFolder ==
    ASSUME TypeOK, NEW f \in Folders, FolderDelete(f)
    PROVE  /\ DOMAIN folders' = DOMAIN folders \ {f}
           /\ \A x \in DOMAIN folders' :
                /\ folders'[x].parent = IF folders[x].parent = f THEN None ELSE folders[x].parent
                /\ folders'[x].archived =
                     (folders[x].archived \/ (folders[x].parent = f /\ FolderAway(folders, f)))
<1> DEFINE gate == FolderAway(folders, f)
           left == Without(folders, {f})
<1>1. folders' = [g \in DOMAIN left |-> Orphan(left[g], f, gate)]
  BY DEF FolderDelete
<1>2. DOMAIN left = DOMAIN folders \ {f} /\ \A g \in DOMAIN left : left[g] = folders[g]
  BY DEF Without
<1> HIDE DEF left, gate
<1>3. ASSUME NEW x \in DOMAIN left
      PROVE  /\ folders'[x].parent = IF folders[x].parent = f THEN None ELSE folders[x].parent
             /\ folders'[x].archived = (folders[x].archived \/ (folders[x].parent = f /\ gate))
  <2>1. folders[x] \in Folder /\ folders'[x] = Orphan(folders[x], f, gate)
    BY <1>1, <1>2 DEF TypeOK
  <2>2. CASE folders[x].parent = f
    BY <2>1, <2>2 DEF Orphan, Folder
  <2>3. CASE folders[x].parent # f
    BY <2>1, <2>3 DEF Orphan, Folder
  <2> QED BY <2>2, <2>3
<1> QED BY <1>1, <1>2, <1>3 DEF gate

LEMMA DeletingKeepsFoldersApart ==
    ASSUME FoldersInv, NEW f \in Folders, FolderDelete(f)
    PROVE  NotInItself(folders') /\ ParentsAreKnown'
<1>1. /\ DOMAIN folders' = DOMAIN folders \ {f} /\ gone' = gone \union {f}
      /\ \A x \in DOMAIN folders' :
           folders'[x].parent = IF folders[x].parent = f THEN None ELSE folders[x].parent
  BY OrphanedFolder DEF FoldersInv, FolderDelete
<1>2. None \notin DOMAIN folders
  BY ShelvesAssumption DEF FoldersInv, TypeOK
<1>3. ParentsAreKnown'
  BY <1>1 DEF FoldersInv, ParentsAreKnown
<1>4. ASSUME NEW x \in DOMAIN folders', folders'[x].parent \in DOMAIN folders'
      PROVE  x \notin Line(folders', folders'[x].parent)
  <2> DEFINE up == folders[x].parent
             above == Line(folders, up)
             s == above \ {f}
  <2>1. folders'[x].parent = up /\ up \in DOMAIN folders /\ up # f
    BY <1>1, <1>2, <1>4
  <2>2. /\ x \notin above /\ up \in above
        /\ above \in SUBSET DOMAIN folders /\ ClosedUpwards(folders, above)
    BY <1>1, <2>1, LineFacts DEF FoldersInv, NotInItself
  <2> HIDE DEF above
  <2>3. ClosedUpwards(folders', s)
    BY <1>1, <1>2, <2>2 DEF ClosedUpwards
  <2>4. s \in SUBSET DOMAIN folders' /\ up \in s /\ x \notin s
    BY <1>1, <2>1, <2>2
  <2> HIDE DEF s
  <2> QED BY <1>4, <2>1, <2>3, <2>4, OutsideALine
<1> QED BY <1>3, <1>4 DEF NotInItself

LEMMA StepsKeepFoldersApart ==
    ASSUME FoldersInv, [Next]_vars
    PROVE  FoldersInv'
<1>1. TypeOK'
  <2>1. CASE Next
    BY <2>1, NextSteps, FolderStepsKeepTypes, DocStepsKeepTypes DEF FolderStep, DocStep, FoldersInv
  <2>2. CASE UNCHANGED vars
    BY <2>2 DEF FoldersInv, TypeOK, vars
  <2> QED BY <2>1, <2>2
<1>2. ASSUME NEW f \in Folders, NEW at \in Named(Folders), NEW away \in BOOLEAN, FolderStep(f, at, away)
      PROVE  NotInItself(folders') /\ ParentsAreKnown'
  <2>1. CASE FolderArchive(f, away)
    <3>1. /\ DOMAIN folders' = DOMAIN folders /\ gone' = gone
          /\ \A x \in DOMAIN folders : folders'[x].parent = folders[x].parent
      <4>1. /\ folders' = [folders EXCEPT ![f].archived = away] /\ gone' = gone
            /\ \A x \in DOMAIN folders : folders[x] \in Folder
        BY <2>1 DEF FolderArchive, FoldersInv, TypeOK
      <4> QED BY <4>1 DEF Folder
    <3>2. ASSUME NEW s \in SUBSET DOMAIN folders
          PROVE  ClosedUpwards(folders', s) <=> ClosedUpwards(folders, s)
      BY <3>1 DEF ClosedUpwards
    <3>3. ASSUME NEW at2 PROVE Line(folders', at2) = Line(folders, at2)
      BY <3>1, <3>2 DEF Line
    <3>4. NotInItself(folders')
      BY <3>1, <3>3 DEF FoldersInv, NotInItself
    <3>5. ParentsAreKnown'
      BY <3>1 DEF FoldersInv, ParentsAreKnown
    <3> QED BY <3>4, <3>5
  <2> QED BY <1>2, <2>1, AddingKeepsFoldersApart, MovingKeepsFoldersApart, DeletingKeepsFoldersApart
          DEF FolderStep
<1>3. ASSUME NEW d \in Docs, NEW at \in Folders \union {None, Unsaid}, NEW up \in Docs \union {None, Unsaid},
             NEW away \in BOOLEAN, NEW of \in Named(Docs), DocStep(d, at, up, away, of)
      PROVE  folders' = folders /\ gone \subseteq gone'
  BY <1>3 DEF DocStep, DocAdd, DocMove, DocArchive, DocTongue, DocDelete
<1>4. NotInItself(folders') /\ ParentsAreKnown'
  <2>1. CASE folders' = folders /\ gone \subseteq gone'
    BY <2>1 DEF FoldersInv, ParentsAreKnown
  <2>2. CASE ~(folders' = folders /\ gone \subseteq gone')
    BY <1>2, <1>3, <2>2, NextSteps DEF vars
  <2> QED BY <2>1, <2>2
<1> QED BY <1>1, <1>4 DEF FoldersInv

LEMMA FoldersAlwaysApart == Spec => []FoldersInv
<1>1. Init => FoldersInv
  BY DEF Init, FoldersInv, TypeOK, ParentsAreKnown, NotInItself
<1> QED BY <1>1, StepsKeepFoldersApart, PTL DEF Spec

\* No folder is ever inside itself, for any number of folders and any order of the moves: two that
\* would close a circle together, each sound where it was made, do not both take effect, because
\* would_loop judges the second against what the first one left.
THEOREM NeverInsideItself == Spec => []NoLoops
<1>1. FoldersInv => NoLoops
  BY NoLoopsIs DEF FoldersInv
<1> QED BY <1>1, FoldersAlwaysApart, PTL

-----------------------------------------------------------------------------
(* Nothing is let out of the archive                                       *)

LEMMA DepthType ==
    ASSUME TypeOK, NEW at
    PROVE  /\ IsFiniteSet(Above(folders, at)) /\ Depth(folders, at) \in Nat
           /\ Above(folders, at) \subseteq Folders
           /\ \A s \in SUBSET Above(folders, at) :
                IsFiniteSet(s) /\ Cardinality(s) \in Nat /\ Cardinality(s) <= Depth(folders, at)
<1>1. Above(folders, at) \in SUBSET Folders
  <2>1. CASE at \notin DOMAIN folders
    BY <2>1, AboveIs
  <2>2. CASE at \in DOMAIN folders
    BY <2>2, AboveIs, LineFacts DEF TypeOK
  <2> QED BY <2>1, <2>2
<1>2. IsFiniteSet(Above(folders, at))
  BY <1>1, FS_Subset, ShelvesAssumption
<1>3. ASSUME NEW s \in SUBSET Above(folders, at)
      PROVE  IsFiniteSet(s) /\ Cardinality(s) \in Nat /\ Cardinality(s) <= Depth(folders, at)
  BY <1>2, FS_Subset, FS_CardinalityType DEF Depth
<1> QED BY <1>1, <1>2, <1>3, FS_CardinalityType DEF Depth

\* Of the folders above one, those that stand are its line.
LEMMA StandingAbove ==
    ASSUME NEW fs, NEW at \in DOMAIN fs
    PROVE  /\ Above(fs, at) \intersect DOMAIN fs \subseteq Line(fs, at)
           /\ DOMAIN fs \subseteq Folders => Line(fs, at) \subseteq Above(fs, at)
<1>1. ASSUME NEW g \in Above(fs, at), g \in DOMAIN fs PROVE g \in Line(fs, at)
  <2>1. CASE g \in Line(fs, at)
    BY <2>1
  <2>2. CASE \E x \in Line(fs, at) : g = fs[x].parent
    BY <1>1, <2>2, LineFacts DEF ClosedUpwards
  <2> QED BY <2>1, <2>2, AboveIs
<1> QED BY <1>1, AboveIs

\* A folder that does not stand above another leaves the way up from there as it was.
LEMMA DeletedElsewhere ==
    ASSUME FoldersInv, NEW f \in Folders, FolderDelete(f),
           NEW at \in DOMAIN folders \ {f}, f \notin Line(folders, at)
    PROVE  Line(folders', at) = Line(folders, at) /\ Above(folders', at) = Above(folders, at)
<1> DEFINE l == Line(folders, at)
<1>1. /\ DOMAIN folders' = DOMAIN folders \ {f}
      /\ \A x \in DOMAIN folders' :
           folders'[x].parent = IF folders[x].parent = f THEN None ELSE folders[x].parent
  BY OrphanedFolder DEF FoldersInv
<1>2. /\ at \in l /\ l \in SUBSET DOMAIN folders /\ ClosedUpwards(folders, l)
      /\ \A s \in SUBSET DOMAIN folders : at \in s /\ ClosedUpwards(folders, s) => l \subseteq s
  BY LineFacts
<1>3. ASSUME NEW x \in l PROVE folders[x].parent # f
  <2>1. f \in DOMAIN folders => folders[x].parent # f
    BY <1>2 DEF ClosedUpwards
  <2>2. f \notin DOMAIN folders => folders[x].parent # f
    <3>1. x \in DOMAIN folders /\ f \notin gone
      BY <1>2 DEF FolderDelete
    <3> QED BY <3>1, ShelvesAssumption DEF FoldersInv, ParentsAreKnown
  <2> QED BY <2>1, <2>2
<1>4. \A x \in l : x \in DOMAIN folders' /\ folders'[x].parent = folders[x].parent
  BY <1>1, <1>2, <1>3
<1>5. at \in DOMAIN folders'
  BY <1>1
<1> HIDE DEF l
<1>6. Line(folders', at) \subseteq l
  <2>1. ClosedUpwards(folders', l)
    BY <1>1, <1>2, <1>4 DEF ClosedUpwards
  <2>2. l \in SUBSET DOMAIN folders'
    BY <1>4
  <2> QED BY <1>2, <1>5, <2>1, <2>2, LineFacts
<1>7. l \subseteq Line(folders', at)
  <2> DEFINE m == Line(folders', at)
  <2>1. at \in m /\ m \in SUBSET DOMAIN folders' /\ ClosedUpwards(folders', m)
    BY <1>5, LineFacts
  <2> HIDE DEF m
  <2>2. ASSUME NEW x \in l \intersect m, folders[x].parent \in DOMAIN folders
        PROVE  folders[x].parent \in l \intersect m
    <3>1. folders[x].parent \in l
      BY <1>2, <2>2 DEF ClosedUpwards
    <3>2. folders[x].parent \in DOMAIN folders' /\ folders'[x].parent = folders[x].parent
      BY <1>4, <3>1
    <3> QED BY <2>1, <3>1, <3>2 DEF ClosedUpwards
  <2>3. ClosedUpwards(folders, l \intersect m)
    BY <2>2 DEF ClosedUpwards
  <2>4. l \intersect m \in SUBSET DOMAIN folders /\ at \in l \intersect m
    BY <1>2, <2>1
  <2>5. l \subseteq l \intersect m
    BY <1>2, <2>3, <2>4
  <2> QED BY <2>5 DEF m
<1>8. Line(folders', at) = l
  BY <1>6, <1>7
<1>9. {folders'[g].parent : g \in l} = {folders[g].parent : g \in l}
  BY <1>4
<1>10. Above(folders', at) = l \union ({folders'[g].parent : g \in l} \intersect Folders)
  BY <1>5, <1>8, AboveIs
<1>11. Above(folders, at) = l \union ({folders[g].parent : g \in l} \intersect Folders)
  BY AboveIs DEF l
<1> QED BY <1>8, <1>9, <1>10, <1>11 DEF l

\* A folder between one below and the deleted one: its own parent is no other above that one.
LEMMA NextBelow ==
    ASSUME NEW fs, NotInItself(fs), NEW at \in DOMAIN fs, NEW f \in Line(fs, at),
           NEW x \in Line(fs, at) \ Line(fs, f), fs[x].parent \in Line(fs, f)
    PROVE  fs[x].parent = f
<1> DEFINE p == fs[x].parent
<1>1. f \in DOMAIN fs /\ x \in DOMAIN fs /\ p \in DOMAIN fs /\ f \in Line(fs, f)
  BY LineOfAbove, LineFacts
<1>2. f \in Line(fs, x)
  BY OneLine
<1>3. f \in Line(fs, p)
  BY <1>1, <1>2, LineByParent
<1>4. ASSUME p # f PROVE FALSE
  <2>1. fs[f].parent \in DOMAIN fs /\ p \in Line(fs, fs[f].parent)
    BY <1>1, <1>4, LineByParent
  <2>2. Line(fs, p) \subseteq Line(fs, fs[f].parent)
    BY <2>1, LineOfAbove
  <2> QED BY <1>1, <1>3, <2>1, <2>2 DEF NotInItself
<1> QED BY <1>4

\* What stood below the deleted folder ends at what was inside it.
LEMMA DeletedAbove ==
    ASSUME FoldersInv, NEW f \in Folders, FolderDelete(f),
           NEW at \in DOMAIN folders \ {f}, f \in Line(folders, at)
    PROVE  /\ Line(folders', at) = Line(folders, at) \ Line(folders, f)
           /\ Above(folders', at) = Line(folders', at)
           /\ Above(folders, at) = Line(folders', at) \union Above(folders, f)
           /\ Line(folders', at) \intersect Above(folders, f) = {}
           /\ \E c \in Line(folders', at) : folders[c].parent = f
<1> DEFINE l == Line(folders, at)
           k == Line(folders, f)
           rest == l \ k
<1>1. /\ DOMAIN folders' = DOMAIN folders \ {f}
      /\ \A x \in DOMAIN folders' :
           folders'[x].parent = IF folders[x].parent = f THEN None ELSE folders[x].parent
  BY OrphanedFolder DEF FoldersInv
<1>2. /\ at \in l /\ l \in SUBSET DOMAIN folders /\ ClosedUpwards(folders, l)
      /\ \A s \in SUBSET DOMAIN folders : at \in s /\ ClosedUpwards(folders, s) => l \subseteq s
  BY LineFacts
<1>3. /\ f \in DOMAIN folders /\ f \in k /\ k \subseteq l
      /\ k \in SUBSET DOMAIN folders /\ ClosedUpwards(folders, k)
  BY <1>2, LineFacts, LineOfAbove
<1>4. None \notin DOMAIN folders /\ None \notin Folders
  BY ShelvesAssumption DEF FoldersInv, TypeOK
<1>5. ASSUME NEW x \in rest, folders[x].parent \in DOMAIN folders, folders[x].parent # f
      PROVE  folders[x].parent \in rest
  <2>1. folders[x].parent \in l
    BY <1>2, <1>5 DEF ClosedUpwards
  <2>2. folders[x].parent \notin k
    BY <1>5, NextBelow DEF FoldersInv
  <2> QED BY <2>1, <2>2
<1>6. at \notin k
  <2> SUFFICES ASSUME at \in k PROVE FALSE
    OBVIOUS
  <2>1. folders[f].parent \in DOMAIN folders /\ at \in Line(folders, folders[f].parent)
    BY <1>3, LineByParent
  <2>2. f \in Line(folders, folders[f].parent)
    BY <2>1, LineOfAbove
  <2> QED BY <1>3, <2>1, <2>2 DEF FoldersInv, NotInItself
<1>7. at \in rest /\ rest \in SUBSET DOMAIN folders'
  BY <1>1, <1>2, <1>3, <1>6
<1>8. ClosedUpwards(folders', rest)
  <2> SUFFICES ASSUME NEW x \in rest, folders'[x].parent \in DOMAIN folders'
               PROVE  folders'[x].parent \in rest
    BY DEF ClosedUpwards
  <2>1. folders'[x].parent = folders[x].parent /\ folders[x].parent # f
    BY <1>1, <1>4, <1>7
  <2> QED BY <1>1, <1>5, <2>1
<1>9. Line(folders', at) = rest
  <2> DEFINE m == Line(folders', at)
  <2>1. at \in m /\ m \in SUBSET DOMAIN folders' /\ ClosedUpwards(folders', m) /\ m \subseteq rest
    BY <1>7, <1>8, LineFacts
  <2> HIDE DEF m
  <2>2. ASSUME NEW x \in m \union k, folders[x].parent \in DOMAIN folders
        PROVE  folders[x].parent \in m \union k
    <3>1. CASE x \in k
      BY <1>3, <2>2, <3>1 DEF ClosedUpwards
    <3>2. CASE x \in m /\ folders[x].parent = f
      BY <1>3, <3>2
    <3>3. CASE x \in m /\ folders[x].parent # f
      BY <1>1, <2>1, <2>2, <3>3 DEF ClosedUpwards
    <3> QED BY <3>1, <3>2, <3>3
  <2>3. ClosedUpwards(folders, m \union k)
    BY <2>2 DEF ClosedUpwards
  <2>4. m \union k \in SUBSET DOMAIN folders
    BY <1>1, <1>3, <2>1
  <2>5. l \subseteq m \union k
    BY <1>2, <2>1, <2>3, <2>4
  <2> QED BY <2>1, <2>5 DEF m
<1>10. \E c \in rest : folders[c].parent = f
  <2> SUFFICES ASSUME \A c \in rest : folders[c].parent # f PROVE FALSE
    OBVIOUS
  <2>1. ClosedUpwards(folders, rest)
    BY <1>5 DEF ClosedUpwards
  <2>2. rest \in SUBSET DOMAIN folders
    BY <1>2
  <2> QED BY <1>2, <1>3, <1>7, <2>1, <2>2
<1>11. Above(folders', at) = rest
  <2>1. Above(folders', at) = rest \union ({folders'[g].parent : g \in rest} \intersect Folders)
    BY <1>1, <1>9, AboveIs
  <2>2. ASSUME NEW g \in rest, folders'[g].parent \in Folders PROVE folders'[g].parent \in rest
    <3>1. folders'[g].parent = folders[g].parent /\ folders[g].parent # f
      BY <1>1, <1>4, <1>7, <2>2
    <3>2. folders[g].parent \in DOMAIN folders
      <4>1. f \in l /\ g \in l /\ g \notin k
        OBVIOUS
      <4>2. g \in DOMAIN folders /\ f \in Line(folders, g) /\ g # f
        BY <1>2, <1>3, <4>1, OneLine
      <4> QED BY <4>2, LineByParent
    <3> QED BY <1>5, <3>1, <3>2
  <2> HIDE DEF rest
  <2> QED BY <2>1, <2>2
<1>12. Above(folders, at) = rest \union Above(folders, f)
  <2>1. Above(folders, at) = l \union ({folders[g].parent : g \in l} \intersect Folders)
    BY AboveIs
  <2>2. Above(folders, f) = k \union ({folders[g].parent : g \in k} \intersect Folders)
    BY <1>3, AboveIs
  <2>3. ASSUME NEW g \in rest, folders[g].parent \in Folders PROVE folders[g].parent \in rest \union k
    <3>1. folders[g].parent \in DOMAIN folders
      <4>1. f \in l /\ g \in l /\ g \notin k
        OBVIOUS
      <4>2. g \in DOMAIN folders /\ f \in Line(folders, g) /\ g # f
        BY <1>2, <1>3, <4>1, OneLine
      <4> QED BY <4>2, LineByParent
    <3> QED BY <1>3, <1>5, <3>1
  <2>4. l = rest \union k
    BY <1>3
  <2> HIDE DEF rest, k, l
  <2> QED BY <2>1, <2>2, <2>3, <2>4
<1>13. rest \intersect Above(folders, f) = {}
  <2>1. Above(folders, f) \intersect DOMAIN folders \subseteq k
    BY <1>3, StandingAbove
  <2> QED BY <1>2, <2>1
<1> QED BY <1>9, <1>10, <1>11, <1>12, <1>13

\* What a folder above kept away is kept away still, by that folder or by the mark the deleted one
\* left on what was inside it, however deep and however far up the walk may look.
LEMMA AwayAfterDeleting ==
    ASSUME FoldersInv, FoldersInv', NEW f \in Folders, FolderDelete(f),
           NEW at \in DOMAIN folders \ {f}, FolderAway(folders, at)
    PROVE  FolderAway(folders', at)
<1> DEFINE l == Line(folders, at)
<1>1. /\ DOMAIN folders' = DOMAIN folders \ {f} /\ DOMAIN folders \subseteq Folders
      /\ \A x \in DOMAIN folders' :
           folders'[x].archived =
             (folders[x].archived \/ (folders[x].parent = f /\ FolderAway(folders, f)))
  BY OrphanedFolder DEF FoldersInv, TypeOK
<1>2. PICK g \in Above(folders, at) \intersect DOMAIN folders :
        Depth(folders, at) <= Depth(folders, g) + Deepest /\ folders[g].archived
  BY DEF FolderAway
<1>3. g \in l
  BY <1>2, StandingAbove
<1>4. CASE f \notin l
  <2>1. Line(folders', at) = l /\ Above(folders', at) = Above(folders, at)
    BY <1>4, DeletedElsewhere
  <2>2. g # f /\ g \in DOMAIN folders \ {f} /\ f \notin Line(folders, g)
    BY <1>2, <1>3, <1>4, LineOfAbove
  <2>3. Above(folders', g) = Above(folders, g)
    BY <2>2, DeletedElsewhere
  <2>4. folders'[g].archived /\ g \in Above(folders', at) \intersect DOMAIN folders'
    BY <1>1, <1>2, <2>1, <2>2
  <2> QED BY <1>2, <2>1, <2>3, <2>4 DEF FolderAway, Depth
<1>5. CASE f \in l
  <2> DEFINE k == Line(folders, f)
             n == Depth(folders, f)
  <2>1. f \in DOMAIN folders /\ IsFiniteSet(Above(folders, f)) /\ n \in Nat /\ Deepest \in Nat
    BY <1>5, LineFacts, DepthType, ShelvesAssumption DEF FoldersInv
  \* The depth of what is below the deleted folder goes down by the depth of that folder.
  <2>2. ASSUME NEW x \in l \ k
        PROVE  /\ x \in DOMAIN folders' /\ x \in Line(folders', at)
               /\ Depth(folders', x) \in Nat /\ Depth(folders, x) = Depth(folders', x) + n
    <3>1. f \in k /\ x \in DOMAIN folders
      BY <1>5, <2>1, LineFacts
    <3>2. x # f /\ x \in DOMAIN folders'
      BY <1>1, <3>1
    <3>3. f \in Line(folders, x)
      BY <1>5, OneLine
    <3>4. /\ Above(folders', x) = Line(folders', x)
          /\ Above(folders, x) = Line(folders', x) \union Above(folders, f)
          /\ Line(folders', x) \intersect Above(folders, f) = {}
      BY <3>1, <3>2, <3>3, DeletedAbove
    <3>5. IsFiniteSet(Line(folders', x)) /\ Cardinality(Line(folders', x)) \in Nat
      <4>1. Line(folders', x) \in SUBSET Above(folders, x)
        BY <3>4
      <4> QED BY <4>1, DepthType DEF FoldersInv
    <3>6. Cardinality(Line(folders', x) \union Above(folders, f)) =
            Cardinality(Line(folders', x)) + n - Cardinality({})
      BY <2>1, <3>4, <3>5, FS_Union DEF Depth
    <3>7. x \in Line(folders', at)
      BY <1>5, DeletedAbove
    <3> QED BY <2>1, <3>2, <3>4, <3>5, <3>6, <3>7, FS_EmptySet DEF Depth
  <2>3. at \in l \ k
    <3>1. Line(folders', at) = l \ k
      BY <1>5, DeletedAbove
    <3>2. at \in Line(folders', at)
      BY <1>1, LineFacts
    <3> QED BY <3>1, <3>2
  <2>4. Above(folders', at) = l \ k
    BY <1>5, DeletedAbove
  <2>5. CASE g \notin k
    <3>1. folders'[g].archived /\ g \in Above(folders', at) \intersect DOMAIN folders'
      BY <1>1, <1>2, <1>3, <2>2, <2>4, <2>5
    <3>2. Depth(folders', at) <= Depth(folders', g) + Deepest
      BY <1>2, <1>3, <2>1, <2>2, <2>3, <2>5
    <3> QED BY <3>1, <3>2 DEF FolderAway
  <2>6. CASE g \in k
    <3>1. Above(folders, f) \subseteq Above(folders, at)
      BY <1>5, DeletedAbove
    <3>2. n <= Depth(folders, at) /\ Depth(folders, at) \in Nat
      BY <3>1, DepthType DEF FoldersInv, Depth
    <3>3. Depth(folders, g) \in Nat /\ Depth(folders, g) <= n
      <4>1. Above(folders, g) \subseteq Above(folders, f)
        <5>1. g \in DOMAIN folders /\ Line(folders, g) \subseteq k
          BY <2>1, <2>6, LineOfAbove
        <5> QED BY <2>1, <5>1, AboveIs
      <4> QED BY <4>1, DepthType DEF FoldersInv, Depth
    <3>4. FolderAway(folders, f)
      <4>1. g \in Above(folders, f) \intersect DOMAIN folders
        BY <1>1, <1>2, <2>1, <2>6, StandingAbove
      <4>2. n <= Depth(folders, g) + Deepest
        BY <1>2, <2>1, <3>2, <3>3
      <4> QED BY <1>2, <4>1, <4>2 DEF FolderAway
    <3>5. PICK c \in l \ k : folders[c].parent = f
      BY <1>5, DeletedAbove
    <3>6. folders'[c].archived /\ c \in Above(folders', at) \intersect DOMAIN folders'
      BY <1>1, <2>2, <2>4, <3>4, <3>5
    <3>7. Depth(folders', at) <= Depth(folders', c) + Deepest
      BY <1>2, <2>1, <2>2, <2>3, <3>2, <3>3, <3>5
    <3> QED BY <3>6, <3>7 DEF FolderAway
  <2> QED BY <2>5, <2>6
<1> QED BY <1>4, <1>5

LEMMA KeptWhenAFolderGoes ==
    ASSUME FoldersInv, FoldersInv', GroupsStand, NEW f \in Folders, FolderDelete(f)
    PROVE  KeptOnDeleting
<1> DEFINE gate == FolderAway(folders, f)
<1>1. /\ docs' = [d \in DOMAIN docs |-> Unfiled(docs[d], f, gate)]
      /\ \A d \in DOMAIN docs : docs[d] \in Doc
  BY DEF FolderDelete, FoldersInv, TypeOK
<1>2. ASSUME NEW d \in DOMAIN docs
      PROVE  /\ d \in DOMAIN docs'
             /\ docs'[d].page_of = docs[d].page_of
             /\ docs'[d].folder = IF docs[d].folder = f THEN None ELSE docs[d].folder
             /\ docs[d].archived => docs'[d].archived
             /\ docs[d].folder = f /\ gate /\ docs[d].page_of = None => docs'[d].archived
  <2> HIDE DEF gate
  <2>1. docs[d] \in Doc /\ docs'[d] = Unfiled(docs[d], f, gate)
    BY <1>1
  <2> QED BY <1>1, <2>1 DEF Unfiled, Doc
<1>3. ASSUME NEW at, at # f, FolderAway(folders, at) PROVE FolderAway(folders', at)
  <2>1. at \in DOMAIN folders
    <3> SUFFICES ASSUME at \notin DOMAIN folders PROVE FALSE
      OBVIOUS
    <3>1. Above(folders, at) \intersect DOMAIN folders = {}
      BY AboveIs
    <3> QED BY <1>3, <3>1 DEF FolderAway
  <2> QED BY <1>3, <2>1, AwayAfterDeleting
<1>4. ASSUME NEW d \in DOMAIN docs, HeldAway(folders, docs, d) PROVE HeldAway(folders', docs', d)
  <2> DEFINE top == docs[d].page_of
  <2>1. top # None => /\ top \in DOMAIN docs /\ docs[top].page_of = None
                      /\ docs[d].folder = docs[top].folder
    BY DEF GroupsStand, PagesStandInTheirDocument, MayHold
  <2>2. None \notin DOMAIN docs
    BY ShelvesAssumption DEF FoldersInv, TypeOK
  <2>3. CASE docs[d].archived
    BY <1>2, <2>3 DEF HeldAway
  <2>4. CASE top \in DOMAIN docs /\ docs[top].archived
    BY <1>2, <2>4 DEF HeldAway, HeldByAnother
  <2>5. CASE FolderAway(folders, docs[d].folder)
    <3>1. CASE docs[d].folder # f
      BY <1>2, <1>3, <2>5, <3>1 DEF HeldAway, HeldByAnother
    <3>2. CASE docs[d].folder = f /\ top = None
      BY <1>2, <2>5, <3>2 DEF HeldAway
    <3>3. CASE docs[d].folder = f /\ top # None
      BY <1>2, <2>1, <2>5, <3>3 DEF HeldAway, HeldByAnother
    <3> QED BY <3>1, <3>2, <3>3
  <2>6. CASE top \in DOMAIN docs /\ FolderAway(folders, docs[top].folder)
    <3>1. docs[d].folder = docs[top].folder
      BY <2>1, <2>2, <2>6
    <3> QED BY <2>5, <2>6, <3>1
  <2> QED BY <1>4, <2>3, <2>4, <2>5, <2>6 DEF HeldAway, HeldByAnother
<1>5. DOMAIN docs' = DOMAIN docs
  BY <1>1
<1> QED BY <1>4, <1>5 DEF KeptOnDeleting

LEMMA KeptWhenADocumentGoes ==
    ASSUME TypeOK, GroupsStand, NEW d \in Docs, DocDelete(d)
    PROVE  KeptOnDeleting
<1>1. docs' = Without(docs, TakenAlong(docs, d)) /\ folders' = folders
  BY DEF DocDelete
<1>2. /\ DOMAIN docs' = DOMAIN docs \ TakenAlong(docs, d)
      /\ \A x \in DOMAIN docs' : docs'[x] = docs[x]
  BY <1>1 DEF Without
<1>3. ASSUME NEW x \in DOMAIN docs', docs[x].page_of \in DOMAIN docs
      PROVE  docs[x].page_of \in DOMAIN docs'
  <2>1. docs[x].page_of # None /\ d # None
    BY <1>3, ShelvesAssumption DEF TypeOK
  <2>2. docs[docs[x].page_of].page_of = None
    BY <1>2, <2>1 DEF GroupsStand, PagesStandInTheirDocument, MayHold
  <2>3. docs[x].page_of # d
    BY <1>2 DEF TakenAlong
  <2> QED BY <1>2, <1>3, <2>1, <2>2, <2>3 DEF TakenAlong
<1>4. ASSUME NEW x \in DOMAIN docs', HeldAway(folders, docs, x) PROVE HeldAway(folders', docs', x)
  BY <1>1, <1>2, <1>3, <1>4 DEF HeldAway, HeldByAnother
<1> QED BY <1>4 DEF KeptOnDeleting

LEMMA KeptWhenAPageIsMoved ==
    ASSUME TypeOK, GroupsStand, NEW d \in Docs, NEW at \in Folders \union {None, Unsaid},
           NEW up \in Docs \union {None, Unsaid}, DocMove(d, at, up)
    PROVE  KeptOnUnhanging
<1> DEFINE hung == Hung(folders, docs, d, up)
           filed == Filed(hung, d, at)
<1>1. d \in DOMAIN docs /\ docs' = Followed(filed, d) /\ docs[d] \in Doc
  BY DEF DocMove, TypeOK
<1>2. /\ DOMAIN hung = DOMAIN docs /\ DOMAIN filed = DOMAIN docs
      /\ \A x \in DOMAIN docs : filed[x] \in Doc
      /\ \A x \in DOMAIN docs \ {d} : filed[x] = docs[x]
      /\ filed[d].page_of = hung[d].page_of /\ filed[d].archived = hung[d].archived
  BY <1>1, MovedDoc
<1>3. \A x \in DOMAIN docs : docs'[x].page_of = filed[x].page_of /\ docs'[x].archived = filed[x].archived
  <2> HIDE DEF filed
  <2> QED BY <1>1, <1>2, FollowedDoc
<1>4. ASSUME docs[d].page_of # None, hung[d].page_of = None,
             docs[docs[d].page_of].archived, ~FolderAway(folders, docs[d].folder)
      PROVE  hung[d].archived
  <2>1. docs[d].page_of \in DOMAIN docs
    BY <1>1, <1>4 DEF GroupsStand, PagesStandInTheirDocument, MayHold
  <2>2. HeldAway(folders, docs, d)
    BY <1>4, <2>1 DEF HeldAway, HeldByAnother
  <2>3. CASE up = None
    <3>1. hung[d].archived = (docs[d].archived \/ ~docs[d].archived)
      BY <1>1, <1>4, <2>2, <2>3, ShelvesAssumption DEF Hung, Doc
    <3> QED BY <1>1, <3>1 DEF Doc
  <2>4. CASE up = Unsaid
    BY <1>4, <2>4, ShelvesAssumption DEF Hung
  <2>5. CASE up \in Docs
    <3>1. up # None
      BY <2>5, ShelvesAssumption
    <3>2. hung[d].page_of = up \/ hung = docs
      BY <1>1, <2>5, <3>1, ShelvesAssumption DEF Hung, Doc
    <3> QED BY <1>4, <3>1, <3>2
  <2> QED BY <2>3, <2>4, <2>5
<1>5. ASSUME NEW x \in DOMAIN docs,
             docs[x].page_of # None, docs'[x].page_of = None,
             docs[docs[x].page_of].archived, ~FolderAway(folders, docs[x].folder)
      PROVE  HeldAway(folders', docs', x)
  <2>1. x = d
    BY <1>2, <1>3, <1>5
  <2>2. docs'[x].archived
    BY <1>1, <1>2, <1>3, <1>4, <1>5, <2>1
  <2> QED BY <2>2 DEF HeldAway
<1> QED BY <1>5 DEF KeptOnUnhanging

\* The other steps take no document off its page.
LEMMA KeptOtherwise ==
    ASSUME TypeOK, \A x \in DOMAIN docs \intersect DOMAIN docs' : docs'[x].page_of = docs[x].page_of
    PROVE  KeptOnUnhanging
BY DEF KeptOnUnhanging

LEMMA StepsLetNothingOut ==
    ASSUME FoldersInv, GroupsStand, Next
    PROVE  KeptOnDeleting /\ KeptOnUnhanging
<1>1. TypeOK /\ FoldersInv'
  BY StepsKeepFoldersApart DEF FoldersInv
<1>2. ASSUME NEW f \in Folders, NEW at \in Named(Folders), NEW away \in BOOLEAN, FolderStep(f, at, away)
      PROVE  KeptOnDeleting /\ KeptOnUnhanging
  <2>1. CASE FolderDelete(f)
    <3>1. \A x \in DOMAIN docs \intersect DOMAIN docs' : docs'[x].page_of = docs[x].page_of
      <4> DEFINE gate == FolderAway(folders, f)
      <4>1. docs' = [x \in DOMAIN docs |-> Unfiled(docs[x], f, gate)]
        BY <2>1 DEF FolderDelete
      <4> HIDE DEF gate
      <4>2. ASSUME NEW x \in DOMAIN docs PROVE docs'[x].page_of = docs[x].page_of
        <5>1. docs[x] \in Doc /\ docs'[x] = Unfiled(docs[x], f, gate)
          BY <1>1, <4>1 DEF TypeOK
        <5> QED BY <5>1 DEF Unfiled, Doc
      <4> QED BY <4>2
    <3> QED BY <1>1, <2>1, <3>1, KeptWhenAFolderGoes, KeptOtherwise
  <2>2. CASE ~FolderDelete(f)
    <3>1. docs' = docs /\ gone' = gone
      BY <1>2, <2>2 DEF FolderStep, FolderAdd, FolderMove, FolderArchive
    <3> QED BY <1>1, <3>1, KeptOtherwise DEF KeptOnDeleting
  <2> QED BY <2>1, <2>2
<1>3. ASSUME NEW d \in Docs, NEW at \in Folders \union {None, Unsaid}, NEW up \in Docs \union {None, Unsaid},
             NEW away \in BOOLEAN, NEW of \in Named(Docs), DocStep(d, at, up, away, of)
      PROVE  KeptOnDeleting /\ KeptOnUnhanging
  <2>1. CASE DocAdd(d, at, up)
    <3>1. gone' = gone /\ d \notin DOMAIN docs
      BY <2>1 DEF DocAdd
    <3>2. \A x \in DOMAIN docs : docs'[x] = docs[x]
      BY <2>1 DEF DocAdd, With
    <3> QED BY <1>1, <3>1, <3>2, KeptOtherwise DEF KeptOnDeleting
  <2>2. CASE DocMove(d, at, up)
    <3>1. gone' = gone
      BY <2>2 DEF DocMove
    <3> QED BY <1>1, <2>2, <3>1, KeptWhenAPageIsMoved DEF KeptOnDeleting
  <2>3. CASE DocArchive(d, away)
    <3>1. gone' = gone /\ \A x \in DOMAIN docs : docs'[x].page_of = docs[x].page_of
      <4>1. docs' = [docs EXCEPT ![d].archived = away] /\ \A x \in DOMAIN docs : docs[x] \in Doc
        BY <1>1, <2>3 DEF DocArchive, TypeOK
      <4> QED BY <2>3, <4>1 DEF DocArchive, Doc
    <3> QED BY <1>1, <3>1, KeptOtherwise DEF KeptOnDeleting
  <2>4. CASE DocTongue(d, of)
    <3>1. gone' = gone /\ \A x \in DOMAIN docs : docs'[x].page_of = docs[x].page_of
      <4> DEFINE anchor == AnchorNamed(docs, of)
      <4>1. /\ docs' = [one \in DOMAIN docs |->
                  IF one = d \/ (anchor # None /\ docs[one].translation_of = d)
                  THEN [docs[one] EXCEPT !.translation_of = anchor]
                  ELSE docs[one]]
            /\ \A x \in DOMAIN docs : docs[x] \in Doc
        BY <1>1, <2>4 DEF DocTongue, TypeOK
      <4> HIDE DEF anchor
      <4> QED BY <2>4, <4>1 DEF DocTongue, Doc
    <3> QED BY <1>1, <3>1, KeptOtherwise DEF KeptOnDeleting
  <2>5. CASE DocDelete(d)
    <3>1. \A x \in DOMAIN docs' : docs'[x] = docs[x]
      BY <2>5 DEF DocDelete, Without
    <3> QED BY <1>1, <2>5, <3>1, KeptWhenADocumentGoes, KeptOtherwise
  <2> QED BY <1>3, <2>1, <2>2, <2>3, <2>4, <2>5 DEF DocStep
<1> QED BY <1>2, <1>3, NextSteps

\* Nothing walks out of the archive but by the person's word, for any shelves: deleting a folder
\* writes the mark it stood for on all that was inside (folder_deleted), deep enough that the walk
\* up, which looks at so many folders only, still finds it; and a page taken off an archived
\* document stays away wherever it lands.
THEOREM ArchiveKeeps == Spec => NothingLetOut
<1>1. FoldersInv /\ GroupsStand /\ [Next]_vars => [KeptOnDeleting /\ KeptOnUnhanging]_vars
  BY StepsLetNothingOut
<1> QED BY <1>1, FoldersAlwaysApart, GroupsAlwaysStand, PTL DEF Spec, NothingLetOut
=============================================================================
