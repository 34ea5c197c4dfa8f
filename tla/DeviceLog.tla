------------------------------ MODULE DeviceLog ------------------------------
(***************************************************************************)
(* One device's append-only log (tisty-core/src/store.rs): the directory   *)
(* of one device with its closed segments, its active segment and its      *)
(* lock, and several Store values (the window, a short command, the        *)
(* assistant's server) that write to it, each with its own memory of how   *)
(* far the log had got.                                                    *)
(*                                                                         *)
(* A line is an event or a seal.  Every line ever written has an id of its *)
(* own, which stands for its bytes; a chain tip, a hash folded over lines  *)
(* in the source, is the set of the ids it was folded over.                *)
(*                                                                         *)
(* One write call is one step: a reader sees all of it, or the part a      *)
(* crash left.  The steps of Mishaps are those nobody wants: see Mishap.   *)
(***************************************************************************)
EXTENDS Integers, Sequences, FiniteSets

CONSTANTS
    Writers,      \* the Store values opened on this directory
    Signers,      \* those of them that were handed the device's key
    None,         \* no lock holder, no tip known, nothing torn
    Half,         \* half a line, as a cut write leaves it
    SegmentMax,   \* SEGMENT_MAX_EVENTS
    Mishaps,      \* the mishaps this instance lets happen
    MaxMishaps, MaxTime, MaxLines, MaxSegments, MaxBatch \* bounds

AllMishaps == {"crash", "crash_after_rename", "crash_after_rename_alone", "write_fails",
               "read_fails", "open_overlaps", "clock_set_back"}

ASSUME WritersAssumption == Signers \subseteq Writers /\ None \notin Writers
ASSUME MishapsAssumption == Mishaps \subseteq AllMishaps
ASSUME BoundsAssumption ==
    /\ SegmentMax \in Nat \ {0} /\ MaxBatch \in Nat \ {0}
    /\ MaxMishaps \in Nat /\ MaxTime \in Nat \ {0}
    /\ MaxLines \in Nat /\ MaxSegments \in Nat

SegNos == 1..MaxSegments
Stamps == Nat \X Nat
Epoch  == <<0, 0>>
Before(a, b) == a[1] < b[1] \/ (a[1] = b[1] /\ a[2] < b[2])

Event == [k: {"event"}, id: Nat, at: Stamps]
Seal  == [k: {"seal"}, id: Nat, seg: Nat, at: Nat, tip: SUBSET Nat,
          n: Nat, closed: BOOLEAN]
Line  == Event \cup Seal

ASSUME SentinelAssumption == None \notin Line /\ Half \notin Line /\ None # Half

VARIABLES
    clock,    \* the machine's wall clock
    lock,     \* who holds .lock
    present,  \* whether active.tisty exists
    live,     \* its whole lines
    torn,     \* what stands after its last newline
    closed,   \* the closed segments, <<>> where there is none
    pc,       \* how far each Store is in the call it runs
    store,    \* each Store's own fields
    job,      \* what the lock's holder writes: still to do, and asked for in all
    acked,    \* the events an append returned Ok for
    minted,   \* ids given out so far
    mishaps   \* how many mishaps have happened

disk == <<present, live, torn, closed>>
vars == <<clock, lock, disk, pc, store, job, acked, minted, mishaps>>

-----------------------------------------------------------------------------
(* Reading the files                                                       *)

Events(lines) == {lines[i] : i \in {j \in DOMAIN lines : lines[j].k = "event"}}
Ids(lines)    == {lines[i].id : i \in DOMAIN lines}

\* The greatest stamp of a set of events, the epoch when there is none.
Newest(events) ==
    LET last == {e \in events : \A f \in events : ~Before(e.at, f.at)}
    IN  IF last = {} THEN Epoch ELSE (CHOOSE e \in last : TRUE).at

\* Mutant: a sidecar with no segment of its own is counted too.
NextNumberPastASidecar(dir) ==
    LET used == {s \in SegNos : dir[s] # <<>>}
    IN  IF used = {} THEN 1 ELSE Cardinality(used) + 2

\* One past the highest closed segment.
NextSegmentNumber(dir) ==
    LET high == {s \in SegNos : dir[s] # <<>> /\ \A t \in SegNos : t > s => dir[t] = <<>>}
    IN  IF high = {} THEN 1 ELSE (CHOOSE s \in high : TRUE) + 1

\* The segment a closing seal at the very end names, 0 when the last line is no such seal.
ClosingOf(lines) ==
    IF lines # <<>> /\ lines[Len(lines)].k = "seal" /\ lines[Len(lines)].closed
    THEN lines[Len(lines)].seg
    ELSE 0

\* Where the last seal of a file stands, 0 unless it stands where it says it does.
AnsweredAt(lines) ==
    LET last == {i \in DOMAIN lines : /\ lines[i].k = "seal"
                                      /\ \A j \in DOMAIN lines : j > i => lines[j].k = "event"
                                      /\ lines[i].at = i - 1}
    IN  IF last = {} THEN 0 ELSE CHOOSE i \in last : TRUE

\* The files of the log in the order they are read: the closed segments, then the active one.
Places == 1..(MaxSegments + 1)
File(s, active) == IF s \in SegNos THEN closed[s] ELSE active
AllEvents(active) == UNION {Events(File(s, active)) : s \in Places}

\* The chain as it stands on disk, folded on from the last seal our own key answers for.
TipNow(active) ==
    LET answered == {s \in Places :
                        /\ AnsweredAt(File(s, active)) # 0
                        /\ \A t \in Places : t > s => AnsweredAt(File(t, active)) = 0}
        since(s) == UNION {Ids(File(t, active)) : t \in {u \in Places : u > s}}
        from     == CHOOSE s \in answered : TRUE
        file     == File(from, active)
        at       == AnsweredAt(file)
    IN  IF answered = {}
        THEN since(0)
        ELSE file[at].tip \cup {file[i].id : i \in at..Len(file)} \cup since(from)

\* Mutant: the cut falls before the last whole line instead of after it.
MendedOneLineShort ==
    IF torn \in Line THEN Append(live, torn)
    ELSE IF torn = Half /\ live # <<>> THEN SubSeq(live, 1, Len(live) - 1) ELSE live

\* A torn tail that is a whole line gets its newline back; half a line is set aside.
Mended == IF torn \in Line THEN Append(live, torn) ELSE live

-----------------------------------------------------------------------------
(* What a Store remembers                                                  *)

\* covers is what the next seal answers for: the chain and where it stands in the
\* active file.  seen is the Mark of the active file: "now" while the file is as it was when
\* looked at, "absent" when there was none, "old" once somebody has written.
\* A modification time is taken to differ from write to write.
Covers == [tip : SUBSET Nat, at : Nat] \cup {None}
StoreFields == [head : Stamps, count : Nat, seg : Nat, closing : Nat, covers : Covers,
                seen : {"now", "absent", "old"}]
NoStore == [head |-> Epoch, count |-> 0, seg |-> 1, closing |-> 0,
            covers |-> None, seen |-> "old"]
NoJob   == [todo |-> <<>>, asked |-> {}]

MarkOf(there)  == IF there THEN "now" ELSE "absent"

\* Mutant: nobody else is ever thought to have written.
NeverOvertaken(s) == TRUE

SeenMatches(s) == s.seen = "now" \/ (s.seen = "absent" /\ ~present)

\* A change of the active file leaves every mark taken of it behind.
Outdated(stores) ==
    [q \in Writers |-> [stores[q] EXCEPT !.seen = IF @ = "now" THEN "old" ELSE @]]

EventCount(lines) == Cardinality({i \in DOMAIN lines : lines[i].k = "event"})

\* Mutant: the head on disk is not taken.
OwnHead(a, b) == a

Later(a, b) == IF Before(a, b) THEN b ELSE a

\* tip_now, asked only by a Store that has the key.
KnowsWhereItStands(p, active) ==
    IF p \in Signers THEN [tip |-> TipNow(active), at |-> Len(active)] ELSE None

\* Mutant: the tip known before the others wrote is kept.
CaughtUpOnTheOldTip(p, s, active) ==
    IF SeenMatches(s)
    THEN [s EXCEPT !.covers = IF @ = None THEN KnowsWhereItStands(p, active) ELSE @]
    ELSE [head    |-> Later(s.head, Newest(Events(active))),
          count   |-> EventCount(active),
          seg     |-> NextSegmentNumber(closed),
          closing |-> ClosingOf(active),
          covers  |-> IF s.covers = None THEN KnowsWhereItStands(p, active) ELSE s.covers,
          seen    |-> MarkOf(present)]

CaughtUp(p, s, active) ==
    IF SeenMatches(s)
    THEN [s EXCEPT !.covers = IF @ = None THEN KnowsWhereItStands(p, active) ELSE @]
    ELSE [head    |-> Later(s.head, Newest(Events(active))),
          count   |-> EventCount(active),
          seg     |-> NextSegmentNumber(closed),
          closing |-> ClosingOf(active),
          covers  |-> KnowsWhereItStands(p, active),
          seen    |-> MarkOf(present)]

\* Mutant: the closed segments are not asked.
HeadOfTheActiveOnly(active) == Newest(Events(active))

\* The head a Store opens with: the active segment's, or the last closed one's when it has no event.
HeadOnOpening(active) ==
    IF EventCount(active) = 0 /\ NextSegmentNumber(closed) > 1
    THEN Newest(Events(closed[NextSegmentNumber(closed) - 1]))
    ELSE Newest(Events(active))

Init ==
    /\ clock = 1
    /\ lock = None
    /\ present = FALSE
    /\ live = <<>>
    /\ torn = None
    /\ closed = [s \in SegNos |-> <<>>]
    /\ pc = [p \in Writers |-> "off"]
    /\ store = [p \in Writers |-> NoStore]
    /\ job = NoJob
    /\ acked = {}
    /\ minted = 0
    /\ mishaps = 0

\* One of the steps nobody wants.
Mishap(kind) ==
    /\ kind \in Mishaps
    /\ mishaps < MaxMishaps
    /\ mishaps' = mishaps + 1

-----------------------------------------------------------------------------
(* Opening and closing a Store                                             *)

\* What open's own mending leaves, skipped when a writer holds the lock.
MendedOnOpening == IF lock = None THEN Mended ELSE live

\* Mutant: the seals are counted with the events.
OpenedCountingSeals(active) ==
    [head |-> HeadOnOpening(active), count |-> Len(active), seg |-> NextSegmentNumber(closed),
     closing |-> ClosingOf(active), covers |-> None, seen |-> MarkOf(present)]

Opened(active) ==
    [head |-> HeadOnOpening(active), count |-> EventCount(active), seg |-> NextSegmentNumber(closed),
     closing |-> ClosingOf(active), covers |-> None, seen |-> MarkOf(present)]

MendOnOpening ==
    /\ live' = MendedOnOpening
    /\ torn' = IF lock = None THEN None ELSE torn
    /\ UNCHANGED <<present, closed>>

\* Store::open with nobody writing between its reads.
Open(p) ==
    /\ pc[p] = "off"
    /\ pc' = [pc EXCEPT ![p] = "idle"]
    /\ MendOnOpening
    /\ store' = [(IF torn' = torn THEN store ELSE Outdated(store))
                    EXCEPT ![p] = Opened(MendedOnOpening)]
    /\ UNCHANGED <<clock, lock, job, acked, minted, mishaps>>

\* Store::open reads the tail without the lock and takes its mark only afterwards.
OpenTail(p) ==
    /\ Mishap("open_overlaps")
    /\ pc[p] = "off"
    /\ pc' = [pc EXCEPT ![p] = "opening"]
    /\ MendOnOpening
    /\ store' = [(IF torn' = torn THEN store ELSE Outdated(store))
                    EXCEPT ![p] = Opened(MendedOnOpening)]
    /\ UNCHANGED <<clock, lock, job, acked, minted>>

OpenMark(p) ==
    /\ pc[p] = "opening"
    /\ pc' = [pc EXCEPT ![p] = "idle"]
    /\ store' = [store EXCEPT ![p].seen = MarkOf(present), ![p].seg = NextSegmentNumber(closed)]
    /\ UNCHANGED <<clock, lock, disk, job, acked, minted, mishaps>>

\* The Store is dropped; a lock it still holds goes with it.
Drop(p) ==
    /\ pc[p] = "idle"
    /\ pc' = [pc EXCEPT ![p] = "off"]
    /\ store' = [store EXCEPT ![p] = NoStore]
    /\ lock' = IF lock = p THEN None ELSE lock
    /\ UNCHANGED <<clock, disk, job, acked, minted, mishaps>>

-----------------------------------------------------------------------------
(* One append: the lock, the stamps, the writes                            *)

\* acquire: the lock, a torn tail mended, what others wrote caught up with.
Acquire(p) ==
    /\ pc[p] = "idle" /\ lock = None
    /\ lock' = p
    /\ pc' = [pc EXCEPT ![p] = "held"]
    /\ live' = Mended
    /\ torn' = None
    /\ LET stores == IF torn = None THEN store ELSE Outdated(store)
       IN  store' = [stores EXCEPT ![p] = CaughtUp(p, stores[p], Mended)]
    /\ UNCHANGED <<clock, present, closed, job, acked, minted, mishaps>>

\* catch_up could not read the active segment: the call fails with the lock kept.
FailToCatchUp(p) ==
    /\ Mishap("read_fails")
    /\ pc[p] = "idle" /\ lock = None /\ torn = None
    /\ ~SeenMatches(store[p])
    /\ lock' = p
    /\ store' = [store EXCEPT ![p].covers = KnowsWhereItStands(p, live)]
    /\ UNCHANGED <<clock, disk, pc, job, acked, minted>>

\* acquire again by who never let the lock go: it returns at once.
AcquireAgain(p) ==
    /\ pc[p] = "idle" /\ lock = p
    /\ pc' = [pc EXCEPT ![p] = "held"]
    /\ UNCHANGED <<clock, lock, disk, store, job, acked, minted, mishaps>>

\* Mutant: the sequence starts one below.
StampedFromBelow(head, n) ==
    LET first == IF clock > head[1] THEN <<clock, 0>> ELSE <<head[1], head[2] + 1>>
    IN  [i \in 1..n |-> <<first[1], first[2] + i - 2>>]

\* stamp, for n operations one after the other.
Stamped(head, n) ==
    LET first == IF clock > head[1] THEN <<clock, 0>> ELSE <<head[1], head[2] + 1>>
    IN  [i \in 1..n |-> <<first[1], first[2] + i - 1>>]

\* Bounds: ids left for n events, and numbers left for the segments a call may close.
RoomFor(n) == minted + n <= MaxLines /\ NextSegmentNumber(closed) < MaxSegments

Mint(p, head, n) ==
    /\ pc[p] = "held" /\ RoomFor(n)
    /\ pc' = [pc EXCEPT ![p] = "writing"]
    /\ job' = [todo  |-> [i \in 1..n |-> [k |-> "event", id |-> minted + i,
                                          at |-> Stamped(head, n)[i]]],
               asked |-> (minted + 1)..(minted + n)]
    /\ store' = [store EXCEPT ![p].head = Stamped(head, n)[n]]
    /\ minted' = minted + n
    /\ UNCHANGED <<clock, lock, disk, acked, mishaps>>

\* append, append_batch_tagged.
Begin(p) == \E n \in 1..MaxBatch : Mint(p, store[p].head, n)

\* append_batch_unless: the whole store is read under the lock, every device's events with ours,
\* and the stamps start after the newest of them.
BeginAfter(p) ==
    \E newest \in Newest(AllEvents(live))[1]..(MaxTime - 1), n \in 1..MaxBatch :
        Mint(p, IF newest >= store[p].head[1] THEN <<newest + 1, 0>> ELSE store[p].head, n)

Release(p) ==
    /\ lock' = None
    /\ pc' = [pc EXCEPT ![p] = "idle"]
    /\ job' = NoJob

\* append_batch_unless when the log already settles it, or could not be read.
Settled(p) ==
    /\ pc[p] = "held"
    /\ Release(p)
    /\ UNCHANGED <<clock, disk, store, acked, minted, mishaps>>

\* A writer without the key, or that does not know where the chain stands, never rotates.
CanSeal(p) == p \in Signers /\ store[p].covers # None
IsFull(p)  == store[p].count >= SegmentMax
Writing(p) == lock = p /\ pc[p] = "writing" /\ job.todo # <<>> /\ store[p].closing = 0

SealOver(p, said, n, end) ==
    IF ~CanSeal(p) THEN <<>>
    ELSE <<[k |-> "seal", id |-> minted + 1, seg |-> store[p].seg,
            at |-> store[p].covers.at + Len(said), tip |-> store[p].covers.tip \cup Ids(said),
            n |-> n, closed |-> end]>>

\* room: as many as fit, or all of them when the segment is full and may not be closed.
Lot(p) ==
    LET left == SegmentMax - store[p].count
    IN  IF IsFull(p) \/ Len(job.todo) <= left THEN job.todo ELSE SubSeq(job.todo, 1, left)

\* What the next append to the active file says: the closing seal of a full
\* segment, or the next lot and the seal that answers for it.
Said(p) ==
    IF IsFull(p) /\ CanSeal(p)
    THEN SealOver(p, <<>>, store[p].count, TRUE)
    ELSE Lot(p) \o SealOver(p, Lot(p), store[p].count + Len(Lot(p)), FALSE)

\* A signer rotating finds no active file to close.
NothingToClose(p) == IsFull(p) /\ CanSeal(p) /\ ~present

\* covers after an append of said.
CoversPast(p, said) ==
    IF store[p].covers = None THEN None
    ELSE [tip |-> store[p].covers.tip \cup Ids(said), at |-> store[p].covers.at + Len(said)]

Appended(p, said) ==
    /\ live' = live \o said
    /\ present' = TRUE
    /\ minted' = IF CanSeal(p) THEN minted + 1 ELSE minted
    /\ UNCHANGED <<torn, closed>>

\* A lot of events and its seal, in one write and one fsync.
WriteLot(p) ==
    /\ Writing(p)
    /\ ~(IsFull(p) /\ CanSeal(p))
    /\ Appended(p, Said(p))
    /\ store' = [Outdated(store) EXCEPT ![p].count = @ + Len(Lot(p)),
                                        ![p].covers = CoversPast(p, Said(p))]
    /\ job' = [job EXCEPT !.todo = SubSeq(@, Len(Lot(p)) + 1, Len(@))]
    /\ UNCHANGED <<clock, lock, pc, acked, mishaps>>

\* rotate, up to its closing seal.
WriteClosingSeal(p) ==
    /\ Writing(p)
    /\ IsFull(p) /\ CanSeal(p) /\ present
    /\ Appended(p, Said(p))
    /\ store' = [Outdated(store) EXCEPT ![p].covers = CoversPast(p, Said(p))]
    /\ pc' = [pc EXCEPT ![p] = "renaming"]
    /\ UNCHANGED <<clock, lock, job, acked, mishaps>>

\* Mutant: the count of the segment that is gone is kept.
StartedOverStillFull(s, next) ==
    [s EXCEPT !.seen = "absent", !.closing = 0, !.seg = next,
              !.covers = IF @ = None THEN None ELSE [@ EXCEPT !.at = 0]]

\* Mutant: the chain is not told that a new file begins.
StartedOverInPlace(s, next) ==
    [s EXCEPT !.count = 0, !.seen = "absent", !.closing = 0, !.seg = next]

\* start_over, the numbers of the closed segments being what they are by then.
StartedOver(s, next) ==
    [s EXCEPT !.count = 0, !.seen = "absent", !.closing = 0, !.seg = next,
              !.covers = IF @ = None THEN None ELSE [@ EXCEPT !.at = 0]]

\* rotate when the active file is not there.
StartOver(p) ==
    /\ Writing(p)
    /\ NothingToClose(p)
    /\ store' = [store EXCEPT ![p] = StartedOver(@, NextSegmentNumber(closed))]
    /\ UNCHANGED <<clock, lock, disk, pc, job, acked, minted, mishaps>>

\* The segment the holder is about to close: its own, or the one a cut rotation left.
ToClose(p) == IF pc[p] = "renaming" THEN store[p].seg ELSE store[p].closing
Closing(p) ==
    /\ lock = p
    /\ \/ pc[p] = "renaming"
       \/ pc[p] = "writing" /\ store[p].closing # 0

\* Mutant: whatever stands under the closed one's name is replaced.
CloseSegmentOver(p) ==
    LET s == ToClose(p)
    IN  /\ Closing(p)
        /\ present /\ s \in SegNos
        /\ closed' = [closed EXCEPT ![s] = live]
        /\ live' = <<>>
        /\ present' = FALSE
        /\ store' = [Outdated(store) EXCEPT ![p] = StartedOver(@, NextSegmentNumber(closed'))]
        /\ pc' = [pc EXCEPT ![p] = "writing"]
        /\ UNCHANGED <<clock, lock, torn, job, acked, minted, mishaps>>

\* closed_as: the active file takes the closed one's name, or goes when the closed one holds
\* the same bytes already.
CloseSegment(p) ==
    LET s == ToClose(p)
    IN  /\ Closing(p)
        /\ present /\ s \in SegNos /\ closed[s] \in {<<>>, live}
        /\ closed' = [closed EXCEPT ![s] = live]
        /\ live' = <<>>
        /\ present' = FALSE
        /\ store' = [Outdated(store) EXCEPT ![p] = StartedOver(@, NextSegmentNumber(closed'))]
        /\ pc' = [pc EXCEPT ![p] = "writing"]
        /\ UNCHANGED <<clock, lock, torn, job, acked, minted, mishaps>>

\* closed_as: another segment stands under that name, or there is nothing to rename.
RefuseToClose(p) ==
    /\ Closing(p)
    /\ ~present \/ closed[ToClose(p)] \notin {<<>>, live}
    /\ Release(p)
    /\ UNCHANGED <<clock, disk, store, acked, minted, mishaps>>

\* closed_as: the rename itself fails.
FailToClose(p) ==
    /\ Mishap("write_fails")
    /\ Closing(p)
    /\ Release(p)
    /\ UNCHANGED <<clock, disk, store, acked, minted>>

\* Everything is on disk: the mark is taken, the lock let go, the caller told Ok.
Done(p) ==
    /\ lock = p /\ pc[p] = "writing" /\ job.todo = <<>>
    /\ store' = [store EXCEPT ![p].seen = MarkOf(present)]
    /\ acked' = acked \cup job.asked
    /\ Release(p)
    /\ UNCHANGED <<clock, disk, minted, mishaps>>

-----------------------------------------------------------------------------
(* What goes wrong                                                         *)

\* The moment of a rotation when the segment is closed and no line has followed it.
AfterRename(p) ==
    lock = p /\ pc[p] = "writing" /\ ~present /\ \E s \in SegNos : closed[s] # <<>>

\* What it counts as when a call of p is cut: other Stores that are open remember the file that
\* has just been closed, and only a Store that opens anew finds its head in it.
CutKind(p, usual) ==
    IF ~AfterRename(p) THEN usual
    ELSE IF \A q \in Writers \ {p} : pc[q] = "off" THEN "crash_after_rename_alone"
    ELSE "crash_after_rename"

\* What a cut write leaves of what it said: some whole lines, then nothing,
\* half of the next line, or all of it but its newline.
Cuts(said) == {<<n, None>> : n \in 0..Len(said)}
              \cup {<<n, Half>> : n \in 0..(Len(said) - 1)}
              \cup {<<n, said[n + 1]>> : n \in 0..(Len(said) - 1)}

CutShort(p) ==
    \E cut \in Cuts(Said(p)) :
        /\ live' = live \o SubSeq(Said(p), 1, cut[1])
        /\ torn' = cut[2]
        /\ present' = TRUE
        /\ minted' = IF CanSeal(p) THEN minted + 1 ELSE minted
        /\ UNCHANGED closed

\* appended fails: the file cannot be opened, or what it wrote is cut back, or stays.
FailWrite(p) ==
    /\ Mishap(CutKind(p, "write_fails"))
    /\ Writing(p) /\ ~NothingToClose(p)
    /\ \/ UNCHANGED <<disk, minted, store>>
       \/ present' = TRUE /\ UNCHANGED <<live, torn, closed, minted>> /\ store' = Outdated(store)
       \/ CutShort(p) /\ store' = Outdated(store)
    /\ Release(p)
    /\ UNCHANGED <<clock, acked>>

\* The process dies, a lock it held with it.
Crash(p) ==
    /\ Mishap(CutKind(p, "crash"))
    /\ pc[p] # "off"
    /\ pc' = [pc EXCEPT ![p] = "off"]
    /\ lock' = IF lock = p THEN None ELSE lock
    /\ job' = IF lock = p THEN NoJob ELSE job
    /\ \/ UNCHANGED <<disk, minted>> /\ store' = [store EXCEPT ![p] = NoStore]
       \/ /\ Writing(p) /\ ~NothingToClose(p)
          /\ CutShort(p)
          /\ store' = [Outdated(store) EXCEPT ![p] = NoStore]
    /\ UNCHANGED <<clock, acked>>

Tick ==
    /\ clock < MaxTime
    /\ clock' = clock + 1
    /\ UNCHANGED <<lock, disk, pc, store, job, acked, minted, mishaps>>

SetBack ==
    /\ Mishap("clock_set_back")
    /\ clock > 1
    /\ clock' = clock - 1
    /\ UNCHANGED <<lock, disk, pc, store, job, acked, minted>>

Next ==
    \/ Tick \/ SetBack
    \/ \E p \in Writers :
          \/ Open(p) \/ OpenTail(p) \/ OpenMark(p) \/ Drop(p)
          \/ Acquire(p) \/ FailToCatchUp(p) \/ AcquireAgain(p)
          \/ Begin(p) \/ BeginAfter(p) \/ Settled(p)
          \/ WriteLot(p) \/ WriteClosingSeal(p) \/ StartOver(p)
          \/ CloseSegment(p) \/ RefuseToClose(p) \/ FailToClose(p) \/ Done(p)
          \/ FailWrite(p) \/ Crash(p)

Spec == Init /\ [][Next]_vars

\* A call that has the lock runs on to its end: nothing in it waits for anybody.
Inside(p) == \/ Begin(p) \/ Settled(p) \/ WriteLot(p) \/ WriteClosingSeal(p) \/ StartOver(p)
             \/ CloseSegment(p) \/ RefuseToClose(p) \/ Done(p)

FairSpec == Spec /\ \A p \in Writers : WF_vars(Inside(p))

-----------------------------------------------------------------------------
(* What the log promises                                                   *)

EventIds(lines) == {e.id : e \in Events(lines)}
OnDisk == EventIds(live) \cup UNION {EventIds(closed[s]) : s \in SegNos}

\* Every variable keeps its type.
TypeOK ==
    /\ clock \in Nat /\ minted \in Nat /\ mishaps \in Nat
    /\ lock \in Writers \cup {None}
    /\ present \in BOOLEAN
    /\ live \in Seq(Line)
    /\ torn \in Line \cup {None, Half}
    /\ closed \in [SegNos -> Seq(Line)]
    /\ pc \in [Writers -> {"off", "opening", "idle", "held", "writing", "renaming"}]
    /\ store \in [Writers -> StoreFields]
    /\ job \in [todo : Seq(Event), asked : SUBSET Nat]
    /\ acked \subseteq Nat

\* An event whose append returned Ok is never lost: not to a crash, a failed write taken back, a
\* torn tail mended, a rotation cut anywhere, or another Store writing to the same directory
\* (write_all's "a batch is durable before this returns").
Durable == acked \subseteq OnDisk

\* The closed segments are numbered from 1 without a gap: contiguous refuses the whole store to
\* every machine otherwise.
Contiguous == \A s, t \in SegNos : t < s /\ closed[s] # <<>> => closed[t] # <<>>

\* A closed segment ends in a closing seal that counts its events, so whole (check_device,
\* read_all) never takes what this machine wrote for a truncated download.
ClosedCountItself ==
    \A s \in SegNos : closed[s] # <<>> =>
        LET last == closed[s][Len(closed[s])]
        IN  last.k = "seal" /\ last.closed /\ last.n = EventCount(closed[s]) /\ last.n > 0

\* Every seal on disk answers for exactly the lines before it, in its own segment and in those
\* closed before: the chain any other machine recomputes never forks, whichever Store wrote.
SealsAnswer ==
    \A s \in Places : LET file == File(s, live) IN
        \A i \in {j \in DOMAIN file : file[j].k = "seal"} :
            /\ file[i].at = i - 1
            /\ file[i].seg = IF s \in SegNos THEN s ELSE NextSegmentNumber(closed)
            /\ file[i].tip = {file[j].id : j \in 1..(i - 1)}
                             \cup UNION {Ids(File(t, live)) : t \in {u \in Places : u < s}}

\* The stamps of a device's events grow in the order they were written, so no two share the sort
\* key read_all drops twins by, and a replay never sees a device act before it did (open: "a
\* clock set back after a rotation would otherwise stamp new events before the ones just closed").
StampsGrow ==
    \A s, t \in Places : \A i \in DOMAIN File(s, live), j \in DOMAIN File(t, live) :
        LET a == File(s, live)[i]  b == File(t, live)[j]
        IN  (s < t \/ (s = t /\ i < j)) /\ a.k = "event" /\ b.k = "event" => Before(a.at, b.at)

\* A closed segment is never touched again: not by a rotation, not by mending.
ClosedStay == [][\A s \in SegNos : closed[s] # <<>> => closed'[s] = closed[s]]_vars

\* Every call that has taken the lock comes to its end, Ok or not, over any number of full
\* segments and rotations somebody else has cut half way (the loop of write_lots; a rotation
\* that finds nothing to close starts over and goes round once more).
CallsEnd ==
    \A p \in Writers : pc[p] \in {"held", "writing", "renaming"} ~> pc[p] \in {"idle", "off"}

-----------------------------------------------------------------------------
(* The inductive invariant the proofs rest on                              *)

\* Only the lock's holder is inside a call.
HolderInside == \A p \in Writers : pc[p] \in {"held", "writing", "renaming"} => lock = p

\* What a call was asked to write is on disk or still to be written.
JobOnItsWay ==
    \A p \in Writers : pc[p] \in {"writing", "renaming"} => job.asked \subseteq OnDisk \cup Ids(job.todo)

\* No number anybody may close a segment under lies past the first free one.
Reached(dir, n) == \A t \in SegNos : t < n => dir[t] # <<>>
SealsReached(dir, lines) ==
    \A i \in DOMAIN lines : lines[i].k = "seal" => Reached(dir, lines[i].seg)
StoresReached(dir, stores) ==
    \A p \in Writers : Reached(dir, stores[p].seg) /\ Reached(dir, stores[p].closing)
SegmentsReached ==
    /\ StoresReached(closed, store)
    /\ SealsReached(closed, live)
    /\ torn \in Seal => Reached(closed, torn.seg)

\* Holds of every reachable state and is kept by every step, whatever the mishaps.
IInv == TypeOK /\ HolderInside /\ Durable /\ JobOnItsWay /\ Contiguous /\ SegmentsReached
=============================================================================
