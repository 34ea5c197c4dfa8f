# Tisty in TLA+

Specifications of Tisty, a local-first notes and tasks app whose state is an
append-only log of events, one log per device, carried between the person's
machines through a shared folder or a cloud. Everything here is translated from
the code under `src/`; line numbers refer to the commit this directory lies
beside. All paths below are relative to the repository (`src/`).

Contents: [the system](#the-system) ·
[modules](#modules-and-the-code-they-stand-for) · [runs](#runs) ·
[bounds and fairness](#bounds-and-fairness) · [proofs](#proofs) ·
[findings](#findings) · [what is left out](#what-is-left-out) · [plan](#plan)

## The system

| part | where | state it keeps | operations | hard parts |
|---|---|---|---|---|
| device log | `crates/tisty-core/src/store.rs`, `store/sealing.rs`, `signing.rs`, `seal.rs` | per device a directory: numbered closed segments, `active.tisty`, `.lock`; per `Store` value the head stamp, event count, segment number, chain tip, mark of the active file | open, append (single, batch, unless settled), seal, rotate, mend, read | several `Store`s of one device in several processes; crashes between the steps of a rotation; torn writes; clocks set back |
| log sync | `crates/tisty-sync/src/segments.rs`, `bringing.rs`, `lib.rs`; `tisty-core/src/answering.rs` | a directory per device in every machine's store and in the shared folder; per round a memo of the files both sides hold alike | push one's own log, bring the others', hand on those of machines that are away | files read without their writer's lock; rounds cut short; a folder that changes or is emptied meanwhile; a machine set back by a backup |
| ledger and vouching | `tisty-core/src/store.rs` (`ledger`), `vouched.rs`, `keepers.rs`, `tisty-sync/src/verified.rs`, `guarding.rs` | machines named, allowed and removed; first key said; memo of what answered | join, remove, publish and rotate a key, vouch for an assistant, adopt | order of events from different logs; a week of adopting; a key rotated while its log is on its way |
| identity of a store | `tisty-core/src/store/identity.rs`, `tisty-sync/src/lib.rs` (`settled`, `kinship`, `stitch`), `place.rs` | the marker of the store here and in the folder | adopt, reset, stitch two stores, take over | a crash between the event that joins and the marker; two newcomers at once |
| replay | `tisty-core/src/state.rs`, `applying.rs`, `parts.rs`, `repeating.rs`, `series.rs`, `stages.rs`, `model/` | tasks, parts, lists, folders, documents, tombstones, assistants | one per kind of event, over the sorted log | concurrent edits; deletion against late changes; folders moved into each other; assistants' limits judged at replay |
| projection cache | `tisty-core/src/cache.rs`, `app/src-tauri/src/session.rs` | a SQLite copy of the state, the fingerprint it was made at, the latest key it took in; the window's own copy | load, catch up, store, touch, adopt | files that grow while they are read; several programs writing it |
| document bodies | `tisty-core/src/docs.rs`, `docs/carried.rs`, `tisty-sync/src/papers.rs`, `held.rs`, `awaited.rs` | a file per body here and in the folder, the print last carried, what is waited for | send, bring, join, settle by hand, wait | a body edited while a round reads it; a body ahead of the log that answers for it; a crash before what was carried is saved |
| merge | `tisty-core/src/merge.rs`, `lcs.rs`, `joining.rs` | none | three-way merge of blocks | nothing of either side may be lost |
| attachments | `tisty-core/src/attach.rs`, `tidy.rs`, `tisty-sync/src/attachments.rs` | files named by content, tombstones | keep, carry, bury, sweep | sweeping what a late event still names |
| cloud | `crates/tisty-carrier`, `tisty-google`, `tisty-onedrive`, `tisty-webdav` | index of the remote, budget of the day, tokens, sealing key | mirror down and up, knock and answer, renew, shift to another cloud | conditional writes, retries, budgets shared by processes |
| sharing | `crates/tisty-envelope`, `tisty-sharing`, `tisty-share-proto` | sealed envelopes | seal, send, open | formats and cryptography |
| backups, parcels, undo | `tisty-core/src/backup.rs`, `parcel.rs`, `undo.rs` | archives | write, restore (a swap of directories), take back a change | a crash in the middle of a swap |
| programs | `crates/tisty-cli` (command line, MCP server), `app/src-tauri`, `app/src`, `packages` | a `Store` each, views | parse, call, show | they run at the same time over the same log |
| formats | `crates/tisty-markdown`, `tisty-nl`, `tisty-help`, `contracts`, `fuzz` | none | parse, print | none a model checker helps with |

How they meet. A program opens a `Store` on its device's directory and appends
events; the window keeps one open (`app/src-tauri/src/session.rs`), the MCP
server opens one per request, the window's host opens one without the key for
an assistant (`app/src-tauri/src/lib_hosting.rs:44`). Everything read is the
replay of all logs in one sorted order, through the cache. A round of sync
(`carry_through`) brings the others' logs from the shared folder, writes its own
there, hands on those it keeps for others, and then carries bodies and
attachments by what the logs say. With a cloud, the folder is a mirror of it.
One round at a time runs per machine (`OneAtATime`, `app/src-tauri/src/lib.rs:629`);
rounds of different machines, and the writers of each, interleave freely.

What has to be true, in short: an acknowledged event is never lost and never
moves; each device's stamps grow; every seal answers for exactly what precedes
it; a copy is always a readable beginning of the original and never shrinks;
all machines end with the same logs; replay depends on the set of events only;
a deleted thing stays deleted; a body written by a person is somewhere.

## Modules and the code they stand for

`DeviceLog`: one device's directory and the `Store`s over it (`Writers`).
`closed`, `live`, `torn` and `present` are the files: the closed segments, the
whole lines of `active.tisty`, what stands after its last newline, and whether
the file is there. `lock` is `.lock`. `store[p]` has the fields of `struct Store`
that decide anything: `head` (stamp and counter), `count` (`active_events`),
`seg`, `closing`, `covers` (tip and position), `seen` (the `Mark`). `pc` and `job`
are the call in progress. One action per thing the code does: `Open` (with
`mend`), or `OpenTail` then `OpenMark` when a writer comes in between; `Acquire`
(lock, mend, `catch_up`), `FailToCatchUp`, `AcquireAgain`; `Begin` and
`BeginAfter` (`append`, `append_batch_unless`); `WriteLot`, `WriteClosingSeal`,
`CloseSegment`, `StartOver` (`write_lots`, `rotate`, `closed_as`); `Done`;
`FailWrite`, `Crash`, `SetBack` for what goes wrong.

- A line stands for its bytes by an `id`; a chain tip is the set of the ids it
  was folded over. Two different histories have different sets, which is what
  a collision-free hash gives.
- A write call is one step. A crash or failure inside it leaves any number of its
  whole lines and then nothing, half a line, or a line without its newline.
- `seen` is "now", "absent" or "old": a modification time is taken to differ from
  write to write.
- Left out: files written before schema 17 (`.sig`), the `.torn` file a half line
  is moved to, refusal of a newer schema, the `overtaken` flag, waiting for the
  lock in vain (a step that changes nothing), `append_event` (tests only),
  mending that itself fails.

`AppendLog`: what a reader of one device's log may see, in two actions.
`DeviceLogReading`: `read_all` over the files of `DeviceLog`, shown to implement
`AppendLog` with `log` the events in the order of the files and `told` the
acknowledged ones.

`LogCarry`: the log of one `Owner`, the machines that keep copies (`Keepers`) and
the shared folder. A directory is its closed segments and the last event of
its active file; the events are numbered in the order `DeviceLog` proves they
keep. `round[m]` is how far a machine is in `carry_through`: `Begin` (the memo
`Alike`, is there something to bring), `Stage` (one file copied aside), `Check`
(the chain of the staged copy answers and it is no shorter), `Install` (one file
into the machine's own store), `Give` (is there something to give), `Push` (one
file into the folder). The owner's branch of `bring` and the handing on of
`hand_on_leaving` are in the guards (`OursWentMissing`, `OursReachesFurther`,
`Gives`). `known` is the memo, read at `Begin`, used until something was copied.

- A file is copied beside its name and renamed (`laid`): one step. A directory is
  copied file by file in the order of `segments_in`, closed ones first.
- Full segments have the same size, so a closed file is known by its number. A
  rotation and the write after it are two steps here, as a reader may come in
  between; a line still being written stays behind (`copy_lines_onto`), so the
  active file always ends with a whole event.
- Whose key answers is not modelled: the owner's key is known and confirmed
  everywhere. The owner writes only while its whole history is there.

`Papers`: the body of one document on every machine and in the shared folder. A
body is its blocks, a block the number of the edit that left it so. `carried`,
`kept` and `aside` are the ledger's print, the base of a join and the copy set
aside; `knows` and `shelf` the notes of the log by which a print answers. A round
is `Begin`, `Look`, one branch of `carry_papers_leaning_on` (`LeaveToTake`, `Agree`,
`HoldBack`, `Send`, `Unanswered`, `Bring`, `LetBe`, `Join`, `CannotJoin`) and `End`,
which alone writes down what was carried; `Moved` is the decision table of
`docs::moved`. `Edit` may come between any two of these; `Untouched` is the code's
second look before it writes. `KeepTheirs`, `KeepMine`, `KeepBoth` are the person's
three answers. `over` is a history the program does not keep: what was written or
chosen over what, in each block.

- `Merged` stands for the three-way merge by its result, block by block.
- Log rounds are folded into `Begin`; settling by hand is checked and copied in one
  step. Left out: the ledger's lock, `behind`, `shut`, vouching and `Waits`,
  placeholders and empty files, `Way::Again`, attachments, a body deleted by hand here.

`Shelves` and `Turns`: what `State::apply` makes of one event after another. A log
is judged where it was written and replayed where it also holds what others
wrote before and after, so any event may follow any other: the next-state
relation is every event, guarded by what the replay itself refuses and nothing
else. `Shelves` has `folders`, `docs` and `gone` (tombstones), an action per event on
folders, documents, pages and languages; `Turns` has `tasks`, `words` (the documents
with a task's words, named for the task) and `gone`. An identity is made once and
may be named after it is deleted.

- `Above` and `Turn` are the walks up the folder tree and down the chain of turns,
  as the least set closed under one step.
- Left out: names, orders, colours, locks, flags, signatures; dates, lists, steps,
  the journal, the door that turns away what an assistant may not write.

`Stitching`: whose history a folder holds. `mark` is the marker of every store and of
the folder, `device` and `has` the logs a place holds and how far, `said` the
`StoresJoined` events in each log, `carried` where a machine has carried to, `doing`
its round: `Begin`, `Take`, `TakeLate` (a log the folder shows late), `Name`, `Give`. The
doors of a folder of another name are `StitchKin` and `StitchStrangers` with
`Renamed` after them (the event first, the marker next), `StartAnew` (`set_aside`)
and `TakeOver`.

- Left out: `Kin::Clash` and `Unsure`, machines removed, admission, documents and
  attachments, the steps inside a take-over, seats said in the seam, `note_carried`
  (lib.rs:557) as a step apart from `Give`.

`Projection`: `cache` is the database (`print` its fingerprint, `kept` its rows, `last` its
`last_key`), `files` the logs,
`pc`, `looked`, `got` and `tail` a projection on its way in each program: `Look`
(fingerprint), `Load`, `CatchUp` then `Reach` (`caught_up`), `ReadAll` then `Store`, and
`Mark`, which is outside the transaction. `session` is the window (`shown` its rows, `seen`
the fingerprint it stands at, `behind`, and `pending` the line between its two ends of
a command): `Commit` and `CarryOn` (`advance`), `Adopt`, `FellBehind`. A file is the set of
its lines, as each is stamped after those before it, and a length is what the file held then.
A row is the keys of the lines that reached it for as long as they were applied in the order
of the sorted log, and `Wrong` for good once they were not: `apply` of a log entry or a step
pushes, so a line applied twice or out of order shows.

- The readings inside `caught_up` are one step, and so are the two ends of `advance`
  after the fingerprint. A rotation, which changes the number of files and so makes
  every program read the whole log, is left out, as are the schema, cards and gists,
  a busy or unusable database, and the window closing.
- `Mishaps` names four interleavings nothing in the code prevents; each alone breaks
  `CacheAnswers` and `WindowAnswers`, `written_in_between` with five lines and the others with fewer (see
  [findings](#findings)).

`Mirror`: a store in a provider's cloud and the copy of it each machine keeps
(`cloud/mirror.rs`, `cloud.rs`, `cloud/index.rs`). Three files stand for the store: the
history of one machine, a document, and the word on the place's shape. `remote` is what
is up there, each file with its revision, `touched` and `clock` what the provider tells
since a cursor; `tree` is the copy on disk, `index` and `saved` the index in hand and as
written down, with the cursor, the files `known` and those `owed`, and `emptied` the mark
of a store deleted whole. A round is `Pull` (begun by `Begin`, `BeginLook`, `BeginBehind`,
`Settle` or `Again`), a file after another by `Learn`, `Fetch`, `FetchBroken`; then
`Refuse` or the work: `Carry`, `Look`, `KeepMine`, `KeepTheirs`; then `Put`, `PutRefused`
for each file that differs, `EndPush`. `FetchCut`, `PutCut`, `PutUnanswered` and `Crash`
end it early; `Drift` and `DeleteAll` are done up there by somebody else.

- A body is the set of edits it was written with. Equal content is equal hashes, so the
  provider is taken to say hashes; length and time only spare the hashing.
- `Outcomes` says in short what `Papers` says in full: what a round makes of the two
  versions, a join included, when the history that answers is there.
- A read that meets a limit, a wait, a lost connection or a spent budget is `FetchCut`; the
  same for a write is `PutCut`.
- Left out: files of the copy lost by hand (`heal`), sealed roots, the bar of a newer
  shape and raising an older one, deletions of single documents, attachments,
  `Keep::Both`, the history of the other machine, what is set aside before a body is
  replaced (`Papers`).

The `MC` modules add the symmetry sets for TLC. Definitions whose
comment begins with "Mutant" are not part of the specification: they are faulty
variants of the definition that follows, kept to show which property notices.

## Runs

| run | question | properties |
|---|---|---|
| `log_shared` | two Stores by turns, one of them without the key: a crash (also between the halves of a rotation), a failed write, a clock set back | `TypeOK`, `StampsGrow`, `ClosedCountItself`, `SealsAnswer`, `CallsEnd` |
| `log_troubled` | every mishap but the clock's, including those that break the promises above | `Durable`, `Contiguous`, `ClosedStay`, and the refinement `ReadsAppendOnly` |
| `carry_converges` | are copies safe whatever happens to the folder, do owner and copy end alike, does an owner set back get its lines back | `TypeOK`, `CopiesAreHistories`, `CopiesGrow`, `Converges`, `TakenBack` |
| `carry_hands_on` | the owner gone, the folder emptied | `FolderIsAHistory`, `HandedOn` |
| `papers_safe` | two machines write in one document; a round is cut, the folder's file lost | `TypeOK`, `EveryEditStands`, `OnlyOverWhatItKeeps` |
| `papers_converge` | do the machines come to hold one body | `Converges` |
| `shelves_hold` | any event on folders and documents after any other | `TypeOK`, `NoLoops`, `GroupsStand` (`PagesStandInTheirDocument`, `LanguagesOneDeep`), `NothingLetOut` (`KeptOnDeleting`, `KeptOnUnhanging`) |
| `turns_hold` | the same for tasks, parts, turns and words | `TypeOK`, `PartsStandInTheirWhole`, `WordsHaveATask`, `LaterTurnsKeepTheirWords` |
| `stitching_comes` | three stores and one folder, emptied, named late or given up | `TypeOK`, `JoinsAreTold`, `ComesToOneStore` |
| `cache_holds` | the window and another program over one cache, lines arriving, a program killed | `TypeOK`, `CacheAnswers`, `WindowAnswers` |
| `mirror_holds` | two machines over a cloud that refuses, forgets to answer, moves files, tells late and is deleted whole | `TypeOK`, `FallsSilent`, `NothingTakenBack`, `AskedOnlyOverTwo`, `HistoryGoesFirst`, `Converges` |
| `mirror_settled_late` | the person keeps their version while another one is on its way | `NothingTakenBack`, violated |

Reading the split between `log_shared` and `log_troubled`: `StampsGrow`,
`ClosedCountItself` and `SealsAnswer` do not hold when
`open_overlaps`, `read_fails` or, with a second Store, `crash_after_rename`
happen; these are under [findings](#findings). Without them they hold, and
`crash_after_rename_alone` (nobody else was open across the crash) is among what
`log_shared` allows. `Durable`, `Contiguous`, `ClosedStay` and the refinement hold
whatever happens, and the first three are proved of any number of Stores; `StampsGrow`,
`ClosedCountItself` and `SealsAnswer` are proved under `Calm`, which is this split. Larger instances of the
former were run without a counterexample: three Stores, two of them with the key
(722,382 states), and one Store with two mishaps (303,845).

Likewise in `LogCarry`: the safety of copies holds under every mishap, and so does
agreement in the end while everybody's rounds go on. The three safety properties were
also run with two keepers, three events and every mishap (549,324 states).
`FolderIsAHistory` needs the folder not to be emptied in the middle of a round
(the memo would let a push skip closed files that have gone) and the owner not to
rotate between the files of a push; in both cases the owner's next round puts it
right, which is what `Converges` checks with those mishaps among the others.
`HandedOn` needs the same, as its owner may not come back. `TakenBack` holds after
one mishap of any kind; with the folder emptied while the owner is set back, the
owner's push and a keeper's handing on can undo each other for as long as they
happen to meet, and TLC finds that cycle.

What the other passing runs leave out on purpose, each under
[findings](#findings): `papers_safe` two sends at once and a folder's file lost
while another machine is a version behind, `turns_hold` two names for the words of
one routine (`Crossed`), `stitching_comes` rounds of two machines at once (`AtOnce`),
`cache_holds` the four interleavings of `Projection`, `mirror_holds` a version that arrives
while the person settles (`settled_late`) and a store deleted while a round has a new file
to send (`deleted_under_a_new_file`).

What the new ones show. `papers_safe`: a body weighed long before it is replaced is
never replaced if it was edited since, and whatever way two versions are made one,
each edit is in some file until the person writes or chooses over it.
`shelves_hold`: the checks at replay are enough for the folder tree and the page
trees although every check at writing may be out of date; `Deepest` is not exceeded by
moves, though it can be by additions (below). `stitching_comes`: the event is written
before the marker, so a crash in between asks the person once more and the second
stitch tells it again; no join is silent. `cache_holds`: the fingerprint taken before
the reading, the latest key that only goes up and the check of a tail against it
together make up for a reading that saw more than its fingerprint says and for a
slow program that stores an older projection over a newer one. `mirror_holds`: writes over
expected revisions are enough without a lock. What came over an unsent change is never
taken for news of an untouched document (`forget_base`), a write of ours that the provider
moved is not taken for another's (`ours_still`), a refusal is not repeated for ever
(`read_again`), and two machines with nothing new never answer each other's writes
(`FallsSilent`: `MaxWrites` is the least number that holds).

## Bounds and fairness

`SegmentMax = 2` (`SEGMENT_MAX_EVENTS` is 5,000) with batches of up to 2 makes a
batch meet the limit at every position: exactly full, one short, split over two
segments. `MaxLines` is the number of lines ever written, seals included, and
`MaxSegments` that of closed segments: 5 and 6 lines give a rotation with another
writer on either side of it, which is what every mutant needs; two rotations with
lines after them take 7, and were run apart without a counterexample
(`log_troubled`, 512,720 states; `log_shared` with 8 lines and a clock that
stands still, 294,263). `MaxTime = 2` in `log_shared` lets the clock advance, stand still and
go back around an event and around a rotation; in `log_troubled`, whose properties
do not read the stamps but for the order of what is read back, it stands still.
The last representable instant (`after`, store.rs:345) is reached by no run. `MaxMishaps` of 2
covers a failure and a second one while recovering (`log_troubled`);
`log_shared`, where every call is followed to its end, gets one.

In `LogCarry` `SegmentSize = 2` and 3 or 4 events give a closed segment, an active
one, and a left over active file whose closed one has arrived; two keepers are
needed for handing on, one is enough for agreeing with the owner and for
restoring it.

`Papers`: two machines, two blocks and two edits are what it takes to differ in one
block or in two, with a machine whose clock is ahead (`Fast`) so that the order of the
notes and that of the edits disagree; one settling and two notes leave every branch
of the decision table reachable. `Shelves`: three folders and three documents make a
chain with a middle, a page of a page refused, a group of three languages;
`Deepest` is the code's own 4, out of reach of three folders except as the bound of the
walk. `Turns`: three tasks, a routine with two turns after it or a whole with two parts.
`Stitching`: two machines that write and one that only carries, one reset and one door,
one mishap. `Projection`: one line said by each of two devices and two more, at three
instants: a tail that is older than what is cached, a line after the
fingerprint, two files grown; every mutant needs no more. Five lines (3.6 million
states) were run once for the first version of the module without a counterexample.
`Mirror`: two machines, one document that is new at the start, two things written (a
deletion of the store counts as one), one settling and one mishap: 523,566 states. Nine
changes in the cloud are enough for all that and eight are not. `Drift` happens between
rounds: within one it looks like another machine's write, which the others' pushes are.
Only the document drifts in the run, as the history and the word on the shape are never
weighed against a version of the machine's own; the proofs let any file drift.
`mirror_settled_late` needs a third edit, the one nobody was shown. `AskedOnlyOverTwo`, which `mirror_holds` checks with two, was run apart
with three (cut, drift, lag, look, a document there from the start or not, up to 2,663,411 states).

Fairness. `DeviceLog!FairSpec`: a Store inside a call goes on to the end of it;
nothing in a call waits for anybody, so this says only that a thread is run.
Taking the lock and starting a call are not fair. `LogCarry!FairSpec`: every
machine's round goes on and another one begins after it, as the app's timer and
watcher do; `FairToKeepers` leaves the owner out, who may be gone. `Papers!FairSpec`:
the same for the rounds over bodies, and the hour a body waits for its history
passes. `Stitching!FairSpec`: a round or a stitch once begun goes on, and a person who
is asked again and again comes back to it (strong, as other machines' rounds take
the question away and bring it back). `Mirror!FairSpec`: each machine's rounds go on and begin again, as the
app's pace over a cloud does; sending everything again to a deleted store is the person's
choice and not fair. Nothing is assumed of writes, edits, settling, rotations or mishaps.

`CHECK_DEADLOCK FALSE`: in `LogCarry` a machine set back to nothing with
an empty folder, and bounds reached, leaves nothing to do but rounds that change
nothing; in `Papers` everybody may be agreed with no edit left; in `Shelves` and
`Turns` every identity may be used up and deleted; in `Projection` the lines may be
used up with everybody up to date; in `Mirror` a store deleted whole that nobody sends
again. The flag only spares these ends. The runs of
`DeviceLog` and `Stitching` check deadlock.

## Proofs

All by `tlapm`, down to the last leaf, from the named assumptions of each module
(`WritersAssumption`, `SizesAssumption`, `ShelvesAssumption` and so on, which say that the
bounds are numbers and the sentinels are none of the data; TLC evaluates them in every
run). Nothing is said of the size of the sets, of the bounds or, unless noted, of which
mishaps may happen: a theorem is about any number of machines and any length of history.

| module | theorems | states, of the runs' properties | hypotheses |
|---|---|---|---|
| `DeviceLogProofs` | `TypeCorrect`, `AlwaysIInv`, `NothingAcknowledgedIsLost`, `NoGapInTheSegments`, `ClosedSegmentsStay`, `TheLogOnlyGrows` | `TypeOK`, `Durable`, `Contiguous`, `ClosedStay`, `ReadsAppendOnly` | none |
| | `EverySealAnswers`, `ClosedSegmentsCount`, `StampsAlwaysGrow` | `SealsAnswer`, `ClosedCountItself`, `StampsGrow` | `Calm` |
| `LogCarryProofs` | `TypeCorrect`, `CopiesStayHistories`, `CopiesNeverShrink`, `FolderStaysAHistory` | `TypeOK`, `CopiesAreHistories`, `CopiesGrow`, `FolderIsAHistory` | the last one: `FolderLeftAlone` |
| `ShelvesProofs` | `TypeCorrect`, `NeverInsideItself`, `GroupsAlwaysStand`, `ArchiveKeeps` | `TypeOK`, `NoLoops`, `GroupsStand`, `NothingLetOut` | none |
| `TurnsProofs` | `TypeCorrect`, `PartsAlwaysStand`, `WordsPassOn`, `WordsAlwaysRead` | `TypeOK`, `PartsStandInTheirWhole`, `LaterTurnsKeepTheirWords`, `WordsHaveATask` | the last one: `Crossed = FALSE` |
| `PapersProofs` | `TypeCorrect`, `NothingWrittenIsLost`, `ReplacedByWhatKeepsIt` | `TypeOK`, `EveryEditStands`, `OnlyOverWhatItKeeps` | all but the first: `Quiet` |
| `StitchingProofs` | `TypeCorrect`, `EveryJoinIsTold`, `HeldUnderJoinedNames` | `TypeOK`, `JoinsAreTold` | all but the first: `~AtOnce`; the second also `MaxResets = 0` |
| `ProjectionProofs` | `TypeCorrect`, `CacheIsTheLog`, `WindowIsTheLog` | `TypeOK`, `CacheAnswers`, `WindowAnswers` | all but the first: `Mishaps = {}` |
| `MirrorProofs` | `TypeCorrect`, `WritingStays`, `OnlyOverTwo`, `HistoryFirst` | `TypeOK`, `NothingTakenBack`, `AskedOnlyOverTwo`, `HistoryGoesFirst` | all but the first: `AsShown`; the last also `"look" \notin Mishaps` |

The hypotheses are what the runs leave out too, each for a counterexample under
[findings](#findings): `Calm` that no Store reads the tail while another writes, no read of
`catch_up` fails with the lock kept, and no rotation is cut between its rename and the next
line while another Store is open - crashes, cut and failed writes anywhere else, and a clock
set back are all in; `FolderLeftAlone` that the folder is not emptied inside a round and the
owner does not rotate between two files of a push; `Crossed = FALSE` that two machines do
not name the words of one routine after different turns; `Quiet` that no two sends of a body
meet in the folder and its file there is lost only where every machine has it - rounds cut at
any step are in; `~AtOnce` that no two machines' rounds at a new folder overlap; `Mishaps = {}` that none of the
four interleavings of `Projection` occurs, as each alone breaks both promises; `AsShown` that
no version arrives in the pull of a settling and no new file goes up as the store is deleted;
`"look" \notin Mishaps` that no round only reads and sends (see below).

`MaxResets = 0` is more than `stitching_comes` leaves out, and the proof is what showed that it
is needed: a join stands only as long as its event does, and who starts anew takes their log
with them. Four machines are enough to lose one. A second joins a folder to its store by an
event and carries it; the third, which holds only the beginning of that log, takes the new name
in silence as kin; the folder is emptied, made again under a fourth name, and the second starts
anew. The third then stitches what it has to that folder, everybody agrees on one store, and
the name its log began under is reached from none of the others. TLC replays this when given
the steps one by one; the run, with three machines and one mishap, does not come to it. The
folder emptied twice and a store given up between are all the person's own doing.

That no round looks again (`looked_again`) is more than `mirror_holds` leaves out too, which
lets one such round happen but nothing else go wrong with it. Looking for an invariant is what
brought up why: the pull puts the history of the cloud over one in the copy that has not gone
up, since only a document of the copy is taken for unsent (`pending`). A round that
carries writes it there again before it sends, one that looks does not. An edit is carried, the push is cut
before its first file, the provider moves the history to another revision, and the next round
looks: it fetches the history as it was and sends the document without it. The other machine
then has the document before the events that answer for it, and waits for them; the next round
that carries sends them. TLC finds it with those three mishaps, and the same with an unanswered
write and a late word from the provider instead of the moved file.

The arguments.

- `DeviceLog`. `Durable` alone is not inductive: `Done` acknowledges what `job` asked for,
  so every event asked for has to be on disk or still to do (`JobOnItsWay`), which in turn
  needs that only the lock's holder is inside a call (`HolderInside`), or somebody else's
  call could change the job. `Contiguous` needs that no closing seal, no `closing` a Store
  remembers and no `seg` it is about to use is past the next free number, on disk, in torn
  lines and in memory. `IInv` is the conjunction; `InitIInv` and `StepIInv` are its two
  halves, one lemma per group of actions, and `DiskGrows` (no step takes an event off the
  disk) carries `Durable`. TLC checked `IInv` on the instance of
  `log_troubled` before the proof.
- `DeviceLog`, what its files say. The three promises rest on each other and on what every
  Store remembers, so they are proved together, of the active file as it will be once mended
  (`Mended`): `Sound` puts them in one, of any directory and any file. `TipIsAll` says that the
  chain folded on from the last seal that answers is that of all lines, so a Store that catches
  up by it seals rightly; `EventsFollow`, `ASealFollows` and `CutFollows` that what a call
  writes, and any part of it that a cut leaves, keeps the files sound; `ClosingKeepsTheLog` that a
  rename only moves the file under the first free number. Around them `Chain` holds what the
  Stores know: inside a call a Store stands where the files stand (`CallOk`); between two calls
  it does if the mark it took still matches, and if the active file has no event to catch up
  with, its head is not behind those closed (`IdleOk`). The moment after a rename is where that
  would fail (`Quiet`), and a cut at that moment is what `Calm` leaves out. `Chain` has one
  lemma per action; TLC checked it on the instance of `log_shared` before the proof.
- `DeviceLog` as an `AppendLog`. What `read_all` finds is the closed segments one after the
  other (`ReadClosed`) and behind them the active file as mending will leave it (`ReadingIs`). A
  step either has the next of what a call was to write read, and keeps or gives up the rest, or
  puts fresh events before a call, and changes nothing else of it (`Forward`): a seal is not
  read (`SealOverUnread`), a lot is the head of what is to do (`SaidIsRead`), a cut leaves a beginning of
  it (`CutReads`). A rotation moves the active file to the end of the closed ones or, where that
  segment has the same bytes already, drops it, and then it must be shown that no event was in
  it: it would be there twice. So the invariant `RInv` adds to `IInv` that nothing read or
  still to be written is there twice, nor is any of it yet to be minted (`OnceEach`), and that who
  holds the lock has no torn tail before him (`TornIsMended`). That `told` is in `log` is `Durable`. What a
  recursive function over lines or files computes is shown by induction, the set of the
  numbers, or of the lines, for which it holds standing for a predicate (`AllNumbers`,
  `AllLines`). TLC checked `RInv` on the instance of `log_troubled` before the proof.
- `LogCarry`. That a machine's copy is a history between any two files installed needs to
  know what it installs from: `Installs` says that what was staged is a history which holds
  every event that is here and whose closed files are here or still to come. `bring` makes
  it so by checking the staged copy before the first file (`AcceptedHoldsOurs`); the order
  of the files keeps it (`CopyKeepsTheChain`, `CopyKeepsTheEvents`, about any directory and
  any file). The memo may name only closed files that are still there. For the folder, the
  same of a push (`Pushes`): what it set out with has no gap, and what is closed of that
  stands there or is still to copy. The arithmetic of segments is in the first lemmas.
- `Shelves`. `NoLoops` speaks of `Above`, a least closed set, which says nothing of a step by
  itself. `NotInItself` says the same of the tree as a whole, with a set closed upwards
  as the witness that a folder is not above another, and one step can be followed on it.
  `GroupsStand` is inductive with the types. `NothingLetOut` compares two states, and its proof
  is of the walk: deleting a folder lifts what was in it one step up, so what the walk found
  within `Deepest` is found after, or was found at the folder that goes and is written down.
- `Turns`. Parts need only the types. Words need that turns follow what was made before
  them, in no circle (`NoCircle`), or the first turn that still stands would not be there to find;
  that a task with words of its own follows nothing that stands (`OwnWords`); and that words of a
  task that is gone are those of a turn (`WordsAreFollowed`).
- `Papers`. A body *covers* another if every edit that one has, or was made over, it has, was
  made over, or was given up (`Covers`); it is an order that only grows with the history
  (`CoversGrows`), and what is written, chosen, joined or put beside covers what it replaces.
  The invariant is what a round may rely on however old what it read is: every print a ledger
  or a round remembers is covered by the folder's body, or by every machine's where the folder
  has none, and by the machine's own (`Beneath`); a round on its way to send has a body that
  covers the folder's, and no other is on its way to send (`SendsStand`). So what equals the
  print last carried may be replaced, and a join on that base keeps both sides. Each action is
  shown to move every file onward (`Goes`), from which both properties follow: every edit ever
  written is in a machine's body, in the folder's, or given up, the copies set aside not needed.
- `Stitching`. That names are joined is said without a walk: no set of names that every event
  respects parts them (`Joined`), so one step can be followed. The invariant says of everything
  held what `JoinsAreTold` says of machines that agree: all that one log says it says under
  names joined to its first (`OneLogOneStore`); a place that holds any of a log goes by a name
  joined to that (`HeldUnderItsName`); a round keeps to the name it settled on, and the folder
  with it (`RoundsKeepTheirName`); and between the event of a stitch and the marker after it the
  two names are joined already (`StitchesAreWritten`). `OneAtATime` is where `~AtOnce` comes in.
  TLC checked it on the instance of `stitching_comes` before the proof.
- `Projection`. Rows are followed between two sets of lines (`Holds`): those they must have,
  which is what a fingerprint says, and those they may have, which is all there are, since a
  reading that began with a fingerprint may well find more. Where both are the whole log the
  rows are the replay (`HoldsWhole`). A tail lands in the right place because nothing in the
  cache is past its latest key, unless a mark is still to come (`KeptInv`); what is written
  row by row makes the whole of what the program has in hand, because the cache stays as the
  program read it until then (`HandInv`); and a window that adds its own line has all others
  and so has the cache (`ShownInv`). Each of the four mishaps takes away one of these. TLC
  checked the invariant on the instance of `cache_holds` before the proof.
- `Mirror`. A machine writes over the revision it knows, so what it knows must still be told
  of the cloud: `SeesWhatWas` says that all it has of a file, in its index, the index as saved,
  what it owes and what is on its way, is there, or was, and that the cloud has since gone on
  from it without losing an edit but those given up (`Old`). `CopyHoldsTheKnown` ties the copy
  on disk and what was carried to that, `ShownAsItIs` what a settling puts over what to what the
  person was shown. Each machine's step is shown to move the cloud onward (`Onward`) and to
  keep its own part (`Goes`); the others' parts follow from `Onward` alone. `Kept` and its
  parts were checked by TLC on the instance of `mirror_holds` before the proof.
- `Mirror`, the history first. The order of push helps only if the copy the round sends from is
  in order. `Written` says that a machine has of the history what the owner wrote, and all that
  answers for its own document; `CopyAnswered` that the document in its copy is answered for by
  what it has of the history, or came from the cloud (`FromTheCloud`): it is then a version at
  a revision the cloud has only gone on from, later than any the machine knows it by, and sent
  over a revision the machine knows it is refused. `GoesUpAnswered` says the same of a push, and
  that the history has gone up where it is not still to go and nothing was refused. That a pull
  may bring a document before the history that answers for it is why the second case is needed.
  TLC checked the invariant under several sets of mishaps before the proof.
- `Mirror`, asked over two. What the promise leaves out (`Unhidden`) is in the property itself.
  A question whose one side has all of the other would come of a print last carried that is
  forgotten, or of one that says less than it should. So the invariant says whose the
  differences are: what a document has over that print, and what a change in the copy that has
  not gone up has over the version the machine knows, is on no other machine and not in the cloud
  (`OfOne`, in `DiffersByItsOwn` and `UnsentIsOurs`). The print is forgotten over a change that
  has not gone up only while a version that differs is still to be learned (`StillOwed`), and a
  round that carries learns it first, a later one that holds what was known (`LearnsOn`). What it
  brings was written elsewhere, the change is the machine's own, and so each side has what the
  other lacks. A step lets nothing into a machine's document, copy or the cloud that was in none
  of the three (`Flows`), which keeps the others' own their own. A read that breaks lets the
  round go on to carry with the print forgotten and the version not learned (see
  [findings](#findings)). TLC checked the invariant under several sets of mishaps before the
  proof.

What stays with TLC, and why:

- liveness (`CallsEnd`, `TakenBack`, the `Converges`, `HandedOn`, `ComesToOneStore`): ENABLED
  and fairness are beyond the prover;
- `FallsSilent` of `Mirror`, a count of a whole behaviour, where no number but the least that
  holds would say anything.

## Findings

One is a run that TLC ends with a counterexample.

`mirror_settled_late`: two versions of a document differ and the person, who was shown both,
keeps the one here. `settle_paper` (papers.rs:724) makes sure that the other version still
is the one shown by `paper_print`, which over a cloud reads the copy on disk; `settle`
(cloud.rs:909) then goes through `only` and `with_mirror_along`, which pulls first. A version
the other machine sent in the meantime arrives in that pull, `Keep::Mine` copies ours over
it (tisty-sync/src/lib.rs:990) and the same round sends it up. The other machine, told that
this print is the newest, takes it over the edit nobody was shown. `locales.ts:1649`
promises the contrary: it "changed again on another machine while you were deciding, so it
was not settled".

The following were seen while modelling, by enabling what the passing runs leave out;
they have no run of their own.

- cache.rs:812 to 820: `advance` stamps the cache with the fingerprint of all the files after
  the window has written its own line. A line of another device that came since the window
  last looked is then in the fingerprint and in no row: every program that loads the cache
  is given the gap, and the window, which remembers the same fingerprint, does not look
  again. session.rs:1011 says such a state "must not stamp the cache as current", but
  `Store::overtaken` notices only writers in the window's own log. Commands that write
  without reloading first (`answers/shelves.rs:27`) leave room for it until the window is
  next redrawn (`unseen_line` in `cache_holds`, `CacheAnswers`).
- mirror.rs:73 to 86: a store deleted whole is recognised only if a machine's next reading
  shows nothing left. Where a round had a new document to send as the store was deleted,
  it lands alone, the others' readings then show something there, everything else is read
  as deleted file by file, the word on the shape with it, and from then on every round of
  every machine is refused as `Unshaped`. remote.rs:42 says of such a deletion that it "is
  never read as each file deleted" (`deleted_under_a_new_file` in `mirror_holds`,
  `Converges`).
- mirror.rs:343 and 351: a machine carried an edit into its copy, the push was beaten by the
  other machine's, and the person writes on. The next pull finds the other's document over a
  change that had not gone up, forgets the print last carried (`forget_base`) so that the person
  will decide, and only then downloads; the download breaks, and the document waits for another
  round. The round carries all the same: nothing says any more which of what is here and what is
  in the copy is older, and the person is shown two versions of their own, one of which holds
  all of the other. guide.md:415 says what is shown side by side is what both machines wrote. Nothing is
  lost, as a later round brings the other version and asks again. It came up when an
  invariant for `AskedOnlyOverTwo` was looked for, which therefore leaves a read that breaks out
  (with `broken` let in, and three edits, TLC finds it).
- store.rs:76 and 84: `open` reads the tail without the lock and takes its mark
  afterwards; lines written in between are never counted, and the segment is
  closed with a wrong count (`open_overlaps`).
- store.rs:226: `locked` returns early when `acquire` fails after it has taken the
  lock, and the Store keeps it (`read_fails`).
- store.rs:212: `catch_up` looks for the newest stamp in the active segment only,
  `open` also in the last closed one (`crash_after_rename`); and store.rs:1160: a missing
  active file gives the same mark before and after another Store has filled and
  closed one.
- segments.rs:388 to 401: a keeper compares, the owner pushes into a folder that was
  emptied, the keeper copies its older active file over it. The owner's next round
  repairs it.
- segments.rs:89: the owner's files are listed and copied without its lock; a
  rotation in between leaves the folder with a gap that no keeper fills while the
  owner is away (`rotated_under_a_push` in `carry_hands_on`).
- papers.rs:244 to 252: two machines' rounds weigh the same body in the folder and both
  send; the second goes over the first, whose machine later brings the newer body
  without joining it or setting its own aside, and its edit is in no file
  (`sent_over` in `papers_safe`). docs/help/Sync-and-Backup.md:46 says "both land with
  nothing to answer. Only a real overlap becomes a question".
- papers.rs:175: the folder's file is missing while another machine holds an older
  body: it sends that, noted as the newest, and the first machine takes it over its own
  edit (`lost_while_behind`).
- applying.rs:529 to 536: a page taken out of a document in an *archived folder*
  is let out, when another machine archived that folder meanwhile; the same for an
  archived *document* holds (`KeptOnUnhanging`).
- state.rs:111 to 128: adding a folder is not judged by depth at replay, so chains
  made on two machines can be deeper than the walk of `folder_away`, which then misses
  an archived folder at the top.
- task_docs.rs:83: two machines name the words of one routine, one for the first turn
  and one for a later one; deleting that turn leaves its words with no task
  (`Crossed`).
- lib.rs:402 to 405: two newcomers at a new folder both pass `settled`, and the second's
  name is written over the first's. The first is later stitched as of the same lineage,
  with no `StoresJoined` event, so `forebears` never say so (`AtOnce`).
- cache.rs:1025 to 1030 and 894: the latest key is marked after the transaction; a program that
  catches up in between, or after a crash in between, takes in again what the
  cache already holds (`unmarked`).
- cache.rs:876: a step is added to whatever the cache holds by then; where another
  program's slow projection stored an older one meanwhile, the cache is called current
  with what lies between missing (`written_in_between`).
- cache.rs:991 compares a tail with the latest key before applying it on top;
  session.rs:991 applies the window's own line on top without comparing, so after a
  line from a machine with a faster clock the cache differs from the replay until it is
  next thrown out (`clock_behind`).

## What is left out

Not modelled: the ledger of keys and vouching, how a merge cuts and aligns blocks,
attachments, what `Mirror` leaves of the cloud, sharing, backups and parcels (but for `set_aside` and
`take_over`), undo; the reasons and the order are in the plan and in
`PROJECT.json`. Not to be modelled: the front end, formats, providers'
HTTP, cryptography, archives' contents. In the parts that are modelled, besides what
their modules' entries say:

- the file system is taken to keep what `fsync` returned for and to rename in one
  step; modification times differ from write to write;
- liveness of taking the lock: the code gives up after a time and the caller is told;
- a forked log (an owner that writes after having been set back): who then answers
  for which branch is a question of vouching;
- revisions and hashes that a provider does not say: equal content is recognised;
- placeholders of a cloud folder (`holes`), which make a round wait for its files.

## Plan

1. `DeviceLog`, `AppendLog`, `DeviceLogReading`, their proofs, `LogCarry`,
   `Papers`, `Shelves`, `Turns`, `Stitching`, `Projection`, `Mirror` - done as far as
   described.
2. Proved: what the table under [proofs](#proofs) lists, which is every safety property of the
   runs but `FallsSilent`, the refinement of `AppendLog` included.
3. `Ledger` and `Vouching`: which key answers, the first key said, removals from
   different logs, adopting, forks.
4. `Merging`: the merge of blocks against a reference definition over bounded
   inputs.
5. `Undo` on top of `Shelves` and `Turns`.
6. The rest of the cloud: attachments on the shelf, deletions of documents, the budget
   several processes share (budget.rs:243).
7. Attachments named by content: burying, sweeping and bringing back.
