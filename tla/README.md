# Nova Prism in TLA+

Nova Prism is an archiver: a Rust library (`nova-core`), a command line, a desktop
application, and the `.nva` format, a file that is only ever appended to. This directory
holds TLA+ specifications of the parts of it in which order, failure and concurrency
decide whether somebody's data is still there, the TLC configurations that check them on
small instances, and proofs for every instance.

Every definition is translated from the source named in `PROJECT.json` under `map`. Where
a definition has a near twin in front of it (`SyncNothing` and `SyncData`, `NoOverlap` and
`NextEnd`), the twin is the mistake a developer could have made; substituting it must make
a property fail, and `PROJECT.json` lists which (`mutants`).

## The system

| Component | Source | State | Operations | Talks to |
|---|---|---|---|---|
| Archive file | `archive.rs`, `footer.rs`, `manifest.rs` | blocks of the file, the manifest of a handle, the `damage` flag | `create`, `open_ro`, `open_rw`, `commit` / `write_tail` | the file system, the lock |
| Operations | `archive.rs` | manifest: entries, chunk records, generation | `add_paths_with`, `rename`, `remove`, `compact` | the pipeline, the archive file |
| Writer lock, replacement | `archive.rs`, `nova-platform` | a byte-range lock on a file, the file at a path | `try_lock_exclusive`, `replace_file` | other processes |
| Packing pipeline | `pipeline.rs` | two bounded channels, `Budget`, pending units, chunks | `submit_*`, `worker_loop`, `writer_loop`, `govern` | packer (reader side), archive file (writer side) |
| Tournament slots | `pipeline.rs` (`Slots`) | `outstanding`, `lent`, `sealed` | `submitted`, `finished`, `seal`, `borrow`, `give_back` | workers among themselves |
| Tournament | `pipeline.rs` (`race`, `qualify`, `compress_job`) | none | choose the shortest coding of a unit | codecs, slots |
| Packer | `pack.rs` | buffer of a solid block, dedup map, predicted indexes | `add_file`, `place`, `flush` | pipeline |
| Extraction | `archive.rs` | shared counter, stop flag, lists of failures | `extract_reporting`, `extract_one` | target file system |
| Unit cache, lanes | `archive.rs` | last decoded unit, one handle a lane | `UnitCache::load`, `decode_window` | extraction |
| Verification | `archive.rs` | shared counter, verdicts | `test` | archive file, progress |
| Progress | `archive.rs` (`Reporter`) | one snapshot under a mutex, watermarks | `read`, `stored`, `extracted`, `finish` | reader, writer, workers, the UI |
| Paths, manifest edits | `paths.rs`, `archive.rs` | none / entries | `normalize_rel`, `sanitize`, `collision_key` | operations, extraction |
| Codecs and filters | `codec.rs`, `filters.rs`, `deflate.rs`, `mp3.rs`, `wav.rs`, `analyze.rs`, `nova-lzma`, `nova-bsc` | none | encode, decode | pipeline, extraction |
| Foreign archives | `foreign_*.rs` | none | list, extract | front ends |
| Front ends | `nova-cli`, `nova-gui`, `ui/src/main.ts` | busy flag, events | one operation each | `Archive` |

What is hard here, and what correct means for each:

* **Archive file.** A kill or a power loss between any two writes; blocks that reach the
  medium in any order; bit rot; readers beside a writer that cuts and appends. Correct: an
  acknowledged commit survives, a crash is never taken for damage (a damaged archive
  refuses all writing from then on), rot is never made worse.
* **Scan for the footer.** Windows, boundaries, a file that changes while it is scanned.
  Correct: it finds the newest commit, says "damaged" exactly if it is, and ends.
* **Lock and replacement.** The lock belongs to a file, the archive to a path. Correct:
  nobody commits to a file with a stale manifest, and an acknowledged update is lost only
  where a compact swaps the file.
* **Pipeline.** Four kinds of threads that wait for each other through two channels, a
  condition variable and a budget, each of which may fail. Correct: unit `i` becomes chunk
  `i`, memory stays in the budget, and the call returns whatever fails (it does, but for
  one error and for panics, see the findings).
* **Slots.** Lock-free lending with values read at different moments. Correct: never more
  codecs than workers, or the memory model is wrong.
* **Extraction.** Threads, overwrite policies, other programs in the same directory,
  entries that fail half way. Correct: no partial file looks whole, and a call that
  succeeds reports everything once and nothing too little.
* **Progress.** Readings from several threads. Correct: monotone, 100% exactly once.
* **Packer, entries.** Long sequences of legal edits, files that change while they are
  read. Correct: every entry comes back from its units, no two entries claim one file.
* **Filters, tournament.** Encoders and decoders that agree on nothing but the bytes, a
  fallback at every step. Correct: a reader gets the original, the archive never grows by
  it, and the number of threads does not show in the result.
* **Desktop.** A thread of its own for each operation, events, a timer. Correct: what the
  window shows is true and does not stay busy, as far as the operation comes back.

## The modules

| Module | What it is |
|---|---|
| `ArchiveStore` | What a `.nva` file promises: one tree of entries, replaced in one step, of which a power loss may undo at most the one step not acknowledged yet |
| `ArchiveLog` | The file itself: blocks, commit, open, add, rename, remove, compact; kills, power losses, rot; readers |
| `ArchiveLogProofs` | Type correctness and the safety properties of `ArchiveLog`, and that it implements `ArchiveStore` |
| `FooterScan`, `FooterScanProofs` | `open`'s walk and `find_footer_before`, byte by byte, beside a writer |
| `CompactSwap`, `CompactSwapProofs` | Lock, commit and the replacement by `compact`, for several processes |
| `Pipeline`, `PipelineProofs` | `pack_with`: reader, workers, writer, governor |
| `SlotPool` | `Slots` and `race`, one atomic access a step |
| `Extraction`, `ExtractionProofs` | `extract_reporting` and `extract_one` |
| `Runs`, `Filters`, `Streams`, `Container`, `Wav`, `Mp3` | The filters and framings, encoder and decoder of each, as operators |
| `Codecs` | Ids of codecs and filters, the settings derived from a length, the candidates of a tier |
| `UnitJob` | `compress_job` on one unit, with any filters and codecs, and `verify_chunk` |
| `UnitFilters` | The filters of the code for `UnitJob`: `apply`, `unapply` and the length of what they make |
| `TournamentProofs` | `SlotPool` and `UnitJob`, for any workers, units, filters and results of the codecs |
| `Analyze` | The plan for a file, from what it looks like |
| `Packer` | `pack.rs`: files become units |
| `Tree` | The manifest under `add`, `rename`, `remove` and `compact`, and reading from it |
| `TreeProofs` | What `Packer` and `Tree` do to names and to bytes, and what is extracted, for any files |
| `Progress` | `Reporter`: the snapshot behind the progress of an operation |
| `Desktop`, `DesktopProofs` | Operations, events and window of the desktop application |
| `MC*` | Instances for TLC |

How they fit together: `ArchiveLog` takes from `Pipeline` that the writer appends units one
by one and that the chunk records are right (`PackUnit`, `PackDone`; `IndexesAreTrue` is
what makes that sound), from `FooterScan` that an open finds the newest commit in one step
(`Found`; `OpensTheNewest` and `DamageIsTrue` are what make that sound), and the lock for
granted, which `CompactSwap` takes apart. `Pipeline` treats `compress_job` as a step;
`SlotPool` looks inside it at the slots and `UnitJob` at the bytes; both model `race`, the
one by who runs when, the other by who wins. `Packer` hands units over and relies on
`IndexesAreTrue` for their indexes; `Tree` relies on `UnitJob`'s `ReadsBack` for what is in
a unit and therefore keeps the cells themselves. `Desktop` composes `Progress` with the
calls of a pack, an extraction and a test. `ArchiveLog` implements `ArchiveStore` under the
mapping `shown <- TreeOf(disk)`, `stored <- TreeOf(durable)`.

### ArchiveLog

A file is a sequence of blocks: header, unit, manifest, footer, or a block that is torn or
rotten; an offset is a position. `disk` is what processes read, `durable` what a sync has
put on the medium. `pc` is where the one writing process is; `target` tells whether
`write_tail` works on the archive or on the copy `compact` makes; `mem` is the manifest of
the handle. A manifest is its generation, its tree (`files`) and where each content's unit
lies (`chunks`). A footer carries the position it was signed for (`self_hash` covers it)
and the manifest it names. A unit may itself be an archive (`Images`), so the scan meets
that archive's footers as data.

`write_tail` is five actions (`WriteManifest`, `Barrier`, `WriteFooter`, `Acknowledge` or
`CopySettled`), and `WriterStops` and `PowerLoss` may come between any two. After a power
loss, each block that differs between `disk` and `durable` is the new one, the synced one
or torn, each on its own, and the file has any length in between. An operation that fails
lets go of the handle, as every caller in the repository does.

A reader's manifest is the one it read when it opened, but its threads open the path again
for every extraction and every test (archive.rs 927, 942, 1243), so it is the file at the
path that has to agree with it. That is what `ReadersUndisturbed` says, and it says so only
of readers that are not in `replaced`: once `compact` has put the copy in place, their
offsets belong to another file (TLC shows it after create, add, open, compact), and what
keeps wrong bytes from them is each unit's hash, which is not part of this module.

A path has one content and a content one unit; the tree has no directories. That suffices
for what a commit may lose. What entries with prefixes and directories do to each other is
in `Tree`.

### FooterScan

The file is its length, the offsets at which a footer verifies itself (`valid`) and those
of them whose manifest reads (`good`). Each `read_exact` is a step and may meet the end of
a file that was cut meanwhile; `find_footer_before` takes the length anew in every call.
A writer grows the file, with or without a footer at the end, and cuts what lies behind
the newest footer; like the code it does neither with a damaged archive.

### CompactSwap

Files are numbered; `path` is the one that has the archive's name. A file is the set of
updates committed to it; `holder` is who has its lock. Opening and locking are two steps,
as are letting go of the old file (archive.rs 1467) and the replacement (1473), of which
each may fail; a process may close or be killed anywhere. An update has a number, and is
acknowledged when it is committed, to whichever file its process has open. `Loses` finds
every step after which an acknowledged update is not at the path: the swap that takes it
away from there, and the commit that never put it there.

### Pipeline

One action for each critical section or channel operation; only `acquire` keeps the mutex
over two steps (`Acquire`, `Park`), because the limit it compares with changes without the
mutex. Units are charged by the difference of `Through`, a sum, so that the budget's
content can be stated without recursion. `compress_job` succeeds, fails or panics; the
writer's `seek` and `write_all` succeed or fail; `produce` may fail or panic at any time; the
writer may panic where it calls its listener; `memory_status` may have any answer or none.

The writer starts at `seek`, whose error, unlike all others, is returned without an abort of
the budget. `Terminates` therefore has a second disjunct: the reader in `acquire` for good,
after the writer has ended with an error and without an abort (`LeftAlone`). Without it TLC
shows the seek failing, the workers going, and the reader asleep for a charge that nobody
will release. Panics are outside of what `Terminates` promises: when `produce` or the writer
panics, `running` stays set and the scope waits for the governor for ever.

### SlotPool

Each load and each read-modify-write of `outstanding`, `lent` and `sealed` is an action.
`compare_exchange_weak` may fail without cause. The race asks for a number out of `Wants`.

### Extraction

The entries are those that are left after selection, sanitizing and the check for colliding
names, which run first and on one thread. At each target there is nothing, a file of another
program, a file in part or a whole one. The creation, truncation, writing and removal of a
file are steps of the thread that has the entry, and each may fail; another program may
create files in between. `failed` are the entries that a thread has counted as lost; `told`
is the list that the caller gets, which is empty where a thread could not open the archive,
since that error takes the place of all that was counted. `stamped` are the directories
whose clock is as the archive has it.

### Filters, Streams, Container, Wav, Mp3

Operators on sequences of cells. A cell is a byte where the transform is arithmetic
(`Filters`: `bcj_x86` with its mask, the split of calls and jumps, delta; a byte has
`ByteBits` bits, so that overflow is met on short inputs) and a symbol with a meaning where
the transform parses (a RIFF chunk, an MPEG frame whose second cell stands for a kind of
header, a block of deflate). Encoder and decoder are separate definitions, as in the code,
and share only what the code shares: `Site`, `Destination`, `Header`, `Kept`.

`Streams` is given the structure of a file (its parts and their roles) in place of its
bytes and models what the scanners make of it: the trimming of pieces, the zip directory
found from behind, nesting, concatenated files, the smallest stream. `Container` models
what is done with the streams: passes of preflate under the cap, the extension of a stream
as long as the budget allows, what is kept and what is refused, the framing in its three
versions and the splicing of the streams into what was left. preflate, lepton and FLAC are
external: any reversible function serves.

### Codecs, UnitJob

A behaviour is one unit: filter, proof, thinning, race, choice, reading back. What a filter
makes of it is a parameter (`Apply`, `Unapply`, `CodedLength`), for `compress_job` relies on
little of it: `JobAssumption` asks of a filter that works in place that it keeps the length
and is undone, and of one that rebuilds only that what it makes is not empty. The filters
above are put in by `UnitFilters`, and TLC evaluates the assumption for each of their
inputs. What a codec
makes of a unit is its length relative to the original, an input; that a codec is undone
only under the same setting is in `Compress` and `Decompress`, which carry order, window
and pool as `codec.rs` derives them. `race` has one action for each entrant of each lane,
for any number of lanes, and a codec may fail. `ReadBack` has only the record and the
payload, like `verify_chunk`.

### Analyze, Packer, Tree

What a file looks like is an input (`Looks`: magic, gain on a trial, stride, RIFF header);
`Analyze` models what is made of it for each tier. `Packer` is a record with the fields of
the code's struct and one operator for each function; hashes are the cells themselves, the
stop of a content-defined cut is a function of the item's cells. A file has a length (its
metadata) and cells (what is read later), which may differ.

`Tree` adds files of a catalogue one by one, in the order of the work list, commits or
fails, renames, removes, compacts. `Extracted` reads all entries one after the other, with
the cache of one worker or in windows by lanes. `kept` remembers what each file was when
it was read.

### Progress, Desktop

Every method of `Reporter` is an operator from snapshot to snapshot, since it holds the
lock; the delivery is a step of its own, since it does not. In `Desktop` an operation has
a main thread and two helpers (for a pack the writer, otherwise workers), `hand` is a
reading a thread has assembled and not delivered, `finished` counts the bytes whose work
is over, apart from the reporter: for a pack those that are known already or compressed,
for an extraction those of files that are through. The reader of a pack submits (`AddFile`)
and says so later (`TellRead`); a worker compresses any unit that was submitted
(`CompressUnit`), and the writer counts a unit when it arrives (`ReceiveUnit`), in the order
in which they arrive and whether or not its turn to be written has come, as `writer_loop`
does. Errors come at any time. So do panics: one that gets out of the core meets the guard
(`Panics`), one of the reader or the writer inside the scope of `pack_with` does not
(`InScope`, `Hangs`; the same state stands for a reader that is asleep for good). A click
may start a second operation beside the first, since a click on a row enables the buttons
again.

## The runs

| Run | Bounds | What it shows |
|---|---|---|
| `log_crash` | 2 paths, 2 contents (one an archive itself), 1 reader, 3 operations, 2 crashes, no rot | crash safety and the refinement of `ArchiveStore` |
| `log_rot` | the same, 3 operations, 1 crash, 1 rotten block | `compact` and commits under rot |
| `log_cut` | the same, 2 operations, 1 crash, 1 rotten block | finding: an acknowledged commit is cut off |
| `scan` | header 1, footer 3, window 4 bytes, 2 tries, files up to 14 bytes | the scan finds the newest commit |
| `pipe_order` | 2 workers, 4 units charged 2, 3, 9 and 2 of a budget of 8, 1 panic of any thread | order, budget, memory, termination |
| `pipe_full` | 1 worker, 7 equal units | both channels full, reader blocked on channel and budget |
| `slots_lend` | 3 workers, 4 units, 2 races a unit | lending never oversubscribes |
| `swap` | 3 processes, 2 updates, 2 copies | lock and manifests, the two ways to lose an update |
| `extract` | 2 threads, 3 entries in 2 directories, 1 foreign file, 2 faults, any damage, any policy | extraction reports and cleans up |
| `unit` | bytes of 2 bits, units up to 27 cells, a cap of 28; the filters' inputs below | filters are undone, units read back, the winner does not depend on the lanes |
| `pack` | a catalogue of 25 files; an add of any four, or two adds of two and an edit, or three adds of names that differ in case and an edit; target 10 cells | entries come back, damage is confined, units are what the packer says, names are kept apart |
| `desk` | 3 files of 2 bytes that may grow by one, 3 reports an operation, 2 operations | readings are true, the bar goes forward, the window does not stay busy |

Why the bounds are enough. *Log*: two operations are the least in which one can damage what
the other committed; three let a commit follow a failed one that followed a good one, and
let `compact` come between; two crashes let the recovery of the first be crashed. Two
contents let an `add` find one and store the other. `MaxCandidates` is the code's 64 and
never reached here; the limit itself is met in `scan`, where it is 2. *Scan*: a window one
byte longer than a footer has every alignment of a footer to a window's edge; 14 bytes hold
four footers, two more than tries. *Pipeline*: capacity is twice the workers, so seven units
with one worker fill worker, writer and both channels with one to spare; the charges include
one above the budget and two that fit together only after the limit has risen. *Slots*:
three workers let two race for the slot of the third. *Swap*: three processes let one
compact, one write to the orphan, before the swap or after it, and one see the result.
*Units*: every call site with every operand that the mask tells apart, alone and beside a
second one; up to four MPEG frames of every kind, whole, cut or false; RIFF files of up to
three chunks, odd, unknown and cut off; containers of one and two files whose streams fit,
fit in part, do not fit, or lie in another order than the directory; all results of four
codecs, in up to four lanes. The longest unit is one cell below the cap, as
`MAX_STORED_CHUNK` is below `MAX_CODED_CHUNK`. *Pack*: files at each bound of the packer
(classifiable, alone, chunked, half the target, twice the target), one for each class, one
of each kind that changes while it is read, a copy, a second version, names that differ in
case; four files are what it takes to fill a unit, cut it, start another and have a stranger
join. *Desktop*: with two files a test cannot be seen to run ahead, with three it can.
*Extraction*: two threads and three entries let one thread take two while the other fails;
two faults let a file stay in part while another thread cannot open the archive, the case in
which the list of failures is dropped; the second directory tells clocks apart. *Panics*:
one is enough to stop the pipeline; `pipe_full` has none, since its question is who waits
for whom.

Paths in the log and workers in the slot pool are interchangeable and reduced by symmetry
where no liveness is checked.

`pipe_order` and `pipe_full` are two runs because one worker is what fills both channels
and two are what brings units out of order; an instance with both is out of TLC's reach.

Deadlock is checked in the pipeline, where it would be a fault, in the extraction and on
the way of a unit.
`CHECK_DEADLOCK FALSE` stands in the other configurations because those systems may stop:
the log and the swap when all bounded operations are spent, the scan when the open has
returned and the file is full, the slots when every unit is finished, the tree when its
adds and edits are spent, the desktop when both operations are over.

Fairness is stated where liveness is checked. *Scan*: the opening thread runs and its reads
return; the writer owes nothing. *Pipeline*: weak fairness for the reader and each worker,
which the operating system's scheduler gives; strong fairness for the writer and the
governor, which wait for a mutex that is taken and released again and again, for a few
instructions each time. Nothing makes a condition variable wake without a notification, and
no panic is owed. *Extraction*: weak fairness for the calling thread and every worker.
*Desktop*: weak fairness for the threads of an operation and for each callback; nobody has
to click, and the timer owes nothing.

### Findings

* `log_cut` (archive.rs 590-595). The rot of one footer makes the newest commit look like
  the tail of a crash, and an open for writing cuts it off; the comment says nothing
  committed lives there. An open for reading still recovers the older commit, and no
  property about crashes is affected, for a crash cannot do it (`AckedSurvives`).
* The count of outstanding units (pipeline.rs 579-581, 252-253; run `slots_lend`). A unit is
  counted after it is sent; one finished before stays counted, so fewer slots are lent for
  the rest of the run. Lending stays safe (`NoSlotOfAJobIsLent`, proved).
* The swap of a compact (archive.rs 1467-1473, 515-530; run `swap`). Between the release of
  the lock and the replacement another writer may lock the old file; what it commits and
  acknowledges is lost. So is what a process commits that had opened the old file before the
  replacement and locks it after. `LostOnlyBySwap` (proved) says that there is no third way.
* The error of the writer's seek (pipeline.rs 1152, 290-291; run `pipe_full`). It is the one
  error of the writer that does not abort the budget, so a reader asleep in `acquire` stays
  there and the pack never returns.
* The cleaning up after an error (archive.rs 993, 71; run `extract`). A worker removes the
  target on any error, also on the error that a file of somebody else's is there.
  `LossIsReported` says that the entry is at least named by a call that succeeds.
* The list of failures (archive.rs 1010-1017, 409-411; run `extract`). When one thread cannot
  open the archive the call returns that error alone, and the failures of the others, with
  files removed or left in part, are named nowhere.
* Units that mix classes (pack.rs 540; run `pack`). `flush` takes the class away in the
  middle of `place`, so a file of any class may join behind a cut. `MixesOnlyBehindACut`
  says that this is the only way.
* Directories and letter case (archive.rs 754; run `pack`). Only files pass
  `note_case_collision`; the directories of the walk go into the manifest without it, so
  a file `D` and a directory `d` come together with no warning. `KeptApart` (proved) says
  that two files do not.
* Small containers (pack.rs 612, 279-281; run `pack`). A unit without voters is judged by
  its head, which proposes the container filter for a concatenation of small containers.
  Harmless, since the filter has to prove itself.
* Zip directories in another order (deflate.rs 635, filters.rs 499-500; run `unit`). Such a
  zip is given up as a whole, not stream by stream.
* The progress of a test (archive.rs 1273-1278, 155-159; run `desk`). Totals are added to
  totals, so the bar is at its end long before the test is.
* The progress of a pack (pipeline.rs 1162 and 1145-1150 against archive.rs 155-157 and
  pipeline.rs 413; run `desk`). A unit is counted when the writer receives it, compressed and
  perhaps not written; the documentation says "written to the archive" and "committed".
  `ReadingsAreHonest` states what the code does.
* A pack that panics inside (pipeline.rs 496, nova-gui/src/main.rs 145-146; run `desk`). When
  the reader or the writer panics the scope never ends and `DoneGuard` is never dropped, so
  the window stays busy. `BusyEnds` excepts it, and no other end of an operation.

## What is proved

For every value of the constants, from the assumptions named in the modules
(`LogAssumption`, `MarkerAssumption`, `ScanAssumption`, `PipelineAssumption`,
`SlotAssumption`, `SwapAssumption`, `ExtractionAssumption`, `DesktopAssumption`,
`LooksAssumption`, `GeometryAssumption`, `RefusedAssumption`, `CatalogueAssumption`,
`DeltaAssumption`, `JobAssumption`), which only say that bounds and sizes are natural
numbers, sets finite where they are counted, markers distinct from what they mark, a window
no shorter than a footer, no unit empty, the budget's floor at most its ceiling, a magic one
of those `classify` tells apart, a stride at most `MAX_DELTA_DISTANCE`, which is at most 32
so that the ids of delta stay clear of the others, a unit no longer than a reader accepts
(`flush` refuses one that is), with at least one candidate and a filter as above, the frame
of a RIFF header not empty, `Refused` (the `None` of an `Option`) none of the values an
`Option` holds, a path a sequence of names, and that no entry is selected twice and each has
a directory.

* `ArchiveLogProofs`: `TypeCorrect`, `CrashIsNotDamageHolds`, `AckedSurvivesHolds`,
  `ReadersUndisturbedHolds`, `GenerationsIncreaseHolds`, `CopyIsWholeHolds`,
  `CommitsAreKeptHolds`, `StoreIsRefined`. The inductive invariant `LogInv` says of both
  files that all a footer stands for (its manifest, and the units of every entry) is in
  front of it or has rotted there, that what is in front of a footer of `disk` is the same
  in `durable` (this is the barrier), that `durable` up to a footer of its own is the same
  in `disk` (`FilesInv`), that without rot no block is rotten (`RotInv`), and what each `pc`
  owes (`WriterInv`). The properties themselves do not carry over a power loss, since they
  say nothing of `durable`; that is why the strengthening is needed. `AckInv`, `SnapInv` and
  `GenInv` build on it for what was acknowledged, what readers hold, and generations.
  `StoreIsRefined` says `Spec /\ [](rots = 0) => StoreRefined`: where a block rots, the
  archive may fall back by more than the one step not acknowledged, which is no step of the
  store, so the condition is part of what is claimed. Its core is that what opens in a sound
  file is its newest commit, and `TreeInv`: at each `pc` the tree that the writer is about
  to commit is the one shown changed by one operation, or that one where only the file is
  rewritten.
* `FooterScanProofs`: `OpensTheNewestHolds`, `DamageIsTrueHolds`, `FailsForAReasonHolds`,
  for every length of header, footer and window. The invariant (`ScanInv`; its core is
  `AheadOK`) says that every commit known when the open began whose footer starts below the
  limit also ends at or before the end of the next window: what is left to find is still
  ahead of the scan. That it gives up for a reason needs that no footer is tried twice: at
  least as many were passed over as were tried (`TriesInv`).
* `PipelineProofs`: `PipelineTypeCorrect`, `IndexesAreTrueHolds`, `BudgetExactHolds`,
  `MemoryBoundedHolds`. The invariant `PipeInv` says that a unit taken by a
  worker and not yet written is in at most one place (`PlaceInv`), in one at least until
  something fails (`CoverInv`), and that `used` is the charge of the units between the first
  not released and the last acquired, until an abort (`BudgetInv`). Memory stays bounded
  after an abort because the reader admits nothing more.
* `TournamentProofs`, the slots: `NoSlotOfAJobIsLentHolds`. Once the pool is sealed
  `outstanding` only falls and never below the units not finished; a value of it that a
  worker has read may be too large and never too small. `CodecRunsBoundedHolds`: what is
  lent is the sum of what the workers have borrowed (`BorrowInv`), so the codecs at work,
  one for each unit in hand and one for each borrowed slot, are no more than the workers.

  The unit: `ReadsBackHolds`, `NeverWorseHolds`, `FirstOfTheSmallestHolds`, for any filters
  that `JobAssumption` admits. The invariant (`UnitInv`) says that what the codecs are fed
  is the undoable form of the original by the time they run (`FormInv`): a filter that
  fails, is too long or does not prove itself leaves the plain bytes, and a rebuilt form
  gets past `prove` only if its decoder has undone it. `RaceInv` says of the race that its
  lanes share out the field without gap or overlap, whatever the number of entrants and of
  lanes (`LanesCover`, about the rounded-up division), and that each knows the first of the
  smallest of the entrants it has run (`IsLane`); the winner over the lanes is then that of
  the field (`FirstOfAll`), since the fold over lanes, like the one in a lane, lets a tie
  stay with the earlier. `KeptInv` says what the record of the unit owes a reader, who is
  not told of any of this (`RecordIsKept`: the coded length is rebuilt from `filtered`, the
  setting from the length). The two folds are reasoned about by their runs, as in
  `TreeProofs`. What `ReadsBackHolds` does not cover is that the three in-place filters are
  undone, which `compress_job` does not check either.
* `CompactSwapProofs`: `LockedIffWritingHolds`, `MemoryIsCurrentHolds`,
  `LostOnlyBySwapHolds`. The invariant (`SwapInv`): the manifest of the process that holds
  the lock is that of the file it holds, and a copy not yet at the path has all that its
  maker knew.
* `ExtractionProofs`: `NothingPartialHolds`, `EachIsReportedOnceHolds`,
  `LossIsReportedHolds`, `ClocksAreRestoredHolds`. The invariant (`ExtractInv`) says how
  the entries are shared out (`ShareInv`: an entry whose number was given out is either
  reported, in one list, or in the hands of exactly one thread), whose the files are
  (`FileInv`: a file in part is that of a thread that has yet to finish or remove it) and
  when threads are gone and what the caller is told (`PhaseInv`). That each is reported
  needs it: at a success every thread has ended, so that the counter is past the end, all
  numbers are given out and nobody has one.
* `DesktopProofs`: `ReadingsAreHonestHolds`, `BarGoesForwardHolds`. The invariant of an
  operation (`OpInv`) bounds its snapshot (`SnapInv`: a byte short of the total until the
  end, and, but for a test, no more than is finished), what its threads have in hand
  (`HandInv`), and says that who holds the last reading holds the only one (`EndInv`); it
  needs that nothing is counted before the totals are known (`CountInv`). For a pack, what
  the writer has counted is never more than what is compressed (`PackInv`: each unit on its
  way carries what was compressed when it was sent, and those in the channel add up to the
  difference, `Channel`). `EmitBounds` says what any call of the reporter may make of a
  snapshot. `BarInv` adds the window: while it is busy with one operation alone, the bar is
  what was painted last, and is full only once nothing more can be delivered.
* `TreeProofs`: `NoPathTwice`, `KeptApartHolds`, `FilesComeBackHolds`,
  `DamageIsConfinedHolds`, `VotedByItsBytesHolds`, `MixesOnlyBehindACutHolds`,
  `ContainersAreWholeHolds`. For the names: what an add claims and warns of is decided
  file by file and counts only when the add ends, with directories put in between, so the
  invariant (`TreeInv`) is about the packer as well: every name of the archive is claimed
  by one of its entries, and every file listed claims its name or was warned of
  (`NamesAreKnown`). The long part is that nothing between two files changes that: all
  operations of the packer, nested folds over items, chunks and pieces, leave names,
  claims and warnings alone (`Kin`). A fold is reasoned about by its run, the values it
  has after each element; since no theorem with an operator as a parameter can be used, one
  operator (`OneStep`) stands for the step of every fold of the model.

  For the bytes: extents spell what their pieces of the units give in a row (`Spells`, by
  the sequence of what is spelled so far, since a sum over a sequence cannot be reasoned
  about otherwise). `BytesInv` says that every entry spells what its path stands for, has
  its length, and that the paths of files are those for which something is kept (`Held`);
  and of an add that runs, that its packer owes for each file taken all that was read of it
  (`IsPacked`). What a packer owes (`Owes`) is the reason why it is inductive: in the middle
  of an add a file is neither in the units nor in the buffer, but the extents it has
  already, followed by the pending ones cut out of the open unit, spell it. That is what a
  flush keeps when it closes a unit, finds the unit in the archive already or is called with
  nothing to close (`FlushOwes`), and what every item, chunk and piece of a split .wav adds
  to (`AppendedOwes`, `PlacedAllOwes`, `PiecesOwe`, `AddFileOwes`). Units only ever get more
  (`Grows`), up to compaction, where the renumbered extents spell the same
  (`RemappedSpells`) because every unit of an extent is among the live ones (`LiveFacts`).
  Extraction is the other half: whatever a sound cache (`IsCache`) holds when an entry's
  turn comes, one extent after the other or window by window gives what the extents spell,
  or an error where one of their units is damaged, and leaves a sound cache (`InOrderReads`,
  `InWindowsReads`, `ExtractedReads`). The number of lanes, the geometry of the packer, the
  places of content-defined cuts and the look of every file are arbitrary.

  For the units: the three properties are about the log of an add (`trace`, with what
  `finish` will enter in it), each unit with its parts. `LogInv` says of an add between two
  files (`Rests`) that every entry made so far is good (`Logged`: small enough, elected by
  its bytes, of one class or two behind a cut, and a `.wav` piece of whole frames or the
  last of its file), and that what is being filled can become one (`IsOpen`): for each
  verdict the votes are the bytes pending behind it, exactly (`AreCounted`; the code keeps
  a running sum over the unit, the property counts the parts afterwards); a verdict for a
  filter that takes a whole file has votes only where that file is the whole buffer; the
  classes pending are that of the packer, or one more where the entry before was cut by
  `place` (`HasClass`: a cut resets the class, the rest of the file that was cut then joins
  what comes next without giving it one); and no part is of a `.wav` whose pieces have
  ended. Two things had to be found for it to be inductive: `add_file` gives an empty unit
  its class before it knows that the file has a byte to put there, which is why `IsSettled`
  is owed only between files and only of files that have the bytes their metadata promised
  (`Full`; the property excepts the same); and a piece of a `.wav` is flushed by itself, so
  `piece` is set in the open unit only in the middle of `add_wav_split`. The lemmas follow
  the calls down: what `Flush` enters (`FlushLogs`), what `Place` cuts and appends
  (`PlacedRests`), what a split `.wav` leaves (`PiecesLog`, `SplitRests`), what one file
  does (`AddFileRests`), and last that the log which the properties read is the packer's
  after one more flush (`TheLogIs`). That the plan with the most votes wins against each
  voter, and that two sums over the same parts agree, are the lemmas on elections.

Each invariant was checked by TLC on the instances of the runs before it was proved, but
for `BytesInv` and `LogInv`, whose quantifiers (over sequences that spell, over all verdicts)
TLC cannot enumerate; what they imply (`FilesComeBack`, `DamageIsConfined`,
`VotedByItsBytes`, `MixesOnlyBehindACut`, `ContainersAreWhole`) was. Two of these properties
were stated too strongly before the proof and are now what the code promises:
`ContainersAreWhole` asks for whole frames of a unit the first time it is entered, since a
later add may find the bytes of such a unit in another file, and `VotedByItsBytes` no longer
excepts files that were emptied before they were read, since they have no votes.

Only model-checked: what is about the filters themselves, whose modules define operators
by recursion, which the provers cannot use: `EncodersAreUndone` (the proof asked of a
rebuilding filter never fails), `GivesUpForAReason`, and that the filters of the code satisfy
`JobAssumption`; and all liveness (`OpenReturns`, `Terminates`,
`ExtractionEnds`, `BusyEnds`), which is beyond the proof system, as are ENABLED and
induction over data. The type invariants of `ArchiveLog` and `Pipeline` are proved and no
longer checked by a run.

## What is not modelled

The vendored compressors, preflate, lepton, FLAC and content-defined chunking are external;
whatever they do, a unit carries a hash, and a filter that rebuilds has to prove itself. Of
`Mp3`, the refusals of the decoder (a bad header, a side length that changes inside a run, a
wrong number of segments) are left out, so a payload that the encoder did not make is not
refused there; of `Tree`, the check of `decode_window` that an extent lies inside its unit.
What the detectors say of bytes (a magic, a trial compression, the stride search) is an
input, and so is the structure of a file that `find_streams` parses: the parsing itself is
over bytes that cannot be enumerated. Foreign archives, the command line, the inspection of
archives and the sizing of a run are sequential and hold no state of their own. Of the
paths, the spelling (separators, normal forms, reserved names) is one set of refused names.
Of the desktop, the list of entries, the target of the menu and the startup task are left
out. What a reader gets that opens the path again after a compact has replaced the file is
left to the hash of each unit. `hazards` in `PROJECT.json` lists the places in the code
where something may go wrong that a test would hardly reach, with the properties that watch
it or a note why none does.

## Plan

Done, in this order: `ArchiveStore`, `ArchiveLog`, its proofs, `FooterScan` and proofs,
`Pipeline` and proofs, `SlotPool` and proofs, `CompactSwap` and proofs, `Extraction` and
proofs; then the filters, `UnitJob`, `Packer` with `Tree`, `Progress` with `Desktop` and its
proofs; the refinement of `ArchiveStore`; the proofs about the names and the bytes of the
tree, about the units of the packer and about what becomes of one.

Next, most important first:

1. Filters written as recursive functions, so that at least the delta filter and the split
   of calls and jumps can be reasoned about step by step.
2. `Sizing`: `resolve`, `extract_workers`, `memory_budget`, at their numeric edges.
3. Extraction beside a compact: the offsets of `ArchiveLog` and the files of `CompactSwap`
   in one module.
