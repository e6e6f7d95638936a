----------------------------- MODULE ArchiveLog -----------------------------
(***************************************************************************)
(* The .nva file as nova-core keeps it (archive.rs, footer.rs): a header   *)
(* and then, appended and never rewritten, units, manifests and footers.   *)
(*                                                                         *)
(*   [header][manifest g1][footer g1][units][manifest g2][footer g2] ...   *)
(*                                                                         *)
(* A generation is committed by write_tail: manifest, sync_data, footer,   *)
(* sync_all. Opening walks back from the end to the newest footer that     *)
(* verifies itself and whose manifest decodes. The module interleaves the  *)
(* steps of one writing process with readers, with the writer failing or   *)
(* being killed between any two steps, with power losses that keep, lose   *)
(* or tear every block that was not synced, and with bit rot.              *)
(*                                                                         *)
(* The unit of the model is the block: one header, unit, manifest or       *)
(* footer. A file is a sequence of blocks and an offset is a position in   *)
(* it. Hashes are modelled as the values they are taken of.                *)
(***************************************************************************)
EXTENDS Integers, Sequences, FiniteSets

CONSTANTS Paths,         \* the paths an entry may have
          Contents,      \* what a file may contain, one unit for each
          Images,        \* the contents that are .nva archives themselves
          Absent,        \* marks a path that holds no entry
          NoArchive,     \* what opening finds where nothing opens
          Readers,       \* handles that open_ro may return
          NoHandle,      \* a reader that has no archive open
          MaxCandidates, \* MAX_FOOTER_CANDIDATES
          MaxOps,        \* bound: operations started
          MaxStops,      \* bound: writers killed or failing, and power losses
          MaxRot         \* bound: blocks that rot

ASSUME LogAssumption ==
    /\ Images \subseteq Contents
    /\ Absent \notin Contents
    /\ MaxCandidates \in Nat \ {0}
    /\ MaxOps \in Nat /\ MaxStops \in Nat /\ MaxRot \in Nat

\* An open that fails is not an open that shows a tree.
ASSUME MarkerAssumption == NoArchive \notin [Paths -> Contents \cup {Absent}]

----------------------------------------------------------------------------
(* Blocks. *)

Trees == [Paths -> Contents \cup {Absent}]

\* `tree` is Manifest::files, `unit` is Manifest::chunks: the position of the
\* unit that holds a content, 0 for none. Units outlive the entries that use
\* them, which is what lets a later `add` find them again.
Manifests == [gen : Nat, tree : Trees, unit : [Contents -> Nat]]

NoTree == [p \in Paths |-> Absent]
NoUnits == [c \in Contents |-> 0]
EmptyManifest == [gen |-> 0, tree |-> NoTree, unit |-> NoUnits]

Header == [kind |-> "header"]
Torn == [kind |-> "torn"]       \* written in part, or zeroes where a write was lost
Rotten == [kind |-> "rotten"]   \* was good once, and its bytes changed on the medium
Unit(c) == [kind |-> "unit", content |-> c]
ManifestBlock(m) == [kind |-> "manifest", manifest |-> m]
\* `at` is the offset the self-check is bound to, `man` is manifest_offset and
\* `manifest` stands for manifest_hash.
Footer(at, man, m) == [kind |-> "footer", at |-> at, man |-> man, manifest |-> m]

Blocks ==
    {Header, Torn, Rotten}
    \cup [kind : {"unit"}, content : Contents]
    \cup [kind : {"manifest"}, manifest : Manifests]
    \cup [kind : {"footer"}, at : Nat, man : Nat, manifest : Manifests]

\* What a scan for footer magic finds in block i: the block itself if it is a
\* footer and, if it is a unit that stores an archive, the footer of that
\* archive. That one was signed for an offset counted from the inner archive's
\* first byte, which is less than where it lies now; 0 stands for it.
FooterIn(b) ==
    IF b.kind = "unit" THEN Footer(0, 0, EmptyManifest) ELSE b

HasFooterMagic(b) ==
    b.kind = "footer" \/ (b.kind = "unit" /\ b.content \in Images)

\* A self-check that covers the footer's bytes and not the offset it lies at.
SelfCheckOfBytesOnly(ftr, i) == ftr.at <= i

SelfCheck(ftr, i) == ftr.at = i

\* Where find_footer_before stops, given ever lower limits.
IsCandidate(d, i) ==
    /\ i \in 1..Len(d)
    /\ HasFooterMagic(d[i])
    /\ SelfCheck(FooterIn(d[i]), i)

Candidates(d) == { i \in 1..Len(d) : IsCandidate(d, i) }

\* read_manifest: the location lies before the footer and the bytes there have
\* the hash the footer gives.
ManifestReads(d, i) ==
    LET ftr == FooterIn(d[i])
    IN  /\ ftr.man \in 2..i-1
        /\ d[ftr.man] = ManifestBlock(ftr.manifest)

IsReadable(d, i) == IsCandidate(d, i) /\ ManifestReads(d, i)

\* Archive::open settles on candidate i: it is the newest that reads, and the
\* walk has tries enough to reach it.
Found(d, i) ==
    /\ IsReadable(d, i)
    /\ d[1] = Header
    /\ \A j \in i+1..Len(d) : ~IsReadable(d, j)
    /\ Cardinality({ j \in Candidates(d) : j > i }) < MaxCandidates

\* Archive::damage: a footer that verified itself was skipped on the way.
Damaged(d, i) == \E j \in i+1..Len(d) : IsCandidate(d, j)

\* The tree an `open_ro` shows: the abstract view of a file.
TreeOf(d) ==
    LET found == { i \in 1..Len(d) : Found(d, i) }
    IN  IF found = {} THEN NoArchive
        ELSE FooterIn(d[CHOOSE i \in found : TRUE]).manifest.tree

----------------------------------------------------------------------------
VARIABLES
    disk,      \* the archive and the copy `compact` makes, as processes read them
    durable,   \* both of them, as far as a sync has put them on the medium
    pc,        \* where the writing process is; "closed": nobody holds the lock
    target,    \* the file write_tail works on
    mem,       \* the manifest of the writer's handle
    plan,      \* what the running operation has put together so far
    todo,      \* contents it still has to store
    snap,      \* the manifests of the readers' handles
    replaced,  \* the readers whose file has lost the archive's name since they opened it
    acked,     \* the footer position and manifest of the newest acknowledged commit
    ops, stops, rots   \* spent of the three bounds

vars == <<disk, durable, pc, target, mem, plan, todo, snap, replaced, acked, ops, stops, rots>>

Files == {"archive", "copy"}

Pcs == {"closed", "idle", "packing", "copying", "manifest", "barrier", "footer",
        "settle", "swap"}

\* Types of every variable.
TypeOK ==
    /\ disk \in [Files -> Seq(Blocks)]
    /\ durable \in [Files -> Seq(Blocks)]
    /\ pc \in Pcs
    /\ target \in Files
    /\ mem \in Manifests
    /\ plan \in Manifests
    /\ todo \subseteq Contents
    /\ snap \in [Readers -> Manifests \cup {NoHandle}]
    /\ replaced \subseteq Readers
    /\ acked \in [at : Nat, manifest : Manifests]
    /\ ops \in 0..MaxOps /\ stops \in 0..MaxStops /\ rots \in 0..MaxRot

Init ==
    /\ disk = [f \in Files |-> <<>>]
    /\ durable = [f \in Files |-> <<>>]
    /\ pc = "closed"
    /\ target = "archive"
    /\ mem = EmptyManifest
    /\ plan = EmptyManifest
    /\ todo = {}
    /\ snap = [r \in Readers |-> NoHandle] /\ replaced = {}
    /\ acked = [at |-> 0, manifest |-> EmptyManifest]
    /\ ops = 0 /\ stops = 0 /\ rots = 0

\* Every write goes to the end: `seek(SeekFrom::End(0))` and `write_all`.
Write(f, b) == disk' = [disk EXCEPT ![f] = Append(@, b)]

Sync(f) == durable' = [durable EXCEPT ![f] = disk[f]]

bounds == <<ops, stops, rots>>

\* A handle that is gone keeps nothing, nor does the copy it was making.
DropHandle ==
    /\ pc' = "closed"
    /\ target' = "archive"
    /\ mem' = EmptyManifest
    /\ plan' = EmptyManifest
    /\ todo' = {}

\* An operation starts on an idle handle.
StartOp == pc = "idle" /\ ops < MaxOps /\ ops' = ops + 1

----------------------------------------------------------------------------
(* Opening and closing. *)

\* A commit that leaves the generation where it was.
SameGeneration(m) == m

\* Archive::commit, the first half: the generation is counted before the tail
\* is written.
NextGeneration(m) == [m EXCEPT !.gen = @ + 1]

\* Archive::create, up to the first commit: create_new, the lock, the header.
Create ==
    /\ pc = "closed" /\ disk["archive"] = <<>>
    /\ Write("archive", Header)
    /\ mem' = NextGeneration(EmptyManifest)
    /\ pc' = "manifest"
    /\ UNCHANGED <<durable, target, plan, todo, snap, replaced, acked, bounds>>

\* An open for writing that does not ask whether the archive is damaged.
MayWriteUnasked(d, i) == TRUE

\* "A DAMAGED ARCHIVE IS NEVER OPENED FOR WRITING."
MayWrite(d, i) == ~Damaged(d, i)

\* set_len that ends the file where the newest manifest ends, not its footer.
TruncatedAtManifest(d, i) == SubSeq(d, 1, i - 1)

\* set_len(committed_end): what follows the footer was never committed.
Truncated(d, i) == SubSeq(d, 1, i)

\* Archive::open for writing: lock, walk, refuse damage, drop the tail.
OpenRw ==
    /\ pc = "closed"
    /\ \E i \in 1..Len(disk["archive"]) :
        /\ Found(disk["archive"], i)
        /\ MayWrite(disk["archive"], i)
        /\ mem' = FooterIn(disk["archive"][i]).manifest
        /\ disk' = [disk EXCEPT !["archive"] = Truncated(@, i)]
    /\ pc' = "idle"
    /\ UNCHANGED <<durable, target, plan, todo, snap, replaced, acked, bounds>>

\* Dropping the handle closes the file and with it the lock.
Close ==
    /\ pc = "idle"
    /\ pc' = "closed"
    /\ mem' = EmptyManifest
    /\ UNCHANGED <<disk, durable, target, plan, todo, snap, replaced, acked, bounds>>

\* Archive::open without the lock, beside a writer or not. What stays of the handle is its
\* manifest: extraction and test open the path anew in each of their threads and use the
\* manifest's offsets on whatever file has the name by then.
OpenRo(r) ==
    /\ snap[r] = NoHandle
    /\ \E i \in 1..Len(disk["archive"]) :
        /\ Found(disk["archive"], i)
        /\ snap' = [snap EXCEPT ![r] = FooterIn(disk["archive"][i]).manifest]
    /\ UNCHANGED <<disk, durable, pc, target, mem, plan, todo, replaced, acked, bounds>>

CloseRo(r) ==
    /\ snap[r] # NoHandle
    /\ snap' = [snap EXCEPT ![r] = NoHandle]
    /\ replaced' = replaced \ {r}
    /\ UNCHANGED <<disk, durable, pc, target, mem, plan, todo, acked, bounds>>
----------------------------------------------------------------------------
(* Operations on a handle that is open for writing. *)

Put(t, a) == [p \in Paths |-> IF p \in DOMAIN a THEN a[p] ELSE t[p]]

Live(t) == { c \in Contents : \E p \in Paths : t[p] = c }

\* Archive::add_paths_with up to the pool: Packer finds the contents the
\* archive already has by their hash and submits the others.
AddPaths(a) ==
    /\ StartOp
    /\ plan' = [mem EXCEPT !.tree = Put(@, a)]
    /\ todo' = { c \in Contents : (\E p \in DOMAIN a : a[p] = c) /\ mem.unit[c] = 0 }
    /\ pc' = "packing"
    /\ UNCHANGED <<disk, durable, target, mem, snap, replaced, acked, stops, rots>>

\* The chunk record an earlier write would have had.
RecordedOneEarly(d) == Len(d)

\* Where the next block goes, as its chunk record has it.
NextOffset(d) == Len(d) + 1

\* The writer thread puts one unit at the end and records where.
PackUnit(c) ==
    /\ pc = "packing" /\ c \in todo
    /\ Write("archive", Unit(c))
    /\ plan' = [plan EXCEPT !.unit[c] = NextOffset(disk["archive"])]
    /\ todo' = todo \ {c}
    /\ UNCHANGED <<durable, pc, target, mem, snap, replaced, acked, bounds>>

\* The pool is done: the manifest takes the new chunks and entries.
PackDone ==
    /\ pc = "packing" /\ todo = {}
    /\ mem' = NextGeneration(plan)
    /\ pc' = "manifest"
    /\ UNCHANGED <<disk, durable, target, plan, todo, snap, replaced, acked, bounds>>

\* Archive::rename of one entry to a path that is free.
Rename(p, q) ==
    /\ StartOp
    /\ mem.tree[p] # Absent /\ mem.tree[q] = Absent
    /\ mem' = NextGeneration(
                [mem EXCEPT !.tree = [@ EXCEPT ![p] = Absent, ![q] = mem.tree[p]]])
    /\ pc' = "manifest"
    /\ UNCHANGED <<disk, durable, target, plan, todo, snap, replaced, acked, stops, rots>>

\* Archive::remove: entries go, their units stay until `compact`.
Remove(S) ==
    /\ StartOp
    /\ \A p \in S : mem.tree[p] # Absent
    /\ mem' = NextGeneration(
                [mem EXCEPT !.tree = [p \in Paths |-> IF p \in S THEN Absent ELSE @[p]]])
    /\ pc' = "manifest"
    /\ UNCHANGED <<disk, durable, target, plan, todo, snap, replaced, acked, stops, rots>>

\* Archive::compact opens a temporary file beside the archive.
Compact ==
    /\ StartOp
    /\ Write("copy", Header)
    /\ plan' = [mem EXCEPT !.unit = NoUnits]
    /\ todo' = Live(mem.tree)
    /\ target' = "copy"
    /\ pc' = "copying"
    /\ UNCHANGED <<durable, mem, snap, replaced, acked, stops, rots>>

\* Copying whatever lies at the recorded offset.
CopiedUnread(c) == mem.unit[c] \in 1..Len(disk["archive"])

\* read_packed and verify_chunk: the unit is there and has the content's hash.
Verifies(c) ==
    /\ mem.unit[c] \in 1..Len(disk["archive"])
    /\ disk["archive"][mem.unit[c]] = Unit(c)

\* Each live unit is copied as it is, once, after it was verified.
CopyUnit(c) ==
    /\ pc = "copying" /\ c \in todo
    /\ Verifies(c)
    /\ Write("copy", disk["archive"][mem.unit[c]])
    /\ plan' = [plan EXCEPT !.unit[c] = NextOffset(disk["copy"])]
    /\ todo' = todo \ {c}
    /\ UNCHANGED <<durable, pc, target, mem, snap, replaced, acked, bounds>>

DropCopy ==
    /\ disk' = [disk EXCEPT !["copy"] = <<>>]
    /\ durable' = [durable EXCEPT !["copy"] = <<>>]

\* "Never carry corruption into the compacted archive."
CopyRefused ==
    /\ pc = "copying"
    /\ \E c \in todo : ~Verifies(c)
    /\ DropCopy
    /\ DropHandle
    /\ UNCHANGED <<snap, replaced, acked, bounds>>

CopyDone ==
    /\ pc = "copying" /\ todo = {}
    /\ mem' = NextGeneration(plan)
    /\ pc' = "manifest"
    /\ UNCHANGED <<disk, durable, target, plan, todo, snap, replaced, acked, bounds>>

\* replace_file: the copy takes the archive's name. Readers that were open keep their
\* manifests, whose offsets are those of the file that had the name.
Swap ==
    /\ pc = "swap"
    /\ disk' = [disk EXCEPT !["archive"] = disk["copy"], !["copy"] = <<>>]
    /\ durable' = [durable EXCEPT !["archive"] = durable["copy"], !["copy"] = <<>>]
    /\ acked' = [at |-> Len(disk["copy"]), manifest |-> mem]
    /\ replaced' = { r \in Readers : snap[r] # NoHandle }
    /\ DropHandle
    /\ UNCHANGED <<snap, bounds>>

----------------------------------------------------------------------------
(* write_tail, on the archive or on the copy. *)

WriteManifest ==
    /\ pc = "manifest"
    /\ Write(target, ManifestBlock(mem))
    /\ pc' = "barrier"
    /\ UNCHANGED <<durable, target, mem, plan, todo, snap, replaced, acked, bounds>>

\* A tail written with no barrier in it: nothing is on the medium yet.
SyncNothing(f) == UNCHANGED durable

\* sync_data between the manifest and the footer.
SyncData(f) == Sync(f)

Barrier ==
    /\ pc = "barrier"
    /\ SyncData(target)
    /\ pc' = "footer"
    /\ UNCHANGED <<disk, target, mem, plan, todo, snap, replaced, acked, bounds>>

WriteFooter ==
    /\ pc = "footer"
    /\ LET off == Len(disk[target])
       IN  Write(target, Footer(off + 1, off, mem))
    /\ pc' = "settle"
    /\ UNCHANGED <<durable, target, mem, plan, todo, snap, replaced, acked, bounds>>

\* sync_all, and the operation returns Ok.
Acknowledge ==
    /\ pc = "settle" /\ target = "archive"
    /\ Sync(target)
    /\ acked' = [at |-> Len(disk[target]), manifest |-> mem]
    /\ pc' = "idle"
    /\ UNCHANGED <<disk, target, mem, plan, todo, snap, replaced, bounds>>

\* sync_all on the copy, before it is given the archive's name.
CopySettled ==
    /\ pc = "settle" /\ target = "copy"
    /\ Sync(target)
    /\ pc' = "swap"
    /\ UNCHANGED <<disk, target, mem, plan, todo, snap, replaced, acked, bounds>>

----------------------------------------------------------------------------
(* What goes wrong. *)

Writing == pc \in {"packing", "manifest", "footer"} /\ target = "archive"

\* The writing process is killed, or a read, write or sync of it fails: every
\* caller in the repository lets go of the handle then. A block that was being
\* written may be there in part.
WriterStops ==
    /\ pc # "closed" /\ stops < MaxStops
    /\ stops' = stops + 1
    /\ \E f \in {disk["archive"]}
               \cup (IF Writing THEN {Append(disk["archive"], Torn)} ELSE {}) :
        disk' = [disk EXCEPT !["archive"] = f, !["copy"] = <<>>]
    /\ durable' = [durable EXCEPT !["copy"] = <<>>]
    /\ DropHandle
    /\ UNCHANGED <<snap, replaced, acked, ops, rots>>

\* Two versions of a file have the same block at i.
Same(seen, safe, i) == i <= Len(seen) /\ i <= Len(safe) /\ seen[i] = safe[i]

\* What block i may be after a power loss: the block last written, the one
\* last synced, or neither.
AfterLoss(seen, safe, i, fate) ==
    CASE fate = "written" /\ i <= Len(seen) -> seen[i]
      [] fate = "synced" /\ i <= Len(safe) -> safe[i]
      [] OTHER -> Torn

\* The file may have any length from the shorter version to the longer, and
\* every block that differs between the two meets a fate of its own.
Survivors(seen, safe) ==
    UNION { LET open == { i \in 1..n : ~Same(seen, safe, i) }
            IN  { [i \in 1..n |-> IF i \in open THEN AfterLoss(seen, safe, i, fate[i])
                                  ELSE seen[i]]
                  : fate \in [open -> {"written", "synced", "torn"}] }
            : n \in { k \in 0..Len(seen) + Len(safe) :
                        \/ Len(seen) <= k /\ k <= Len(safe)
                        \/ Len(safe) <= k /\ k <= Len(seen) } }

\* The machine stops: no process, no handle, no lock, and of the file what the
\* medium has of it.
PowerLoss ==
    /\ stops < MaxStops
    /\ stops' = stops + 1
    /\ \E f \in Survivors(disk["archive"], durable["archive"]) :
        /\ disk' = [x \in Files |-> IF x = "archive" THEN f ELSE <<>>]
        /\ durable' = disk'
    /\ snap' = [r \in Readers |-> NoHandle] /\ replaced' = {}
    /\ DropHandle
    /\ UNCHANGED <<acked, ops, rots>>

\* A block that is on the medium goes bad.
Rot(i) ==
    /\ rots < MaxRot
    /\ rots' = rots + 1
    /\ Same(disk["archive"], durable["archive"], i)
    /\ disk["archive"][i] \notin {Torn, Rotten}
    /\ disk' = [disk EXCEPT !["archive"][i] = Rotten]
    /\ durable' = [durable EXCEPT !["archive"][i] = Rotten]
    /\ UNCHANGED <<pc, target, mem, plan, todo, snap, replaced, acked, ops, stops>>

----------------------------------------------------------------------------
Next ==
    \/ Create \/ OpenRw \/ Close
    \/ \E r \in Readers : OpenRo(r) \/ CloseRo(r)
    \/ \E S \in SUBSET Paths \ {{}} : Remove(S) \/ \E a \in [S -> Contents] : AddPaths(a)
    \/ \E p, q \in Paths : Rename(p, q)
    \/ \E c \in Contents : PackUnit(c) \/ CopyUnit(c)
    \/ PackDone \/ Compact \/ CopyRefused \/ CopyDone \/ Swap
    \/ WriteManifest \/ Barrier \/ WriteFooter \/ Acknowledge \/ CopySettled
    \/ WriterStops \/ PowerLoss
    \/ \E i \in 1..Len(disk["archive"]) : Rot(i)

Spec == Init /\ [][Next]_vars

----------------------------------------------------------------------------
(* Properties. *)

\* What a manifest needs to find in a file: each unit it records.
UnitsIn(d, m) ==
    \A c \in Contents : m.unit[c] # 0 =>
        m.unit[c] \in 1..Len(d) /\ d[m.unit[c]] \in {Unit(c), Rotten}

\* Every entry has a recorded unit.
EntriesHaveUnits(m) ==
    \A p \in Paths : m.tree[p] # Absent => m.unit[m.tree[p]] # 0

\* A crash is not damage (archive.rs 88-106): if opening has to fall back over a
\* footer that verifies, then a block of the file is rotten. Whatever write, kill
\* or power loss came last is never taken for damage, for which `open` would
\* refuse to write to the archive from then on.
CrashIsNotDamage ==
    LET d == disk["archive"]
    IN  (\E i \in 1..Len(d) : Found(d, i) /\ Damaged(d, i))
        => \E j \in 1..Len(d) : d[j] = Rotten

\* "An update is durable iff its footer hit the disk" (archive.rs 606): what
\* opens now, for reading and for writing, is the commit acknowledged last or a
\* later one, and all that its entries need is in the file. Only rot may break
\* this.
AckedSurvives ==
    LET d == disk["archive"]
    IN  acked.at # 0 /\ rots = 0 =>
            \E i \in acked.at..Len(d) :
                /\ Found(d, i) /\ MayWrite(d, i)
                /\ LET m == FooterIn(d[i]).manifest
                   IN  /\ i = acked.at => m = acked.manifest
                       /\ EntriesHaveUnits(m) /\ UnitsIn(d, m)

\* What a reader's manifest names lies where it names it, whenever a thread of the reader
\* opens the path, as long as `compact` has not replaced the file since: writers beside it
\* only let the file grow, and what an `open` for writing drops belonged to no commit. Only
\* rot may break this, by making a commit look like the tail of a crash.
ReadersUndisturbed ==
    \A r \in Readers : snap[r] # NoHandle /\ r \notin replaced /\ rots = 0 =>
        EntriesHaveUnits(snap[r]) /\ UnitsIn(disk["archive"], snap[r])

\* Of two commits a scan can find, the later one has the higher generation,
\* across failed commits, truncations and crashes (Damage names generations).
GenerationsIncrease ==
    LET d == disk["archive"]
    IN  \A i, j \in Candidates(d) :
            i < j => FooterIn(d[i]).manifest.gen < FooterIn(d[j]).manifest.gen

\* What `compact` is about to put in place of the archive holds every live
\* content, good, though the original was rotting meanwhile, and opens.
CopyIsWhole ==
    pc = "swap" =>
        /\ Found(disk["copy"], Len(disk["copy"]))
        /\ durable["copy"] = disk["copy"]
        /\ \A c \in Live(mem.tree) :
            mem.unit[c] \in 1..Len(disk["copy"]) /\ disk["copy"][mem.unit[c]] = Unit(c)

\* No step but rot takes from the file a committed footer that is on the medium,
\* least of all one whose manifest no longer reads (archive.rs 574-588), except
\* that `compact` replaces the file under a handle that opened undamaged.
CommitsAreKept ==
    [][ \A i \in Candidates(disk["archive"]) :
            Same(disk["archive"], durable["archive"], i) /\ rots' = rots /\ pc # "swap"
            => i \in Candidates(disk'["archive"]) ]_vars

\* "Only reachable when `damage` is None, i.e. nothing committed lives in that
\* tail" (archive.rs 590-592): dropping the tail keeps every acknowledged commit.
NothingCommittedIsCut == acked.at <= Len(disk["archive"])

\* The file keeps the promise of ArchiveStore: opening it shows one tree, an
\* operation changes it in one step, and a power loss undoes at most the one
\* operation that was not acknowledged.
Store == INSTANCE ArchiveStore WITH
            shown <- TreeOf(disk["archive"]), stored <- TreeOf(durable["archive"])

StoreRefined == Store!StoreSpec
=============================================================================
