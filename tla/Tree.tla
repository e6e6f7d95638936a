-------------------------------- MODULE Tree --------------------------------
(***************************************************************************)
(* What the manifest says of the tree: adds that pack files into units and *)
(* replace entries by their path, renames, removals and compaction, and    *)
(* the extraction of every entry from the units, with the cache and the    *)
(* decode lanes that a unit goes through (archive.rs).                     *)
(*                                                                         *)
(* An operation that fails leaves no commit, and its caller drops the      *)
(* archive and opens it again, so it is a step that changes nothing. The   *)
(* bytes of the file, its commits and crashes are in ArchiveLog.           *)
(***************************************************************************)
EXTENDS Packer

CONSTANTS Catalogue,   \* the files, in the order that add sorts them into
          Scopes,      \* bounds, one set of which a behaviour keeps: for each add its
                       \* tier, its files and how many, and the number of edits
          Moves,       \* pairs of a source and a destination
          Selections,  \* sets of selectors for remove
          Unsafe       \* names that check_component refuses

ASSUME CatalogueAssumption ==
    \A k \in DOMAIN Catalogue :
        /\ Catalogue[k].path \in Seq(STRING)
        /\ Catalogue[k].len \in Nat /\ Catalogue[k].cells \in Seq(Nat)

VARIABLES units,   \* manifest.chunks, each with the bytes it holds
          files,   \* manifest.files
          add,     \* the add that runs: the files it has taken and the packer
          adds, edits,   \* how many there were
          scope,   \* the bounds of this behaviour
          warned,  \* keys of names that differ only in case and were warned of
          kept     \* for every path of a file, the bytes it had when it was read

vars == <<units, files, add, adds, edits, scope, warned, kept>>

Idle == [on |-> FALSE]

Init ==
    /\ scope \in Scopes
    /\ units = <<>> /\ files = <<>> /\ add = Idle /\ adds = 0 /\ edits = 0
    /\ warned = {} /\ kept = [path \in {} |-> <<>>]

--------------------------------------------------------------------------------
(* add_paths_with                                                              *)

Keys == { CollisionKey(files[i].path) : i \in DOMAIN files }
Claims ==
    [key \in Keys |->
        files[Max({ i \in DOMAIN files : CollisionKey(files[i].path) = key })].path]

Now == scope.adds[adds + 1]

BeginAdd ==
    /\ ~add.on /\ adds < Len(scope.adds)
    /\ add' = [on |-> TRUE, at |-> 0, work |-> <<>>,
               p |-> NewPacker(Now.tier, units, Claims)]
    /\ UNCHANGED <<units, files, adds, edits, scope, warned, kept>>

\* The next file of the work list, whatever subset of the catalogue that is.
TakeFile(i) ==
    /\ add.on /\ ~add.p.failed /\ i > add.at /\ Len(add.work) < Now.most
    /\ add' = [add EXCEPT !.at = i, !.work = Append(@, Catalogue[i]),
                          !.p = AddFile(@, Catalogue[i])]
    /\ UNCHANGED <<units, files, adds, edits, scope, warned, kept>>

\* The walk lists every directory that it comes through.
DirsOf(work) ==
    SetToSeq(UNION { { SubSeq(work[k].path, 1, n) : n \in 1..(Len(work[k].path) - 1) } :
                     k \in DOMAIN work })
DirEntry(path) == [path |-> path, size |-> 0, dir |-> TRUE, extents |-> <<>>]

\* "Entries with the same archive path are replaced."
Replaced(old, entries) ==
    FoldLeft(LAMBDA fs, e :
        IF \E i \in DOMAIN fs : fs[i].path = e.path
        THEN [i \in DOMAIN fs |-> IF fs[i].path = e.path THEN e ELSE fs[i]]
        ELSE Append(fs, e),
        old, entries)

\* What a file was when it was read: no more than the metadata said for one that counts as
\* empty or is cut by its header.
AsRead(f) == IF f.len = 0 \/ Splits(f) THEN SubSeq(f.cells, 1, f.len) ELSE f.cells
Kept(old, work) ==
    FoldLeft(LAMBDA k, f : [path \in DOMAIN k \cup {f.path} |->
                               IF path = f.path THEN AsRead(f) ELSE k[path]],
             old, work)

\* The last flush, the writer's records and the commit.
Committed(p) ==
    /\ ~p.failed
    /\ units' = p.units
    /\ files' = Replaced(files, [k \in DOMAIN DirsOf(add.work) |-> DirEntry(DirsOf(add.work)[k])]
                                \o p.files)
    /\ warned' = warned \cup p.warned

FinishAdd ==
    /\ add.on
    /\ Committed(Flush(add.p, "End"))
    /\ kept' = Kept([path \in DOMAIN kept \ ToSet(DirsOf(add.work)) |-> kept[path]], add.work)
    /\ adds' = adds + 1
    /\ add' = Idle
    /\ UNCHANGED <<edits, scope>>

\* One file that cannot be read as its metadata said, or a unit too large for a reader.
AddFails ==
    /\ add.on /\ Flush(add.p, "End").failed
    /\ adds' = adds + 1
    /\ add' = Idle
    /\ UNCHANGED <<units, files, edits, scope, warned, kept>>

--------------------------------------------------------------------------------
(* rename, remove, compact                                                     *)

Edit == ~add.on /\ edits < scope.edits /\ edits' = edits + 1 /\ UNCHANGED <<add, adds, scope, warned>>

Safe(path) == \A k \in DOMAIN path : path[k] \notin Unsafe
Under(selector, path) == IsPrefix(selector, path)
Moved(path, from, to) ==
    IF Under(from, path) THEN to \o SubSeq(path, Len(from) + 1, Len(path)) ELSE path

\* Only the destination that was named is looked up.
NamedIsFree(from, to) ==
    \A i \in DOMAIN files :
        ~Under(from, files[i].path) => CollisionKey(files[i].path) # CollisionKey(to)

\* "the whole archive as it will look afterwards": of two entries with one key neither moves.
NothingCollides(from, to) ==
    \A i, j \in DOMAIN files :
        /\ i # j /\ Under(from, files[i].path)
        => CollisionKey(Moved(files[i].path, from, to)) # CollisionKey(Moved(files[j].path, from, to))

Rename(from, to) ==
    /\ Edit
    /\ from # to /\ ~IsPrefix(from, to) /\ Safe(to)
    /\ \E i \in DOMAIN files : Under(from, files[i].path)
    /\ NothingCollides(from, to)
    /\ files' = [i \in DOMAIN files |-> [files[i] EXCEPT !.path = Moved(@, from, to)]]
    /\ kept' = [path \in { Moved(old, from, to) : old \in DOMAIN kept } |->
                    kept[CHOOSE old \in DOMAIN kept : Moved(old, from, to) = path]]
    /\ UNCHANGED units

\* remove's `kept`.
NotUnder(selection, entries) ==
    FoldLeft(LAMBDA left, e : IF \E s \in selection : Under(s, e.path) THEN left ELSE Append(left, e),
             <<>>, entries)

\* Every selector has to match something.
RemovePaths(selection) ==
    /\ Edit
    /\ \A s \in selection : \E i \in DOMAIN files : Under(s, files[i].path)
    /\ files' = NotUnder(selection, files)
    /\ kept' = [path \in { old \in DOMAIN kept : \A s \in selection : ~Under(s, old) } |-> kept[path]]
    /\ UNCHANGED units

\* The units that some entry still needs, in the order in which they are met.
Live ==
    FoldLeft(LAMBDA live, x : IF x.unit \in ToSet(live) THEN live ELSE Append(live, x.unit),
             <<>>, FlattenSeq([i \in DOMAIN files |-> files[i].extents]))
Remap(live, unit) == CHOOSE k \in DOMAIN live : live[k] = unit

Remapped(live, x) == [x EXCEPT !.unit = Remap(live, x.unit)]

CompactTo(live) ==
    /\ units' = [k \in DOMAIN live |-> units[live[k]]]
    /\ files' = [i \in DOMAIN files |->
                    [files[i] EXCEPT !.extents = [k \in DOMAIN @ |-> Remapped(live, @[k])]]]

Compact ==
    /\ Edit
    /\ CompactTo(Live)
    /\ UNCHANGED kept

Next ==
    \/ BeginAdd
    \/ \E i \in DOMAIN Catalogue : add.on /\ i \in Now.files /\ TakeFile(i)
    \/ FinishAdd \/ AddFails
    \/ \E m \in Moves : Rename(m[1], m[2])
    \/ \E s \in Selections : RemovePaths(s)
    \/ Compact

Spec == Init /\ [][Next]_vars

--------------------------------------------------------------------------------
(* extract_one, UnitCache and decode_window                                    *)

NoUnit == [idx |-> 0, data |-> <<>>]

\* The cache takes the unit's name before the unit has been verified.
ClaimsFirst(cache, unit, damaged) ==
    IF cache.idx = unit THEN [ok |-> TRUE, cache |-> cache]
    ELSE IF unit \in damaged THEN [ok |-> FALSE, cache |-> [cache EXCEPT !.idx = unit]]
    ELSE [ok |-> TRUE, cache |-> [idx |-> unit, data |-> units[unit].cells]]

\* UnitCache::load: what was there stays where the new unit does not verify.
Load(cache, unit, damaged) ==
    IF cache.idx = unit THEN [ok |-> TRUE, cache |-> cache]
    ELSE IF unit \in damaged THEN [ok |-> FALSE, cache |-> cache]
    ELSE [ok |-> TRUE, cache |-> [idx |-> unit, data |-> units[unit].cells]]

CutOut(data, x) == SubSeq(data, x.off + 1, x.off + x.len)

\* One extent after the other, through the one cache.
Written(state, x, damaged) ==
    LET loaded == Load(state.cache, x.unit, damaged)
    IN  IF ~state.ok THEN state
        ELSE IF ~loaded.ok \/ x.off + x.len > Len(loaded.cache.data)
        THEN [state EXCEPT !.ok = FALSE, !.cache = loaded.cache]
        ELSE [state EXCEPT !.cache = loaded.cache, !.out = @ \o CutOut(loaded.cache.data, x)]

InOrder(cache, e, damaged) ==
    FoldLeft(LAMBDA state, x : Written(state, x, damaged),
             [ok |-> TRUE, cache |-> cache, out |-> <<>>], e.extents)

\* As many extents as need no more units than there are lanes.
Windows(extents, lanes) ==
    FoldLeft(LAMBDA ws, x :
        IF ws # <<>> /\ (x.unit \in Last(ws).units \/ Cardinality(Last(ws).units) < lanes)
        THEN [ws EXCEPT ![Len(ws)] = [units |-> @.units \cup {x.unit},
                                      extents |-> Append(@.extents, x)]]
        ELSE Append(ws, [units |-> {x.unit}, extents |-> <<x>>]),
        <<>>, extents)

\* decode_window: all the units of a window, each in a lane, or an error.
InWindows(cache, e, lanes, damaged) ==
    FoldLeft(LAMBDA state, w :
        IF ~state.ok \/ w.units \cap damaged # {} THEN [state EXCEPT !.ok = FALSE]
        ELSE [state EXCEPT !.out =
                @ \o FlattenSeq([k \in DOMAIN w.extents |->
                                    CutOut(units[w.extents[k].unit].cells, w.extents[k])])],
        [ok |-> TRUE, cache |-> cache, out |-> <<>>], Windows(e.extents, lanes))

OneFile(cache, e, lanes, damaged) ==
    IF lanes < 2 \/ Len(e.extents) < 2 THEN InOrder(cache, e, damaged)
    ELSE InWindows(cache, e, lanes, damaged)

OrRefused(state, e) == IF state.ok /\ Len(state.out) = e.size THEN state.out ELSE Refused

\* The entries one after the other, with one decoder: what comes out for each.
Extracted(lanes, damaged) ==
    FoldLeft(LAMBDA done, e :
        LET state == OneFile(done.cache, e, lanes, damaged)
        IN  [cache |-> state.cache, out |-> Append(done.out, OrRefused(state, e))],
        [cache |-> NoUnit, out |-> <<>>], files).out

--------------------------------------------------------------------------------
(* Properties.                                                                 *)

LaneCounts == {1, 2}
AsStored(i) == IF files[i].dir THEN <<>> ELSE kept[files[i].path]

\* Every file comes back as it was read, through one cache or through lanes, after other
\* adds that replaced or reused what it shares units with, renames, removals and
\* compaction. No path has two entries.
FilesComeBack ==
    ~add.on =>
        /\ \A i, j \in DOMAIN files : files[i].path = files[j].path => i = j
        /\ { files[i].path : i \in { k \in DOMAIN files : ~files[k].dir } } = DOMAIN kept
        /\ \A lanes \in LaneCounts : Extracted(lanes, {}) = [i \in DOMAIN files |-> AsStored(i)]

\* A unit that does not verify costs the files that have bytes in it and no other: "One
\* file lost, not the extraction", though the decoder goes on with the cache it has.
DamageIsConfined ==
    ~add.on =>
        \A lanes \in LaneCounts, u \in DOMAIN units :
            Extracted(lanes, {u}) =
                [i \in DOMAIN files |->
                    IF \E k \in DOMAIN files[i].extents : files[i].extents[k].unit = u
                    THEN Refused ELSE AsStored(i)]

\* The units of the running add with their extents, if it ended here.
Ended == Flush(add.p, "End")
Log == IF add.on THEN Ended.trace ELSE <<>>
FileOf(part) == add.work[part.file]
Voters(t) == { k \in DOMAIN t.parts : Confident(FileOf(t.parts[k])) /\ t.parts[k].len > 0 }

\* Files that were empty when they were read leave a class or a vote of nothing behind.
Emptied == \E k \in DOMAIN add.work : add.work[k].len > 0 /\ add.work[k].cells = <<>>

New(t, n) == t.unit > Len(units) /\ \A m \in 1..(n - 1) : Log[m].unit # t.unit

Behind(t, verdict) ==
    Sum([k \in DOMAIN t.parts |->
            IF k \in Voters(t) /\ Verdict(FilePlan(FileOf(t.parts[k]), add.p.tier)) = verdict
            THEN t.parts[k].len ELSE 0])

\* "The verdict has to come from the bytes that are in the unit": the codec and filter of a
\* new unit have at least as many of its own bytes behind them as any other verdict, even
\* where a large file goes through several units or a unit in between was reused.
VotedByItsBytes ==
    add.on =>
        \A n \in DOMAIN Log :
            New(Log[n], n) /\ Voters(Log[n]) # {} /\ Ended.units[Log[n].unit].piece = Refused =>
                \A k \in Voters(Log[n]) :
                    Behind(Log[n], Verdict(Ended.units[Log[n].unit]))
                        >= Behind(Log[n], Verdict(FilePlan(FileOf(Log[n].parts[k]), add.p.tier)))

Classes(t) == { FilePlan(FileOf(t.parts[k]), add.p.tier).kind : k \in Voters(t) }

\* "A class change ends a unit at ANY size": files large enough to be judged share a unit
\* only with their own class, but for a unit that place itself opened in the middle of an
\* add. There the class has gone with the unit before, and one class more can join.
MixesOnlyBehindACut ==
    add.on /\ ~Emptied =>
        \A n \in DOMAIN Log :
            \/ Cardinality(Classes(Log[n])) <= 1
            \/ /\ Cardinality(Classes(Log[n])) = 2
               /\ n > 1 /\ Log[n - 1].cut \in {"Hash", "Cap", "Overshoot"}

\* "the scanner must see exactly one container": where a voter asked for a filter that
\* takes a whole file, the unit is that file; a .wav that is cut is cut between frames.
\* And no unit is larger than a reader accepts.
ContainersAreWhole ==
    \A n \in DOMAIN Log :
        LET t == Log[n]
            unit == Ended.units[t.unit]
        IN  /\ ~Ended.failed => Len(unit.cells) <= MaxStored
            /\ New(t, n) /\ Voters(t) # {} /\ unit.piece = Refused
               /\ unit.filter \in { NamedFilters[f] : f \in {"jpeg", "chunked", "wav"} }
               => Len(t.parts) = 1 /\ unit.cells = FileOf(t.parts[1]).cells
            /\ New(t, n) /\ unit.piece # Refused =>
                  \/ unit.piece.len % unit.piece.frame = 0
                  \/ \A m \in (n + 1)..Len(Log) : Log[m].parts[1].file # t.parts[1].file

\* Two files whose names differ only in case come to be in the archive only with a warning,
\* or where entries of both names were there before, whose pair was there then: "a rename
\* must not create a pair that a later extraction would silently drop".
KeptApart ==
    [][\A i, j \in DOMAIN files' :
          /\ i # j /\ ~files'[i].dir /\ ~files'[j].dir
          /\ CollisionKey(files'[i].path) = CollisionKey(files'[j].path)
          => \/ CollisionKey(files'[i].path) \in warned'
             \/ { files'[i].path, files'[j].path } \subseteq { files[k].path : k \in DOMAIN files }
      ]_vars
=============================================================================
