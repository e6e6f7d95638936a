------------------------------- MODULE Packer -------------------------------
(***************************************************************************)
(* pack.rs: how the files of one add become units. The packer is a record, *)
(* p, with the fields of the code's Packer; its operations are functions   *)
(* from one such record to the next. p.units begins with the units of the  *)
(* manifest, so that a unit's place in it is its index, base + local, and  *)
(* what has the same cells has the same hash. p.trace is the per-unit log  *)
(* of NOVA_UNIT_TRACE.                                                     *)
(*                                                                         *)
(* A file is [path, len, cells]: its length is what the metadata says, its *)
(* cells are what is read later, which may be more or fewer.               *)
(***************************************************************************)
EXTENDS Analyze, FiniteSets

CONSTANTS Target,       \* geom.unit
          ChunkedFrom, ChunkMin, ChunkMax,   \* geometry, in cells
          MinContainer, Classifiable, MaxStored,
          Lower         \* the lower case of every name

ASSUME GeometryAssumption ==
    { Target, ChunkedFrom, ChunkMin, ChunkMax, MinContainer, Classifiable, MaxStored } \subseteq Nat

\* None is not a value that an Option holds.
ASSUME RefusedAssumption ==
    /\ Refused \notin [codec: DOMAIN CodecIds, filter: Nat]
    /\ Refused \notin [start: Nat, len: Nat, frame: Nat]

NoKind == "none yet"
NoVotes == [v \in {} |-> 0]
Verdict(plan) == [codec |-> plan.codec, filter |-> plan.filter]

\* paths.rs: names that differ only in letter case cannot both be extracted everywhere.
CollisionKey(path) == [i \in DOMAIN path |-> Lower[path[i]]]

\* Packer::new
NewPacker(tier, units, claims) ==
    [tier |-> tier, units |-> units, claims |-> claims, files |-> <<>>, buf |-> <<>>,
     kind |-> NoKind, pending |-> <<>>, votes |-> NoVotes, current |-> Refused,
     piece |-> Refused, trace |-> <<>>, warned |-> {}, failed |-> FALSE]

--------------------------------------------------------------------------------
(* Content decides where anything is cut.                                      *)

\* The boundary of a chunk (fastcdc): a cell that ends one, or the longest allowed.
Chunks(cells) ==
    FoldLeft(LAMBDA cut, c :
        LET open == Append(cut.open, c)
        IN  IF Len(open) = ChunkMax \/ (Len(open) >= ChunkMin /\ c % 3 = 0)
            THEN [done |-> Append(cut.done, open), open |-> <<>>]
            ELSE [cut EXCEPT !.open = open],
        [done |-> <<>>, open |-> <<>>], cells)

ChunksOf(cut) == IF cut.open = <<>> THEN cut.done ELSE Append(cut.done, cut.open)

\* "the hash of the item just added said stop"
SaysStop(item) == Sum(item) % Target < Len(item)

--------------------------------------------------------------------------------
(* flush                                                                       *)

\* The lower id wins where as many bytes are behind each of two verdicts.
Outvotes(votes, v, w) ==
    \/ votes[v] > votes[w]
    \/ /\ votes[v] = votes[w]
       /\ \/ CodecIds[v.codec] < CodecIds[w.codec]
          \/ v.codec = w.codec /\ v.filter < w.filter

\* The fallback: the head of the unit speaks for all of it.
HeadDecides(votes, buf, tier) == Verdict(Plan(buf, tier))

\* Only a unit with no voters at all is judged by its head.
UnitPlan(votes, buf, tier) ==
    IF votes = NoVotes THEN Verdict(Plan(buf, tier))
    ELSE CHOOSE v \in DOMAIN votes : \A w \in DOMAIN votes \ {v} : Outvotes(votes, v, w)

\* What the pipeline is given. A piece of a split .wav says so itself.
Unit(p, plan) ==
    [cells |-> p.buf, codec |-> plan.codec,
     filter |-> IF p.piece = Refused THEN plan.filter ELSE NamedFilters.wav,
     kind |-> p.kind, piece |-> p.piece]

Known(p) == { u \in DOMAIN p.units : p.units[u].cells = p.buf }

\* The pending extents go to their files.
Attached(files, pending, unit) ==
    FoldLeft(LAMBDA fs, x :
        [fs EXCEPT ![x.file].extents = Append(@, [unit |-> unit, off |-> x.off, len |-> x.len])],
        files, pending)

\* What every unit leaves behind, new or not.
Closed(p, unit, cut) ==
    [p EXCEPT !.buf = <<>>, !.pending = <<>>, !.kind = NoKind, !.piece = Refused,
              !.votes = NoVotes,
              !.failed = @ \/ Len(p.buf) > MaxStored,
              !.files = Attached(p.files, p.pending, unit),
              !.trace = Append(@, [unit |-> unit, cut |-> cut, parts |-> p.pending])]

Submitted(p) ==
    [p EXCEPT !.units = Append(@, Unit(p, UnitPlan(p.votes, p.buf, p.tier)))]

Flush(p, cut) ==
    IF p.buf = <<>> THEN [p EXCEPT !.pending = <<>>]
    ELSE IF Known(p) # {}
    THEN Closed(p, CHOOSE u \in Known(p) : \A v \in Known(p) : v <= u, cut)
    ELSE Closed(Submitted(p), Len(p.units) + 1, cut)

--------------------------------------------------------------------------------
(* place                                                                       *)

Counted(votes, verdict, n) ==
    IF verdict = Refused THEN votes
    ELSE [v \in DOMAIN votes \cup {verdict} |->
            (IF v \in DOMAIN votes THEN votes[v] ELSE 0) + (IF v = verdict THEN n ELSE 0)]

\* The offset is taken when the item is in.
AppendedFirst(p, file, item) ==
    [p EXCEPT !.votes = Counted(@, p.current, Len(item)),
              !.buf = @ \o item,
              !.pending = Append(@, [file |-> file, off |-> Len(p.buf \o item), len |-> Len(item)])]

Appended(p, file, item) ==
    [p EXCEPT !.votes = Counted(@, p.current, Len(item)),
              !.buf = @ \o item,
              !.pending = Append(@, [file |-> file, off |-> Len(p.buf), len |-> Len(item)])]

Overshoots(p, item) == p.buf # <<>> /\ Len(p.buf) + Len(item) > 2 * Target
ByHash(p, item) == Len(p.buf) >= Target \div 2 /\ SaysStop(item)

CutAfter(p, item) ==
    IF ByHash(p, item) THEN Flush(p, "Hash")
    ELSE IF Len(p.buf) >= 2 * Target THEN Flush(p, "Cap")
    ELSE p

Place(p, file, item) ==
    CutAfter(Appended(IF Overshoots(p, item) THEN Flush(p, "Overshoot") ELSE p, file, item),
             item)

--------------------------------------------------------------------------------
(* add_file                                                                    *)

\* "THE CAP IS THE READER'S"
Cap == IF 2 * Target < MaxStored THEN 2 * Target ELSE MaxStored

Recompressible(f) ==
    /\ f.len >= MinContainer /\ f.len <= Cap
    /\ LookOf(f.cells).magic \in {"jpeg", "deflate", "wav"}
ReadWhole(f) == f.len < ChunkedFrom \/ Recompressible(f)

\* A container that cannot be alone takes the path of compressed data, and a .wav that
\* of any binary.
FilePlan(f, tier) ==
    LET kind == Plan(f.cells, tier).kind
    IN  IF ~Recompressible(f) /\ kind \in {"deflate", "jpeg"}
        THEN PlanPrecompressed(LookOf(f.cells), tier)
        ELSE IF ~Recompressible(f) /\ kind = "wav"
        THEN PlanGeneric(LookOf(f.cells), tier)
        ELSE Plan(f.cells, tier)

\* A container shares a unit as any other file does.
AloneIfLarge(f, plan) ==
    \/ f.len >= ChunkedFrom /\ plan.codec = "store"
    \/ f.len >= Target \div 2

Alone(f, plan) ==
    \/ f.len >= ChunkedFrom /\ plan.codec = "store"
    \/ f.len >= Target \div 2
    \/ Recompressible(f)

Confident(f) == f.len >= Classifiable

\* note_case_collision, and the entry with the length of the metadata.
Listed(p, f) ==
    LET key == CollisionKey(f.path)
        taken == key \in DOMAIN p.claims
    IN  [p EXCEPT !.files = Append(@, [path |-> f.path, size |-> f.len, dir |-> FALSE,
                                       extents |-> <<>>]),
                  !.warned = IF taken /\ p.claims[key] # f.path THEN @ \cup {key} ELSE @,
                  !.claims = IF taken THEN @
                             ELSE [c \in DOMAIN @ \cup {key} |-> IF c = key THEN f.path ELSE @[c]]]

Mixed(p, f, plan) == Confident(f) /\ p.kind # NoKind /\ p.kind # plan.kind

\* A class that differs does not end a unit.
OnlyBeforeSolo(p, f, plan) == IF Alone(f, plan) THEN Flush(p, "BeforeSolo") ELSE p

Opened(p, f, plan) ==
    IF Alone(f, plan) THEN Flush(p, "BeforeSolo")
    ELSE IF Mixed(p, f, plan) THEN Flush(p, "Class") ELSE p

Classed(p, f, plan) ==
    [p EXCEPT !.kind = IF Confident(f) /\ @ = NoKind THEN plan.kind ELSE @,
              !.current = IF Confident(f) THEN Verdict(plan) ELSE Refused]

PlacedAll(p, file, items) ==
    FoldLeft(LAMBDA q, item : Place(q, file, item), p, items)

Done(p, f, size, alone) ==
    [(IF alone THEN Flush(p, "Solo") ELSE p) EXCEPT
        !.current = Refused, !.files[Len(p.files)].size = size]

--------------------------------------------------------------------------------
(* A .wav too large for a unit.                                                *)

\* probe_within and wav_split_plan: whole frames, and neither end too long.
PieceLength(riff) == (Target \div riff.frame) * riff.frame
Splits(f) ==
    LET look == LookOf(f.cells)
    IN  /\ ~ReadWhole(f) /\ look.magic = "wav" /\ look.riff # Refused
        /\ look.riff.len # 0 /\ look.riff.off + look.riff.len <= f.len
        /\ PieceLength(look.riff) # 0
        /\ look.riff.off + PieceLength(look.riff) <= Cap
        /\ (f.len - look.riff.off - look.riff.len) + PieceLength(look.riff) <= Cap

\* One piece: the header rides with the first and the tail with the last.
WavPiece(p, f, riff, done) ==
    LET run == IF PieceLength(riff) < riff.len - done THEN PieceLength(riff) ELSE riff.len - done
        from == IF done = 0 THEN 0 ELSE riff.off + done
        upto == IF done + run = riff.len THEN f.len ELSE riff.off + done + run
    IN  Flush([p EXCEPT !.buf = SubSeq(f.cells, from + 1, upto),
                        !.pending = Append(@, [file |-> Len(p.files), off |-> 0, len |-> upto - from]),
                        !.kind = "wav",
                        !.piece = [start |-> IF done = 0 THEN riff.off ELSE 0, len |-> run,
                                   frame |-> riff.frame]],
              "Solo")

\* read_exact: a file that has become shorter fails the whole add.
WavSplit(p, f, riff) ==
    LET pieces == (riff.len + PieceLength(riff) - 1) \div PieceLength(riff)
    IN  IF Len(f.cells) < f.len THEN [p EXCEPT !.failed = TRUE]
        ELSE FoldLeft(LAMBDA q, k : WavPiece(q, f, riff, (k - 1) * PieceLength(riff)),
                      Flush(p, "BeforeSolo"), [k \in 1..pieces |-> k])

--------------------------------------------------------------------------------

AddOpened(p, f, plan) ==
    IF Splits(f)
    THEN [WavSplit(p, f, LookOf(f.cells).riff) EXCEPT
            !.current = Refused, !.files[Len(p.files)].size = f.len]
    ELSE Done(PlacedAll(p, Len(p.files),
                        IF ReadWhole(f) THEN <<f.cells>> ELSE ChunksOf(Chunks(f.cells))),
              f, Len(f.cells), Alone(f, plan))

AddPlanned(p, f, plan) == AddOpened(Classed(Opened(p, f, plan), f, plan), f, plan)

AddFile(p, f) ==
    IF f.len = 0 THEN Listed(p, f)
    ELSE AddPlanned(Listed(p, f), f, FilePlan(f, p.tier))
=============================================================================
