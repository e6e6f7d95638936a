------------------------------ MODULE MCUnitJob ------------------------------
(***************************************************************************)
(* UnitJob on small units. Every filter meets all its short inputs with a  *)
(* single codec that gains or does not; the race is run on few units with  *)
(* all results that make a difference.                                     *)
(***************************************************************************)
EXTENDS UnitFilters

Job(id, files, bytes, piece, candidates, trial, gain) ==
    [filter |-> id, files |-> files, bytes |-> bytes, piece |-> piece,
     candidates |-> candidates, trial |-> trial, gain |-> gain]

\* One codec, which gains a cell or loses one.
Zstd(id, files, bytes, piece, gain) ==
    Job(id, files, bytes, piece, Candidates("fast", "zstd", "generic"), Refused, <<gain>>)
Alone(id, files, bytes, piece) == { Zstd(id, files, bytes, piece, g) : g \in {-1, 1} }

\* MAX_STORED_CHUNK: no unit is longer.
MaxStored == 27

--------------------------------------------------------------------------------
(* Machine code: bytes of two bits. One call at the start, or two.             *)
Bytes == 0..(Byte - 1)
Calls == { <<CallOp>> \o b : b \in [1..6 -> Bytes] }
Sites == { <<CallOp>>, <<TwoByteOp, Condition>>, <<TwoByteOp>>, <<0>> }
Operands == { <<0, 0, 0, 0>>, <<1, 0, 0, 0>>, <<FF, FF, FF, FF>>, <<1, 1, 1, 1>>, <<CallOp, TwoByteOp>>, <<>> }
Jumps == { a \o s \o p \o t \o q \o b : a \in { <<>>, <<0>> }, s \in Sites, p \in Operands,
                                      t \in Sites, q \in Operands, b \in { <<>>, <<CallOp>>, <<3, 0>> } }

BcjJobs == { Zstd(1, <<>>, b, Refused, -1) : b \in Calls }
SplitJobs == { Zstd(36, <<>>, b, Refused, -1) : b \in Jumps }
DeltaJobs == UNION { Alone(id, <<>>, b, Refused) : id \in 2..3, b \in [1..4 -> Bytes] }
JpegJobs == UNION { Alone(35, <<>>, b, Refused) : b \in UNION { [1..n -> {41, 42}] : n \in 1..3 } }

--------------------------------------------------------------------------------
(* MPEG frames, whole ones of all kinds, a cut one, junk and a false sync.     *)
Items == { <<Sync, 1, 7, 8>>, <<Sync, 2, 6, 7, 9>>, <<Sync, 3, 7>>, <<Sync, 4, 6, 7>>,
           <<Sync, 5, 7, 8>>, <<Sync, 1>>, <<Sync>>, <<7>> }
Mp3s == { FlattenSeq(m) : m \in UNION { [1..n -> Items] : n \in 1..4 } }
Mp3Jobs == { Zstd(39, <<>>, b, Refused, -1) : b \in Mp3s }

--------------------------------------------------------------------------------
(* RIFF: a chunk of each kind, odd ones, one of another id, and files cut off. *)
Chunks == { <<FmtId, 1, 1, 0>>, <<FmtId, 1, 2, 0>>, <<FmtId, 1, 3, 0>>, <<FmtId, 1, 9, 0>>,
            <<DataId, 4, 1, 15, 3, 9>>, <<DataId, 3, 8, 2, 5, 0>>, <<DataId, 6, 1, 15, 3, 9, 2, 2>>,
            <<95, 1, 7, 0>>, <<95, 2, 90, 91>> }
Riffs == { <<Riff>> \o FlattenSeq(w) : w \in UNION { [1..n -> Chunks] : n \in 1..3 } }
ShortEnough(w) == Len(w) <= MaxStored
Wavs == { w \in Riffs \cup { Front(w) : w \in Riffs } : ShortEnough(w) }
Pcm == { b : b \in [1..8 -> {0, 15}] }
Pieces == { [fmt |-> f, off |-> o, len |-> l] : f \in 1..4, o \in 0..2, l \in {0, 6, 7, 8} }
WavJobs == UNION { Alone(38, <<>>, w, Refused) : w \in Wavs }
PieceJobs == UNION { Alone(38, <<>>, b, p) : b \in { <<0, 15, 1, 2, 3, 4, 5, 6>> }, p \in Pieces }

--------------------------------------------------------------------------------
(* Containers: streams that fit, that fit in part, that do not, and a wrong    *)
(* one; stored members; directories in another order.                          *)
Own == [role |-> "own", cells |-> <<0>>]
Body(role, cells) == [role |-> role, cells |-> cells]
Bodies == { <<11, 21>>, <<14, 24>>, <<13, 14, 23>>, <<12, 30, 21>>, <<15, 21>> }
Wrapped(cells) == <<0>> \o cells \o <<0>>

Gzips == { [form |-> "gzip", parts |-> <<Own, Body("body", b), Own>>] : b \in Bodies }
Pngs == { [form |-> "png", parts |-> <<Own, Body("idat", SubSeq(Wrapped(b), 1, n)), Own,
                                       Body("idat", SubSeq(Wrapped(b), n + 1, Len(b) + 2)), Own>>] :
            b \in Bodies, n \in 1..3 }
Image == [form |-> "jpeg", parts |-> <<Body("own", <<41, 41, 41>>)>>]
Pdfs == { [form |-> "pdf", parts |-> <<Own, Body("flate", Wrapped(b)), Own,
                                       Body("dct", <<41, 41, 41>>), Body("bare", c)>>] :
            b \in Bodies, c \in Bodies }
Zips == { [form |-> "zip", directory |-> d,
           parts |-> <<Own, Body("deflated", b), Own, Body("deflated", c), Own,
                       [role |-> "stored", file |-> f], Body("own", <<0>>)>>] :
            d \in {<<2, 4, 6>>, <<4, 2, 6>>, <<4>>, <<2, 2>>}, b \in Bodies, c \in Bodies,
            f \in {Image} \cup { g \in Pngs : g.parts[4].cells = <<21, 0>> } }
Small == { f \in Gzips \cup Pdfs : f.parts[2].cells \in {<<11, 21>>, Wrapped(<<11, 21>>)} }

Units == { <<f>> : f \in Gzips \cup Pngs \cup Pdfs }
ZipUnits == { <<z>> : z \in Zips }
Mixed == { <<f, g>> : f \in Small \cup Pngs, g \in Small }
TwoZips == { <<z, z>> : z \in Zips }
ContainerJobs(units) == UNION { Alone(id, u, <<>>, Refused) : id \in {34, 37, 40},
                              u \in { v \in units : ShortEnough(UnitBytes(v)) } }

--------------------------------------------------------------------------------
(* The race: all orders of the results, all fields the sample may leave.       *)
Max4 == Candidates("max", "lzma2", "generic")
Trials == { Refused, <<100, 100, 100, 100>>, <<116, 100, 101, 100>>,
            <<115, 102, 102, 100>>, <<116, 103, 102, 100>>,
            <<100, 102, 101, 116>>, <<116, 100, 103, 130>>, <<114, 101, 101, 100>> }
Gains == [1..4 -> {-2, -1, 0}] \cup [1..4 -> {-1, Fails}]
Race(id, files, bytes, gains) ==
    { Job(id, files, bytes, Refused, Max4, t, g) : t \in Trials, g \in gains }
RaceJobs == Race(0, <<>>, <<1, 2, 3, 4>>, Gains)
            \cup Race(0, <<>>, <<1, 2, 3>>, { <<-1, -1, -1, -1>>, <<0, -1, -1, 0>> })
FilteredRaces == Race(3, <<>>, <<1, 2, 3, 1>>, { <<-1, -2, 0, -1>>, <<0, 0, 0, 0>> })
                 \cup Race(36, <<>>, <<1, 0, 0, 0, 0, 3>>, { <<-1, -2, 0, -1>>, <<0, 0, 0, 0>> })
                 \cup Race(35, <<>>, <<41, 41, 41>>, { <<-1, -2, 0, -1>>, <<0, 0, 0, 0>> })
TwoHorses == { Job(0, <<>>, <<1, 2, 3, 4>>, Refused, Candidates(t[1], t[2], t[3]), Refused, g) :
                 t \in { <<"normal", "zstd", "generic">>, <<"max", "lzma2", "mp3">> },
                 g \in [1..2 -> {-1, 0, Fails}] }
StoreJobs == { Job(0, <<>>, <<1, 2>>, Refused, Candidates("max", "store", "precompressed"), Refused, <<0>>) }

MCCases == << BcjJobs, SplitJobs, DeltaJobs, JpegJobs, Mp3Jobs, WavJobs, PieceJobs,
              ContainerJobs(Units), ContainerJobs(ZipUnits), ContainerJobs(Mixed),
              ContainerJobs(TwoZips), RaceJobs, FilteredRaces, TwoHorses, StoreJobs >>
=============================================================================
