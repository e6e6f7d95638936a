--------------------------------- MODULE Mp3 ---------------------------------
(***************************************************************************)
(* Filter 39 (mp3.rs): the frames of an MPEG Layer III file taken apart    *)
(* into planes, column by column, and put together again. The decoder is   *)
(* told how many frames a run has and derives every length from the        *)
(* headers, as the encoder did.                                            *)
(*                                                                         *)
(* A header is two cells, the sync and one that says everything else; a    *)
(* CRC is one cell. Offsets count from 0.                                  *)
(***************************************************************************)
EXTENDS Runs, FiniteSetsExt

CONSTANTS MinChain,   \* MIN_CHAIN
          MinFrames   \* MIN_FRAMES

Sync == 80
HeaderLen == 2

\* What a header says. Frames 1 to 3 are of one kind of stream, 4 has longer
\* side information, 5 another sample rate. A reserved value is no header.
Header(c) ==
    CASE c = 1 -> [len |-> 4, side |-> 1, crc |-> 0, rate |-> 1]
      [] c = 2 -> [len |-> 5, side |-> 1, crc |-> 1, rate |-> 1]
      [] c = 3 -> [len |-> 3, side |-> 1, crc |-> 0, rate |-> 1]
      [] c = 4 -> [len |-> 4, side |-> 2, crc |-> 0, rate |-> 1]
      [] c = 5 -> [len |-> 4, side |-> 1, crc |-> 0, rate |-> 2]

MainLen(h) == h.len - HeaderLen - h.crc - h.side

\* There is a header at p.
IsHeader(data, p) ==
    p + HeaderLen <= Len(data) /\ data[p + 1] = Sync /\ data[p + 2] \in 1..5
HeaderAt(data, p) == Header(data[p + 2])

\* A change of rate or of the side information is another stream.
SameStream(h, first) == h.rate = first.rate /\ h.side = first.side

--------------------------------------------------------------------------------
(* Where the frames are.                                                       *)

\* Enough frames follow one another from here on, the first having been counted;
\* a file's end counts as enough.
RECURSIVE ChainsFrom(_, _, _, _)
ChainsFrom(data, p, n, first) ==
    \/ n >= MinChain
    \/ p = Len(data)
    \/ /\ IsHeader(data, p)
       /\ SameStream(HeaderAt(data, p), first)
       /\ p + HeaderAt(data, p).len <= Len(data)
       /\ ChainsFrom(data, p + HeaderAt(data, p).len, n + 1, first)

Chains(data, p) ==
    ChainsFrom(data, p + HeaderAt(data, p).len, 1, HeaderAt(data, p))

BeginsRun(data, p) ==
    IsHeader(data, p) /\ p + HeaderAt(data, p).len <= Len(data) /\ Chains(data, p)

\* The frames of the run that begins at p, by their offsets.
RECURSIVE RunFrom(_, _, _)
RunFrom(data, p, first) ==
    IF /\ IsHeader(data, p)
       /\ SameStream(HeaderAt(data, p), first)
       /\ p + HeaderAt(data, p).len <= Len(data)
    THEN <<p>> \o RunFrom(data, p + HeaderAt(data, p).len, first)
    ELSE <<>>

Raw(at, len) == IF len = 0 THEN <<>> ELSE <<[kind |-> "raw", at |-> at, len |-> len]>>
Run(frames) == <<[kind |-> "run", frames |-> frames]>>

\* Raw stretches and runs, in order. Whatever is not understood is raw.
RECURSIVE SegmentFrom(_, _, _)
SegmentFrom(data, i, rawAt) ==
    IF i + HeaderLen > Len(data) THEN Raw(rawAt, Len(data) - rawAt)
    ELSE IF ~BeginsRun(data, i) THEN SegmentFrom(data, i + 1, rawAt)
    ELSE LET frames == RunFrom(data, i, HeaderAt(data, i))
             end == Last(frames) + HeaderAt(data, Last(frames)).len
         IN  Raw(rawAt, i - rawAt) \o Run(frames) \o SegmentFrom(data, end, end)

Segments(data) == SegmentFrom(data, 0, 0)

\* is_mp3, from the head of a file and apart from the ID3 tag: a chain anywhere.
IsMp3(head) == \E p \in 0..Len(head) : BeginsRun(head, p)

--------------------------------------------------------------------------------
(* The planes.                                                                 *)

Runs(segments) == SelectSeq(segments, LAMBDA s : s.kind = "run")
FramesIn(segments) == FoldLeft(LAMBDA n, s : n + Len(s.frames), 0, Runs(segments))

\* The cells at(f), at(f) + 1, ... of the frames of a run, column after column.
Columns(data, frames, at(_), width) ==
    [k \in 1..(width * Len(frames)) |->
        data[at(frames[((k - 1) % Len(frames)) + 1]) + ((k - 1) \div Len(frames)) + 1]]

SideAt(data, f) == f + HeaderLen + HeaderAt(data, f).crc
MainAt(data, f) == SideAt(data, f) + HeaderAt(data, f).side
SideOf(data, run) == HeaderAt(data, run.frames[1]).side

OfRuns(segments, plane(_)) ==
    FlattenSeq([k \in DOMAIN Runs(segments) |-> plane(Runs(segments)[k])])
OfFrames(run, part(_)) == FlattenSeq([k \in DOMAIN run.frames |-> part(run.frames[k])])

HeaderPlane(data, run) == Columns(data, run.frames, LAMBDA f : f, HeaderLen)
CrcPlane(data, run) == OfFrames(run, LAMBDA f : SubSeq(data, f + HeaderLen + 1, SideAt(data, f)))
SidePlane(data, run) == Columns(data, run.frames, LAMBDA f : SideAt(data, f), SideOf(data, run))
MainPlane(data, run) ==
    OfFrames(run, LAMBDA f : SubSeq(data, MainAt(data, f) + 1, f + HeaderAt(data, f).len))

Mp3Encode(data) ==
    LET segments == Segments(data)
        raw == SelectSeq(segments, LAMBDA s : s.kind = "raw")
    IN  IF FramesIn(segments) < MinFrames THEN Refused
        ELSE [table |-> [k \in DOMAIN segments |->
                  IF segments[k].kind = "raw" THEN <<"raw", segments[k].len>>
                  ELSE <<"run", Len(segments[k].frames)>>],
              planes |->
                  FlattenSeq([k \in DOMAIN raw |-> SubSeq(data, raw[k].at + 1, raw[k].at + raw[k].len)])
                  \o OfRuns(segments, LAMBDA r : HeaderPlane(data, r))
                  \o OfRuns(segments, LAMBDA r : CrcPlane(data, r))
                  \o OfRuns(segments, LAMBDA r : SidePlane(data, r))
                  \o OfRuns(segments, LAMBDA r : MainPlane(data, r))]

--------------------------------------------------------------------------------
(* Putting them together: first the lengths, from the headers, then the cells. *)

Counts(table, kind) == Sum([k \in DOMAIN table |-> IF table[k][1] = kind THEN table[k][2] ELSE 0])

\* The i-th frame's header in a header plane of n frames that begins at hp.
PlaneHeader(planes, hp, n, i) == Header(planes[hp + n + i])

\* The sum of what(h) over the frames of all runs of the table before entry k.
Before(coded, hdr, k, what(_)) ==
    LET runs == { j \in 1..(k - 1) : coded.table[j][1] = "run" }
        hp(j) == hdr + HeaderLen * Sum([m \in 1..(j - 1) |->
                     IF coded.table[m][1] = "run" THEN coded.table[m][2] ELSE 0])
    IN  MapThenSumSet(LAMBDA j : Sum([i \in 1..coded.table[j][2] |->
            what(PlaneHeader(coded.planes, hp(j), coded.table[j][2], i))]), runs)

Mp3Decode(coded) ==
    LET planes == coded.planes
        end == Len(coded.table) + 1
        frames(k) == Counts(SubSeq(coded.table, 1, k - 1), "run")
        hdrBase == Counts(coded.table, "raw")
        total(k, what(_)) == Before(coded, hdrBase, k, what)
        crc(h) == h.crc
        side(h) == h.side
        crcBase == hdrBase + HeaderLen * frames(end)
        sideBase == crcBase + total(end, crc)
        mainBase == sideBase + total(end, side)
        raw(k) == LET at == Counts(SubSeq(coded.table, 1, k - 1), "raw")
                  IN  SubSeq(planes, at + 1, at + coded.table[k][2])
        run(k) ==
            LET n == coded.table[k][2]
                hp == hdrBase + HeaderLen * frames(k)
                h(i) == PlaneHeader(planes, hp, n, i)
                upTo(i, what(_)) == Sum([m \in 1..(i - 1) |-> what(h(m))])
                crcAt(i) == crcBase + total(k, crc) + upTo(i, crc)
                sideAt(i) == sideBase + total(k, side) + i
                mainAt(i) == mainBase + total(k, MainLen) + upTo(i, MainLen)
            IN  FlattenSeq([i \in 1..n |->
                    [col \in 1..HeaderLen |-> planes[hp + (col - 1) * n + i]]
                    \o SubSeq(planes, crcAt(i) + 1, crcAt(i) + h(i).crc)
                    \o [col \in 1..h(1).side |-> planes[sideAt(i) + (col - 1) * n]]
                    \o SubSeq(planes, mainAt(i) + 1, mainAt(i) + MainLen(h(i)))])
    IN  IF mainBase + total(end, MainLen) > Len(planes) THEN Refused
        ELSE FlattenSeq([k \in DOMAIN coded.table |->
                 IF coded.table[k][1] = "raw" THEN raw(k) ELSE run(k)])
=============================================================================
