--------------------------------- MODULE Wav ---------------------------------
(***************************************************************************)
(* Filter 38 (wav.rs): the PCM of a RIFF/WAVE file replaced by a FLAC      *)
(* stream, every other byte kept.                                          *)
(*                                                                         *)
(* A file is a run of cells: one for the RIFF head, two for a chunk's id   *)
(* and declared size, one for what a fmt chunk says, and the bodies. The   *)
(* walk reads ids and sizes from wherever it has got to, as the code does. *)
(* FLAC is external: it takes one cell for a sample.                       *)
(***************************************************************************)
EXTENDS Runs

CONSTANT RecordHead   \* HEADER, in cells

\* Cells that have a meaning where the walk meets them.
Riff == 90
FmtId == 91
DataId == 92

PcmByte == 16    \* values of a byte of a sample

\* What the cell of a fmt chunk says; an unknown cell is a format that is not
\* integer PCM.
Fmt(c) ==
    CASE c = 1 -> [channels |-> 1, bytes |-> 2, pcm |-> TRUE]
      [] c = 2 -> [channels |-> 2, bytes |-> 2, pcm |-> TRUE]
      [] c = 3 -> [channels |-> 1, bytes |-> 3, pcm |-> TRUE]
      [] c = 4 -> [channels |-> 1, bytes |-> 1, pcm |-> TRUE]
      [] OTHER -> [channels |-> 0, bytes |-> 0, pcm |-> FALSE]

FrameBytes(fmt) == fmt.channels * fmt.bytes
Supported(fmt) == fmt.bytes \in {2, 3} /\ fmt.channels \in 1..8

IsWav(data) == Len(data) > 0 /\ data[1] = Riff

--------------------------------------------------------------------------------
(* probe_within: the chunk list of a head of a file of `total` cells.          *)

\* An odd body is followed by a pad cell that its size does not count.
NextChunk(body, size) == body + size + (size % 2)

\* s: where the walk is, and what it has found.
RECURSIVE Walk(_, _, _)
Walk(data, total, s) ==
    IF s.at + 2 > Len(data) THEN s
    ELSE LET id == data[s.at + 1]
             size == data[s.at + 2]
             body == s.at + 2
             next == [s EXCEPT !.at = NextChunk(body, size)]
         IN  IF body + size > total THEN s
             ELSE IF id = FmtId /\ s.fmt = 0
             THEN IF body + size > Len(data) THEN s
                  ELSE IF size = 0 \/ ~Fmt(data[body + 1]).pcm THEN [s EXCEPT !.bad = TRUE]
                  ELSE Walk(data, total, [next EXCEPT !.fmt = data[body + 1]])
             ELSE IF id = DataId /\ s.off = 0
             THEN Walk(data, total, [next EXCEPT !.off = body, !.len = size])
             ELSE Walk(data, total, next)

ProbeWithin(data, total) ==
    LET s == Walk(data, total, [at |-> 1, fmt |-> 0, off |-> 0, len |-> 0, bad |-> FALSE])
    IN  IF ~IsWav(data) \/ s.bad \/ s.fmt = 0 \/ s.off = 0 THEN Refused
        ELSE [fmt |-> s.fmt, off |-> s.off, len |-> s.len]
Probe(data) == ProbeWithin(data, Len(data))

--------------------------------------------------------------------------------
(* Samples, and the FLAC library.                                              *)

Unsigned(b) == IF Len(b) = 2 THEN b[1] + PcmByte * b[2]
               ELSE b[1] + PcmByte * b[2] + PcmByte * PcmByte * b[3]
SignExtended(v, n) == IF v >= (PcmByte ^ n) \div 2 THEN v - PcmByte ^ n ELSE v

ToSamples(pcm, n) ==
    [k \in 1..(Len(pcm) \div n) |-> SignExtended(Unsigned(SubSeq(pcm, n * (k - 1) + 1, n * k)), n)]
FromSamples(samples, n) ==
    FlattenSeq([k \in DOMAIN samples |->
        [b \in 1..n |-> ((samples[k] % (PcmByte ^ n)) \div (PcmByte ^ (b - 1))) % PcmByte]])

Flac(samples, fmt) == [fmt |-> fmt, samples |-> samples]
FlacLength(flac) == 1 + Len(flac.samples)

--------------------------------------------------------------------------------
\* encode_piece: `off` and `len` say where the PCM lies in the unit.
WavPieceEncode(buf, fmt, off, len) ==
    LET n == Fmt(fmt).bytes
        flac == Flac(ToSamples(SubSeq(buf, off + 1, off + len), n), fmt)
        wrapper == SubSeq(buf, 1, off) \o SubSeq(buf, off + len + 1, Len(buf))
    IN  IF \/ ~Supported(Fmt(fmt))
           \/ len = 0 \/ off + len > Len(buf)
           \/ len % FrameBytes(Fmt(fmt)) # 0
           \/ RecordHead + Len(wrapper) + FlacLength(flac) >= Len(buf)
        THEN Refused
        ELSE [fmt |-> fmt, off |-> off, len |-> len, wrapper |-> wrapper, flac |-> flac]

WavEncode(data) ==
    LET p == Probe(data)
    IN  IF p = Refused THEN Refused ELSE WavPieceEncode(data, p.fmt, p.off, p.len)

WavDecode(coded) ==
    LET n == Fmt(coded.fmt).bytes
        pcm == FromSamples(coded.flac.samples, n)
    IN  IF \/ coded.off > Len(coded.wrapper)
           \/ coded.len % FrameBytes(Fmt(coded.fmt)) # 0
           \/ coded.flac.fmt # coded.fmt
           \/ Len(pcm) # coded.len
        THEN Refused
        ELSE SubSeq(coded.wrapper, 1, coded.off) \o pcm
             \o SubSeq(coded.wrapper, coded.off + 1, Len(coded.wrapper))
=============================================================================
