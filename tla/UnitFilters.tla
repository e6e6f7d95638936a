----------------------------- MODULE UnitFilters -----------------------------
(***************************************************************************)
(* The filters that UnitJob is about: which encoder and decoder belong to  *)
(* an id, and how long what they make is (filters.rs).                     *)
(***************************************************************************)
EXTENDS UnitJob, Filters, Container, Wav, Mp3

CONSTANTS SplitHead,      \* the header of filter 36, in cells
          ContainerHead   \* the header of a container's framing, in cells

Containers == {"deflate", "container", "chunked"}
Framing(f) == CASE f = "deflate" -> 1 [] f = "container" -> 2 [] f = "chunked" -> 3

\* The unit's bytes: a unit of containers is a sequence of files.
UnitOf(j) == IF j.files = <<>> THEN j.bytes ELSE UnitBytes(j.files)

\* Filter::apply, or encode_piece for a piece of a split .wav.
UnitEncoded(j) ==
    LET f == FilterOf(j.filter)
        bytes == UnitOf(j)
    IN  CASE f = "none" -> bytes
          [] f = "bcj" -> BcjX86(bytes, TRUE)
          [] f = "delta" -> DeltaEncode(bytes, Distance(j.filter))
          [] f = "split" -> X86SplitEncode(bytes)
          [] f = "jpeg" -> Lepton(bytes)
          [] f = "wav" -> IF j.piece = Refused THEN WavEncode(bytes)
                          ELSE WavPieceEncode(bytes, j.piece.fmt, j.piece.off, j.piece.len)
          [] f = "mp3" -> Mp3Encode(bytes)
          [] f \in Containers -> ContainerEncode(j.files, Framing(f), MaxCoded)

\* Filter::unapply. One decoder for the three framings.
UnitDecoded(id, coded) ==
    LET f == FilterOf(id)
    IN  CASE f = "none" -> coded
          [] f = "bcj" -> BcjX86(coded, FALSE)
          [] f = "delta" -> DeltaDecode(coded, Distance(id))
          [] f = "split" -> X86SplitDecode(coded)
          [] f = "jpeg" -> Unlepton(coded)
          [] f = "wav" -> WavDecode(coded)
          [] f = "mp3" -> Mp3Decode(coded)
          [] f \in Containers -> ContainerDecode(coded)

LengthOf(id, coded) ==
    LET f == FilterOf(id)
    IN  CASE f = "split" -> SplitHead + ((coded.sites + 7) \div 8) + Len(coded.main) + Len(coded.targets)
          [] f = "wav" -> RecordHead + Len(coded.wrapper) + FlacLength(coded.flac)
          [] f = "mp3" -> Len(coded.table) + Len(coded.planes)
          [] f \in Containers -> ContainerHead + Len(coded.body)
          [] OTHER -> Len(coded)

--------------------------------------------------------------------------------
(* Properties.                                                                 *)

\* A container is given up only when none of its streams fits within the bound by
\* itself, when its directory is not in the order of the file, or when what was
\* taken leaves no room for the framing's header. (container_encode_inner skips a
\* stream that does not fit, not the container.)
ModelledAlone(stream) ==
    TakeStream(Original(job), Framing(FilterOf(job.filter)), MaxCoded,
               [total |-> Unpacked, parts |-> <<>>], stream).parts # <<>>
GivesUpForAReason ==
    LET version == Framing(FilterOf(job.filter))
        taken == Taken(job.files, version, MaxCoded)
    IN  stage = "qualify" /\ FilterOf(job.filter) \in Containers /\ filter = 0 =>
            \/ \A s \in ToSet(StreamsOf(job.files, version)) : ~ModelledAlone(s)
            \/ ~InOrder(AllPieces(taken.parts), Unpacked)
            \/ taken.parts # <<>> /\ taken.total + ContainerHead > MaxCoded
=============================================================================
