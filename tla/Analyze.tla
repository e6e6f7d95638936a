------------------------------ MODULE Analyze -------------------------------
(***************************************************************************)
(* analyze.rs: the codec, the filter and the class that the first bytes of *)
(* a file or of a unit suggest. What a format's magic, a trial compression *)
(* and the stride detector say of some bytes is a function of the first of *)
(* them, Looks.                                                            *)
(***************************************************************************)
EXTENDS Codecs

CONSTANTS Looks,   \* by the first cell of a file: magic, saves, stride, riff
          Judged   \* below this many cells nothing is judged (256 bytes)

Magics == {"jpeg", "deflate", "wav", "mp3", "packed", "exe", "text", "none"}

\* probe_within: a supported format has frames of at least one byte.
ASSUME LooksAssumption ==
    \A c \in DOMAIN Looks :
        /\ Looks[c].magic \in Magics /\ Looks[c].stride \in 0..MaxDeltaDistance
        /\ Looks[c].riff = Refused \/ Looks[c].riff \in [frame: Nat \ {0}, off: Nat, len: Nat]

\* Bytes out of the middle of something: noise.
Noise == [magic |-> "none", saves |-> 0, stride |-> 0, riff |-> Refused]
LookOf(cells) ==
    IF cells # <<>> /\ cells[1] \in DOMAIN Looks THEN Looks[cells[1]] ELSE Noise

GeneralCodec(tier) == IF tier = "max" THEN "lzma2" ELSE "zstd"

ThePlan(codec, filter, kind) == [codec |-> codec, filter |-> filter, kind |-> kind]
StorePlan == ThePlan("store", NamedFilters.none, "precompressed")
Generally(tier, filter, kind) == ThePlan(GeneralCodec(tier), NamedFilters[filter], kind)

\* saves_at_least: a trial has to save so many percent.
PlanPrecompressed(look, tier) ==
    IF look.saves >= 1 THEN Generally(tier, "none", "precompressed") ELSE StorePlan

\* A stride is kept where differencing pays off, whether or not the bytes compress as
\* they are.
PlanGeneric(look, tier) ==
    IF look.stride # 0 THEN ThePlan(GeneralCodec(tier), 1 + look.stride, "generic")
    ELSE IF look.saves >= 3 THEN Generally(tier, "none", "generic")
    ELSE StorePlan

\* The containers, the .wav and the MPEG audio go by their magic, before anything is
\* tried on a sample.
PlanOf(look, tier) ==
    CASE look.magic = "jpeg" -> Generally(tier, "jpeg", "jpeg")
      [] look.magic = "deflate" -> Generally(tier, "chunked", "deflate")
      [] look.magic = "wav" -> Generally(tier, "wav", "wav")
      [] look.magic = "mp3" -> Generally(tier, "mp3", "mp3")
      [] look.magic = "packed" -> PlanPrecompressed(look, tier)
      [] look.magic = "exe" ->
            Generally(tier, IF tier = "max" THEN "split" ELSE "bcj", "executable")
      [] look.magic = "text" ->
            ThePlan(IF tier = "max" THEN "ppmd7" ELSE GeneralCodec(tier),
                    NamedFilters.none, "text")
      [] look.magic = "none" -> PlanGeneric(look, tier)

Plan(cells, tier) ==
    IF Len(cells) < Judged THEN Generally(tier, "none", "generic")
    ELSE PlanOf(LookOf(cells), tier)
=============================================================================
