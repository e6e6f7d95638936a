------------------------------- MODULE Codecs -------------------------------
(***************************************************************************)
(* codec.rs, the ids of the filters, and the part of analyze.rs that says  *)
(* which codecs run on a unit. The compressors are external: what they     *)
(* give is a payload of some size that holds the data. What the decoder is *)
(* not told, the window of LZMA2 and the pool and order of PPMd7, both     *)
(* sides derive.                                                           *)
(***************************************************************************)
EXTENDS Runs

CONSTANTS DictMin, DictMax,   \* DICT_SIZE_MIN, LZMA2_DICT_MAX
          PoolMin, PoolMax,   \* the bounds of ppmd7_mem_size
          MaxDeltaDistance    \* MAX_DELTA_DISTANCE

\* The ids of the other filters begin behind the last of the byte difference.
ASSUME DeltaAssumption == MaxDeltaDistance \in 1..32

\* The ids an archive keeps. The byte difference has one per distance, from 2 on.
NamedFilters == [none |-> 0, bcj |-> 1, deflate |-> 34, jpeg |-> 35, split |-> 36,
                 container |-> 37, wav |-> 38, mp3 |-> 39, chunked |-> 40]
MaxDeltaId == 1 + MaxDeltaDistance

\* Filter::from_id
FilterOf(id) ==
    IF id \in 2..MaxDeltaId THEN "delta"
    ELSE IF \E f \in DOMAIN NamedFilters : NamedFilters[f] = id
    THEN CHOOSE f \in DOMAIN NamedFilters : NamedFilters[f] = id ELSE Refused

Distance(id) == id - 1

\* changes_length, which is also what Applied says of a filter that worked.
Rebuilds(id) == FilterOf(id) \notin {"none", "bcj", "delta"}

CodecIds == [store |-> 0, zstd |-> 1, lzma2 |-> 2, ppmd7 |-> 3, bsc |-> 4]

\* Codec::from_id
CodecOf(id) ==
    IF \E c \in DOMAIN CodecIds : CodecIds[c] = id
    THEN CHOOSE c \in DOMAIN CodecIds : CodecIds[c] = id ELSE Refused

Clamped(n, low, high) == IF n < low THEN low ELSE IF n > high THEN high ELSE n

Window(length) == Clamped(length, DictMin, DictMax)       \* lzma2_dict_size
Pool(length) == Clamped(32 * length, PoolMin, PoolMax)    \* ppmd7_mem_size
DefaultOrder == 10
Order(param) == Clamped(IF param = 0 THEN DefaultOrder ELSE param, 2, 64)

\* What has to be the same on both sides, beside the length itself.
Setting(codec, param, length) ==
    CASE codec = "lzma2" -> <<Window(length)>>
      [] codec = "ppmd7" -> <<Order(param), Pool(length)>>
      [] OTHER -> <<>>

Compress(codec, param, data, length, size) ==
    [holds |-> data, length |-> length, size |-> size,
     by |-> codec, setting |-> Setting(codec, param, length)]

\* Exactly the declared length, or an error. A payload of another codec, or one
\* decoded with another setting, is as good as an error: the hash is still to come.
Decompress(codec, payload, claimed, param) ==
    IF /\ codec = payload.by /\ claimed = payload.length
       /\ Setting(codec, param, claimed) = payload.setting
    THEN payload.holds ELSE Refused

--------------------------------------------------------------------------------
(* Tier::candidates                                                            *)

Entrant(codec, param) == [codec |-> codec, param |-> param]
Orders == <<10, 16>>   \* PPMD7_ORDERS

\* Data an entropy coder has been over has no symbol contexts left to model.
EntropyCoded == {"precompressed", "wav", "mp3"}

Candidates(tier, first, kind) ==
    IF first = "store" \/ tier = "fast" THEN <<Entrant(first, 0)>>
    ELSE IF tier = "normal" \/ kind \in EntropyCoded
    THEN <<Entrant(first, 0), Entrant("bsc", 0)>>
    ELSE <<Entrant("lzma2", 0)>> \o [k \in DOMAIN Orders |-> Entrant("ppmd7", Orders[k])]
         \o <<Entrant("bsc", 0)>>
=============================================================================
