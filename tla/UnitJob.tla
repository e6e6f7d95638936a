------------------------------- MODULE UnitJob -------------------------------
(***************************************************************************)
(* What happens to one unit (compress_job, pipeline.rs): the filter the    *)
(* analyzer proposed is tried and has to prove itself, the field of codecs *)
(* is thinned on a sample, what is left of it races in lanes, the smallest *)
(* of three forms is kept, and a reader gets it back (verify_chunk,        *)
(* archive.rs).                                                            *)
(*                                                                         *)
(* A job is one unit with what the codecs will make of it: job.trial, the  *)
(* sizes on the sample, and job.gain, by how much the coded unit exceeds   *)
(* the original, in the order of the candidates.                           *)
(***************************************************************************)
EXTENDS Codecs

CONSTANTS Cases,             \* sequence of sets of jobs
          MaxCoded,          \* MAX_CODED_CHUNK
          QualifyFrom,       \* QUALIFY_FROM
          Original(_),       \* the bytes of a job's unit
          Apply(_),          \* what the filter of a job makes of them, or Refused
          Unapply(_, _),     \* what the decoder of a filter's id makes of some data
          CodedLength(_, _)  \* the length of what a filter has made

Fails == 99   \* in place of a gain: the codec fails on this unit

\* The packer closes a unit before a reader would refuse it, and some codec runs. A filter
\* that works in place, or none at all, cannot fail, keeps the length and is undone; nothing
\* that is rebuilt is empty. Whether a rebuilding filter is undone is left to the proof
\* that compress_job asks of it.
IsJob(j) ==
    /\ Original(j) # Refused /\ Len(Original(j)) \in 0..MaxCoded
    /\ j.candidates \in Seq([codec: DOMAIN CodecIds, param: Nat]) /\ j.candidates # <<>>
    /\ j.gain \in [DOMAIN j.candidates -> Int]
    /\ Unapply(0, Original(j)) = Original(j) /\ CodedLength(0, Original(j)) = Len(Original(j))
    /\ IF Rebuilds(j.filter)
       THEN Apply(j) # Refused => CodedLength(j.filter, Apply(j)) \in Nat \ {0}
       ELSE /\ Apply(j) # Refused
            /\ Unapply(j.filter, Apply(j)) = Original(j)
            /\ CodedLength(j.filter, Apply(j)) = Len(Original(j))
ASSUME JobAssumption ==
    MaxCoded \in Nat /\ \A n \in DOMAIN Cases : \A j \in Cases[n] : IsJob(j)

--------------------------------------------------------------------------------
(* qualify                                                                     *)

WindowLzma == 115
WindowPpmd == 102

Best(sizes) == CHOOSE n \in ToSet(sizes) : \A m \in ToSet(sizes) : n <= m
Within(size, best, percent) == size * 100 <= best * percent

\* The order of PPMd7 the sample prefers; the lower one where it does not mind.
Preferred(candidates, sizes) ==
    LET ppmd == { k \in DOMAIN candidates : candidates[k].codec = "ppmd7" }
    IN  CHOOSE k \in ppmd : \A j \in ppmd :
            \/ sizes[k] < sizes[j]
            \/ sizes[k] = sizes[j] /\ candidates[k].param <= candidates[j].param

Qualifies(candidates, sizes, k) ==
    CASE candidates[k].codec = "bsc" -> TRUE
      [] candidates[k].codec = "ppmd7" ->
            k = Preferred(candidates, sizes) /\ Within(sizes[k], Best(sizes), WindowPpmd)
      [] OTHER -> Within(sizes[k], Best(sizes), WindowLzma)

\* The places in the candidates that run, in their order. A codec that fails on
\* the sample says nothing about the unit.
Field(candidates, length, sizes) ==
    LET everyone == [k \in DOMAIN candidates |-> k]
        kept == FoldLeft(LAMBDA some, k : IF Qualifies(candidates, sizes, k) THEN Append(some, k)
                                          ELSE some, <<>>, everyone)
    IN  IF Len(candidates) < 3 \/ length < QualifyFrom \/ sizes = Refused THEN everyone
        ELSE IF kept = <<>> THEN everyone ELSE kept

--------------------------------------------------------------------------------
(* race                                                                        *)

\* Lanes of as many entrants as make `borrowed` lanes and the worker's own enough.
LaneLength(n, borrowed) == (n + borrowed) \div (borrowed + 1)
LaneOf(n, borrowed, l) ==
    LET per == LaneLength(n, borrowed)
    IN  [next |-> per * (l - 1) + 1, last |-> IF per * l < n THEN per * l ELSE n,
         won |-> 0, failed |-> FALSE]
LanesFor(n, borrowed) ==
    LET per == LaneLength(n, borrowed)
    IN  [l \in 1..((n + per - 1) \div per) |-> LaneOf(n, borrowed, l)]

\* A later entrant takes a tie.
TiesToTheLater(gain, n, won) == won = 0 \/ gain[n] <= gain[won]

\* won = 0: nobody yet. A tie stays with whoever holds it.
Beats(gain, n, won) == won = 0 \/ gain[n] < gain[won]

\* The winners of the lanes, in the order of the lanes.
Overall(gain, winners) ==
    FoldLeft(LAMBDA won, n : IF n # 0 /\ Beats(gain, n, won) THEN n ELSE won, 0, winners)

--------------------------------------------------------------------------------
VARIABLES job,     \* the unit, its candidates and what they make of it
          filter,  \* the filter in force; plain() sets it back to 0
          data,    \* what the codecs are fed
          stage,
          field,   \* the candidates that run, by their places
          lanes,
          done,    \* the payload and the record the manifest keeps of it
          back     \* what a reader gets

vars == <<job, filter, data, stage, field, lanes, done, back>>

Unpacked == Len(Original(job))
Nothing == [payload |-> Refused]

Init ==
    /\ \E n \in DOMAIN Cases : job \in Cases[n]
    /\ filter = job.filter
    /\ data = <<>>
    /\ stage = "filter"
    /\ field = <<>>
    /\ lanes = <<>>
    /\ done = Nothing
    /\ back = <<>>

\* The original again. A buffer changed in place is changed back, a rebuilt one
\* is dropped for the copy kept beside it.
Restored(id, coded) == IF Rebuilds(id) THEN Original(job) ELSE Unapply(id, coded)

\* plain: the original bytes and no filter at all.
Plain(original) ==
    /\ filter' = 0
    /\ data' = original
    /\ stage' = "qualify"

\* Every filter is trusted to bound its own output.
Trusted(id, coded) == FALSE

TooLong(id, coded) == CodedLength(id, coded) > MaxCoded

\* A filter that cannot do its job is not an error. What is too long for a
\* reader is not kept either, whatever made it.
Take(coded) ==
    IF coded = Refused THEN Plain(Original(job))
    ELSE IF TooLong(filter, coded) THEN Plain(Restored(filter, coded))
    ELSE /\ data' = coded
         /\ stage' = IF Rebuilds(filter) THEN "prove" ELSE "qualify"
         /\ UNCHANGED filter

ApplyFilter ==
    /\ stage = "filter"
    /\ Take(Apply(job))
    /\ UNCHANGED <<job, field, lanes, done, back>>

\* Bit-exact or nothing.
Proves(id, coded, original) == Unapply(id, coded) = original
ProveFilter ==
    /\ stage = "prove"
    /\ IF Proves(filter, data, Original(job))
       THEN stage' = "qualify" /\ UNCHANGED <<filter, data>>
       ELSE Plain(Original(job))
    /\ UNCHANGED <<job, field, lanes, done, back>>

ThinField ==
    /\ stage = "qualify"
    /\ field' = Field(job.candidates, CodedLength(filter, data), job.trial)
    /\ stage' = "race"
    /\ UNCHANGED <<job, filter, data, lanes, done, back>>

\* The field is split between this worker and the slots it can borrow. A lone
\* entrant borrows none, a unit to be stored does not race.
StoresOnly == job.candidates[field[1]].codec = "store"
StartRace ==
    /\ stage = "race"
    /\ IF StoresOnly THEN lanes' = <<>>
       ELSE \E borrowed \in 0..(Len(field) - 1) : lanes' = LanesFor(Len(field), borrowed)
    /\ stage' = "lanes"
    /\ UNCHANGED <<job, filter, data, field, done, back>>

Running(lane) == ~lane.failed /\ lane.next <= lane.last

\* A lane runs its next entrant and keeps its own smallest result only.
After(lane, n) ==
    IF job.gain[n] = Fails THEN [lane EXCEPT !.failed = TRUE]
    ELSE [lane EXCEPT !.next = @ + 1, !.won = IF Beats(job.gain, n, @) THEN n ELSE @]
LaneStep(l) ==
    /\ stage = "lanes"
    /\ Running(lanes[l])
    /\ lanes' = [lanes EXCEPT ![l] = After(lanes[l], field[lanes[l].next])]
    /\ UNCHANGED <<job, filter, data, stage, field, done, back>>

Finished == \A l \in DOMAIN lanes : ~Running(lanes[l])
Winner == Overall(job.gain, [l \in DOMAIN lanes |-> lanes[l].won])

\* The coded length is not recorded.
RecordWithoutLength(codec, param, id, coded, payload) ==
    [payload |-> payload, codec |-> CodecIds[codec], param |-> param, filter |-> id,
     unpacked |-> Unpacked, filtered |-> 0]

Record(codec, param, id, coded, payload) ==
    [payload |-> payload, codec |-> CodecIds[codec], param |-> param, filter |-> id,
     unpacked |-> Unpacked, filtered |-> IF coded = Unpacked THEN 0 ELSE coded]
Stored(id, bytes, length) ==
    Record("store", 0, id, length, Compress("store", 0, bytes, length, length))

\* The coded form, the filtered form verbatim, or the original: the smallest, if
\* it beats the original. The filtered form of an in-place filter is as long as
\* the original, so it cannot.
CodedBy(n, length) ==
    Record(job.candidates[n].codec, job.candidates[n].param, filter, length,
           Compress(job.candidates[n].codec, job.candidates[n].param, data, length,
                    Unpacked + job.gain[n]))
KeepOf(n, length) ==
    LET bareWins == Rebuilds(filter) /\ (n = 0 \/ length < Unpacked + job.gain[n])
    IN  IF bareWins /\ length < Unpacked THEN Stored(filter, data, length)
        ELSE IF ~bareWins /\ n # 0 /\ job.gain[n] < 0 THEN CodedBy(n, length)
        ELSE Stored(0, Restored(filter, data), Unpacked)
Keep == KeepOf(Winner, CodedLength(filter, data))

EndRace ==
    /\ stage = "lanes"
    /\ Finished
    /\ IF \E l \in DOMAIN lanes : lanes[l].failed
       THEN stage' = "failed" /\ UNCHANGED done
       ELSE stage' = "stored" /\ done' = Keep
    /\ UNCHANGED <<job, filter, data, field, lanes, back>>

\* verify_chunk, with the record and the payload only.
CodedLen(rec) == IF rec.filtered = 0 THEN rec.unpacked ELSE rec.filtered
Verify(rec) ==
    IF CodedLen(rec) > MaxCoded THEN Refused
    ELSE LET coded == Decompress(CodecOf(rec.codec), rec.payload, CodedLen(rec), rec.param)
         IN  IF coded = Refused THEN Refused ELSE Unapply(rec.filter, coded)

ReadBack ==
    /\ stage = "stored"
    /\ back' = Verify(done)
    /\ stage' = "read"
    /\ UNCHANGED <<job, filter, data, field, lanes, done>>

Step == \/ ApplyFilter \/ ProveFilter \/ ThinField \/ StartRace
        \/ \E l \in DOMAIN lanes : LaneStep(l)
        \/ EndRace \/ ReadBack

\* One unit is one job: it ends when the unit has been read back or a codec has
\* failed.
Over == stage \in {"read", "failed"} /\ UNCHANGED vars
Next == Step \/ Over

Spec == Init /\ [][Next]_vars

--------------------------------------------------------------------------------
(* Properties.                                                                 *)

\* Whatever the filter made of the unit, refused or failed to undo, whichever
\* codec won and however the lanes ran, a reader who has the record and the
\* payload gets the original bytes. (compress_job and verify_chunk agree without
\* sharing anything else.)
ReadsBack == stage = "read" => back = Original(job)

\* The decoder, which is told none of the encoder's decisions, comes to the same
\* ones: the proof compress_job asks of a rebuilding filter never fails, whatever
\* the bytes. (Pairs of functions in filters.rs, wav.rs, mp3.rs and deflate.rs.)
EncodersAreUndone == stage = "prove" => Unapply(filter, data) = Original(job)

\* The archive never grows by a unit that was worked on, and never holds a unit
\* its own reader refuses for its length. (The check of MAX_CODED_CHUNK and the
\* comparison with the original length in compress_job.)
NeverWorse ==
    done # Nothing => done.payload.size <= Unpacked /\ CodedLen(done) <= MaxCoded

\* What is stored is decided by the bytes: the winner is the first among the
\* smallest of the field, however many lanes there were and whichever ended
\* first; the same archive comes of any number of threads. (The folds of race's
\* lanes.)
FirstOfTheSmallest ==
    stage = "lanes" /\ Finished /\ lanes # <<>> /\ (\A l \in DOMAIN lanes : ~lanes[l].failed) =>
        \E k \in DOMAIN field :
            /\ field[k] = Winner
            /\ \A j \in DOMAIN field : IF j < k THEN job.gain[field[j]] > job.gain[field[k]]
                                       ELSE job.gain[field[j]] >= job.gain[field[k]]
=============================================================================
