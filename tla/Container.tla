------------------------------ MODULE Container ------------------------------
(***************************************************************************)
(* Filters 34, 37 and 40 (filters.rs, deflate.rs): undo the compressed     *)
(* streams of a unit within a cap on the size of the result, lay the       *)
(* pieces out so that they compress, and put them back.                    *)
(*                                                                         *)
(* preflate and lepton are external. A deflate stream is a run of block    *)
(* cells, the last one final; a block has a plaintext of 1..9 cells, and a *)
(* correction of one cell that is good for its place in the stream only. A *)
(* JPEG is a run of image cells, of which lepton saves one.                *)
(***************************************************************************)
EXTENDS Streams

CONSTANT Pass   \* PREFLATE_PASS

\* Cells: 0 belongs to the container; 10 + n and 20 + n are blocks with n cells
\* of plaintext, the second kind final; 30 is no block. 41 is an image cell,
\* 42 one lepton does not know.
IsBlock(c) == c \div 10 \in {1, 2}
IsFinal(c) == c \div 10 = 2
PlainOf(c) == [k \in 1..(c % 10) |-> 100 + c]
CorrectionOf(c, place) == <<1000 * place + c>>

--------------------------------------------------------------------------------
(* The libraries.                                                              *)

\* One call of the stream processor at a place of the stream: the blocks up to
\* the limit of a pass. A block that is none, or too large for a pass, fails it.
RECURSIVE PassFrom(_, _, _)
PassFrom(raw, from, room) ==
    IF from > Len(raw) \/ ~IsBlock(raw[from]) \/ raw[from] % 10 > Pass THEN Refused
    ELSE IF raw[from] % 10 > room THEN <<>>
    ELSE LET more == IF IsFinal(raw[from]) THEN <<>>
                     ELSE PassFrom(raw, from + 1, room - (raw[from] % 10))
         IN  IF more = Refused THEN Refused ELSE <<raw[from]>> \o more

Chunk(blocks, from) ==
    [plain |-> FlattenSeq([k \in DOMAIN blocks |-> PlainOf(blocks[k])]),
     corr |-> FlattenSeq([k \in DOMAIN blocks |-> CorrectionOf(blocks[k], from + k - 1)])]

\* A replay continues the predictor of the pass before, so order counts.
Replayed(chunks) ==
    LET plain == FlattenSeq([k \in DOMAIN chunks |-> chunks[k].plain])
        corr == FlattenSeq([k \in DOMAIN chunks |-> chunks[k].corr])
        blocks == [k \in DOMAIN corr |-> corr[k] % 1000]
    IN  IF Chunk(blocks, 1) = [plain |-> plain, corr |-> corr] THEN blocks ELSE Refused

Lepton(raw) ==
    IF \E k \in DOMAIN raw : raw[k] # 41 THEN Refused
    ELSE <<500 + Len(raw)>> \o SubSeq(raw, 3, Len(raw))
Unlepton(blob) == [k \in 1..(blob[1] - 500) |-> 41]

--------------------------------------------------------------------------------
(* Which streams are transformed.                                              *)

Cost(chunk) == Len(chunk.plain) + Len(chunk.corr)
CostOf(chunks) == FoldLeft(LAMBDA n, c : n + Cost(c), 0, chunks)
Model(chunks, covered) == [chunks |-> chunks, covered |-> covered]
NoModel == Model(<<>>, 0)

\* A pass that would cross the budget is dropped whole, and ends the walk.
Affordable(chunk, budget) == Cost(chunk) <= budget

\* preflate_chunks: pass after pass, as far as the budget and the library reach.
RECURSIVE ModelFrom(_, _, _)
Extended(blocks, chunk, rest) == Model(<<chunk>> \o rest.chunks, Len(blocks) + rest.covered)
PassTaken(raw, from, budget, blocks, chunk) ==
    IF ~Affordable(chunk, budget) THEN NoModel
    ELSE Extended(blocks, chunk, IF IsFinal(Last(blocks)) THEN NoModel
                               ELSE ModelFrom(raw, from + Len(blocks), budget - Cost(chunk)))
PassRun(raw, from, budget, blocks) ==
    IF blocks = Refused THEN NoModel ELSE PassTaken(raw, from, budget, blocks, Chunk(blocks, from))
ModelFrom(raw, from, budget) == PassRun(raw, from, budget, PassFrom(raw, from, Pass))

\* The older framings take a stream whole or not at all.
RECURSIVE WholeFrom(_, _)
WholeFrom(raw, from) ==
    IF from > Len(raw) \/ ~IsBlock(raw[from]) THEN 0
    ELSE IF IsFinal(raw[from]) THEN from ELSE WholeFrom(raw, from + 1)

Modelled(stream, raw, version, room) ==
    CASE stream.kind = "deflate" /\ version = 3 -> ModelFrom(raw, 1, room)
      [] stream.kind = "deflate" /\ version # 3 ->
            IF WholeFrom(raw, 1) = Len(raw) THEN Model(<<Chunk(raw, 1)>>, Len(raw)) ELSE NoModel
      [] stream.kind = "jpeg" ->
            IF Lepton(raw) # Refused /\ Len(Lepton(raw)) < Len(raw)
            THEN Model(<<[plain |-> Lepton(raw), corr |-> <<>>]>>, Len(raw)) ELSE NoModel

\* What the transformed form would then amount to, header apart.
Grown(total, model) == total - model.covered + CostOf(model.chunks)

\* A stream modelled in part keeps the pieces its passes reproduce.
Kept(pieces, covered) == Trimmed(pieces, 0, TotalOf(pieces) - covered)

Room(cap, total) == IF cap > total THEN cap - total ELSE 0
\* A stream that does not fit spends its part of the bound all the same.
ChargedAnyway(taken, stream, model, grown, cap) ==
    IF model.chunks = <<>> \/ grown > cap THEN [taken EXCEPT !.total = grown]
    ELSE [total |-> grown,
          parts |-> Append(taken.parts, [kind |-> stream.kind, chunks |-> model.chunks,
                                         pieces |-> Kept(stream.pieces, model.covered)])]

TakeModel(taken, stream, model, grown, cap) ==
    IF model.chunks = <<>> \/ grown > cap THEN taken
    ELSE [total |-> grown,
          parts |-> Append(taken.parts, [kind |-> stream.kind, chunks |-> model.chunks,
                                         pieces |-> Kept(stream.pieces, model.covered)])]
TakeGrown(taken, stream, model, cap) ==
    TakeModel(taken, stream, model, Grown(taken.total, model), cap)
TakeStream(bytes, version, cap, taken, stream) ==
    TakeGrown(taken, stream, Modelled(stream, Gather(bytes, stream.pieces), version,
                                      Room(cap, taken.total)), cap)

StreamsOf(unit, version) ==
    SelectSeq(FindStreams(unit), LAMBDA s : version = 1 => s.kind = "deflate")

Taken(unit, version, cap) ==
    LET bytes == UnitBytes(unit)
    IN  FoldLeft(LAMBDA taken, s : TakeStream(bytes, version, cap, taken, s),
                 [total |-> Len(bytes), parts |-> <<>>], StreamsOf(unit, version))

--------------------------------------------------------------------------------
(* The framing: header, the container's own bytes, plaintexts, corrections.    *)

AllPieces(parts) == FlattenSeq([k \in DOMAIN parts |-> parts[k].pieces])
AllChunks(parts) == FlattenSeq([k \in DOMAIN parts |-> parts[k].chunks])

\* Pieces may be out of order, or the same.
InRange(pieces, length) == \A k \in DOMAIN pieces : PieceEnd(pieces[k]) <= length

InOrder(pieces, length) ==
    \A k \in DOMAIN pieces : /\ PieceEnd(pieces[k]) <= length
                             /\ k > 1 => pieces[k].off >= PieceEnd(pieces[k - 1])

Uncovered(bytes, pieces) ==
    LET covered == UNION { p.off + 1 .. PieceEnd(p) : p \in ToSet(pieces) }
    IN  FlattenSeq([k \in DOMAIN bytes |-> IF k \in covered THEN <<>> ELSE <<bytes[k]>>])

Framed(bytes, parts, version) ==
    IF ~InOrder(AllPieces(parts), Len(bytes)) THEN Refused
    ELSE [version |-> version, length |-> Len(bytes),
          streams |-> [k \in DOMAIN parts |->
              [kind |-> parts[k].kind, pieces |-> parts[k].pieces,
               chunks |-> [n \in DOMAIN parts[k].chunks |->
                              <<Len(parts[k].chunks[n].plain), Len(parts[k].chunks[n].corr)>>]]],
          body |-> Uncovered(bytes, AllPieces(parts))
                   \o FlattenSeq([k \in DOMAIN AllChunks(parts) |-> AllChunks(parts)[k].plain])
                   \o FlattenSeq([k \in DOMAIN AllChunks(parts) |-> AllChunks(parts)[k].corr])]

\* container_encode_inner
Encoded(bytes, parts, version) == IF parts = <<>> THEN Refused ELSE Framed(bytes, parts, version)
ContainerEncode(unit, version, cap) ==
    Encoded(UnitBytes(unit), Taken(unit, version, cap).parts, version)

--------------------------------------------------------------------------------
(* Putting it back.                                                            *)

Lengths(streams, n) ==
    FlattenSeq([k \in DOMAIN streams |-> [c \in DOMAIN streams[k].chunks |-> streams[k].chunks[c][n]]])
\* deflate::decode
Parsed(coded) ==
    LET streams == coded.streams
        plain == Lengths(streams, 1)
        corr == Lengths(streams, 2)
        own == coded.length - TotalOf(AllPieces(streams))
        before(k) == Sum([n \in 1..(k - 1) |-> Len(streams[n].chunks)])
        chunk(k) == [plain |-> Slice(coded.body, own, plain, k),
                     corr |-> Slice(coded.body, own + Sum(plain), corr, k)]
    IN  IF own < 0 \/ own + Sum(plain) + Sum(corr) # Len(coded.body) THEN Refused
        ELSE [verbatim |-> SubSeq(coded.body, 1, own),
              streams |-> [k \in DOMAIN streams |->
                  [streams[k] EXCEPT !.chunks = [c \in DOMAIN @ |-> chunk(before(k) + c)]]]]

\* deflate_decode: the bytes of each stream again.
Rebuilt(stream) ==
    IF stream.kind = "jpeg" THEN Unlepton(stream.chunks[1].plain) ELSE Replayed(stream.chunks)

Sorted(pieces) == SortSeq(pieces, LAMBDA p, q : p.off < q.off)

\* deflate::rebuild: every stream's bytes into its pieces, the container's own
\* between them.
Spliced(parsed, length) ==
    LET pieces == FlattenSeq([k \in DOMAIN parsed.streams |->
                      [n \in DOMAIN parsed.streams[k].pieces |->
                          [off |-> parsed.streams[k].pieces[n].off, len |-> parsed.streams[k].pieces[n].len,
                           cells |-> Slice(Rebuilt(parsed.streams[k]), 0,
                               [m \in DOMAIN parsed.streams[k].pieces |-> parsed.streams[k].pieces[m].len], n)]]])
        place(s, p) == [at |-> PieceEnd(p), own |-> s.own + p.off - s.at,
                        out |-> s.out \o SubSeq(parsed.verbatim, s.own + 1, s.own + p.off - s.at) \o p.cells]
        all == FoldLeft(place, [at |-> 0, own |-> 0, out |-> <<>>], Sorted(pieces))
    IN  all.out \o SubSeq(parsed.verbatim, all.own + 1, Len(parsed.verbatim))

ContainerDecode(coded) ==
    LET parsed == Parsed(coded)
    IN  IF parsed = Refused THEN Refused
        ELSE IF \E k \in DOMAIN parsed.streams :
                    \/ Rebuilt(parsed.streams[k]) = Refused
                    \/ Len(Rebuilt(parsed.streams[k])) # TotalOf(parsed.streams[k].pieces)
        THEN Refused
        ELSE Spliced(parsed, coded.length)
=============================================================================
