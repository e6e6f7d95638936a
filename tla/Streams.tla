------------------------------- MODULE Streams -------------------------------
(***************************************************************************)
(* find_streams (deflate.rs): where the compressed streams of a unit lie.  *)
(* A unit is a concatenation of whole files; a stream is a list of pieces  *)
(* of the unit and a kind. What comes of the streams is in Container.      *)
(*                                                                         *)
(* A file is a record of its format and its parts, each a run of cells     *)
(* with the role it has in the format. What the scanners parse out of the  *)
(* bytes (lengths, names, dictionaries) is that structure; what they make  *)
(* of it is modelled. The wrapper of a zlib stream is one cell in front    *)
(* and one behind instead of two and four.                                 *)
(***************************************************************************)
EXTENDS Runs

CONSTANTS MinStream,   \* MIN_STREAM
          MaxNesting   \* MAX_NESTING

Kinds == {"deflate", "jpeg"}

PieceAt(offset, length) == [off |-> offset, len |-> length]
PieceEnd(p) == p.off + p.len
TotalOf(pieces) == FoldLeft(LAMBDA n, p : n + p.len, 0, pieces)
Moved(stream, by) == [stream EXCEPT !.pieces = [k \in DOMAIN @ |-> [@[k] EXCEPT !.off = @ + by]]]

\* Stream::gather
Gather(cells, pieces) ==
    FoldLeft(LAMBDA raw, p : raw \o SubSeq(cells, p.off + 1, PieceEnd(p)), <<>>, pieces)

\* A file's bytes, and where each of its parts begins.
RECURSIVE BytesOf(_)
PartBytes(part) == IF part.role = "stored" THEN BytesOf(part.file) ELSE part.cells
BytesOf(file) == FoldLeft(LAMBDA b, part : b \o PartBytes(part), <<>>, file.parts)
PartPiece(file, n) ==
    PieceAt(Len(BytesOf([file EXCEPT !.parts = SubSeq(@, 1, n - 1)])), Len(PartBytes(file.parts[n])))

--------------------------------------------------------------------------------
(* Drop cells from the front and the back of a list of pieces, and the pieces  *)
(* this empties.                                                               *)

RECURSIVE TrimFront(_, _)
TrimFront(pieces, left) ==
    IF left = 0 \/ pieces = <<>> THEN pieces
    ELSE IF pieces[1].len <= left THEN TrimFront(Tail(pieces), left - pieces[1].len)
    ELSE <<PieceAt(pieces[1].off + left, pieces[1].len - left)>> \o Tail(pieces)

RECURSIVE TrimBack(_, _)
TrimBack(pieces, right) ==
    IF right = 0 \/ pieces = <<>> THEN pieces
    ELSE IF Last(pieces).len <= right THEN TrimBack(Front(pieces), right - Last(pieces).len)
    ELSE Append(Front(pieces), PieceAt(Last(pieces).off, Last(pieces).len - right))

Trimmed(pieces, front, back) == TrimBack(TrimFront(pieces, front), back)

AllMoved(streams, by) == [n \in DOMAIN streams |-> Moved(streams[n], by)]

--------------------------------------------------------------------------------
(* The scanners. Each is given the files from its own on, as far as the buffer *)
(* reaches, and returns the streams and how much of the buffer it has consumed.*)

Found(streams, consumed) == [streams |-> streams, consumed |-> consumed]
StreamOf(kind, pieces) == [kind |-> kind, pieces |-> pieces]
Roles(file, roles) ==
    SelectSeq([n \in DOMAIN file.parts |-> n], LAMBDA n : file.parts[n].role \in roles)

UnitBytes(files) == FlattenSeq([k \in DOMAIN files |-> BytesOf(files[k])])
Start(files, k) == Len(UnitBytes(SubSeq(files, 1, k - 1)))

\* A member's end is known by decoding only: the stream reaches to the end of
\* the buffer, less the checksum.
Gzip(files) ==
    LET rest == Len(UnitBytes(files))
        start == PartPiece(files[1], 2).off
    IN  IF rest - 1 <= start THEN Found(<<>>, 0)
        ELSE Found(<<StreamOf("deflate", <<PieceAt(start, rest - 1 - start)>>)>>, rest)

\* The IDAT chunks are one zlib stream.
Png(files) ==
    LET file == files[1]
        idat == Roles(file, {"idat"})
        pieces == Trimmed([k \in DOMAIN idat |-> PartPiece(file, idat[k])], 1, 1)
    IN  Found(IF idat = <<>> THEN <<>> ELSE <<StreamOf("deflate", pieces)>>, Len(BytesOf(file)))

\* Stream objects: /FlateDecode without its zlib wrapper, where it has one,
\* /DCTDecode whole. The scan is lexical and goes on into the files behind.
PdfObject(file, n) ==
    LET at == PartPiece(file, n)
        wrapped == file.parts[n].role = "flate" /\ at.len > 2
        body == IF wrapped THEN PieceAt(at.off + 1, at.len - 2) ELSE at
    IN  IF file.parts[n].role = "dct" THEN StreamOf("jpeg", <<at>>) ELSE StreamOf("deflate", <<body>>)
Pdf(files) ==
    LET objects(k) ==
            LET at == Roles(files[k], {"flate", "bare", "dct"})
            IN  [n \in DOMAIN at |-> Moved(PdfObject(files[k], at[n]), Start(files, k))]
    IN  Found(FlattenSeq([k \in DOMAIN files |-> IF files[k].form = "pdf" THEN objects(k) ELSE <<>>]),
              Len(UnitBytes(files)))

\* The end of the central directory is looked for from the back of the buffer,
\* and the directory it names where the first file has it.
LastZip(files) == SelectLastInSeq(files, LAMBDA f : f.form = "zip")
DirectoryAt(file) == PartPiece(file, Len(file.parts)).off
DirectoryOf(first, end) ==
    IF DirectoryAt(end) # DirectoryAt(first) THEN <<>>
    ELSE SubSeq(first.directory, 1,
                IF Len(end.directory) < Len(first.directory) THEN Len(end.directory)
                ELSE Len(first.directory))
Directory(files) == DirectoryOf(files[1], files[LastZip(files)])

\* Members in the order of the directory; a stored member is scanned as the
\* file it is, down to a depth. A bare JPEG counts inside a container only.
RECURSIVE Dispatch(_, _)
ZipMember(file, n, depth) ==
    IF file.parts[n].role = "deflated" THEN <<StreamOf("deflate", <<PartPiece(file, n)>>)>>
    ELSE IF depth >= MaxNesting THEN <<>>
    ELSE AllMoved(Dispatch(<<file.parts[n].file>>, depth + 1).streams, PartPiece(file, n).off)
ZipStreams(file, members, depth) ==
    FlattenSeq([k \in DOMAIN members |-> ZipMember(file, members[k], depth)])
Dispatch(files, depth) ==
    CASE files[1].form = "gzip" -> Gzip(files)
      [] files[1].form = "png" -> Png(files)
      [] files[1].form = "pdf" -> Pdf(files)
      [] files[1].form = "zip" ->
            Found(ZipStreams(files[1], Directory(files), depth), Start(files, LastZip(files) + 1))
      [] files[1].form = "jpeg" /\ depth > 0 ->
            Found(<<StreamOf("jpeg", <<PieceAt(0, Len(UnitBytes(files)))>>)>>, Len(UnitBytes(files)))
      [] OTHER -> Found(<<>>, 0)

\* File after file, from wherever the last one ended.
RECURSIVE ScanFrom(_, _)
FileAt(unit, offset) == CHOOSE k \in 1..(Len(unit) + 1) : Start(unit, k) = offset
ScanOn(unit, found, offset) ==
    IF found.consumed = 0 THEN <<>>
    ELSE AllMoved(found.streams, offset) \o ScanFrom(unit, FileAt(unit, offset + found.consumed))
ScanFrom(unit, k) ==
    IF k > Len(unit) THEN <<>>
    ELSE ScanOn(unit, Dispatch(SubSeq(unit, k, Len(unit)), 0), Start(unit, k))

FindStreams(unit) ==
    SelectSeq(ScanFrom(unit, 1), LAMBDA s : TotalOf(s.pieces) >= MinStream)
=============================================================================
