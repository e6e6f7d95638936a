------------------------------- MODULE Filters -------------------------------
(***************************************************************************)
(* The filters of filters.rs that work on the bytes themselves: the byte   *)
(* difference, the x86 call converter that rewrites addresses where they   *)
(* stand, and the one that moves them into a stream of their own. None of  *)
(* them is told what the encoder decided: the decoder has to come to the   *)
(* same decisions from what the encoder left behind.                       *)
(*                                                                         *)
(* A byte has ByteBits bits instead of 8 and an address is four bytes, as  *)
(* in the code; arithmetic wraps at that width. Offsets count from 0.      *)
(***************************************************************************)
EXTENDS Codecs

CONSTANT ByteBits   \* bits of a byte

Byte == 2 ^ ByteBits
Word == Byte ^ 4
FF == Byte - 1

\* The bytes that matter: 0xE8 and 0xE9; 0x0F; 0x80..0x8F.
CallOp == 1
TwoByteOp == 2
Condition == FF

At(buf, i) == buf[i + 1]

Overwritten(buf, at, b) ==
    [k \in DOMAIN buf |-> IF k \in at..(at + Len(b) - 1) THEN b[k - at + 1] ELSE buf[k]]

\* The k-th byte, from the lowest, of a word.
ByteOf(word, k) == (word \div (Byte ^ k)) % Byte
Little(word) == [k \in 1..4 |-> ByteOf(word, k - 1)]
Big(word) == Reverse(Little(word))
FromLittle(b) == b[1] + b[2] * Byte + b[3] * Byte ^ 2 + b[4] * Byte ^ 3
FromBig(b) == FromLittle(Reverse(b))

--------------------------------------------------------------------------------
(* Byte differences.                                                           *)

ClampedDistance(distance) ==
    IF distance < 1 THEN 1
    ELSE IF distance > MaxDeltaDistance THEN MaxDeltaDistance ELSE distance

\* Backwards, so that each byte still meets its original predecessor.
DeltaEncode(data, distance) ==
    LET d == ClampedDistance(distance)
    IN  [i \in DOMAIN data |->
            IF i > d THEN (data[i] - data[i - d]) % Byte ELSE data[i]]

\* Forwards: the predecessor has been restored before.
DeltaDecode(data, distance) ==
    LET d == ClampedDistance(distance)
    IN  FoldLeftDomain(LAMBDA buf, i :
            IF i > d THEN [buf EXCEPT ![i] = (@ + buf[i - d]) % Byte] ELSE buf,
            data, data)

--------------------------------------------------------------------------------
(* Calls rewritten in place. The scan is the same in both directions.          *)

IsMsByte(b) == b \in {0, FF}
AllowedStatus == {0, 1, 2, 4}                          \* MASK_TO_ALLOWED_STATUS
BitNumber(mask) == <<0, 1, 2, 2, 3, 3, 3, 3>>[mask + 1]  \* MASK_TO_BIT_NUMBER

\* Where an earlier call may own a byte of this address, the low bits are
\* flipped and the sum is taken again, until both directions agree on the owner.
RECURSIVE Destination(_, _, _, _)
Destination(src, nextIp, mask, encode) ==
    LET dest == (IF encode THEN src + nextIp ELSE src - nextIp) % Word
        low == 2 ^ (ByteBits * (4 - BitNumber(mask)))
        owned == dest \div (2 ^ (ByteBits * (3 - BitNumber(mask))))
    IN  IF mask = 0 \/ ~IsMsByte(owned % Byte)
        THEN dest
        ELSE Destination(dest - (dest % low) + (low - 1 - (dest % low)), nextIp, mask, encode)

\* The operand as it is written back: the top byte keeps one bit, extended.
Operand(dest) ==
    [k \in 1..4 |-> IF k < 4 THEN ByteOf(dest, k - 1)
                    ELSE IF ByteOf(dest, 3) % 2 = 1 THEN FF ELSE 0]

\* prev_mask at a call `gap` bytes behind the one before it.
MaskAt(mask, gap) == IF gap > 3 THEN 0 ELSE (mask * 2 ^ (gap - 1)) % 8
Marked(mask) == ((mask * 2) % 8) + 1

\* An earlier call makes this one ambiguous.
Ambiguous(buf, i, mask) ==
    mask # 0 /\ (mask \notin AllowedStatus \/ IsMsByte(At(buf, i + 4 - BitNumber(mask))))

RECURSIVE BcjFrom(_, _, _, _, _)
BcjFrom(buf, i, prevPos, prevMask, encode) ==
    IF i > Len(buf) - 5 THEN buf
    ELSE IF At(buf, i) # CallOp THEN BcjFrom(buf, i + 1, prevPos, prevMask, encode)
    ELSE LET mask == MaskAt(prevMask, i - prevPos)
             dest == Destination(FromLittle(SubSeq(buf, i + 2, i + 5)), 5 + i, mask, encode)
         IN  IF Ambiguous(buf, i, mask) \/ ~IsMsByte(At(buf, i + 4))
             THEN BcjFrom(buf, i + 1, i, Marked(mask), encode)
             ELSE BcjFrom(Overwritten(buf, i + 2, Operand(dest)),
                          i + 5, i, mask, encode)

BcjX86(data, encode) == BcjFrom(data, 0, -1, 0, encode)

--------------------------------------------------------------------------------
(* Calls moved into a stream of their own.                                     *)

\* Where the displacement of a call or jump at i begins; 0 where there is none.
Site(buf, i) ==
    IF At(buf, i) = CallOp THEN 1
    ELSE IF At(buf, i) = TwoByteOp /\ i + 1 < Len(buf) /\ At(buf, i + 1) = Condition THEN 2
    ELSE 0

Signed(word) == IF word >= Word \div 2 THEN word - Word ELSE word

\* The encoder looks at whole instructions only.
WholeSite(buf, i) == IF i + Site(buf, i) + 4 <= Len(buf) THEN Site(buf, i) ELSE 0

RECURSIVE SplitFrom(_, _, _)
SplitFrom(data, i, out) ==
    IF i >= Len(data) THEN out
    ELSE IF WholeSite(data, i) = 0
    THEN SplitFrom(data, i + 1, [out EXCEPT !.main = Append(@, At(data, i))])
    ELSE LET at == i + WholeSite(data, i)
             rel == SubSeq(data, at + 1, at + 4)
             absolute == Signed(FromLittle(rel)) + at + 4
             take == absolute \in 0..(Len(data) - 1)
             opcode == SubSeq(data, i + 1, at)
         IN  SplitFrom(data, at + 4,
                [main |-> out.main \o opcode \o (IF take THEN <<>> ELSE rel),
                 targets |-> out.targets \o (IF take THEN Big(absolute) ELSE <<>>),
                 flags |-> Append(out.flags, take),
                 sites |-> out.sites + 1])

X86SplitEncode(data) ==
    LET out == SplitFrom(data, 0, [main |-> <<>>, targets |-> <<>>, flags |-> <<>>, sites |-> 0])
    IN  IF out.targets = <<>> THEN Refused ELSE out

\* The number of sites keeps the decoder from one the encoder could not see whole.
MoreSites(payload, s) == s.seen < payload.sites

\* s.j and s.t are the places in the payload's streams, s.seen the sites met.
RECURSIVE JoinFrom(_, _)
JoinFrom(payload, s) ==
    IF s.j >= Len(payload.main)
    THEN IF s.t = Len(payload.targets) /\ s.seen = payload.sites THEN s.out ELSE Refused
    ELSE LET off == IF MoreSites(payload, s) THEN Site(payload.main, s.j) ELSE 0
             out == s.out \o SubSeq(payload.main, s.j + 1, s.j + off)
             rel == FromBig(SubSeq(payload.targets, s.t + 1, s.t + 4)) - Len(out) - 4
         IN  IF off = 0
             THEN JoinFrom(payload, [s EXCEPT !.j = @ + 1, !.out = Append(@, At(payload.main, s.j))])
             ELSE IF payload.flags[s.seen + 1]
             THEN IF s.t + 4 > Len(payload.targets) THEN Refused
                  ELSE JoinFrom(payload, [j |-> s.j + off, t |-> s.t + 4, seen |-> s.seen + 1,
                                          out |-> out \o Little(rel % Word)])
             ELSE IF s.j + off + 4 > Len(payload.main) THEN Refused
             ELSE JoinFrom(payload, [j |-> s.j + off + 4, t |-> s.t, seen |-> s.seen + 1,
                                     out |-> out \o SubSeq(payload.main, s.j + off + 1, s.j + off + 4)])

\* The header has to agree with itself before anything is read.
X86SplitDecode(payload) ==
    IF payload.sites > Len(payload.main) \/ Len(payload.flags) # payload.sites
       \/ Len(payload.targets) % 4 # 0
    THEN Refused
    ELSE JoinFrom(payload, [j |-> 0, t |-> 0, seen |-> 0, out |-> <<>>])
=============================================================================
