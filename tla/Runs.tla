-------------------------------- MODULE Runs --------------------------------
(***************************************************************************)
(* What the transforms share: runs of cells cut out of a buffer, and the   *)
(* value of a transform that does not apply.                               *)
(***************************************************************************)
EXTENDS Integers, Sequences, SequencesExt

CONSTANT Refused   \* what an encoder or a decoder that refuses returns

Sum(lens) == FoldLeft(LAMBDA n, k : n + k, 0, lens)

\* The k-th of consecutive slices of these lengths, behind the first `from` cells.
Slice(buf, from, lens, k) ==
    LET at == from + Sum(SubSeq(lens, 1, k - 1)) IN SubSeq(buf, at + 1, at + lens[k])
=============================================================================
