---------------------------- MODULE MCCompactSwap ----------------------------
(***************************************************************************)
(* CompactSwap with three processes.                                       *)
(***************************************************************************)
EXTENDS CompactSwap, TLC

CONSTANTS p1, p2, p3

MCProcs == {p1, p2, p3}

MCSymmetry == Permutations(MCProcs)
=============================================================================
