----------------------------- MODULE MCSlotPool -----------------------------
(***************************************************************************)
(* SlotPool on small instances.                                            *)
(***************************************************************************)
EXTENDS SlotPool, TLC

CONSTANTS w1, w2, w3

MCThree == {w1, w2, w3}
MCTwo == {w1, w2}

\* A race of a single entrant, of two and of three.
MCWants == {0, 1, 2}

MCSymmetry == Permutations(MCThree)
=============================================================================
