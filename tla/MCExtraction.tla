---------------------------- MODULE MCExtraction ----------------------------
(***************************************************************************)
(* Extraction of three entries from two directories by two threads.        *)
(***************************************************************************)
EXTENDS Extraction

CONSTANTS w1, w2, d1, d2, e1, e2, e3

MCWorkers == {w1, w2}
MCDirs == {d1, d2}
MCEntries == <<e1, e2, e3>>
MCParent == [t \in {e1, e2, e3} |-> IF t = e3 THEN d2 ELSE d1]
=============================================================================
