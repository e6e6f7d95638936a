----------------------------- MODULE MCDesktop ------------------------------
(***************************************************************************)
(* Two operations: one of any kind, and the removal of an entry from the   *)
(* menu of its row, which may start while the first runs.                  *)
(***************************************************************************)
EXTENDS Desktop

MCOps == 1..2
MCKindsOf == <<{"create", "extract", "test", "compact"}, {"remove"}>>
MCGrowths == {0, 1}
=============================================================================
