---------------------------- MODULE MCArchiveLog ----------------------------
(***************************************************************************)
(* ArchiveLog on small instances: two paths, two contents of which one is  *)
(* an archive itself, one reader.                                          *)
(***************************************************************************)
EXTENDS ArchiveLog, TLC

CONSTANTS p1, p2, c1, c2, r1

MCPaths == {p1, p2}
MCContents == {c1, c2}
MCImages == {c2}
MCReaders == {r1}

\* Nothing tells the paths apart.
MCSymmetry == Permutations(MCPaths)
=============================================================================
