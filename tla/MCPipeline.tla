----------------------------- MODULE MCPipeline -----------------------------
(***************************************************************************)
(* Pipeline on small instances. The units of MCMixed differ in size, and   *)
(* the third is larger than any budget; those of MCEven fill the channels. *)
(***************************************************************************)
EXTENDS Pipeline

CONSTANTS w1, w2

MCOne == {w1}
MCTwo == {w1, w2}

MCMixed == [n \in 0..4 |-> <<0, 2, 5, 14, 16>>[n + 1]]
MCEven == [n \in 0..7 |-> n]
=============================================================================
