--------------------------- MODULE MCPayloadStage ---------------------------
(* Two importers racing for one published name; the plan has one entry of    *)
(* one unit.                                                                 *)
EXTENDS PayloadStage, TLC

OneEntry == <<1>>
Interchangeable == Permutations(Importers)
=============================================================================
