----------------------------- MODULE MCPipeline -----------------------------
(* Instances of Pipeline for TLC. *)
EXTENDS PipelineInv

\* Blocks 2 and 3 of two coins and one, a second apart.
StrictSeconds == <<1, 2, 3>>
TiedSeconds   == <<1, 1, 2>>
OneTwoOne     == <<1, 2, 1>>
NoBlocks      == {}
BlockTwo      == {2}
=============================================================================
