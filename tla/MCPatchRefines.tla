--------------------------- MODULE MCPatchRefines ---------------------------
(* PatchRefines with one worker and one execution row.                      *)
EXTENDS PatchRefines

CONSTANTS w1, e1

OneWorker == {w1}
OneRow == {e1}
=============================================================================
