------------------------- MODULE MCCodegenCheckpoint -------------------------
(***************************************************************************)
(* Instance of CodegenCheckpoint: a scaffold, two screens that build in    *)
(* parallel once it is done, and a last task that needs both.              *)
(***************************************************************************)
EXTENDS CodegenCheckpoint

MCBefore == <<{}, {1}, {1}, {1, 2, 3}>>
=============================================================================
