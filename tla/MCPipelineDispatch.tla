------------------------- MODULE MCPipelineDispatch -------------------------
(* Small instances of PipelineDispatch for TLC.                             *)
EXTENDS PipelineDispatch
=============================================================================
