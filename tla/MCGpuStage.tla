----------------------------- MODULE MCGpuStage -----------------------------
(* A small instance of GpuStage for TLC. *)
EXTENDS GpuStage

CONSTANTS d1, r1    \* a driver call and a reconciliation
=============================================================================
