----------------------------- MODULE MCPrepBatch -----------------------------
(* A small instance of PrepBatch for TLC. *)
EXTENDS PrepBatch

CONSTANTS d1, d2    \* two dispatchers
=============================================================================
