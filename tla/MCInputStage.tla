---------------------------- MODULE MCInputStage ----------------------------
(* A small instance of InputStage for TLC. *)
EXTENDS InputStage

CONSTANTS c1, r1,   \* a callback and a reconciliation
          b1, b2    \* two batches
=============================================================================
