------------------------------ MODULE MCFullFit ------------------------------
(* A small instance of FullFit for TLC. *)
EXTENDS FullFit, TLC

CONSTANTS d, p, i1, i2    \* a dispatching and a poll-only caller, two instances

TwoInstances == d :> i1 @@ p :> i2
=============================================================================
