------------------------ MODULE MCPostVerifyCheckpoint ------------------------
(* A small instance of PostVerifyCheckpoint for TLC: an idempotent task     *)
(* whose error stops the chain, and a task that must not run twice.         *)
EXTENDS PostVerifyCheckpoint

CONSTANTS r1
MCRuns     == {r1}
MCOwners   == Messages \X (0 .. MaxRetries)
MCTasks    == <<"projection", "report">>
MCSafe     == {"projection"}
MCStopping == {"projection"}
MCNone     == {}
=============================================================================
