---------------------------- MODULE MCEveningChain ----------------------------
(* Small instances of EveningChain for TLC.                                 *)
EXTENDS EveningChain

CONSTANTS r1, r2
MCRuns    == {r1, r2}
MCOwners  == Workers \X (0 .. MaxAttempts) \X {PostPipeline, Verify, PostVerify}
MCCursors == [by : {"chain", "repair"}, run : {r1, r2}]
=============================================================================
