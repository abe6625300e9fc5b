------------------------ MODULE MCPipelineStageLease ------------------------
(* A small instance of PipelineStageLease for TLC: the execution stage with *)
(* statements of its own, and a stage that authorizes post_verify_chain.    *)
(* Runs and owners differ in nothing but their names.                       *)
EXTENDS PipelineStageLease, TLC

ThreeStages == {Execution, "verify_v2", PostVerify}
Symmetry    == Permutations(Owners) \union Permutations(Runs)
=============================================================================
