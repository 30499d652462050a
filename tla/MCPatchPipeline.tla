--------------------------- MODULE MCPatchPipeline ---------------------------
(* TLC instance of PatchPipeline: every policy, two faults, one crash.         *)
EXTENDS PatchPipeline
MCPolicies == {"plain", "inject", "development"}
=============================================================================
