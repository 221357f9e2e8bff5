-------------------------- MODULE MCParsePipeline --------------------------
(* TLC instance of ParsePipeline. *)
EXTENDS ParsePipeline, TLC

OutputsSymmetry == Permutations(Outputs)
=============================================================================
