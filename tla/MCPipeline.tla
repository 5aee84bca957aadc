----------------------------- MODULE MCPipeline -----------------------------
(* The write pipeline on a small cluster, for TLC. *)
EXTENDS Pipeline, TLC

DatanodeSymmetry == Permutations(DN)
=============================================================================
