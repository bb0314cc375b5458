----------------------------- MODULE MCPipeline -----------------------------
(* Instances of Pipeline for TLC. *)
EXTENDS Pipeline, TLC

Symmetric == Permutations(Workers) \cup Permutations(Clients)
                \cup Permutations(Contents)

=============================================================================
