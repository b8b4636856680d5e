----------------------------- MODULE MCPipeServer -----------------------------
(* Instances of PipeServer for TLC. *)
EXTENDS PipeServer, TLC

Symmetry == Permutations(Kits)
=============================================================================
