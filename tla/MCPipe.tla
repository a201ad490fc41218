------------------------------- MODULE MCPipe -------------------------------
(* Instance of Pipe for TLC. *)
EXTENDS Pipe, TLC

Symmetry == Permutations(Readers)
=============================================================================
