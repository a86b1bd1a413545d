------------------------------- MODULE MCPipe -------------------------------
(* The TLC instance of Pipe. *)
EXTENDS Pipe, TLC

Symmetry == Permutations(Readers) \cup Permutations(Writers)
=============================================================================
