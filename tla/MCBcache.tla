------------------------------ MODULE MCBcache ------------------------------
(* TLC instances of Bcache: see the .cfg files that name this module. *)
EXTENDS Bcache, TLC

Symmetry == Permutations(Procs) \cup Permutations(Blocks)
=============================================================================
