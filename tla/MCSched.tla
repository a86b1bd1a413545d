------------------------------ MODULE MCSched ------------------------------
(* TLC instances of Sched: see the .cfg files that name this module. *)
EXTENDS Sched, TLC

Symmetry == Permutations(CPUs)
=============================================================================
