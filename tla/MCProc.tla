------------------------------- MODULE MCProc -------------------------------
(* The TLC instance of Proc. *)
EXTENDS Proc, TLC

Symmetry == Permutations(CPUs)
=============================================================================
