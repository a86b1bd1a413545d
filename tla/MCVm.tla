-------------------------------- MODULE MCVm --------------------------------
(***************************************************************************)
(* Two process slots and a memory in which not every call succeeds.  The   *)
(* second range is in the last page table, which a process has only when   *)
(* it has grown that far: mprotect() of it returns -1, or faults.          *)
(***************************************************************************)
EXTENDS Vm

MCPages == 1 .. 14
MCDeltas == {3, -4}
MCImages == {3}
MCRanges == {<<1, 2>>, <<8, 1>>}

=============================================================================
