CONSTANTS
  NPROC = 2
  CPUs = {c1, c2}
  None = None
SPECIFICATION Spec
SYMMETRY Symmetry
INVARIANT NoLostWakeup
INVARIANT OneStack
INVARIANT InterruptsRight
