\* One pin and two processes compete for three buffers and four blocks.
CONSTANTS
  Procs = {p1, p2}
  Blocks = {k1, k2, k3, k4}
  Data = {0, 1}
  NBUF = 3
  MaxPinned = 1
  DiskErrors = FALSE
  None = None
SPECIFICATION Spec
SYMMETRY Symmetry
INVARIANT BufferKept
INVARIANT SleepersWaitForSomething
PROPERTY OnlyOwnersChange
