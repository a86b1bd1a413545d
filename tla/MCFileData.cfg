SPECIFICATION Spec
CONSTANTS
  p1 = p1
  p2 = p2
  None = None
  f1 = f1
  f2 = f2
  Procs = {p1, p2}
  Files = {f1, f2}
  NINODES = 4
  IPB = 8
  BPB = 16
  BSIZE = 2
  NDIRECT = 1
  NLOG = 1
  FSSIZE = 14
  MAXOPBLOCKS = 6
  Programs <- MCPrograms
  Buffer <- MCBuffer
  Counts = {5}
  MaxCalls = 4
INVARIANT BlocksPartitioned
INVARIANT CrashConsistent
INVARIANT WithinReservation
PROPERTY ImplementsFileStore
