CONSTANTS
  NPROC = 4
  CPUs = {c1, c2}
  MaxPid = 4
  KillPids = {2}
SPECIFICATION Spec
SYMMETRY Symmetry
INVARIANT ParentsAlive
INVARIANT NoLostExit
