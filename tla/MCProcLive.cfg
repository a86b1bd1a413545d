\* init, two more processes and two CPUs; every fork may fail, and pid 2 is killed.
CONSTANTS
  NPROC = 3
  CPUs = {c1, c2}
  MaxPid = 3
  KillPids = {2}
SPECIFICATION LiveSpec
PROPERTY RunnableRuns
PROPERTY OrphansReaped
