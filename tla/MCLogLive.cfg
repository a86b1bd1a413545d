CONSTANTS
  Procs = {p1, p2}
  Blocks = {b1, b2}
  Data = {0, 1}
  Zero = 0
  NoData = NoData
  MAXOPBLOCKS = 2
  LOGSIZE = 4
  NLOG = 4
  OpBlocks = 1
  MaxCalls = 3
  MaxCrashes = 2
SPECIFICATION LiveSpec
CHECK_DEADLOCK FALSE
INVARIANT LogInvariant
PROPERTY WriteAhead
PROPERTY ImplementsAtomicDisk
PROPERTY SleeperAdmitted
PROPERTY LogDrains
