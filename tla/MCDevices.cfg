SPECIFICATION DevicesSpec
CONSTANTS
  r1 = r1
  r2 = r2
  None = None
  Readers = {r1, r2}
  INPUT_BUF = 3
  UINT = 6
  Keys <- MCKeys
  Keymaps <- MCKeymaps
  Serial <- MCSerial
  Counts = {2}
  MaxScan = 2
  Apics = {1, 2, 3, 4}
  Bsp = 1
  NCPU = 3
  Tables <- MCTables
  Pages = {11, 12, 13}
  Starts <- MCStarts
  MaxTicks = 2
CHECK_DEADLOCK FALSE
VIEW MCView
SYMMETRY MCSymmetry
INVARIANT NeverWedged
INVARIANT NoStuckModifier
INVARIANT StartsAlone
INVARIANT NoTornTime
PROPERTY ImplementsLineDiscipline
