\* The ring is smaller than a write, and the counters wrap after two rounds.
CONSTANTS
  Readers = {r1, r2}
  Writers = {w1, w2}
  Bytes = {0, 1}
  PIPESIZE = 2
  WORD = 4
  MaxN = 3
  Victims = {r1, r2, w1, w2}
  None = None
SPECIFICATION Spec
SYMMETRY Symmetry
INVARIANT WaitsRight
INVARIANT NoUseAfterFree
PROPERTY ImplementsByteStream
