SPECIFICATION Spec
CONSTANTS
  Procs = {p1, p2}
  InitProc = p1
  None = None
  Pages <- MCPages
  PGSIZE = 2
  NPT = 3
  NPTENTRIES = 3
  Deltas <- MCDeltas
  Images <- MCImages
  Ranges <- MCRanges
INVARIANT PagesPartitioned
INVARIANT Mapped
PROPERTY ImagesRight
