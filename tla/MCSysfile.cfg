\* Two processes, three inodes and cache entries, one file with two descriptors.
CONSTANTS
  p1 = p1
  p2 = p2
  Procs = {p1, p2}
  Inums = {1, 2, 3}
  ROOTINO = 1
  NINODE = 3
  Names <- MCNames
  Fds = {1, 2}
  NFILE = 1
  None = None
  Image <- MCImage
  MaxLinks = 2
  Calls <- MCCalls
SPECIFICATION Spec
INVARIANT RefIsPointers
INVARIANT CacheCoherent
INVARIANT LinksCounted
PROPERTY FreedWhenUnused
CHECK_DEADLOCK FALSE
