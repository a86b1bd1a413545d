\* The calls of linkunlink() in usertests.c.
CONSTANTS
  p1 = p1
  p2 = p2
  Procs = {p1, p2}
  Inums = {1, 2, 3}
  ROOTINO = 1
  NINODE = 3
  Names <- TestNames
  Fds = {1, 2}
  NFILE = 1
  None = None
  Image <- TestImage
  MaxLinks = 2
  Calls <- TestCalls
SPECIFICATION Spec
INVARIANT NoDeadlock
CHECK_DEADLOCK FALSE
