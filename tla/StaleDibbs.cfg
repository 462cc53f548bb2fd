CONSTANTS
  Threads = {t1}
  W = 28
  Bottom = 2
  Top = 27
  Ram <- ZeroRam
  MallocSizes = {4}
  CallocCounts = {}
  ReallocSizes = {8, 14}
  Payload = {}
SPECIFICATION Spec
VIEW View
INVARIANT DibbsIsFirst
CHECK_DEADLOCK TRUE
