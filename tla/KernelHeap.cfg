CONSTANTS
  Threads = {t1}
  W = 4096
  Bottom = 16
  Top = 32
  Ram <- ZeroRam
  MallocSizes = {2, 14}
  CallocCounts = {}
  ReallocSizes = {}
  Payload = {}
SPECIFICATION Spec
INVARIANT BlocksInHeap
CHECK_DEADLOCK TRUE
