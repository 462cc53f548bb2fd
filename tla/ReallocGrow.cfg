CONSTANTS
  Threads = {t1, t2}
  W = 28
  Bottom = 2
  Top = 27
  Ram <- JunkRam
  MallocSizes = {4}
  CallocCounts = {}
  ReallocSizes = {14}
  Payload = {}
SPECIFICATION Spec
VIEW View
SYMMETRY Symmetry
INVARIANTS FreeListExact BlocksAccountedFor CopyFits
PROPERTY DataKept
CHECK_DEADLOCK TRUE
