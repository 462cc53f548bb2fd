CONSTANTS
  Threads = {t1, t2}
  W = 28
  Bottom = 2
  Top = 27
  Ram <- ZeroRam
  MallocSizes = {4, 10}
  CallocCounts = {}
  ReallocSizes = {4}
  Payload = {}
SPECIFICATION Spec
VIEW View
SYMMETRY Symmetry
INVARIANT LinksMatch
CHECK_DEADLOCK TRUE
