CONSTANTS
  Threads = {t1, t2}
  W = 28
  Bottom = 2
  Top = 27
  Ram <- JunkRam
  MallocSizes = {4, 5}
  CallocCounts = {}
  ReallocSizes = {}
  Payload = {}
SPECIFICATION Spec
VIEW View
SYMMETRY Symmetry
INVARIANTS TagsAgree FreeListExact Coalesced BlocksAccountedFor SearchSoFar NextStillNext HeapRecovers
PROPERTIES DataKept LockDiscipline ImplementsAllocator
CHECK_DEADLOCK TRUE
