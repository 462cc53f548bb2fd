CONSTANTS
  Threads = {t1}
  W = 37
  Bottom = 2
  Top = 35
  Ram <- JunkRam
  MallocSizes = {4}
  CallocCounts <- OneCalloc
  ReallocSizes = {0, 4, 14, 24}
  Payload = {}
SPECIFICATION Spec
VIEW View
INVARIANTS TagsAgree FreeListExact BlocksAccountedFor
PROPERTIES DataKept ImplementsAllocator
CHECK_DEADLOCK TRUE
