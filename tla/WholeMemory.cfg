CONSTANTS
  Threads = {t1}
  W = 28
  Bottom = 2
  Top = 27
  Ram <- ZeroRam
  MallocSizes = {4}
  CallocCounts = {}
  ReallocSizes = {14}
  Payload <- JunkPayload
SPECIFICATION FairSpec
INVARIANTS TagsAgree FreeListExact
PROPERTIES LockComesBack WalksEnd
CHECK_DEADLOCK TRUE
