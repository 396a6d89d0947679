CONSTANTS
  Threads = {t1, t2}
  Main = t1
  Programs <- MCPrograms
  PmAddr = 4
  DupAddr = 8
  PmSize = 4
  CACHELINE_SIZE = 2
  ByteValues = {0, 1, 2}
  EntryCacheSize = 3
  StoreValueCacheBytes = 3
  Bases = {0, 1}
  Parts = {"trace", "search", "graph"}
SPECIFICATION MCSpec
INVARIANTS
  RecordedInOrder
  PMTraceFaithful
  SearchesExact
  PpdgExact
CHECK_DEADLOCK FALSE
