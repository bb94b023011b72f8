SPECIFICATION Spec
CONSTANTS
  w1 = w1 w2 = w2 p1 = p1 p2 = p2
  NoPath = NoPath
  Workers = {w1, w2}
  Paths = {p1, p2}
  MAX_READ_CACHE_SIZE = 1
  preloadMinSize = 2
  cacheMaxSize = 2
  MaxSize = 2
  MaxVersion = 4
  MaxOpens = 2
  MaxOps = 3
  MaxMounts = 2
SYMMETRY Perms
INVARIANTS TypeOK CacheWhole OwnParts ReadsOpenHandle UnmountWaits
PROPERTIES ImplementsWholeFileCache
CHECK_DEADLOCK FALSE
