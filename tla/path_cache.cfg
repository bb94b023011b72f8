SPECIFICATION Spec
CONSTANTS
  t1 = t1 t2 = t2 p1 = p1 p2 = p2
  e1 = e1 e2 = e2 e3 = e3 e4 = e4
  NoPath = NoPath NoEntry = NoEntry
  Threads = {t1, t2}
  Paths = {p1, p2}
  Entries = {e1, e2, e3}
  Versions = {1, 2}
  CACHE_EXPIRE_TIME = 1
  MaxOps = 3
SYMMETRY Perms
INVARIANTS TypeOK QueuesSorted StaleEnds PointersValid OneEntry
