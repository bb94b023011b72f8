SPECIFICATION FairSpec
CONSTANTS
  t1 = t1 t2 = t2
  c1 = c1 c2 = c2 c3 = c3
  d1 = d1 d2 = d2 p = p
  Null = Null
  Manager = Manager
  Threads = {t1, t2}
  Conns = {c1, c2}
  Descs = {d1}
  Paths = {p}
  MAX_NUM_CONN = 1
  HIGH_NUM_CONN = 1
  NetErrors = FALSE
  WaitTimeouts = TRUE
  FreeCntCap = 1
  MaxOps = 3
PROPERTIES EveryCallReturns
