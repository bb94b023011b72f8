SPECIFICATION Spec
CONSTANTS
  f1 = f1 f2 = f2 h1 = h1 h2 = h2
  d1 = d1 d2 = d2 d3 = d3 w1 = w1
  None = None
  Files = {f1, f2}
  Handles = {h1, h2}
  Descs = {d1, d2}
  Workers = {w1}
  NewSlots = 1
  Chunk = 2
  Space = 3
  Patterns = {"append"}
  Shared = TRUE
  RpcErrors = TRUE
  Expiry = TRUE
  SlotTimeouts = FALSE
  MaxSize = 2
  MaxOps = 3
SYMMETRY Perms
INVARIANTS TypeOK NoDescLeak LockReturned
