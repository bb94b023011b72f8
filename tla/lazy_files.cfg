SPECIFICATION Spec
CONSTANTS
  f1 = f1 f2 = f2 h1 = h1 h2 = h2
  d1 = d1 d2 = d2 d3 = d3 w1 = w1
  None = None
  Files = {f1, f2}
  Handles = {h1, h2}
  Descs = {d1, d2, d3}
  Workers = {w1}
  NewSlots = 1
  Chunk = 2
  Space = 3
  Patterns = {"append", "fresh"}
  Shared = FALSE
  RpcErrors = FALSE
  Expiry = FALSE
  SlotTimeouts = TRUE
  MaxSize = 2
  MaxOps = 4
SYMMETRY Perms
INVARIANTS FlushUploads NothingLost OwnDescriptor NoneHung
