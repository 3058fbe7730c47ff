SPECIFICATION MCSpec
CONSTANTS
  u1 = u1 b1 = b1
  User = {u1}
  Batch = {b1}
  Reader = {r1, r2}
  Writer = {w1}
  NoEntry = NoEntry
  CacheFails = TRUE
  Slow = 1
  Oldest = 7
  Kinds = {"user", "batch", "list", "recent"}
INVARIANTS
  TypeOK
  StaleBounded
  EntriesReal
PROPERTY
  CacheCatchesUp
