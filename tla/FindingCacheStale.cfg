SPECIFICATION Spec
CONSTANTS
  u1 = u1 b1 = b1
  User = {u1}
  Batch = {b1}
  Reader = {r1}
  Writer = {w1}
  NoEntry = NoEntry
  CacheFails = FALSE
  Slow = 1
  Oldest = 7
  Kinds = {"user"}
PROPERTY
  ProfileIsFresh
