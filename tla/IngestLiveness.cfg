SPECIFICATION ScanFairSpec
CONSTANTS
  f1 = f1 f4 = f4 f6 = f6 part = part whole = whole
  p1 = p1 p3 = p3 p4 = p4
  n1 = n1 n4 = n4
  k1 = k1 k3 = k3 k4 = k4
  b1 = b1 b2 = b2 b4 = b4
  d1 = d1 d4 = d4
  File = {f1, f4, f6, part, whole}
  Path = {p1, p3, p4}
  Name = {n1, n4}
  Key = {k1, k3, k4}
  Batch = {b1, b2, b4}
  Doc = {d1, d4}
  PathOf <- MCPathOf
  NameOf <- MCNameOf
  KeyOf <- MCKeyOf
  BatchOf <- MCBatchOf
  DocOf <- MCDocOf
  Verdict <- MCVerdict
  ScanPath = {p4}
  PartOf <- MCPartOf
  WholeOf <- MCWholeOf
  NoFile = NoFile
  NoRow = NoRow
  NoPath = NoPath
  Rewrites = {f1, f6, part}
  MaxQueue = 1
  MaxFaults = 2
INVARIANT
  ScanTypeOK
PROPERTIES
  EventuallySettled
  EnqueuesStop
  QueuedIsIngested
