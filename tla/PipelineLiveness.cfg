SPECIFICATION FairPipelineSpec
CONSTANTS
  f1 = f1 f2 = f2 f3 = f3 f4 = f4 f5 = f5
  p1 = p1 p2 = p2 p3 = p3 p4 = p4
  n1 = n1 n2 = n2 n3 = n3
  k1 = k1 k2 = k2 k3 = k3
  b1 = b1 b2 = b2
  d1 = d1 d2 = d2
  File = {f1, f3, f4}
  Path = {p1, p3, p4}
  Name = {n1, n3}
  Key = {k1, k2, k3}
  Batch = {b1, b2}
  Doc = {d1, d2}
  PathOf <- MCPathOf
  NameOf <- MCNameOf
  KeyOf <- MCKeyOf
  BatchOf <- MCBatchOf
  DocOf <- MCDocOf
  Verdict <- MCVerdict
  Decodes <- MCDecodes
  NoFile = NoFile
  NoRow = NoRow
  NoPath = NoPath
  NoJob = NoJob
  NoPrediction = NoPrediction
  Rewrites = {}
  MaxQueue = 2
  MaxFaults = 1
PROPERTIES
  JobsEnd
  DocumentsClassified
  ImplementsFullLifecycle
