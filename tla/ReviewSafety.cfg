SPECIFICATION Spec
CONSTANTS
  Req = {r1, r2}
  l1 = l1
  l2 = l2
  Label = {l1, l2}
  Result <- MCResult
  Comment = {t1}
  Color = {c1}
  DocName = {n1}
  Blank = Blank
  None = None
  NoRow = NoRow
  NoCall = NoCall
  NoEntry = NoEntry
SYMMETRY Symmetry
INVARIANT
  TypeOK
PROPERTIES
  OthersWorkKept
  ReviewerGuard
  CommentKeepsColor
  AuditSaysBefore
