SPECIFICATION FairSpec
CONSTANTS
  u1 = u1 u2 = u2 u3 = u3 u4 = u4 u5 = u5
  e1 = e1 e2 = e2 e3 = e3 e4 = e4
  User = {u3, u4, u5}
  Email = {e1, e2, e3, e4}
  EmailOf <- MCEmailOf
  Admins = {}
  Req = {r1, r2}
  Ops = {"register", "toggle_role", "delete_user"}
  Given = {"admin", "reviewer"}
  Respelled = TRUE
  NoUser = NoUser
  NoCall = NoCall
INVARIANTS
  TypeOK
  EmailUnique
PROPERTIES
  DeletesKeepAdmin
  ActorSurvivesCommit
  OnlyRacingFirsts
  RequestsEnd
