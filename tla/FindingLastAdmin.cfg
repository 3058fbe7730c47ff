SPECIFICATION Spec
CONSTANTS
  u1 = u1 u2 = u2 u3 = u3 u4 = u4 u5 = u5
  e1 = e1 e2 = e2 e3 = e3 e4 = e4
  User = {u1, u2}
  Email = {e1, e2, e3, e4}
  EmailOf <- MCEmailOf
  Admins = {u1, u2}
  Req = {r1, r2}
  Ops = {"toggle_role"}
  Given = {"admin", "reviewer"}
  Respelled = FALSE
  NoUser = NoUser
  NoCall = NoCall
PROPERTY
  AdminRemains
