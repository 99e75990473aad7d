SPECIFICATION Spec
CHECK_DEADLOCK FALSE
CONSTANTS
  Request = {r1, r2}
  User = {u1, u2}
  Token = {t1, t2}
  UserTTL = 1
  ExtendOnActivity = {TRUE, FALSE}
  MaxTime = 2
SYMMETRY RequestTokenSymmetry
INVARIANTS
  TypeOK
  NoTimeGained
  AbsoluteLifetime
  CopiesAgree
PROPERTIES
  SettledStaysClosed
