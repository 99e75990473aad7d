SPECIFICATION Spec
CHECK_DEADLOCK FALSE
CONSTANTS
  Request = {r1, r2}
  User = {u1, u2}
  Token = {t1, t2, t3}
  UserTTL = 1
  MaxTime = 2
SYMMETRY RequestTokenSymmetry
INVARIANTS
  TypeOK
  NoOrphans
  LoginKeepsOwner
PROPERTIES
  SettledStaysSpent
