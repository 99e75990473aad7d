SPECIFICATION Spec
CHECK_DEADLOCK FALSE
CONSTANTS
  Request = {r1}
  User = {u1, u2}
  Token = {t1, t2, t3}
  UserTTL = 2
  MaxTime = 3
INVARIANTS
  OneTokenPerLogin
PROPERTIES
  ImplementsRegistry
