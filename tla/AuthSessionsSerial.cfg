SPECIFICATION Spec
CHECK_DEADLOCK FALSE
CONSTANTS
  Request = {r1}
  User = {u1}
  Token = {t1, t2}
  UserTTL = 2
  ExtendOnActivity = {TRUE, FALSE}
  MaxTime = 4
INVARIANTS
  CookieBacked
PROPERTIES
  ImplementsLedger
  RemovedForAReason
  NoRevival
