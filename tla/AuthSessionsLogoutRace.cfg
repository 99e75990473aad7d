SPECIFICATION Spec
CHECK_DEADLOCK FALSE
CONSTANTS
  Request = {r1, r2}
  User = {u1}
  Token = {t1}
  UserTTL = 3
  ExtendOnActivity = {TRUE}
  MaxTime = 2
PROPERTIES
  ClosedStaysClosed
