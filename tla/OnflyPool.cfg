SPECIFICATION Spec
CONSTANTS
  t1 = t1
  t2 = t2
  t3 = t3
  Tasks = {t1, t2, t3}
  User = User
  Owner <- Nested
  Unwaited = {t3}
  Cap = 2
  Indeterminate = {0}
  Idle = Idle
INVARIANT NothingLost
PROPERTIES HandleSettles
CHECK_DEADLOCK FALSE
