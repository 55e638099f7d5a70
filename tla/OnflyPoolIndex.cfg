SPECIFICATION Safety
CONSTANTS
  t1 = t1
  t2 = t2
  t3 = t3
  Tasks = {t1, t2, t3}
  User = User
  Owner <- Flat
  Unwaited = {}
  Cap = 2
  Indeterminate = {0, 1, 2, 7}
  Idle = Idle
INVARIANT IndexInRange
CHECK_DEADLOCK FALSE
