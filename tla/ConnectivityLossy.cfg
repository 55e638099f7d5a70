SPECIFICATION Spec
CONSTANTS
  Slaves = {s1}
  SlaveCount = 1
  TimeoutDur = 2
  BrokeDur = 2
  AbsDur = 4
  CronDur = 1
  CronLag = 1
  Reliable = FALSE
  MaxTime = 6

INVARIANTS SlaveNoticesInTime DisposedOnce
CHECK_DEADLOCK FALSE
