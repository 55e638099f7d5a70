SPECIFICATION Spec
CONSTANTS
  Slaves = {s1, s2, s3}
  SlaveCount = 2
  TimeoutDur = 6
  BrokeDur = 3
  AbsDur = 9
  CronDur = 1
  CronLag = 2
  Reliable = TRUE
  MaxTime = 9
SYMMETRY Symmetry
CONSTRAINT NobodyCloses
INVARIANTS NoFalseAlarm RoomBounded
CHECK_DEADLOCK FALSE
