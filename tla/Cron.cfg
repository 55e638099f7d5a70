SPECIFICATION Spec
CONSTANTS
  j1 = j1
  j2 = j2
  Jobs = {j1, j2}
  Dur <- ShortLong
  Workers = {w1, w2}
  Due = 1
  NoJob = NoJob
INVARIANTS EveryJobOnce LateRunsBounded
PROPERTIES JobKeepsRunning ReleasedJobEnds CloseEnds
CHECK_DEADLOCK FALSE
