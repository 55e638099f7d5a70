SPECIFICATION Spec
CONSTANTS
  a = a
  b = b
  c = c
  Clients = {a, b, c}
  Nobody = Nobody
  RunnerKind <- MCRunnerKind
  ClientKind <- MCClientKind
  KindSize = 4
  LoopChk = 2
INVARIANTS EveryRunnerOnce NoEpochOfDeadWorker
PROPERTIES DeregisterReturns AbortEnds
CHECK_DEADLOCK FALSE
