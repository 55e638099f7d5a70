SPECIFICATION PoolSpec
CONSTANTS
  Items = {i1, i2, i3}
  Producers = {p1, p2}
  Consumers = {w1, w2}
  Caps = {0, 1}
  Nothing = Nothing
  LoopChk = 2
INVARIANTS NobodyInside EveryOrderOnce NobodyWaitsInVain SemaphoreOnce
PROPERTIES DestroyReturns OrderRuns RefinesChannel
CHECK_DEADLOCK FALSE
