SPECIFICATION Spec
CONSTANTS
  Threads = {t1, t2, t3}
  NoThread = NoThread
  YieldSpins = 1
  LockSpins = 1
INVARIANTS MutualExclusion NoLostWakeup FenceElisionSound
PROPERTIES RefinesMutex
