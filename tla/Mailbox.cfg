SPECIFICATION Spec
CONSTANTS
  p1 = p1
  p2 = p2
  p3 = p3
  p4 = p4
  s1 = s1
  s2 = s2
  Packets = {p1, p2, p3, p4}
  Live = {p1, p2}
  Senders = {s1, s2}
  Batch <- MCBatch
  Workers = {w1, w2}
  ConsumeCap = 1
  MapCap = 2
  UserCap = 1
  UserPushCap = 2
  WorkerPushCap = 2
  MaxRetrans = 2
  AckedCap = 1
  IdCap = 1
  InFlight = 1
  InBound = InBound
  Nobody = Nobody
INVARIANTS ExactlyOnce NobodyWaitsInVain SomeWorkerFree OneLateCopy
PROPERTIES SendReturns
CHECK_DEADLOCK FALSE
