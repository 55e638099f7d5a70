SPECIFICATION Spec
CONSTANTS
  Calls = {c1, c2}
  InWorkers = {w1, w2}
  TicketCaps = {1, 2}
  ClockCap = 1
  ExpireCap = 1
INVARIANTS ObserverOnce TicketsOwned Rescued
PROPERTIES CallEnds RefinesCall
CHECK_DEADLOCK FALSE
