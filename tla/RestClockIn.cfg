SPECIFICATION Safety
CONSTANTS
  Calls = {c1, c2}
  InWorkers = {w1}
  TicketCaps = {2}
  ClockCap = 1
  ExpireCap = 1
INVARIANT ClockInSucceeds
CHECK_DEADLOCK FALSE
