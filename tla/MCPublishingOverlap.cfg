SPECIFICATION Spec
CONSTANTS
  MaxTrades = 1
  QueueSize = 2
  MaxFaults = 0
  Overlap = TRUE
  None = None
INVARIANTS
  CloseConverges
CHECK_DEADLOCK FALSE
