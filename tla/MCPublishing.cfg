SPECIFICATION Spec
CONSTANTS
  MaxTrades = 2
  QueueSize = 3
  MaxFaults = 1
  Overlap = FALSE
  None = None
INVARIANTS
  TypeOK
  CloseConverges
PROPERTIES
  EventsSurvive
CHECK_DEADLOCK FALSE
