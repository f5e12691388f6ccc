SPECIFICATION Spec
CONSTANTS
  N = 2
  Crashing = {}
  Poll = 1
  RequestTimeout = 1
  AssignmentTtl = 2
  StopTime = 3
  RestartDelay = 2
  ReadyTimeout = 4
  Backoff = 3
  MaxRaises = 0
PROPERTIES
  NothingStartsExpired
