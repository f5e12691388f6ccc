SPECIFICATION FairSpec
CONSTANTS
  N = 3
  Crashing = {}
  Poll = 1
  RequestTimeout = 0
  AssignmentTtl = 2
  StopTime = 1
  RestartDelay = 2
  ReadyTimeout = 4
  Backoff = 3
  MaxRaises = 0
PROPERTIES
  FailuresBlockNobody
