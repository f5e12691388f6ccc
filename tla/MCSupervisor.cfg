SPECIFICATION FairSpec
CONSTANTS
  N = 2
  Crashing = {2}
  Poll = 1
  RequestTimeout = 1
  AssignmentTtl = 2
  StopTime = 3
  RestartDelay = 2
  ReadyTimeout = 4
  Backoff = 3
  MaxRaises = 2
INVARIANTS
  TypeOK
  ReadyFileIsTrue
  OneConnects
  OnlyAssignedRun
PROPERTIES
  AssignedIsLaunched
  UnassignedEnds
