SPECIFICATION Spec
CONSTANTS
  Master = {m1, m2}
  Backup = {b}
  SameHost = {{m2, b}}
  RequestId = {r1}
  None = None
  Poll = 0
  RequestTimeout = 1
  AssignmentTtl = 1
  StopTime = 1
  Stale = 2
INVARIANTS
  TypeOK
  UnwantedNodeStops
