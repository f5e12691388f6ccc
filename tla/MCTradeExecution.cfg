SPECIFICATION FairSpec
CONSTANTS
  Proc = {p1, p2}
  None = None
  Exec = {e1, e2}
  Week = {w1}
  Kind = {"BUY", "SELL"}
  MaxToken = 2
  MaxFaults = 1
INVARIANTS
  TypeOK
  OneOrderPerWeek
  EveryOrderIsRecorded
  ResultsAreTrue
  GateTokenIsExclusive
PROPERTIES
  ImplementsWeeklyEntry
  HolderKeepsGate
  ClaimIsResolved
