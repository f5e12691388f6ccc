SPECIFICATION Spec
CONSTANTS
  Node = {n1, n2}
  Position = {1, 2}
  Manual = {2}
  NoPos = NoPos
  Price = {6, 9, 11}
  HardPrice = {5, 6}
  Tsl = 8
  BreakEven = 8
  Distance = 1
  Delayed = TRUE
  Instant = {1, 12, 15, 17}
  MaxMoves = 1
  MaxEvents = 2
SYMMETRY Symmetry
INVARIANTS
  TypeOK
  RuleExitIsAuthorised
PROPERTIES
  HardStopPricedOnce
  ProtectionOnlyTightens
  ExitStaysLatched
  EntryWaitsForClose
CHECK_DEADLOCK FALSE
