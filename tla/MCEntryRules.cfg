SPECIFICATION Spec
CONSTANTS
  Node = {n1, n2}
  Market = {{}, {"GAP_MOMENTUM", "TUESDAY_NORMALIZATION"}}
  Switch = {"GAP_MOMENTUM"}
  MaxClock = 2
  MaxTaps = 2
  MaxToken = 2
  MaxFaults = 1
SYMMETRY Symmetry
INVARIANTS
  TypeOK
  ControlsMatchAudit
  EntryWasApproved
PROPERTIES
  OutcomeFollowsControls
CHECK_DEADLOCK FALSE
