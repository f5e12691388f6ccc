SPECIFICATION FairSpec
CONSTANTS
  Proc = {p1, p2}
  None = None
  Slot = {s1}
  Ttl = 6
  Heartbeat = 1
  RetryDelay = 0
  SafetyMargin = 1
  RequestTimeout = 1
  MaxFaults = 3
INVARIANTS
  TypeOK
  HolderOwnsLease
  TokenIsExclusive
  TransientFaultsTolerated
PROPERTIES
  ImplementsAuthority
  LeadershipSettles
