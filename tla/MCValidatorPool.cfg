SPECIFICATION Spec
CONSTANTS
  Peer = {p1, p2}
  MaxValidators = 1
  MaxConnecting = 2
CHECK_DEADLOCK FALSE
INVARIANTS
  PoolWithinLimit
  OneProbeAtATime
  SupportedIsChecked
  ShutdownIsQuiet
  TestsEndWithTheirLink
PROPERTIES
  StrayChecksStop
  OpenPeersJoin
