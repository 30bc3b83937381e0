SPECIFICATION Spec
CONSTANTS
  Peer = {p1, p2}
  MaxValidators = 1
  MaxConnecting = 1
CHECK_DEADLOCK FALSE
INVARIANTS
  ConnectedAreConnected
