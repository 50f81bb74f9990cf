SPECIFICATION Spec
CONSTANTS
  Wal <- WalOfAll
  FaultKinds = {}
  MaxFaults = 0
INVARIANT AtLeastOnce
CHECK_DEADLOCK FALSE
