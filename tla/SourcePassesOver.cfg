SPECIFICATION Spec
CONSTANTS
  Partitions = {1}
  Windows <- MCWindows
  Threshold = 2
  BATCH_SIZE = 1
  MAXLEN = 1
  MaxEvents = 2
  MaxTime = 3
  MaxStops = 0
INVARIANT NothingPassedOver
CHECK_DEADLOCK FALSE
