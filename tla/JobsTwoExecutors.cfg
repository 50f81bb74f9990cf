SPECIFICATION Spec
CONSTANTS
  j1 = j1
  w1 = w1
  w2 = w2
  c1 = c1
  Jobs = {j1}
  Workers = {w1, w2}
  Clients = {c1}
  NoJob = NoJob
  NoWorker = NoWorker
  NEvents = 2
  LeaseDuration = 2
  MaxRetries = 0
  ApiOps = {"start", "pause", "resume"}
  FaultKinds = {}
  MaxCalls = 3
  MaxFaults = 0
  Timely = TRUE
SYMMETRY Interchangeable
INVARIANT NeverBothReplaying
CHECK_DEADLOCK FALSE
