SPECIFICATION FairSpec
CONSTANTS
  j1 = j1
  w1 = w1
  w2 = w2
  c1 = c1
  Jobs = {j1}
  Workers = {w1, w2}
  Clients = {c1}
  NoJob = NoJob
  NoWorker = NoWorker
  NEvents = 2
  LeaseDuration = 1
  MaxRetries = 0
  ApiOps = {"start", "pause", "resume", "cancel", "update", "delete"}
  FaultKinds = {"crash", "stop", "error"}
  MaxCalls = 4
  MaxFaults = 1
  Timely = FALSE
INVARIANT TypeOK
INVARIANT CheckpointSafe
INVARIANT CompletedSafe
PROPERTY ProgressSpec
PROPERTY EventuallySettled
CHECK_DEADLOCK FALSE
