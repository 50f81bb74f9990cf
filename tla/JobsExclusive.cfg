SPECIFICATION BothSpec
CONSTANTS
  j1 = j1
  j2 = j2
  w1 = w1
  w2 = w2
  c1 = c1
  c2 = c2
  c3 = c3
  Jobs = {j1, j2}
  Workers = {w1, w2}
  Clients = {c3}
  NoJob = NoJob
  NoWorker = NoWorker
  NEvents = 2
  LeaseDuration = 2
  MaxRetries = 1
  ApiOps = {"start", "cancel", "delete"}
  FaultKinds = {"crash", "stop", "error"}
  MaxCalls = 3
  MaxFaults = 2
  Timely = TRUE
  LifeJobs = {j1}
  LifeClients = {c1, c2}
  LifeMaxCalls = 3
  LifeMaxFaults = 1
SYMMETRY Interchangeable
INVARIANT OneExecutor
INVARIANT RunningIsLeased
INVARIANT LifeSafe
PROPERTY CheckpointAdvances
CHECK_DEADLOCK FALSE
