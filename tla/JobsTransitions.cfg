SPECIFICATION Spec
CONSTANTS
  j1 = j1
  w1 = w1
  c1 = c1
  Jobs = {j1}
  Workers = {w1}
  Clients = {c1}
  NoJob = NoJob
  NoWorker = NoWorker
  NEvents = 1
  LeaseDuration = 2
  MaxRetries = 0
  ApiOps = {"start", "cancel"}
  FaultKinds = {}
  MaxCalls = 2
  MaxFaults = 0
  Timely = TRUE
SYMMETRY Interchangeable
PROPERTY EndedStays
CHECK_DEADLOCK FALSE
