SPECIFICATION PipelineSpec
CONSTANTS
  c1 = c1
  c2 = c2
  c3 = c3
  h1 = h1
  h2 = h2
  Callers = {c1, c2}
  Handlers = {h1, h2}
  NoHandler = NoHandler
  Probe = Probe
  Pks = {1, 2}
  Vals = {"a", "b"}
  NoPk = NoPk
  NoVal = NoVal
  NoRow = NoRow
  Log <- LogOfClash
  TTL = 1
  MaxReruns = 1
  Prompt = FALSE
  Expiry = TRUE
  Caller = c3
  MaxRerunsAlone = 2
  Partitions = {1, 2}
  Windows <- TwoWindows
  Threshold = 2
  BATCH_SIZE = 1
  MAXLEN = 1
  MaxEvents = 2
  MaxTime = 3
  MaxStops = 1
  FaultKinds = {"redis", "send", "timeout", "expire", "feedback", "connect", "stream", "stop", "crash"}
  MaxFaults = 3
INVARIANT TypeOK
INVARIANT MarkedIsDelivered
INVARIANT AckedIsDelivered
INVARIANT SourceTypeOK
INVARIANT DoneIsComplete
INVARIANT PositionCovers
INVARIANT OneRepeatPerStop
INVARIANT IngestTypeOK
INVARIANT AckedOrCounted
INVARIANT NoGap
PROPERTY AloneFollowsLog
PROPERTY OnlyTheWindow
PROPERTY StreamEnds
PROPERTY EventuallyDrained
CHECK_DEADLOCK FALSE
