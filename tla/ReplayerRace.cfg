SPECIFICATION Spec
CONSTANTS
  c1 = c1
  c2 = c2
  h1 = h1
  h2 = h2
  Callers = {c1, c2}
  Handlers = {h1, h2}
  NoHandler = NoHandler
  Probe = Probe
  Pks = {1, 2}
  Vals = {"a", "b"}
  NoPk = NoPk
  NoVal = NoVal
  NoRow = NoRow
  Log <- LogOfTwo
  TTL = 1
  MaxReruns = 0
  Prompt = TRUE
  Expiry = FALSE
SYMMETRY Interchangeable
INVARIANT Converged
CHECK_DEADLOCK FALSE
