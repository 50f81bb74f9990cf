SPECIFICATION ConsoleSpec
CONSTANTS
  Slots = {1, 2}
  Capacity = 2
  Rate = 2
  MaxTime = 2
  MaxLosses = 1
  Sockets = {1, 2, 3}
  MAX_ATTEMPTS = 2
  MaxDrops = 1
  MaxVisits = 2
  MAX_EVENTS = 2
  Tables = {"", "a"}
  Operations = {"", "I"}
  Words = {"x", "I"}
  Jobs = {"j1"}
  Initial = {"running"}
  MaxEvents = 2
  Tabs = {1, 2}
  MaxLogins = 2
  Series <- MCSeries
  Braced <- MCBraced
  Bounds = {1, 2}
  MAX_HISTORY = 2
  MaxIngested = 2
  MaxRestarts = 1
  TOAST_LIMIT = 1
  MaxToasts = 4
  PAGE_SIZE = 1
  Kinds = {"x", "y"}
  Rows = {1, 2}
  MaxChanges = 3
  ChangeAt = 2
  Changes <- MCChanges
  Ranges = {2}
  Speeds = {0, 5}
  MaxHours = 3
  MaxSent = 1
INVARIANT TypesOK
INVARIANT SameSession
INVARIANT PercentileInBucket
INVARIANT QuickRangeExact
INVARIANT RateBound
PROPERTY AutoReconnect
PROPERTY ImplementsConnection
PROPERTY SearchSettles
PROPERTY RefusedOnlyStale
PROPERTY ViewCatchesUp
PROPERTY TabsSettle
PROPERTY RateIsHonest
PROPERTY TimersMatch
PROPERTY ButtonsLeadSomewhere
CHECK_DEADLOCK FALSE
