SPECIFICATION Spec
CONSTANTS
  Sockets = {1, 2}
  MaxLog = 2
  Unparsable = {2}
  READ_COUNT = 2
  RECENT = 1
  MaxLoads = 1
INVARIANT TypeOK
INVARIANT FeedComplete
PROPERTY SessionNotices
CHECK_DEADLOCK FALSE
