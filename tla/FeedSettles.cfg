SPECIFICATION FairSpec
CONSTANTS
  Sockets = {1, 2, 3}
  MAX_ATTEMPTS = 2
  MaxDrops = 1
  MaxVisits = 1
PROPERTY ConnectionSettles
CHECK_DEADLOCK FALSE
