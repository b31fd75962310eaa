SPECIFICATION FairSpec
CONSTANTS
  Clients = {p1, p2}
  Conns = {k1, k2}
  None = None
  MaxChanges = 2
  MaxFaults = 2
  Capacity = 1
  MaxFiles = 3
  ShortWrites = FALSE
PROPERTY Delivers EventuallySaved
CHECK_DEADLOCK FALSE
