SPECIFICATION Spec
CONSTANTS
  Clients = {p1, p2}
  Conns = {k1, k2}
  None = None
  MaxChanges = 2
  MaxFaults = 0
  Capacity = 2
  MaxFiles = 4
  ShortWrites = FALSE
INVARIANT OneDeviceAtATime
CHECK_DEADLOCK FALSE
