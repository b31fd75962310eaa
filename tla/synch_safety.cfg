SPECIFICATION Spec
CONSTANTS
  Clients = {p1, p2}
  Conns = {k1, k2, k3}
  None = None
  MaxChanges = 3
  MaxFaults = 2
  Capacity = 2
  MaxFiles = 3
  ShortWrites = TRUE
SYMMETRY Symmetry
INVARIANTS TypeOK NoLoss OrderKept OnceUnlessAlerted
PROPERTY JamIsForever
CHECK_DEADLOCK FALSE
