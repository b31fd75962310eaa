SPECIFICATION Spec
CONSTANTS
  Page = p
  Chars = {x, y}
  MaxText = 1
  MaxBranches = 2
  MaxChanges = 3
  Conns = {k1, k2}
  None = None
  MaxFaults = 1
  Capacity = 2
  MaxFiles = 3
  ShortWrites = TRUE
SYMMETRY Symmetry
INVARIANTS FileTellsText BranchesTold
CHECK_DEADLOCK FALSE
