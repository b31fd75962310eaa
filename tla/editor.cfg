SPECIFICATION Spec
CONSTANTS
  Chars = {x, y}
  MaxText = 2
  MaxBranches = 3
  MaxChanges = 3
SYMMETRY Symmetry
INVARIANTS TypeOK HistoryInView
PROPERTIES FaithfulStays PastIsFixed SoundStays
CHECK_DEADLOCK FALSE
