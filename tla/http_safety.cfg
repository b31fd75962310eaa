SPECIFICATION Spec
CONSTANTS
  Conns = {c1, c2}
  None = None
  Requests <- LongerRequests
  MaxRequests = 2
  Buffer = 2
  MaxWrite = 2
  SendSpace = 1
  MaxFds = 2
  MaxStops = 1
  Readers = {c1, c2}
SYMMETRY Symmetry
INVARIANTS TypeOK NothingFreedInUse NoByteAstray NoAnswerAstray
PROPERTY IsExchange
CHECK_DEADLOCK FALSE
