SPECIFICATION FairSpec
CONSTANTS
  Conns = {c1, c2}
  None = None
  Requests <- AllRequests
  MaxRequests = 2
  Buffer = 2
  MaxWrite = 2
  SendSpace = 1
  MaxFds = 2
  MaxStops = 0
  Readers = {c1}
PROPERTY EventuallyAnswered
CHECK_DEADLOCK FALSE
