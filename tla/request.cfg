SPECIFICATION Spec
CONSTANTS
  Int64 = 65536
  Int32 = 512
  Messages <- MessagesVal
  Pages <- PagesVal
  Sessions <- SessionsVal
  MaxAsked = 3
INVARIANTS CarriedOutWhole DispatchedRight OwnSession InStep
PROPERTY IsExchange
CHECK_DEADLOCK FALSE
