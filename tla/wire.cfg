\* One client that reconnects to a server of one slot.
SPECIFICATION Spec
CONSTANTS
  Conn <- MCTwoConn
  Call <- MCCall
  MaxConnections = 1
  EventCap = 1
  Interest = {"memory.updated"}
  Client = {"k1"}
  MaxRetries = 1
  MaxFault = 1
INVARIANTS TypeOK SlotsBalance PutAnsweredOkWasDone NoSilentGap
PROPERTIES KeepsCalls
CHECK_DEADLOCK FALSE
