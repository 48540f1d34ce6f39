\* Calls and connections come to an end.
SPECIFICATION LiveSpec
CONSTANTS
  Conn <- MCTwoConn
  Call <- MCThreeCalls
  MaxConnections = 1
  EventCap = 1
  Interest = {"memory.updated"}
  Client = {"k1"}
  MaxRetries = 1
  MaxFault = 1
PROPERTIES CallReturns GoneIsReleased
CHECK_DEADLOCK FALSE
