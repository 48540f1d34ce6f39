\* The CVM loop beside the stdio loop.
SPECIFICATION LiveSpec
CONSTANTS
  g1 = g1  n1 = n1  n2 = n2
  Group = {g1}
  Npub = {n1, n2}
  NoGroup = NoGroup
  Ping = Ping
  Client = {"k1", "k2", "k3"}
  Allowed <- MCAllowed
  MaxPerWindow = 2
  Window = 2
  WordSize = 16
  Input <- MCInput
  CvmInput <- MCCvmInput
  First <- MCFirst
  MaxLoad = 4
  MaxTime = 2
  MaxFault = 0
PROPERTY CvmCallEnds
CHECK_DEADLOCK FALSE
