\* The daemon between editors and clients, killed once.
SPECIFICATION LiveSpec
CONSTANTS
  Segment <- MCSegment
  Proc = {"p1"}
  Name <- MCTwo
  Author = "k"
  ListLimit = 2
  Clean = TRUE
  MaxClock = 2
  MaxMove = 1
  MaxFault = 1
PROPERTIES RemoteReachesFile
CHECK_DEADLOCK FALSE
