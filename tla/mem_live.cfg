\* Puts, deletions and prunes beside repeated syncs.
SPECIFICATION LiveSpec
CONSTANTS
  Segment <- MCSegment
  Request <- MCPublic
  Raw <- MCNone
  Remote <- MCNone
  Refs <- MCNone
  Author = "k"
  MaxWrite = 2
  MaxCall = 1
  MaxFault = 1
PROPERTIES RelayReachesTable
CHECK_DEADLOCK FALSE
