\* One process that starts and stops, two memories.
SPECIFICATION Spec
CONSTANTS
  Segment <- MCSegment
  Proc = {"p1"}
  Name <- MCTwo
  Author = "k"
  ListLimit = 2
  Clean = FALSE
  MaxClock = 3
  MaxMove = 1
  MaxFault = 1
INVARIANTS TypeOK EntryWasStored
PROPERTIES PollKeepsEdits
CHECK_DEADLOCK FALSE
