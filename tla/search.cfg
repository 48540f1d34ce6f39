\* Three messages, three memories in a namespace, one cluster run, one search.
SPECIFICATION LiveSpec
CONSTANTS
  GroupSource = {"nostr", "telegram"}
  TimeWindow = 2
  Message <- MCMessage
  PutName <- MCPutName
  Topic <- MCTopic
  Entity = {"bob"}
  Segment <- MCSegment
  Author = "me"
  Depth = 1
  MinMembers = 2
  ListLimit = 4
  Only <- MCOnly
  CutTier = {"public"}
  MaxLoad = 3
  MaxFault = 1
  AnyTier = AnyTier
  Limit = 2
INVARIANTS TypeOK  OfMemories AnswersOnce 
PROPERTY FullIsSummarised
CHECK_DEADLOCK FALSE
