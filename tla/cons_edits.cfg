\* One caller against clients storing messages again, sync and pruning.
SPECIFICATION LiveSpec
CONSTANTS
  m1 = m1  m2 = m2  m3 = m3  m4 = m4
  Msg = {m1, m2}
  Stored = {m2}
  Segment <- MCSegment
  Group <- MCGroup
  GroupOf <- MCGroupOfChats
  ScopeOf <- MCScopeOf
  TierOf <- MCTierOf
  CreatedAt <- MCCreatedAt
  NostrMsg <- MCNostr
  Topic <- MCNoTopic
  Author = ""
  Worker = {w1}
  Session = {}
  Selection <- MCAll
  BatchSize = 2
  MinMessages = 2
  RelayOn = TRUE
  EmbedderOn = FALSE
  MaxVersion = 2
  MaxFault = 2
  MaxName = 0
  NoGroup = NoGroup
  NoSession = NoSession
INVARIANTS NothingLost
PROPERTIES FlagKept KeepsLedger FullGroupsDrain
CHECK_DEADLOCK FALSE
