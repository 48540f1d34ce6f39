\* Two concurrent consolidate() calls over two chats, near-duplicates merged.
SPECIFICATION Spec
CONSTANTS
  m1 = m1  m2 = m2  m3 = m3  m4 = m4
  Msg = {m1, m2, m3, m4}
  Stored = {m1, m2, m3, m4}
  Segment <- MCSegment
  Group <- MCGroup
  GroupOf <- MCGroupOfChats
  ScopeOf <- MCScopeOf
  TierOf <- MCTierOf
  CreatedAt <- MCCreatedAt
  NostrMsg = {}
  Topic <- MCTopic
  Author = ""
  Worker = {w1, w2}
  Session = {}
  Selection <- MCAll
  BatchSize = 4
  MinMessages = 2
  RelayOn = TRUE
  EmbedderOn = TRUE
  MaxVersion = 1
  MaxFault = 1
  MaxName = 6
  NoGroup = NoGroup
  NoSession = NoSession
INVARIANTS TypeOK PublishedInScope RowsSurvive
CHECK_DEADLOCK FALSE
SYMMETRY MCSymmetry
