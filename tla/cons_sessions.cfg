\* Two sessions, two callers that may commit the same one or consolidate directly.
SPECIFICATION Spec
CONSTANTS
  m1 = m1  m2 = m2  m3 = m3  m4 = m4
  Msg = {m1, m3}
  Stored = {m1, m3}
  Segment <- MCSegment
  Group <- MCGroup
  GroupOf <- MCGroupOfChats
  ScopeOf <- MCScopeOf
  TierOf <- MCTierOf
  CreatedAt <- MCCreatedAt
  NostrMsg <- MCNostr
  Topic <- MCNoTopic
  Author = ""
  Worker = {w1, w2}
  Session = {s1, s2}
  Selection <- MCAll
  BatchSize = 2
  MinMessages = 1
  RelayOn = FALSE
  EmbedderOn = FALSE
  MaxVersion = 1
  MaxFault = 1
  MaxName = 0
  NoGroup = NoGroup
  NoSession = NoSession
INVARIANTS ConsolidatedWasTold
PROPERTIES KeepsLedger
CHECK_DEADLOCK FALSE
SYMMETRY MCSymmetry
