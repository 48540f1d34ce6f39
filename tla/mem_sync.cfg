\* Two names of one topic, stores and deletions beside a sync.
SPECIFICATION Spec
CONSTANTS
  Segment <- MCSegment
  Request <- MCPublic
  Raw <- MCRawTopic
  Remote <- MCRemote
  Refs <- MCNone
  Author = "k"
  MaxWrite = 2
  MaxCall = 1
  MaxFault = 1
INVARIANTS TypeOK SyncedHasRow
PROPERTIES NamedDeletion KeepsVersions
CHECK_DEADLOCK FALSE
