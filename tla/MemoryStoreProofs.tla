-------------------------- MODULE MemoryStoreProofs --------------------------
(***************************************************************************)
(* What holds of MemoryStore for every set of names and topics, and every  *)
(* number of writes, calls in flight and faults.                           *)
(***************************************************************************)
EXTENDS MemoryStore, DTagProofs, TLAPS

(* Names built from a request are paths.                                   *)
LEMMA PutNameIsPath ==
  ASSUME NEW q \in Request
  PROVE  PutName(q) \in Path /\ q.topic \in Path
  BY RequestAssumption, BuildDtagFromTierIsPath DEF PutName

(* So is the name a deletion builds.                                       *)
LEMMA DeleteNameIsPath ==
  ASSUME NEW q \in Request
  PROVE  DeleteName(q) \in Path
<1>1. q.tier.base \in Segment /\ q.tier.id \in Segment /\ NoScope \in Segment
  BY RequestAssumption, SegmentAssumption DEF Tier, TierPrefix, UnscopedTier, ScopedTier
<1>2. q.topic \in Path /\ Author \in Segment
  BY RequestAssumption
<1> QED
  BY <1>1, <1>2, BuildDtagIsPath DEF DeleteName

(* Removing rows and adding one keeps the types of the tables.             *)
LEMMA RemovedTypes ==
  ASSUME TypeOK, NEW S, RemoveRows(S)
  PROVE  memory' \subseteq Row /\ edges' \subseteq Path \X Path
  BY DEF TypeOK, RemoveRows

(* A row of the right types added to the table.                            *)
LEMMA AddedTypes ==
  ASSUME TypeOK, NEW d \in Path, NEW t \in Path, NEW n \in Write,
         NEW s \in BOOLEAN, AddRow(d, t, n, s)
  PROVE  memory' \subseteq Row
<1>1. [dtag |-> d, topic |-> t, content |-> n, synced |-> s, used |-> FALSE] \in Row
  BY DEF Row
<1> QED
  BY <1>1 DEF TypeOK, AddRow

(* The sync holds an event whenever it is about to store one.              *)
HoldsEvent == syncStep \in {"drop", "create", "edges"} => cur \in Event

(* The initial values have their types.                                    *)
LEMMA InitialTypes == Init => TypeOK /\ HoldsEvent
  BY BoundAssumption DEF Init, TypeOK, HoldsEvent

(* memory.put keeps the types.                                             *)
LEMMA StoreTypes ==
  ASSUME TypeOK,
         \/ \E q \in Request : BeginStore(q)
         \/ \E c \in stores : StoreStep(c)
  PROVE  TypeOK'
<1>1. ASSUME NEW q \in Request, BeginStore(q) PROVE TypeOK'
  <2>1. issued + 1 \in Write /\ issued' \in 0 .. MaxWrite
    BY <1>1, BoundAssumption DEF BeginStore, TypeOK, Write
  <2> QED
    BY <1>1, <2>1, PutNameIsPath DEF BeginStore, TypeOK, syncVars
<1>2. ASSUME NEW c \in stores, StoreDrop(c) PROVE TypeOK'
  BY <1>2, RemovedTypes DEF StoreDrop, AdvanceStore, TypeOK, syncVars
<1>3. ASSUME NEW c \in stores, StoreCreate(c) PROVE TypeOK'
  BY <1>3, AddedTypes DEF StoreCreate, AdvanceStore, TypeOK, syncVars
<1>4. ASSUME NEW c \in stores, StoreRefused(c) PROVE TypeOK'
  BY <1>4 DEF StoreRefused, TypeOK, syncVars
<1>5. ASSUME NEW c \in stores, StorePublish(c) PROVE TypeOK'
  BY <1>5 DEF StorePublish, Replace, TypeOK, syncVars, Event
<1> QED
  BY <1>1, <1>2, <1>3, <1>4, <1>5 DEF StoreStep

(* memory.delete keeps the types.                                          *)
LEMMA DeleteTypes ==
  ASSUME TypeOK, DeleteRequest \/ \E c \in deletes : DeleteStep(c)
  PROVE  TypeOK'
<1>1. ASSUME NEW path \in Path, NEW id \in Write \cup {NoWrite},
             BeginDelete(path, id)
      PROVE  TypeOK'
  BY <1>1 DEF BeginDelete, TypeOK, syncVars
<1>2. CASE DeleteRequest
  <2>1. NoTopic \in Path /\ NoWrite \in Write \cup {NoWrite}
    BY DEF NoTopic, Path
  <2>2. \A n \in 1 .. issued : n \in Write
    BY BoundAssumption DEF TypeOK, Write
  <2>3. \A p \in Raw : p \in Path
    BY RequestAssumption
  <2> QED
    BY <1>1, <1>2, <2>1, <2>2, <2>3, PutNameIsPath, DeleteNameIsPath DEF DeleteRequest
<1>3. ASSUME NEW c \in deletes, DeleteFind(c) PROVE TypeOK'
  <2>1. \A r \in memory : EventOf(r) \in Write \cup {NoWrite}
    BY DEF TypeOK, Row, EventOf
  <2> QED
    BY <1>3, <2>1 DEF DeleteFind, LookedUp, AdvanceDelete, TypeOK, syncVars
<1>4. ASSUME NEW c \in deletes, DeleteRows(c) PROVE TypeOK'
  <2>1. {r.dtag : r \in Doomed(c)} \subseteq Path /\ {r.content : r \in Doomed(c)} \subseteq Write
    BY DEF Doomed, TypeOK, Row
  <2> QED
    BY <1>4, <2>1, RemovedTypes DEF DeleteRows, AdvanceDelete, TypeOK, syncVars
<1>5. ASSUME NEW c \in deletes, DeletePublish(c) PROVE TypeOK'
  BY <1>5 DEF DeletePublish, TypeOK, syncVars
<1> QED
  BY <1>2, <1>3, <1>4, <1>5 DEF DeleteStep

(* memory.sync keeps the types.                                            *)
LEMMA SyncTypes ==
  ASSUME TypeOK, HoldsEvent, SyncBegin \/ SyncStep
  PROVE  TypeOK'
<1>1. CASE SyncBegin
  BY <1>1 DEF SyncBegin, Fetched, TypeOK
<1>2. ASSUME NEW e \in batch, SyncSkip(e) PROVE TypeOK'
  BY <1>2 DEF SyncSkip, TypeOK
<1>3. ASSUME NEW e \in batch, SyncMissing(e) PROVE TypeOK'
  BY <1>3 DEF SyncMissing, TypeOK
<1>4. CASE SyncDrop
  BY <1>4, RemovedTypes DEF SyncDrop, TypeOK
<1>5. CASE SyncCreate
  <2>1. cur.dtag \in Path /\ cur.id \in Write /\ SyncedTopic(cur.dtag) \in Path
    BY <1>5 DEF SyncCreate, HoldsEvent, Event, SyncedTopic
  <2> QED
    BY <1>5, <2>1, AddedTypes DEF SyncCreate, TypeOK
<1>6. CASE SyncRefused
  BY <1>6 DEF SyncRefused, HoldsEvent, TypeOK
<1>7. CASE SyncEdges
  <2>1. edges' \subseteq Path \X Path
    BY <1>7, RequestAssumption DEF SyncEdges, TypeOK
  <2> QED
    BY <1>7, <2>1 DEF SyncEdges, HoldsEvent, TypeOK
<1>8. CASE SyncEnd
  BY <1>8 DEF SyncEnd, TypeOK
<1> QED
  BY <1>1, <1>2, <1>3, <1>4, <1>5, <1>6, <1>7, <1>8 DEF SyncStep

(* Pruning, searching, growing old, the other device and failures.         *)
Outside ==
  \/ PruneStep
  \/ \E r \in memory : Access(r)
  \/ \E n \in 1 .. issued : GrowOld(n)
  \/ \E d \in Remote : RemotePublish(d)
  \/ \E e \in relay : RemoteDelete(e)
  \/ Abort \/ SyncFails
  \/ \E lost \in BOOLEAN : Crash(lost)

(* Pruning, searches, the other device and failures keep the types.        *)
LEMMA OutsideTypes ==
  ASSUME TypeOK, Outside
  PROVE  TypeOK'
<1>1. CASE PruneSelect
  BY <1>1 DEF PruneSelect, TypeOK, Row, syncVars
<1>2. ASSUME NEW d \in prune, PruneDelete(d) PROVE TypeOK'
  BY <1>2, RemovedTypes DEF PruneDelete, TypeOK, syncVars
<1>3. ASSUME NEW r \in memory, Access(r) PROVE TypeOK'
  <2>1. [r EXCEPT !.used = TRUE] \in Row
    BY DEF TypeOK, Row
  <2> QED
    BY <1>3, <2>1 DEF Access, TypeOK, syncVars
<1>4. ASSUME NEW n \in 1 .. issued, GrowOld(n) PROVE TypeOK'
  BY <1>4, BoundAssumption DEF GrowOld, TypeOK, Write, syncVars
<1>5. ASSUME NEW d \in Remote, RemotePublish(d) PROVE TypeOK'
  <2>1. issued + 1 \in Write /\ issued' \in 0 .. MaxWrite /\ d \in Path
    BY <1>5, BoundAssumption, RequestAssumption DEF RemotePublish, TypeOK, Write
  <2> QED
    BY <1>5, <2>1 DEF RemotePublish, Replace, TypeOK, Event, syncVars
<1>6. ASSUME NEW e \in relay, RemoteDelete(e) PROVE TypeOK'
  BY <1>6 DEF RemoteDelete, TypeOK, syncVars
<1>7. CASE Abort
  BY <1>7, BoundAssumption DEF Abort, TypeOK, syncVars
<1>8. ASSUME NEW lost \in BOOLEAN, Crash(lost) PROVE TypeOK'
  BY <1>8, BoundAssumption DEF Crash, TypeOK
<1>9. CASE SyncFails
  BY <1>9, BoundAssumption DEF SyncFails, TypeOK
<1> QED
  BY <1>1, <1>2, <1>3, <1>4, <1>5, <1>6, <1>7, <1>8, <1>9 DEF Outside, PruneStep

(* Only the steps of the sync, and what ends it, touch what it holds.      *)
LEMMA HeldEvent ==
  ASSUME TypeOK, HoldsEvent, [Next]_vars
  PROVE  HoldsEvent'
<1>1. CASE UNCHANGED syncVars
  BY <1>1 DEF syncVars, HoldsEvent
<1>2. CASE SyncBegin
  BY <1>2 DEF SyncBegin, HoldsEvent
<1>3. CASE SyncStep
  <2>1. ASSUME NEW e \in batch, SyncMissing(e) PROVE HoldsEvent'
    BY <2>1 DEF SyncMissing, HoldsEvent, TypeOK
  <2> QED
    BY <1>3, <2>1 DEF SyncStep, SyncSkip, SyncDrop, SyncCreate, SyncRefused,
                      SyncEdges, SyncEnd, HoldsEvent
<1>4. ASSUME syncStep' = "idle" PROVE HoldsEvent'
  BY <1>4 DEF HoldsEvent
<1>5. CASE Abort
  BY <1>1, <1>4, <1>5 DEF Abort
<1>6. CASE SyncFails \/ \E lost \in BOOLEAN : Crash(lost)
  BY <1>4, <1>6 DEF SyncFails, Crash, HoldsEvent
<1>7. ASSUME \/ \E q \in Request : BeginStore(q)
             \/ \E c \in stores : StoreStep(c)
             \/ DeleteRequest
             \/ \E c \in deletes : DeleteStep(c)
             \/ PruneStep
             \/ \E r \in memory : Access(r)
             \/ \E n \in 1 .. issued : GrowOld(n)
             \/ \E d \in Remote : RemotePublish(d)
             \/ \E e \in relay : RemoteDelete(e)
             \/ UNCHANGED vars
      PROVE  UNCHANGED syncVars
  BY <1>7 DEF BeginStore, StoreStep, StoreDrop, StoreCreate, StoreRefused,
              StorePublish, DeleteRequest, BeginDelete, DeleteStep,
              DeleteFind, DeleteRows, DeletePublish, PruneStep, PruneSelect,
              PruneDelete, Access, GrowOld, RemotePublish, RemoteDelete, vars
<1> QED
  BY <1>1, <1>2, <1>3, <1>5, <1>6, <1>7 DEF Next

(* The tables, the relay and every call keep their types in all runs.      *)
THEOREM TypesHold == Spec => []TypeOK
<1>1. TypeOK /\ HoldsEvent /\ [Next]_vars => TypeOK' /\ HoldsEvent'
  <2> SUFFICES ASSUME TypeOK, HoldsEvent, [Next]_vars PROVE TypeOK'
    BY HeldEvent
  <2>1. CASE UNCHANGED vars
    BY <2>1 DEF vars, syncVars, TypeOK
  <2> QED
    BY <2>1, StoreTypes, DeleteTypes, SyncTypes, OutsideTypes DEF Next, Outside
<1> QED
  BY <1>1, InitialTypes, PTL DEF Spec
-----------------------------------------------------------------------------
(* What each step does to the table of memories.                           *)
LEMMA TableSteps ==
  ASSUME [Next]_vars
  PROVE  \/ memory' \subseteq memory
         \/ \E c \in stores : StoreCreate(c)
         \/ SyncCreate
         \/ \E r \in memory : Access(r)
<1>1. ASSUME \/ \E q \in Request : BeginStore(q)
             \/ \E c \in stores : StoreStep(c) /\ ~StoreCreate(c)
             \/ DeleteRequest
             \/ \E c \in deletes : DeleteStep(c)
      PROVE  memory' \subseteq memory
  BY <1>1 DEF BeginStore, StoreStep, StoreDrop, StoreRefused, StorePublish,
              DeleteRequest, BeginDelete, DeleteStep, DeleteFind, DeleteRows,
              DeletePublish, RemoveRows
<1>2. ASSUME SyncBegin \/ SyncStep, ~SyncCreate
      PROVE  memory' \subseteq memory
  BY <1>2 DEF SyncBegin, SyncStep, SyncSkip, SyncMissing, SyncDrop,
              SyncRefused, SyncEdges, SyncEnd, RemoveRows
<1>3. ASSUME \/ PruneStep
             \/ \E n \in 1 .. issued : GrowOld(n)
             \/ \E d \in Remote : RemotePublish(d)
             \/ \E e \in relay : RemoteDelete(e)
             \/ Abort \/ SyncFails
             \/ \E lost \in BOOLEAN : Crash(lost)
             \/ UNCHANGED vars
      PROVE  memory' \subseteq memory
  BY <1>3 DEF PruneStep, PruneSelect, PruneDelete, RemoveRows, GrowOld,
              RemotePublish, RemoteDelete, Abort, SyncFails, Crash, vars
<1> QED
  BY <1>1, <1>2, <1>3 DEF Next
-----------------------------------------------------------------------------
(* Why the sync misses no event: the relay has one event of a name, so     *)
(* storing or skipping one event says nothing about another one.           *)
Distinct(S)   == \A e, f \in S : e.dtag = f.dtag => e = f
Apart(S, d)   == \A e \in S : e.dtag # d
InHand        == syncStep \in {"drop", "create", "edges"}
Stored(d)     == HasRow(d) \/ d \in dropped

MissesNone ==
  /\ SyncedHasRow
  /\ Distinct(relay) /\ Distinct(batch)
  /\ \A f \in batch : Apart(through, f.dtag)
  /\ InHand => Apart(through \cup batch, cur.dtag)
  /\ syncStep = "edges" => Stored(cur.dtag)

(* The relay keeps one event of a name whatever is published or deleted.   *)
LEMMA RelayDistinct ==
  ASSUME TypeOK, Distinct(relay), [Next]_vars
  PROVE  Distinct(relay)'
<1>1. ASSUME relay' \subseteq relay PROVE Distinct(relay)'
  BY <1>1 DEF Distinct
<1>2. ASSUME NEW d, NEW n, Replace(d, n) PROVE Distinct(relay)'
  <2> DEFINE e0 == [dtag |-> d, id |-> n]
  <2>1. relay' = {e \in relay : e.dtag # d} \cup {e0} /\ e0.dtag = d
    BY <1>2 DEF Replace
  <2> HIDE DEF e0
  <2> QED
    BY <2>1 DEF Distinct
<1>3. ASSUME NEW c \in stores, StorePublish(c) PROVE Distinct(relay)'
  BY <1>1, <1>2, <1>3 DEF StorePublish
<1>4. ASSUME NEW d \in Remote, RemotePublish(d) PROVE Distinct(relay)'
  BY <1>2, <1>4 DEF RemotePublish
<1>5. ASSUME \/ \E q \in Request : BeginStore(q)
             \/ \E c \in stores : StoreStep(c) /\ ~StorePublish(c)
             \/ DeleteRequest
             \/ \E c \in deletes : DeleteStep(c)
      PROVE  relay' \subseteq relay
  BY <1>5 DEF BeginStore, StoreStep, StoreDrop, StoreCreate, StoreRefused,
              DeleteRequest, BeginDelete, DeleteStep, DeleteFind, DeleteRows,
              DeletePublish
<1>6. ASSUME \/ SyncBegin \/ SyncStep \/ PruneStep
             \/ \E r \in memory : Access(r)
             \/ \E n \in 1 .. issued : GrowOld(n)
             \/ \E e \in relay : RemoteDelete(e)
             \/ Abort \/ SyncFails
             \/ \E lost \in BOOLEAN : Crash(lost)
             \/ UNCHANGED vars
      PROVE  relay' \subseteq relay
  BY <1>6 DEF SyncBegin, SyncStep, SyncSkip, SyncMissing, SyncDrop,
              SyncCreate, SyncRefused, SyncEdges, SyncEnd, PruneStep,
              PruneSelect, PruneDelete, Access, GrowOld, RemoteDelete, Abort,
              SyncFails, Crash, vars
<1> QED
  BY <1>1, <1>3, <1>4, <1>5, <1>6 DEF Next

(* A name with a row keeps it or is dropped, in all steps but the sync's   *)
(* own and a crash.                                                        *)
OtherStep ==
  \/ \E q \in Request : BeginStore(q)
  \/ \E c \in stores : StoreStep(c)
  \/ DeleteRequest
  \/ \E c \in deletes : DeleteStep(c)
  \/ PruneStep
  \/ \E r \in memory : Access(r)
  \/ \E n \in 1 .. issued : GrowOld(n)
  \/ \E d \in Remote : RemotePublish(d)
  \/ \E e \in relay : RemoteDelete(e)
  \/ UNCHANGED vars

(* What others remove a row of, they record in dropped.                    *)
LEMMA OthersDrop ==
  ASSUME TypeOK, OtherStep, NEW d, Stored(d)
  PROVE  Stored(d)'
<1>1. ASSUME memory \subseteq memory', dropped' = dropped PROVE Stored(d)'
  BY <1>1 DEF Stored, HasRow
<1>2. ASSUME NEW c \in stores, StoreDrop(c) PROVE Stored(d)'
  BY <1>2 DEF StoreDrop, RemoveRows, Stored, HasRow
<1>3. ASSUME NEW c \in deletes, DeleteRows(c) PROVE Stored(d)'
  BY <1>3 DEF DeleteRows, RemoveRows, Stored, HasRow
<1>4. ASSUME NEW e \in prune, PruneDelete(e) PROVE Stored(d)'
  BY <1>4 DEF PruneDelete, RemoveRows, Stored, HasRow
<1>5. ASSUME NEW r \in memory, Access(r) PROVE Stored(d)'
  <2>1. [r EXCEPT !.used = TRUE].dtag = r.dtag
    BY DEF TypeOK, Row
  <2> QED
    BY <1>5, <2>1 DEF Access, Stored, HasRow
<1>6. ASSUME \/ \E q \in Request : BeginStore(q)
             \/ \E c \in stores : StoreStep(c) /\ ~StoreDrop(c)
             \/ DeleteRequest
             \/ \E c \in deletes : DeleteStep(c) /\ ~DeleteRows(c)
             \/ PruneSelect
             \/ \E n \in 1 .. issued : GrowOld(n)
             \/ \E e \in Remote : RemotePublish(e)
             \/ \E e \in relay : RemoteDelete(e)
             \/ UNCHANGED vars
      PROVE  memory \subseteq memory' /\ dropped' = dropped
  BY <1>6 DEF BeginStore, StoreStep, StoreCreate, StoreRefused, StorePublish,
              DeleteRequest, BeginDelete, DeleteStep, DeleteFind,
              DeletePublish, PruneSelect, GrowOld, RemotePublish,
              RemoteDelete, AddRow, vars
<1> QED
  BY <1>1, <1>2, <1>3, <1>4, <1>5, <1>6 DEF OtherStep, PruneStep, StoreStep, DeleteStep

(* Other calls do not touch what the sync holds.                           *)
LEMMA OthersLeaveSync ==
  ASSUME OtherStep
  PROVE  UNCHANGED syncVars
  BY DEF OtherStep, BeginStore, StoreStep, StoreDrop, StoreCreate,
         StoreRefused, StorePublish, DeleteRequest, BeginDelete, DeleteStep,
         DeleteFind, DeleteRows, DeletePublish, PruneStep, PruneSelect,
         PruneDelete, Access, GrowOld, RemotePublish, RemoteDelete, vars

(* Hence other calls make the sync miss nothing.                           *)
LEMMA OthersMissNone ==
  ASSUME TypeOK, MissesNone, OtherStep, Distinct(relay)'
  PROVE  MissesNone'
<1>1. UNCHANGED syncVars
  BY OthersLeaveSync
<1>2. SyncedHasRow'
  BY <1>1, OthersDrop DEF MissesNone, SyncedHasRow, Stored, syncVars
<1>3. (syncStep = "edges" => Stored(cur.dtag))'
  BY <1>1, OthersDrop DEF MissesNone, Stored, HasRow, syncVars
<1> QED
  BY <1>1, <1>2, <1>3 DEF MissesNone, Distinct, Apart, InHand, syncVars

(* The steps of the sync itself.                                           *)
LEMMA SyncMissesNone ==
  ASSUME TypeOK, MissesNone, SyncBegin \/ SyncStep, Distinct(relay)'
  PROVE  MissesNone'
<1>1. CASE SyncBegin
  BY <1>1 DEF SyncBegin, Fetched, MissesNone, SyncedHasRow, Distinct, Apart, InHand
<1>2. ASSUME NEW e \in batch, SyncSkip(e) PROVE MissesNone'
  <2>1. HasRow(e.dtag)
    BY <1>2 DEF SyncSkip, Existing, HasRow
  <2> QED
    BY <1>2, <2>1 DEF SyncSkip, MissesNone, SyncedHasRow, HasRow, Distinct, Apart, InHand
<1>3. ASSUME NEW e \in batch, SyncMissing(e) PROVE MissesNone'
  BY <1>3 DEF SyncMissing, MissesNone, SyncedHasRow, HasRow, Distinct, Apart, InHand
<1>4. CASE SyncDrop
  <2>1. \A e \in through : HasRow(e.dtag) => HasRow(e.dtag)'
    BY <1>4 DEF SyncDrop, RemoveRows, MissesNone, HasRow, Apart, InHand
  <2> QED
    BY <1>4, <2>1 DEF SyncDrop, MissesNone, SyncedHasRow, HasRow, Distinct, Apart, InHand
<1>5. CASE SyncCreate
  <2> DEFINE row == [dtag |-> cur.dtag, topic |-> SyncedTopic(cur.dtag),
                     content |-> cur.id, synced |-> TRUE, used |-> FALSE]
  <2>0. memory' = memory \cup {row} /\ row.dtag = cur.dtag /\ cur' = cur
    BY <1>5 DEF SyncCreate, AddRow
  <2> HIDE DEF row
  <2>1. HasRow(cur.dtag)' /\ \A d : HasRow(d) => HasRow(d)'
    BY <2>0 DEF HasRow
  <2> QED
    BY <1>5, <2>1 DEF SyncCreate, MissesNone, SyncedHasRow, HasRow, Stored,
                      Distinct, Apart, InHand
<1>6. CASE SyncRefused
  <2>1. HasRow(cur.dtag)
    BY <1>6 DEF SyncRefused, NameFree
  <2> QED
    BY <1>6, <2>1 DEF SyncRefused, MissesNone, SyncedHasRow, HasRow, Distinct, Apart, InHand
<1>7. CASE SyncEdges
  BY <1>7 DEF SyncEdges, MissesNone, SyncedHasRow, HasRow, Stored, Distinct, Apart, InHand
<1>8. CASE SyncEnd
  BY <1>8 DEF SyncEnd, MissesNone, SyncedHasRow, HasRow, Distinct, Apart, InHand
<1> QED
  BY <1>1, <1>2, <1>3, <1>4, <1>5, <1>6, <1>7, <1>8 DEF SyncStep

(* A sync cut off starts again from nothing; an event whose store failed   *)
(* it is not through with.                                                 *)
LEMMA FaultsMissNone ==
  ASSUME MissesNone, Distinct(relay)',
         Abort \/ SyncFails \/ \E lost \in BOOLEAN : Crash(lost)
  PROVE  MissesNone'
<1>1. CASE Abort
  BY <1>1 DEF Abort, MissesNone, SyncedHasRow, HasRow, Stored, Distinct, Apart, InHand, syncVars
<1>2. CASE \E lost \in BOOLEAN : Crash(lost)
  BY <1>2 DEF Crash, MissesNone, SyncedHasRow, Distinct, Apart, InHand
<1>3. CASE SyncFails
  BY <1>3 DEF SyncFails, MissesNone, SyncedHasRow, HasRow, Distinct, Apart, InHand
<1> QED
  BY <1>1, <1>2, <1>3

(* What the documents promise of recovery: an event the sync is through    *)
(* with has a row, whatever ran beside it, unless one was removed since.   *)
THEOREM SyncMissesNothing == Spec => []SyncedHasRow
<1>1. Init => MissesNone
  BY DEF Init, MissesNone, SyncedHasRow, Distinct, Apart, InHand
<1>2. TypeOK /\ MissesNone /\ [Next]_vars => MissesNone'
  <2> SUFFICES ASSUME TypeOK, MissesNone, [Next]_vars PROVE MissesNone'
    OBVIOUS
  <2>1. Distinct(relay)'
    BY RelayDistinct DEF MissesNone
  <2> QED
    BY <2>1, OthersMissNone, SyncMissesNone, FaultsMissNone DEF Next, OtherStep
<1>3. MissesNone => SyncedHasRow
  BY DEF MissesNone
<1> QED
  BY <1>1, <1>2, <1>3, TypesHold, PTL DEF Spec
-----------------------------------------------------------------------------
(* Why a deletion takes no event of another name off the relay: wherever   *)
(* an event or its number is, the number determines the name, and what a   *)
(* deletion found is the event of a row with that name.                    *)
Carried ==
  relay \cup batch
    \cup {e \in {cur} : InHand}
    \cup {[dtag |-> r.dtag, id |-> r.content] : r \in {q \in memory : q.synced}}
    \cup {[dtag |-> c.dtag, id |-> c.content] : c \in stores}

FoundByName(c) ==
  /\ c.found <= issued
  /\ \/ c.found \in {NoWrite, c.id}
     \/ \A e \in Carried : e.id = c.found => e.dtag = c.path

NamesKept ==
  /\ \A e, f \in Carried : e.id = f.id => e.dtag = f.dtag
  /\ \A e \in Carried : e.id <= issued
  /\ \A r \in memory : r.synced => r.topic = r.dtag
  /\ \A c \in deletes : FoundByName(c)
  /\ \A c \in deletes : c.id <= issued

(* A step carries on what was there, or a write with a new number.         *)
Fresh(d) == [dtag |-> d, id |-> issued + 1]

CarriesOn ==
  \/ Carried' \subseteq Carried /\ issued' = issued
  \/ issued' = issued + 1 /\ \E d : Carried' \subseteq Carried \cup {Fresh(d)}

(* A put carries a new write; its steps carry it on.                       *)
LEMMA StoreCarries ==
  ASSUME TypeOK, \/ \E q \in Request : BeginStore(q)
                 \/ \E c \in stores : StoreStep(c)
  PROVE  CarriesOn
<1>1. ASSUME NEW q \in Request, BeginStore(q) PROVE CarriesOn
  BY <1>1 DEF BeginStore, CarriesOn, Carried, Fresh, InHand, syncVars
<1>2. ASSUME NEW c \in stores, StoreDrop(c) PROVE CarriesOn
  BY <1>2 DEF StoreDrop, AdvanceStore, RemoveRows, CarriesOn, Carried, InHand, syncVars, TypeOK
<1>3. ASSUME NEW c \in stores, StoreCreate(c) PROVE CarriesOn
  BY <1>3 DEF StoreCreate, AdvanceStore, AddRow, CarriesOn, Carried, InHand, syncVars, TypeOK
<1>4. ASSUME NEW c \in stores, StoreRefused(c) PROVE CarriesOn
  BY <1>4 DEF StoreRefused, CarriesOn, Carried, InHand, syncVars
<1>5. ASSUME NEW c \in stores, StorePublish(c) PROVE CarriesOn
  BY <1>5 DEF StorePublish, Replace, CarriesOn, Carried, InHand, syncVars
<1> QED
  BY <1>1, <1>2, <1>3, <1>4, <1>5 DEF StoreStep

(* Deletions carry nothing new.                                            *)
LEMMA DeleteCarries ==
  ASSUME DeleteRequest \/ \E c \in deletes : DeleteStep(c)
  PROVE  CarriesOn
  BY DEF DeleteRequest, BeginDelete, DeleteStep, DeleteFind, DeleteRows,
         RemoveRows, DeletePublish, CarriesOn, Carried, InHand, syncVars

(* The sync takes over events of the relay, and makes rows of them.        *)
LEMMA SyncCarries ==
  ASSUME TypeOK, SyncBegin \/ SyncStep
  PROVE  CarriesOn
<1>1. CASE SyncBegin
  BY <1>1 DEF SyncBegin, Fetched, CarriesOn, Carried, InHand
<1>2. ASSUME NEW e \in batch, SyncSkip(e) PROVE CarriesOn
  BY <1>2 DEF SyncSkip, CarriesOn, Carried, InHand
<1>3. ASSUME NEW e \in batch, SyncMissing(e) PROVE CarriesOn
  BY <1>3 DEF SyncMissing, CarriesOn, Carried, InHand
<1>4. CASE SyncDrop
  BY <1>4 DEF SyncDrop, RemoveRows, CarriesOn, Carried, InHand
<1>5. CASE SyncCreate
  <2>1. [dtag |-> cur.dtag, id |-> cur.id] = cur
    BY DEF TypeOK, Event, NoEvent
  <2> QED
    BY <1>5, <2>1 DEF SyncCreate, AddRow, CarriesOn, Carried, InHand
<1>6. CASE SyncRefused
  BY <1>6 DEF SyncRefused, CarriesOn, Carried, InHand
<1>7. CASE SyncEdges
  BY <1>7 DEF SyncEdges, CarriesOn, Carried, InHand
<1>8. CASE SyncEnd
  BY <1>8 DEF SyncEnd, CarriesOn, Carried, InHand
<1> QED
  BY <1>1, <1>2, <1>3, <1>4, <1>5, <1>6, <1>7, <1>8 DEF SyncStep

(* Only the other device carries in something, with a new number.          *)
LEMMA OutsideCarries ==
  ASSUME TypeOK, Outside
  PROVE  CarriesOn
<1>1. CASE PruneStep
  BY <1>1 DEF PruneStep, PruneSelect, PruneDelete, RemoveRows, CarriesOn, Carried, InHand, syncVars
<1>2. ASSUME NEW r \in memory, Access(r) PROVE CarriesOn
  <2> DEFINE q == [r EXCEPT !.used = TRUE]
  <2>1. q.dtag = r.dtag /\ q.content = r.content /\ q.synced = r.synced
    BY DEF TypeOK, Row
  <2>2. memory' = (memory \ {r}) \cup {q}
    BY <1>2 DEF Access
  <2> HIDE DEF q
  <2> QED
    BY <1>2, <2>1, <2>2 DEF Access, CarriesOn, Carried, InHand, syncVars
<1>3. ASSUME NEW n \in 1 .. issued, GrowOld(n) PROVE CarriesOn
  BY <1>3 DEF GrowOld, CarriesOn, Carried, InHand, syncVars
<1>4. ASSUME NEW d \in Remote, RemotePublish(d) PROVE CarriesOn
  BY <1>4 DEF RemotePublish, Replace, CarriesOn, Carried, Fresh, InHand, syncVars
<1>5. ASSUME NEW e \in relay, RemoteDelete(e) PROVE CarriesOn
  BY <1>5 DEF RemoteDelete, CarriesOn, Carried, InHand, syncVars
<1>6. CASE Abort
  BY <1>6 DEF Abort, CarriesOn, Carried, InHand, syncVars
<1>7. ASSUME NEW lost \in BOOLEAN, Crash(lost) PROVE CarriesOn
  BY <1>7 DEF Crash, CarriesOn, Carried, InHand
<1>8. CASE SyncFails
  BY <1>8 DEF SyncFails, CarriesOn, Carried, InHand
<1> QED
  BY <1>1, <1>2, <1>3, <1>4, <1>5, <1>6, <1>7, <1>8 DEF Outside

(* So it is for every step.                                                *)
LEMMA StepCarries ==
  ASSUME TypeOK, [Next]_vars
  PROVE  CarriesOn
<1>1. CASE UNCHANGED vars
  BY <1>1 DEF vars, syncVars, CarriesOn, Carried, InHand
<1> QED
  BY <1>1, StoreCarries, DeleteCarries, SyncCarries, OutsideCarries DEF Next, Outside

(* A new number cannot be one already carried.                             *)
LEMMA NamesStayDetermined ==
  ASSUME TypeOK, NamesKept, CarriesOn
  PROVE  /\ \A e, f \in Carried' : e.id = f.id => e.dtag = f.dtag
         /\ \A e \in Carried' : e.id <= issued'
<1>1. issued \in Nat
  BY BoundAssumption DEF TypeOK
<1>2. \A d : Fresh(d).dtag = d /\ Fresh(d).id = issued + 1
  BY DEF Fresh
<1>3. \A e \in Carried : e.id \in Nat
  BY BoundAssumption DEF TypeOK, Carried, Event, Row, Write, NoEvent, NoWrite
<1>4. CASE Carried' \subseteq Carried /\ issued' = issued
  BY <1>4 DEF NamesKept
<1>5. ASSUME NEW d, Carried' \subseteq Carried \cup {Fresh(d)}, issued' = issued + 1
      PROVE  /\ \A e, f \in Carried' : e.id = f.id => e.dtag = f.dtag
             /\ \A e \in Carried' : e.id <= issued'
  <2>1. \A e \in Carried : e.id < issued + 1
    BY <1>1, <1>3 DEF NamesKept
  <2> QED
    BY <1>1, <1>2, <1>3, <1>5, <2>1 DEF NamesKept
<1> QED
  BY <1>4, <1>5 DEF CarriesOn

(* What a deletion found stays the event of its name.                      *)
LEMMA FoundStays ==
  ASSUME TypeOK, NamesKept, CarriesOn, NEW c \in deletes
  PROVE  FoundByName(c)' /\ c.id <= issued'
<1>1. issued \in Nat /\ c.found \in Nat /\ c.id \in Nat
  BY BoundAssumption DEF TypeOK, Write, NoWrite
<1>2. \A d : Fresh(d).id = issued + 1
  BY DEF Fresh
<1>3. c.found <= issued' /\ c.id <= issued'
  BY <1>1 DEF NamesKept, FoundByName, CarriesOn
<1>4. \A e \in Carried' : e.id = c.found => e \in Carried
  BY <1>1, <1>2 DEF NamesKept, FoundByName, CarriesOn
<1> QED
  BY <1>3, <1>4 DEF NamesKept, FoundByName

(* Deletions in flight are those of before, advanced, or new.              *)
LEMMA DeletionsStay ==
  ASSUME TypeOK, [Next]_vars
  PROVE  \/ deletes' \subseteq deletes
         \/ DeleteRequest
         \/ \E c \in deletes : DeleteFind(c) \/ DeleteRows(c)
<1>1. ASSUME \/ \E q \in Request : BeginStore(q)
             \/ \E c \in stores : StoreStep(c)
             \/ SyncBegin \/ SyncStep
             \/ Outside
             \/ \E c \in deletes : DeletePublish(c)
             \/ UNCHANGED vars
      PROVE  deletes' \subseteq deletes
  BY <1>1 DEF BeginStore, StoreStep, StoreDrop, StoreCreate, StoreRefused,
              StorePublish, SyncBegin, SyncStep, SyncSkip, SyncMissing,
              SyncDrop, SyncCreate, SyncRefused, SyncEdges, SyncEnd, Outside,
              PruneStep, PruneSelect, PruneDelete, Access, GrowOld,
              RemotePublish, RemoteDelete, Abort, SyncFails, Crash,
              DeletePublish, vars
<1> QED
  BY <1>1 DEF Next, Outside, DeleteStep

(* What deletions in flight have found, over every step.                   *)
LEMMA FoundKept ==
  ASSUME TypeOK, NamesKept, [Next]_vars
  PROVE  \A c \in deletes' : FoundByName(c)' /\ c.id <= issued'
<1>1. CarriesOn
  BY StepCarries
<1>2. CASE deletes' \subseteq deletes
  BY <1>1, <1>2, FoundStays
<1>3. issued \in Nat
  BY BoundAssumption DEF TypeOK
<1>4. ASSUME NEW path, NEW id \in Nat, id <= issued, BeginDelete(path, id)
      PROVE  \A c \in deletes' : FoundByName(c)' /\ c.id <= issued'
  <2>1. PICK step : deletes' = deletes \cup
          {[path |-> path, id |-> id, found |-> NoWrite, step |-> step]}
    BY <1>4 DEF BeginDelete
  <2>2. issued' = issued /\ NoWrite <= issued
    BY <1>3, <1>4 DEF BeginDelete, NoWrite
  <2>3. ASSUME NEW c \in deletes' \ deletes PROVE FoundByName(c)' /\ c.id <= issued'
    <3>1. c.found = NoWrite /\ c.id = id
      BY <2>1, <2>3
    <3> QED
      BY <1>4, <2>2, <3>1 DEF FoundByName
  <2> QED
    BY <1>1, <2>3, FoundStays
<1>5. CASE DeleteRequest
  BY <1>3, <1>4, <1>5 DEF DeleteRequest, NoWrite
<1>6. ASSUME NEW c \in deletes, DeleteFind(c)
      PROVE  \A a \in deletes' : FoundByName(a)' /\ a.id <= issued'
  <2>1. issued' = issued /\ Carried' = Carried
    BY <1>6 DEF DeleteFind, Carried, InHand, syncVars
  <2>2. ASSUME NEW step, NEW found, AdvanceDelete(c, step, found),
               \/ found = NoWrite
               \/ \E r \in LookedUp(c) : found = EventOf(r)
        PROVE  \A a \in deletes' : FoundByName(a)' /\ a.id <= issued'
    <3> DEFINE a0 == [c EXCEPT !.step = step, !.found = found]
    <3>1. a0.path = c.path /\ a0.id = c.id /\ a0.found = found
      BY DEF TypeOK
    <3>2. deletes' = (deletes \ {c}) \cup {a0}
      BY <2>2 DEF AdvanceDelete
    <3> HIDE DEF a0
    <3>3. CASE found = NoWrite
      <4>1. FoundByName(a0)'
        BY <1>3, <2>1, <3>1, <3>3 DEF FoundByName, NoWrite
      <4> QED
        BY <1>1, <2>1, <3>1, <3>2, <4>1, FoundStays
    <3>4. ASSUME NEW r \in LookedUp(c), r.synced, found = r.content
          PROVE  FoundByName(a0)'
      <4>1. [dtag |-> r.dtag, id |-> r.content] \in Carried
        BY <3>4 DEF LookedUp, Carried
      <4>2. r.dtag = c.path
        BY <3>4 DEF LookedUp, NamesKept
      <4>3. \A e \in Carried : e.id = r.content => e.dtag = c.path
        BY <4>1, <4>2 DEF NamesKept
      <4>4. r.content <= issued
        BY <4>1 DEF NamesKept
      <4> QED
        BY <2>1, <3>1, <3>4, <4>3, <4>4 DEF FoundByName
    <3>5. found = NoWrite \/ \E r \in LookedUp(c) : r.synced /\ found = r.content
      BY <2>2 DEF EventOf
    <3> QED
      BY <1>1, <2>1, <3>1, <3>2, <3>3, <3>4, <3>5, FoundStays
  <2> QED
    BY <1>6, <2>2 DEF DeleteFind
<1>7. ASSUME NEW c \in deletes, DeleteRows(c)
      PROVE  \A a \in deletes' : FoundByName(a)' /\ a.id <= issued'
  <2> DEFINE found == IF c.step = "id" THEN c.id ELSE c.found
             a0    == [c EXCEPT !.step = IF c.step = "dtag" THEN "topic" ELSE "nip09",
                                !.found = found]
  <2>1. a0.path = c.path /\ a0.id = c.id /\ a0.found = found
    BY DEF TypeOK
  <2>2. deletes' = (deletes \ {c}) \cup {a0} /\ issued' = issued
    BY <1>7 DEF DeleteRows, AdvanceDelete
  <2>3. FoundByName(c)' /\ c.id <= issued'
    BY <1>1, FoundStays
  <2>4. found \in {c.id, c.found}
    OBVIOUS
  <2> HIDE DEF a0, found
  <2>5. FoundByName(a0)' /\ a0.id <= issued'
    BY <2>1, <2>3, <2>4 DEF FoundByName
  <2> QED
    BY <1>1, <2>2, <2>5, FoundStays
<1> QED
  BY <1>2, <1>5, <1>6, <1>7, DeletionsStay

(* A row that came by sync has its whole name for a topic.                 *)
LEMMA SyncedTopicKept ==
  ASSUME TypeOK, NamesKept, [Next]_vars
  PROVE  \A r \in memory' : r.synced => r.topic = r.dtag
<1>1. CASE memory' \subseteq memory
  BY <1>1 DEF NamesKept
<1>2. ASSUME NEW c \in stores, StoreCreate(c)
      PROVE  \A r \in memory' : r.synced => r.topic = r.dtag
  BY <1>2 DEF StoreCreate, AddRow, NamesKept
<1>3. CASE SyncCreate
  BY <1>3 DEF SyncCreate, AddRow, SyncedTopic, NamesKept
<1>4. ASSUME NEW r \in memory, Access(r)
      PROVE  \A q \in memory' : q.synced => q.topic = q.dtag
  <2> DEFINE q0 == [r EXCEPT !.used = TRUE]
  <2>1. q0.dtag = r.dtag /\ q0.topic = r.topic /\ q0.synced = r.synced
    BY DEF TypeOK, Row
  <2>2. memory' = (memory \ {r}) \cup {q0}
    BY <1>4 DEF Access
  <2> HIDE DEF q0
  <2> QED
    BY <2>1, <2>2 DEF NamesKept
<1> QED
  BY <1>1, <1>2, <1>3, <1>4, TableSteps

(* The parts together.                                                     *)
LEMMA NamesStayKept ==
  ASSUME TypeOK, NamesKept, [Next]_vars
  PROVE  NamesKept'
  BY StepCarries, NamesStayDetermined, FoundKept, SyncedTopicKept DEF NamesKept

(* Whatever a row of the same topic or a stale lookup may say, the event   *)
(* memory.delete takes off the relay has the name, or the id, it was       *)
(* called with.                                                            *)
THEOREM DeletionNamesItsEvent == Spec => NamedDeletion
<1> DEFINE Named ==
      \A e \in relay \ relay' :
        \/ \E f \in relay' : f.dtag = e.dtag
        \/ RemoteDelete(e)
        \/ \E c \in deletes : c \notin deletes' /\ (c.path = e.dtag \/ c.id = e.id)
<1>1. Init => NamesKept
  BY DEF Init, NamesKept, Carried, InHand
<1>2. TypeOK /\ NamesKept /\ [Next]_vars => NamesKept'
  BY NamesStayKept
<1>3. TypeOK /\ NamesKept /\ [Next]_vars => [Named]_vars
  <2> SUFFICES ASSUME TypeOK, NamesKept, [Next]_vars, NEW e \in relay \ relay'
               PROVE  \/ \E f \in relay' : f.dtag = e.dtag
                      \/ RemoteDelete(e)
                      \/ \E c \in deletes : c \notin deletes' /\ (c.path = e.dtag \/ c.id = e.id)
    OBVIOUS
  <2>1. ASSUME NEW d, NEW n, Replace(d, n) PROVE \E f \in relay' : f.dtag = e.dtag
    <3>1. e.dtag = d /\ [dtag |-> d, id |-> n] \in relay'
      BY <2>1 DEF Replace
    <3> QED
      BY <3>1
  <2>2. ASSUME NEW c \in stores, StorePublish(c) PROVE \E f \in relay' : f.dtag = e.dtag
    BY <2>1, <2>2 DEF StorePublish
  <2>3. ASSUME NEW d \in Remote, RemotePublish(d) PROVE \E f \in relay' : f.dtag = e.dtag
    BY <2>1, <2>3 DEF RemotePublish
  <2>4. ASSUME NEW x \in relay, RemoteDelete(x) PROVE RemoteDelete(e)
    <3>1. x = e
      BY <2>4 DEF RemoteDelete
    <3> QED
      BY <2>4, <3>1
  <2>5. ASSUME NEW c \in deletes, DeletePublish(c)
        PROVE  c \notin deletes' /\ (c.path = e.dtag \/ c.id = e.id)
    <3>1. e.id = c.found /\ c \notin deletes'
      BY <2>5 DEF DeletePublish
    <3>2. e.id # NoWrite /\ e \in Carried
      BY BoundAssumption DEF TypeOK, Event, Write, NoWrite, Carried
    <3> QED
      BY <3>1, <3>2 DEF NamesKept, FoundByName
  <2>6. ASSUME \/ \E q \in Request : BeginStore(q)
               \/ \E c \in stores : StoreStep(c) /\ ~StorePublish(c)
               \/ DeleteRequest
               \/ \E c \in deletes : DeleteStep(c) /\ ~DeletePublish(c)
        PROVE  relay' = relay
    BY <2>6 DEF BeginStore, StoreStep, StoreDrop, StoreCreate, StoreRefused,
                DeleteRequest, BeginDelete, DeleteStep, DeleteFind, DeleteRows
  <2>7. ASSUME \/ SyncBegin \/ SyncStep \/ PruneStep
               \/ \E r \in memory : Access(r)
               \/ \E n \in 1 .. issued : GrowOld(n)
               \/ Abort \/ SyncFails
               \/ \E lost \in BOOLEAN : Crash(lost)
               \/ UNCHANGED vars
        PROVE  relay' = relay
    BY <2>7 DEF SyncBegin, SyncStep, SyncSkip, SyncMissing, SyncDrop,
                SyncCreate, SyncRefused, SyncEdges, SyncEnd, PruneStep,
                PruneSelect, PruneDelete, Access, GrowOld, Abort,
                SyncFails, Crash, vars
  <2> QED
    BY <2>2, <2>3, <2>4, <2>5, <2>6, <2>7 DEF Next
<1> QED
  BY <1>1, <1>2, <1>3, TypesHold, PTL DEF Spec, NamedDeletion
-----------------------------------------------------------------------------
(* MemoryStore implements MemoryVersions: what its state shows and has     *)
(* afoot, as INSTANCE maps it.                                             *)
Shown == {[dtag |-> r.dtag, id |-> r.content] : r \in memory}

Afoot == relay \cup batch \cup ({cur} \ {NoEvent})
           \cup {[dtag |-> c.dtag, id |-> c.content] : c \in stores}

(* A step that numbers no write and adds nothing only loses versions.      *)
LEMMA LoseIs ==
  ASSUME issued' = issued, Shown' \subseteq Shown, Afoot' \subseteq Afoot
  PROVE  Versions!Next
  BY DEF Shown, Afoot, Versions!Next, Versions!Lose

(* A row created where its name is free shows what is afoot.               *)
LEMMA ShowIs ==
  ASSUME NEW v \in Afoot, \A r \in memory : r.dtag # v.dtag,
         Shown' = Shown \cup {v}, Afoot' = Afoot, issued' = issued
  PROVE  Versions!Next
<1>1. \A w \in Shown : w.dtag # v.dtag
  BY DEF Shown
<1> QED
  BY <1>1 DEF Shown, Afoot, Versions!Next, Versions!Show

(* A write with a new number is afoot under its name.                      *)
LEMMA WriteIs ==
  ASSUME NEW d \in Names, issued' = issued + 1, Shown' = Shown,
         Fresh(d) \in Afoot', Afoot' \subseteq Afoot \cup {Fresh(d)}
  PROVE  Versions!Next
  BY DEF Shown, Afoot, Fresh, Versions!Next, Versions!Write

(* Rows that go show less.                                                 *)
LEMMA FewerShown ==
  ASSUME memory' \subseteq memory
  PROVE  Shown' \subseteq Shown
  BY DEF Shown

(* A new row shows its name and content.                                   *)
LEMMA MoreShown ==
  ASSUME NEW d, NEW t, NEW n, NEW s, AddRow(d, t, n, s)
  PROVE  Shown' = Shown \cup {[dtag |-> d, id |-> n]}
<1> DEFINE row == [dtag |-> d, topic |-> t, content |-> n, synced |-> s,
                   used |-> FALSE]
<1>1. memory' = memory \cup {row} /\ row.dtag = d /\ row.content = n
  BY DEF AddRow
<1> HIDE DEF row
<1> QED
  BY <1>1 DEF Shown

(* memory.put writes, loses, shows; its event replaces others on the relay.*)
LEMMA StoreKeepsVersions ==
  ASSUME TypeOK, \/ \E q \in Request : BeginStore(q)
                 \/ \E c \in stores : StoreStep(c)
  PROVE  Versions!Next
<1>1. ASSUME NEW q \in Request, BeginStore(q) PROVE Versions!Next
  <2>1. PutName(q) \in Names
    BY DEF Names
  <2>2. Shown' = Shown /\ issued' = issued + 1
    BY <1>1 DEF BeginStore, Shown
  <2> DEFINE call == [dtag |-> PutName(q), topic |-> q.topic,
                      content |-> issued + 1, step |-> "drop"]
             v    == Fresh(PutName(q))
  <2>3. /\ stores' = stores \cup {call}
        /\ v = [dtag |-> call.dtag, id |-> call.content]
    BY <1>1 DEF BeginStore, Fresh
  <2>4. relay' = relay /\ batch' = batch /\ cur' = cur
    BY <1>1 DEF BeginStore, syncVars
  <2> HIDE DEF call, v
  <2>5. v \in Afoot' /\ Afoot' \subseteq Afoot \cup {v}
    BY <2>3, <2>4 DEF Afoot
  <2> QED
    BY <2>1, <2>2, <2>5, WriteIs DEF v
<1>2. ASSUME NEW c \in stores, StoreDrop(c) PROVE Versions!Next
  <2>1. Shown' \subseteq Shown /\ issued' = issued
    BY <1>2, FewerShown DEF StoreDrop, RemoveRows
  <2>2. Afoot' \subseteq Afoot
    BY <1>2 DEF StoreDrop, AdvanceStore, Afoot, syncVars, TypeOK
  <2> QED
    BY <2>1, <2>2, LoseIs
<1>3. ASSUME NEW c \in stores, StoreCreate(c) PROVE Versions!Next
  <2> DEFINE v == [dtag |-> c.dtag, id |-> c.content]
  <2>1. v \in Afoot /\ \A r \in memory : r.dtag # v.dtag
    BY <1>3 DEF StoreCreate, NameFree, HasRow, Afoot
  <2>2. Shown' = Shown \cup {v} /\ issued' = issued
    BY <1>3, MoreShown DEF StoreCreate
  <2> DEFINE next == [c EXCEPT !.step = "publish"]
  <2>3. /\ stores' = (stores \ {c}) \cup {next}
        /\ next.dtag = c.dtag /\ next.content = c.content
    BY <1>3 DEF StoreCreate, AdvanceStore, TypeOK
  <2> HIDE DEF next
  <2>4. Afoot' = Afoot
    BY <1>3, <2>3 DEF StoreCreate, Afoot, syncVars
  <2> HIDE DEF v
  <2> QED
    BY <2>1, <2>2, <2>4, ShowIs
<1>4. ASSUME NEW c \in stores, StoreRefused(c) PROVE Versions!Next
  BY <1>4, LoseIs DEF StoreRefused, Shown, Afoot, syncVars
<1>5. ASSUME NEW c \in stores, StorePublish(c) PROVE Versions!Next
  <2>1. Shown' = Shown /\ issued' = issued
    BY <1>5 DEF StorePublish, Shown
  <2>2. Afoot' \subseteq Afoot
    BY <1>5 DEF StorePublish, Replace, Afoot, syncVars
  <2> QED
    BY <2>1, <2>2, LoseIs
<1> QED
  BY <1>1, <1>2, <1>3, <1>4, <1>5 DEF StoreStep

(* memory.delete only loses versions.                                      *)
LEMMA DeleteKeepsVersions ==
  ASSUME DeleteRequest \/ \E c \in deletes : DeleteStep(c)
  PROVE  Versions!Next
<1>1. memory' \subseteq memory /\ issued' = issued
  BY DEF DeleteRequest, BeginDelete, DeleteStep, DeleteFind, DeleteRows,
         RemoveRows, DeletePublish
<1>2. Afoot' \subseteq Afoot
  BY DEF DeleteRequest, BeginDelete, DeleteStep, DeleteFind, DeleteRows,
         DeletePublish, Afoot, syncVars
<1> QED
  BY <1>1, <1>2, FewerShown, LoseIs

(* memory.sync shows what it holds where the name is still free.           *)
LEMMA SyncKeepsVersions ==
  ASSUME TypeOK, HoldsEvent, SyncBegin \/ SyncStep
  PROVE  Versions!Next
<1>1. CASE SyncBegin
  BY <1>1, LoseIs DEF SyncBegin, Fetched, Shown, Afoot
<1>2. ASSUME NEW e \in batch, SyncSkip(e) PROVE Versions!Next
  BY <1>2, LoseIs DEF SyncSkip, Shown, Afoot
<1>3. ASSUME NEW e \in batch, SyncMissing(e) PROVE Versions!Next
  BY <1>3, LoseIs DEF SyncMissing, Shown, Afoot
<1>4. CASE SyncDrop
  <2>1. memory' \subseteq memory /\ issued' = issued /\ Afoot' = Afoot
    BY <1>4 DEF SyncDrop, RemoveRows, Afoot
  <2> QED
    BY <2>1, FewerShown, LoseIs
<1>5. CASE SyncCreate
  <2>1. cur \in Event /\ cur # NoEvent
    BY <1>5, BoundAssumption DEF SyncCreate, HoldsEvent, Event, NoEvent, Write, NoWrite
  <2>2. [dtag |-> cur.dtag, id |-> cur.id] = cur
    BY <2>1 DEF Event
  <2>3. cur \in Afoot /\ \A r \in memory : r.dtag # cur.dtag
    BY <1>5, <2>1 DEF SyncCreate, NameFree, HasRow, Afoot
  <2>4. Shown' = Shown \cup {cur}
    BY <1>5, <2>2, MoreShown DEF SyncCreate
  <2>5. Afoot' = Afoot /\ issued' = issued
    BY <1>5 DEF SyncCreate, Afoot
  <2> QED
    BY <2>3, <2>4, <2>5, ShowIs
<1>6. CASE SyncRefused
  BY <1>6, LoseIs DEF SyncRefused, Shown, Afoot
<1>7. CASE SyncEdges
  BY <1>7, LoseIs DEF SyncEdges, Shown, Afoot
<1>8. CASE SyncEnd
  BY <1>8, LoseIs DEF SyncEnd, Shown, Afoot
<1> QED
  BY <1>1, <1>2, <1>3, <1>4, <1>5, <1>6, <1>7, <1>8 DEF SyncStep

(* Pruning and failures lose versions, the other device writes them.       *)
LEMMA OutsideKeepsVersions ==
  ASSUME TypeOK, Outside
  PROVE  Versions!Next
<1>1. CASE PruneStep
  <2>1. memory' \subseteq memory /\ issued' = issued /\ Afoot' = Afoot
    BY <1>1 DEF PruneStep, PruneSelect, PruneDelete, RemoveRows, Afoot, syncVars
  <2> QED
    BY <2>1, FewerShown, LoseIs
<1>2. ASSUME NEW r \in memory, Access(r) PROVE Versions!Next
  <2> DEFINE q == [r EXCEPT !.used = TRUE]
  <2>1. q.dtag = r.dtag /\ q.content = r.content
    BY DEF TypeOK, Row
  <2>2. memory' = (memory \ {r}) \cup {q}
    BY <1>2 DEF Access
  <2> HIDE DEF q
  <2>3. Shown' = Shown
    BY <2>1, <2>2 DEF Shown
  <2>4. Afoot' = Afoot /\ issued' = issued
    BY <1>2 DEF Access, Afoot, syncVars
  <2> QED
    BY <2>3, <2>4, LoseIs
<1>3. ASSUME NEW n \in 1 .. issued, GrowOld(n) PROVE Versions!Next
  BY <1>3, LoseIs DEF GrowOld, Shown, Afoot, syncVars
<1>4. ASSUME NEW d \in Remote, RemotePublish(d) PROVE Versions!Next
  <2>1. d \in Names
    BY DEF Names
  <2>2. Shown' = Shown /\ issued' = issued + 1
    BY <1>4 DEF RemotePublish, Shown
  <2>3. Fresh(d) \in Afoot' /\ Afoot' \subseteq Afoot \cup {Fresh(d)}
    BY <1>4 DEF RemotePublish, Replace, Afoot, Fresh, syncVars
  <2> QED
    BY <2>1, <2>2, <2>3, WriteIs
<1>5. ASSUME NEW e \in relay, RemoteDelete(e) PROVE Versions!Next
  BY <1>5, LoseIs DEF RemoteDelete, Shown, Afoot, syncVars
<1>6. CASE Abort
  <2>1. Shown' = Shown /\ issued' = issued
    BY <1>6 DEF Abort, Shown
  <2>2. Afoot' \subseteq Afoot
    BY <1>6 DEF Abort, Afoot, syncVars
  <2> QED
    BY <2>1, <2>2, LoseIs
<1>7. ASSUME NEW lost \in BOOLEAN, Crash(lost) PROVE Versions!Next
  <2>1. memory' \subseteq memory /\ issued' = issued
    BY <1>7 DEF Crash
  <2>2. Afoot' \subseteq Afoot
    BY <1>7 DEF Crash, Afoot
  <2> QED
    BY <2>1, <2>2, FewerShown, LoseIs
<1>8. CASE SyncFails
  BY <1>8, LoseIs DEF SyncFails, Shown, Afoot
<1> QED
  BY <1>1, <1>2, <1>3, <1>4, <1>5, <1>6, <1>7, <1>8 DEF Outside

(* For any number of puts, deletions, syncs, prunes and faults, readers    *)
(* find a version under the name it was written under only, one of each    *)
(* name, and none that was lost by every call, batch and relay.            *)
THEOREM ImplementsVersions == Spec => KeepsVersions
<1>1. Init => Versions!Init
  BY DEF Init, Versions!Init
<1>2. TypeOK /\ HoldsEvent /\ [Next]_vars => [Versions!Next]_(Versions!vars)
  <2> SUFFICES ASSUME TypeOK, HoldsEvent, [Next]_vars
               PROVE  Versions!Next \/ UNCHANGED (Versions!vars)
    OBVIOUS
  <2>1. CASE UNCHANGED vars
    BY <2>1 DEF vars, syncVars, Versions!vars
  <2> QED
    BY <2>1, StoreKeepsVersions, DeleteKeepsVersions, SyncKeepsVersions,
       OutsideKeepsVersions DEF Next, Outside
<1>3. HoldsEvent /\ TypeOK /\ [Next]_vars => HoldsEvent'
  BY HeldEvent
<1> QED
  BY <1>1, <1>2, <1>3, TypesHold, InitialTypes, PTL DEF Spec, KeepsVersions, Versions!Spec
=============================================================================
