------------------------- MODULE ConsolidationProofs -------------------------
(***************************************************************************)
(* What holds of Consolidation for every set of messages, groups, callers  *)
(* and sessions, every batch size and every number of faults.              *)
(***************************************************************************)
EXTENDS Consolidation, DTagProofs, FiniteSetTheorems, TLAPS

(* The names a memory is looked up by and stored under are paths.          *)
LEMMA NamesArePaths ==
  ASSUME NEW g \in Group, NEW t \in Path
  PROVE  LookupName(g, t) \in Path /\ StoreName(g, t) \in Path
  BY MessageAssumption, NameAssumption, SegmentAssumption, BuildDtagFromTierIsPath
     DEF LookupName, StoreName

(* The versions a batch snapshot records are versions of rows.             *)
LEMMA SnapshotIsBatch ==
  ASSUME TypeOK, NEW B
  PROVE  Snapshot(B) \in Batch
<1>1. 0 \in Version /\ 1 \in Version
  BY ConfigAssumption DEF Version
<1>2. \A m \in Msg : row[m].version \in Version
  BY DEF TypeOK
<1> QED
  BY <1>1, <1>2 DEF Snapshot, Batch

(* The initial values have their types.                                    *)
LEMMA InitialTypes == Init => TypeOK
<1> SUFFICES ASSUME Init PROVE TypeOK
  OBVIOUS
<1>1. 0 \in Version /\ 1 \in Version /\ 0 \in 0 .. MaxFault
  BY ConfigAssumption DEF Version
<1>2. <<>> \in Path /\ NoBatch \in Batch
  BY <1>1 DEF Path, NoBatch, Batch
<1>3. row \in [Msg -> [present : BOOLEAN, version : Version,
                      consolidated : BOOLEAN]]
  BY <1>1 DEF Init, NoRow
<1>4. /\ memory = {} /\ relayMem = {} /\ named = {} /\ cut = {} /\ overdue = {}
      /\ upserts = {} /\ nip09 = {} /\ told = {} /\ entered \subseteq Msg
      /\ faults \in 0 .. MaxFault
  BY <1>1, MessageAssumption DEF Init
<1>5. session \in [Session -> [status : {"none", "pending", "expired", "committed"},
                              batch : Batch]]
  BY <1>2 DEF Init
<1>6. relayMsg \in [Msg -> Version] /\ issued \in [Msg -> Version]
  BY <1>1 DEF Init
<1>7. /\ pc \in [Worker -> PC]
      /\ job \in [Worker -> Session \cup {NoSession}]
      /\ seen \in [Worker -> Batch]
      /\ todo \in [Worker -> SUBSET Group]
      /\ cur \in [Worker -> Group \cup {NoGroup}]
      /\ mems \in [Worker -> SUBSET Topic]
      /\ consumed \in [Worker -> SUBSET Msg]
  BY <1>2 DEF Init, PC
<1>8. put \in [Worker -> [dtag : Path, from : SUBSET Msg, near : BOOLEAN]]
  BY <1>2 DEF Init, NoPut
<1> QED
  BY <1>3, <1>4, <1>5, <1>6, <1>7, <1>8 DEF TypeOK

(* An update leaves rows.                                                  *)
LEMMA UpdateKeepsRows ==
  ASSUME TypeOK, NEW u \in upserts, UpsertUpdate(u)
  PROVE  row' \in [Msg -> [present : BOOLEAN, version : Version,
                           consolidated : BOOLEAN]]
<1>1. u.msg \in Msg /\ u.version \in Version
  BY DEF TypeOK, Upsert
<1>2. PICK r \in [present : BOOLEAN, version : Version, consolidated : BOOLEAN] :
        r = row[u.msg]
  BY <1>1 DEF TypeOK
<1>3. UpdatedRow(r, u.version) \in
        [present : BOOLEAN, version : Version, consolidated : BOOLEAN]
  BY <1>1 DEF UpdatedRow
<1>4. row' = row \/ row' = [row EXCEPT ![u.msg] = UpdatedRow(row[u.msg], u.version)]
  BY DEF UpsertUpdate
<1> QED
  BY <1>2, <1>3, <1>4 DEF TypeOK

(* Storing, syncing and pruning messages keeps the types.                  *)
LEMMA MessageTypes == TypeOK /\ MessageNext => TypeOK'
<1> SUFFICES ASSUME TypeOK, MessageNext PROVE TypeOK'
  OBVIOUS
<1> USE ConfigAssumption DEF TypeOK, memVars, sessVars, workVars, Version
<1>1. ASSUME NEW m \in Msg, Submit(m) PROVE TypeOK'
  BY <1>1 DEF Submit, Upsert
<1>2. CASE SyncMessages
  BY <1>2 DEF SyncMessages, Upsert
<1>3. ASSUME NEW u \in upserts, UpsertSelect(u) PROVE TypeOK'
  <2>1. upserts' \subseteq Upsert
    BY <1>3 DEF UpsertSelect, Upsert
  <2> QED
    BY <1>3, <2>1 DEF UpsertSelect
<1>4. ASSUME NEW u \in upserts, UpsertUpdate(u) PROVE TypeOK'
  <2>1. row' \in [Msg -> [present : BOOLEAN, version : Version,
                         consolidated : BOOLEAN]]
    BY <1>4, UpdateKeepsRows DEF Version
  <2> QED
    BY <1>4, <2>1 DEF UpsertUpdate
<1>5. ASSUME NEW u \in upserts, UpsertCreate(u) PROVE TypeOK'
  BY <1>5 DEF UpsertCreate, Upsert
<1>6. ASSUME NEW selected \in Selection, PruneMessages(selected) PROVE TypeOK'
  BY <1>6 DEF PruneMessages, NoRow
<1> QED
  BY <1>1, <1>2, <1>3, <1>4, <1>5, <1>6 DEF MessageNext

(* Preparing sessions keeps the types.                                     *)
LEMMA SessionTypes == TypeOK /\ SessionNext => TypeOK'
<1> SUFFICES ASSUME TypeOK, SessionNext PROVE TypeOK'
  OBVIOUS
<1> USE DEF msgVars, memVars, workVars
<1>1. CASE PrepareCleanup
  <2>1. \A s \in Session : [session[s] EXCEPT !.status = "expired"] \in
          [status : {"none", "pending", "committed", "expired"}, batch : Batch]
    BY DEF TypeOK
  <2>2. session' \in [Session ->
          [status : {"none", "pending", "committed", "expired"}, batch : Batch]]
    BY <1>1, <2>1 DEF PrepareCleanup, TypeOK
  <2> QED
    BY <1>1, <2>2 DEF PrepareCleanup, TypeOK
<1>2. ASSUME NEW s \in Session, SessionOverdue(s) PROVE TypeOK'
  BY <1>2 DEF SessionOverdue, TypeOK
<1>3. ASSUME NEW s \in Session, NEW selected \in Selection, Prepare(s, selected)
      PROVE  TypeOK'
  <2>1. PICK B \in Batches(selected) :
          session' = [session EXCEPT ![s] =
            [status |-> "pending",
             batch  |-> Snapshot({m \in B : GroupOf[m] \in FullGroups(Snapshot(B))})]]
    BY <1>3 DEF Prepare
  <2>2. PICK b \in Batch : session' = [session EXCEPT ![s] =
                                         [status |-> "pending", batch |-> b]]
    BY <2>1, SnapshotIsBatch
  <2> QED
    BY <1>3, <2>2 DEF Prepare, TypeOK
<1> QED
  BY <1>1, <1>2, <1>3 DEF SessionNext

(* The end of a call keeps the types of what calls keep.                   *)
LEMMA FinishTypes ==
  ASSUME TypeOK, NEW w \in Worker, Finish(w)
  PROVE  /\ pc' \in [Worker -> PC]
         /\ job' \in [Worker -> Session \cup {NoSession}]
         /\ seen' \in [Worker -> Batch]
         /\ todo' \in [Worker -> SUBSET Group]
         /\ cur' \in [Worker -> Group \cup {NoGroup}]
         /\ mems' \in [Worker -> SUBSET Topic]
         /\ put' \in [Worker -> [dtag : Path, from : SUBSET Msg, near : BOOLEAN]]
         /\ consumed' \in [Worker -> SUBSET Msg]
<1>1. NoBatch \in Batch
  BY ConfigAssumption DEF NoBatch, Batch, Version
<1>2. NoPut \in [dtag : Path, from : SUBSET Msg, near : BOOLEAN]
  BY DEF NoPut, Path
<1>3. "idle" \in PC
  BY DEF PC
<1> QED
  BY <1>1, <1>2, <1>3 DEF Finish, TypeOK

(* What a worker may write: a name its group's tier prefixes, and messages *)
(* beside those of the group.                                              *)
LEMMA PutsShape ==
  ASSUME TypeOK, NEW w \in Worker, NEW topic \in Topic, cur[w] \in Group,
         NEW p \in Puts(w, topic)
  PROVE  \E name \in Path, kept \in SUBSET Msg, near \in BOOLEAN :
           p = PutFor(w, name, kept, near)
<1>1. LookupName(cur[w], topic) \in Path
  BY NameAssumption, NamesArePaths
<1>2. \A r \in memory : r.dtag \in Path /\ r.from \in SUBSET Msg
  BY DEF TypeOK
<1>3. \/ p = PutFor(w, LookupName(cur[w], topic), {}, FALSE)
      \/ \E r \in memory : p = PutFor(w, LookupName(cur[w], topic), r.from, FALSE)
      \/ \E r \in memory : p = PutFor(w, r.dtag, r.from, TRUE)
  BY DEF Puts
<1> QED
  BY <1>1, <1>2, <1>3

(* Every row a worker may plan is a row.                                   *)
LEMMA PutsTypes ==
  ASSUME TypeOK, NEW w \in Worker, NEW topic \in Topic, cur[w] \in Group,
         NEW p \in Puts(w, topic)
  PROVE  p \in [dtag : Path, from : SUBSET Msg, near : BOOLEAN]
<1>1. PICK name \in Path, kept \in SUBSET Msg, near \in BOOLEAN :
        p = PutFor(w, name, kept, near)
  BY PutsShape
<1>2. StoreName(cur[w], name) \in Path
  BY NamesArePaths
<1>3. GroupMsgs(seen[w], cur[w]) \subseteq Msg
  BY DEF GroupMsgs, InBatch
<1> QED
  BY <1>1, <1>2, <1>3 DEF PutFor

(* Setting a session's status keeps the type of the table.                 *)
LEMMA StatusTypes ==
  ASSUME TypeOK, NEW s, NEW status \in {"expired", "committed"},
         SetStatus(s, status)
  PROVE  session' \in [Session ->
                         [status : {"none", "pending", "expired", "committed"},
                          batch : Batch]]
<1>1. CASE s \in Session
  BY <1>1 DEF SetStatus, TypeOK
<1>2. CASE s \notin Session
  <2>1. session' = session
    BY <1>2 DEF SetStatus, TypeOK
  <2> QED
    BY <2>1 DEF TypeOK
<1> QED
  BY <1>1, <1>2

(* Names between two queries are paths.                                    *)
LEMMA BetweenTypes ==
  ASSUME TypeOK, NEW W \in SUBSET Worker
  PROVE  BetweenQueries(W) \subseteq Path
  BY DEF BetweenQueries, TypeOK

(* A worker that stores memories has a group to store them for.            *)
HasGroup ==
  \A w \in Worker : pc[w] \in {"memories", "drop", "create", "publish"}
                      => cur[w] \in Group

(* Every step of a call keeps the types.                                   *)
LEMMA WorkerTypes == TypeOK /\ HasGroup /\ WorkerNext => TypeOK'
<1> SUFFICES ASSUME TypeOK, HasGroup, NEW w \in Worker,
                    \/ \E selected \in Selection : FetchRun(w, selected)
                    \/ \E s \in Session : BeginCommit(w, s)
                    \/ WorkerStep(w)
                    \/ MarkFailsInCommit(w)
                    \/ Abort(w)
             PROVE  TypeOK'
  BY DEF WorkerNext
<1> USE DEF msgVars, memVars, sessVars
<1>1. ASSUME NEW selected \in Selection, FetchRun(w, selected) PROVE TypeOK'
  <2>1. PICK B \in Batches(selected) :
          /\ seen' = [seen EXCEPT ![w] = Snapshot(B)]
          /\ todo' = [todo EXCEPT ![w] = FullGroups(Snapshot(B))]
    BY <1>1 DEF FetchRun
  <2>2. seen' \in [Worker -> Batch] /\ todo' \in [Worker -> SUBSET Group]
    BY <2>1, SnapshotIsBatch DEF TypeOK, FullGroups
  <2> QED
    BY <1>1, <2>2 DEF FetchRun, TypeOK, PC
<1>2. ASSUME NEW s \in Session, BeginCommit(w, s) PROVE TypeOK'
  BY <1>2 DEF BeginCommit, TypeOK, FullGroups, PC
<1>3. CASE ExpireCommit(w)
  <2>1. session' \in [Session -> [status : {"none", "pending", "expired", "committed"},
                                 batch : Batch]]
    BY <1>3, StatusTypes DEF ExpireCommit
  <2> QED
    BY <1>3, <2>1, FinishTypes DEF ExpireCommit, TypeOK
<1>4. ASSUME NEW g \in Group, NEW topics \in SUBSET Topic, Extract(w, g, topics)
      PROVE  TypeOK'
  BY <1>4 DEF Extract, TypeOK, PC
<1>5. ASSUME NEW topic \in Topic, PlanMemory(w, topic) PROVE TypeOK'
  <2>1. PICK p \in Puts(w, topic) : put' = [put EXCEPT ![w] = p]
    BY <1>5 DEF PlanMemory
  <2>2. p \in [dtag : Path, from : SUBSET Msg, near : BOOLEAN]
    BY <1>5, PutsTypes DEF PlanMemory, HasGroup
  <2> QED
    BY <1>5, <2>1, <2>2 DEF PlanMemory, TypeOK, PC
<1>6. CASE DropRow(w)
  BY <1>6 DEF DropRow, TypeOK, PC
<1>7. CASE CreateRow(w)
  <2>1. NoPut \in [dtag : Path, from : SUBSET Msg, near : BOOLEAN]
    BY DEF NoPut, Path
  <2>2. [dtag |-> put[w].dtag, from |-> put[w].from] \in [dtag : Path, from : SUBSET Msg]
    BY DEF TypeOK
  <2>3. memory' \subseteq [dtag : Path, from : SUBSET Msg]
    BY <1>7, <2>2 DEF CreateRow, TypeOK
  <2>4. put' \in [Worker -> [dtag : Path, from : SUBSET Msg, near : BOOLEAN]]
    BY <1>7, <2>1 DEF CreateRow, TypeOK
  <2>5. /\ "publish" \in PC /\ "memories" \in PC
        /\ \/ pc' = [pc EXCEPT ![w] = "publish"]
           \/ pc' = [pc EXCEPT ![w] = "memories"]
    BY <1>7 DEF CreateRow, PC
  <2>6. pc' \in [Worker -> PC]
    BY <2>5 DEF TypeOK
  <2>7. named' \subseteq Path
    BY <1>7 DEF CreateRow, TypeOK
  <2> QED
    BY <1>7, <2>3, <2>4, <2>6, <2>7 DEF CreateRow, TypeOK
<1>8. CASE CreateRefused(w)
  BY <1>8, FinishTypes DEF CreateRefused, TypeOK
<1>9. CASE PublishMemory(w)
  <2>1. NoPut \in [dtag : Path, from : SUBSET Msg, near : BOOLEAN]
    BY DEF NoPut, Path
  <2>2. put' \in [Worker -> [dtag : Path, from : SUBSET Msg, near : BOOLEAN]]
    BY <1>9, <2>1 DEF PublishMemory, TypeOK
  <2>3. [dtag |-> put[w].dtag, from |-> put[w].from] \in [dtag : Path, from : SUBSET Msg]
    BY DEF TypeOK
  <2>4. relayMem' \subseteq [dtag : Path, from : SUBSET Msg]
    BY <1>9, <2>3 DEF PublishMemory, TypeOK
  <2> QED
    BY <1>9, <2>2, <2>4 DEF PublishMemory, TypeOK, PC
<1>10. CASE EndGroup(w)
  BY <1>10 DEF EndGroup, TypeOK, PC, GroupMsgs, InBatch
<1>11. ASSUME AfterMark(w), UNCHANGED <<msgVars, memVars, sessVars>>,
              nip09' = nip09, told' = told, faults' \in 0 .. MaxFault
       PROVE  TypeOK'
  <2>1. CASE Finish(w)
    BY <1>11, <2>1, FinishTypes DEF TypeOK
  <2>2. CASE pc' \in {[pc EXCEPT ![w] = "status"], [pc EXCEPT ![w] = "delete"]}
             /\ UNCHANGED <<job, seen, todo, cur, mems, put, consumed>>
    BY <1>11, <2>2 DEF TypeOK, PC
  <2> QED
    BY <1>11, <2>1, <2>2 DEF AfterMark
<1>12. CASE Mark(w)
  <2>1. row' \in [Msg -> [present : BOOLEAN, version : Version,
                         consolidated : BOOLEAN]]
    BY <1>12 DEF Mark, TypeOK
  <2>2. CASE Finish(w)
    BY <1>12, <2>1, <2>2, FinishTypes DEF Mark, TypeOK
  <2>3. CASE pc' \in {[pc EXCEPT ![w] = "status"], [pc EXCEPT ![w] = "delete"]}
             /\ UNCHANGED <<job, seen, todo, cur, mems, put, consumed>>
    BY <1>12, <2>1, <2>3 DEF Mark, TypeOK, PC
  <2> QED
    BY <1>12, <2>2, <2>3 DEF Mark, AfterMark
<1>13. CASE PublishDeletions(w)
  <2>1. nip09' \subseteq Msg
    BY <1>13 DEF PublishDeletions, DeletionTargets, InBatch, TypeOK
  <2> QED
    BY <1>13, <2>1, FinishTypes DEF PublishDeletions, TypeOK
<1>14. CASE CommitStatus(w)
  <2>1. session' \in [Session -> [status : {"none", "pending", "expired", "committed"},
                                 batch : Batch]]
    BY <1>14, StatusTypes DEF CommitStatus
  <2> QED
    BY <1>14, <2>1, FinishTypes DEF CommitStatus, TypeOK
<1>15. CASE MarkFailsInCommit(w)
  BY <1>11, <1>15, ConfigAssumption DEF MarkFailsInCommit, TypeOK
<1>16. CASE Abort(w)
  <2>1. BetweenQueries({w}) \subseteq Path
    BY BetweenTypes
  <2>2. cut' \subseteq Path
    BY <1>16, <2>1 DEF Abort, TypeOK
  <2>3. faults' \in 0 .. MaxFault
    BY <1>16, ConfigAssumption DEF Abort, TypeOK
  <2> QED
    BY <1>16, <2>2, <2>3, FinishTypes DEF Abort, TypeOK
<1> QED
  BY <1>1, <1>2, <1>3, <1>4, <1>5, <1>6, <1>7, <1>8, <1>9, <1>10, <1>12,
     <1>13, <1>14, <1>15, <1>16 DEF WorkerStep

(* A crash keeps the types.                                                *)
LEMMA CrashTypes == TypeOK /\ Crash => TypeOK'
<1>1. NoBatch \in Batch
  BY ConfigAssumption DEF NoBatch, Batch, Version
<1>2. NoPut \in [dtag : Path, from : SUBSET Msg, near : BOOLEAN]
  BY DEF NoPut, Path
<1>3. TypeOK /\ Crash => cut' \subseteq Path
  BY BetweenTypes DEF Crash, TypeOK
<1> QED
  BY <1>1, <1>2, <1>3, ConfigAssumption DEF Crash, TypeOK, PC, sessVars

(* A store through the API keeps the types.                                *)
LEMMA ApiStoreTypes ==
  ASSUME TypeOK, NEW g \in Group, NEW topic \in Topic, ApiStore(g, topic)
  PROVE  TypeOK'
<1>1. LookupName(g, topic) \in Path
  BY NameAssumption, NamesArePaths
<1>2. memory' \subseteq [dtag : Path, from : SUBSET Msg] /\ named' \subseteq Path
  BY <1>1 DEF ApiStore, TypeOK
<1> QED
  BY <1>2 DEF ApiStore, TypeOK, msgVars, sessVars, workVars

(* The loop over the groups always works for a group.                      *)
LEMMA HasGroupSteps == TypeOK /\ HasGroup /\ [Next]_vars => HasGroup'
<1> SUFFICES ASSUME TypeOK, HasGroup, [Next]_vars PROVE HasGroup'
  OBVIOUS
<1>1. CASE UNCHANGED <<pc, cur>>
  BY <1>1 DEF HasGroup
<1>2. CASE WorkerNext
  <2>1. PICK w \in Worker :
          \/ \E selected \in Selection : FetchRun(w, selected)
          \/ \E s \in Session : BeginCommit(w, s)
          \/ WorkerStep(w)
          \/ MarkFailsInCommit(w)
          \/ Abort(w)
    BY <1>2 DEF WorkerNext
  <2>2. CASE \/ \E selected \in Selection : FetchRun(w, selected)
             \/ \E s \in Session : BeginCommit(w, s)
    BY <2>2 DEF FetchRun, BeginCommit, HasGroup, TypeOK
  <2>3. CASE Finish(w)
    BY <2>3 DEF Finish, HasGroup, TypeOK
  <2>4. CASE \E g \in Group, topics \in SUBSET Topic : Extract(w, g, topics)
    BY <2>4 DEF Extract, HasGroup, TypeOK
  <2>5. CASE \/ \E topic \in Topic : PlanMemory(w, topic)
             \/ DropRow(w) \/ CreateRow(w) \/ PublishMemory(w)
    BY <2>5 DEF PlanMemory, DropRow, CreateRow, PublishMemory, HasGroup, TypeOK
  <2>6. CASE EndGroup(w)
    BY <2>6 DEF EndGroup, HasGroup, TypeOK
  <2>7. CASE AfterMark(w)
    BY <2>3, <2>7 DEF AfterMark, HasGroup, TypeOK
  <2> QED
    BY <2>1, <2>2, <2>3, <2>4, <2>5, <2>6, <2>7
       DEF WorkerStep, ExpireCommit, CreateRefused, Mark, PublishDeletions,
           CommitStatus, MarkFailsInCommit, Abort
<1>3. CASE Crash
  BY <1>3 DEF Crash, HasGroup
<1> QED
  BY <1>1, <1>2, <1>3
     DEF Next, MessageNext, SessionNext, Submit, SyncMessages, UpsertSelect,
         UpsertUpdate, UpsertCreate, PruneMessages, PrepareCleanup, SessionOverdue,
         Prepare, ApiStore, vars, workVars

(* So does every step of all.                                              *)
LEMMA TypeStep == TypeOK /\ HasGroup /\ [Next]_vars => TypeOK' /\ HasGroup'
<1> SUFFICES ASSUME TypeOK, HasGroup, [Next]_vars PROVE TypeOK'
  BY HasGroupSteps
<1>1. CASE UNCHANGED vars
  BY <1>1 DEF vars, msgVars, memVars, sessVars, workVars, TypeOK
<1>2. CASE \E g \in Group, topic \in Topic : ApiStore(g, topic)
  BY <1>2, ApiStoreTypes
<1> QED
  BY <1>1, <1>2, MessageTypes, SessionTypes, WorkerTypes, CrashTypes DEF Next

(* Every variable keeps its type.                                          *)
THEOREM TypesHold == Spec => []TypeOK
<1>1. Init => TypeOK /\ HasGroup
  BY InitialTypes DEF Init, HasGroup
<1> QED
  BY <1>1, TypeStep, PTL DEF Spec
-----------------------------------------------------------------------------
(***************************************************************************)
(* Safety of the message table. ConsolidatedWasTold and NothingLost are    *)
(* not inductive alone: a mark is right because the call consumed what it  *)
(* marks only after telling it, and pruning because of the flag.           *)
(***************************************************************************)
ConsumedWasTold == \A w \in Worker : consumed[w] \subseteq told

FlagHasRow == \A m \in Msg : row[m].consolidated => row[m].present

IInv == /\ TypeOK
        /\ HasGroup
        /\ FlagHasRow
        /\ ConsumedWasTold
        /\ ConsolidatedWasTold
        /\ NothingLost

(* Only these actions write the message table or its history.              *)
TableStep ==
  \/ \E u \in upserts : UpsertUpdate(u) \/ UpsertCreate(u)
  \/ \E selected \in Selection : PruneMessages(selected)
  \/ \E w \in Worker : Mark(w)

(* Every other step leaves the table alone and forgets nothing it told.    *)
LEMMA OtherSteps ==
  ASSUME [Next]_vars, ~TableStep
  PROVE  row' = row /\ entered' = entered /\ told \subseteq told'
<1>1. CASE UNCHANGED vars
  BY <1>1 DEF vars, msgVars
<1>2. CASE MessageNext
  BY <1>2 DEF MessageNext, TableStep, Submit, SyncMessages, UpsertSelect
<1>3. CASE SessionNext
  BY <1>3 DEF SessionNext, PrepareCleanup, SessionOverdue, Prepare, msgVars
<1>4. CASE WorkerNext
  <2>1. PICK w \in Worker :
          \/ \E selected \in Selection : FetchRun(w, selected)
          \/ \E s \in Session : BeginCommit(w, s)
          \/ WorkerStep(w)
          \/ MarkFailsInCommit(w)
          \/ Abort(w)
    BY <1>4 DEF WorkerNext
  <2>2. ~Mark(w)
    BY DEF TableStep
  <2>3. CASE \/ \E selected \in Selection : FetchRun(w, selected)
             \/ \E s \in Session : BeginCommit(w, s)
             \/ MarkFailsInCommit(w)
             \/ Abort(w)
    BY <2>3 DEF FetchRun, BeginCommit, MarkFailsInCommit, Abort, msgVars
  <2>4. CASE WorkerStep(w)
    BY <2>2, <2>4
       DEF WorkerStep, ExpireCommit, Extract, PlanMemory, DropRow, CreateRow,
           CreateRefused, PublishMemory, EndGroup, PublishDeletions,
           CommitStatus, msgVars
  <2> QED
    BY <2>1, <2>3, <2>4
<1>5. CASE Crash \/ \E g \in Group, topic \in Topic : ApiStore(g, topic)
  BY <1>5 DEF Crash, ApiStore, msgVars
<1> QED
  BY <1>1, <1>2, <1>3, <1>4, <1>5 DEF Next

(* What a call has consumed it told: only the end of a group adds to it.   *)
LEMMA ConsumedSteps ==
  ASSUME TypeOK, ConsumedWasTold, [Next]_vars
  PROVE  ConsumedWasTold'
<1>1. CASE consumed' = consumed /\ told \subseteq told'
  BY <1>1 DEF ConsumedWasTold
<1>2. ASSUME NEW w \in Worker, Finish(w), told' = told PROVE ConsumedWasTold'
  BY <1>2 DEF Finish, ConsumedWasTold, TypeOK
<1>3. ASSUME NEW w \in Worker, EndGroup(w) PROVE ConsumedWasTold'
  BY <1>3 DEF EndGroup, ConsumedWasTold, TypeOK
<1>4. ASSUME NEW w \in Worker, AfterMark(w), told' = told PROVE ConsumedWasTold'
  BY <1>1, <1>2, <1>4 DEF AfterMark
<1>5. CASE Crash
  BY <1>5 DEF Crash, ConsumedWasTold
<1>6. CASE UNCHANGED vars
  BY <1>1, <1>6 DEF vars, workVars
<1>7. CASE MessageNext
  BY <1>1, <1>7
     DEF MessageNext, Submit, SyncMessages, UpsertSelect, UpsertUpdate,
         UpsertCreate, PruneMessages, workVars
<1>8. CASE SessionNext
  BY <1>1, <1>8 DEF SessionNext, PrepareCleanup, SessionOverdue, Prepare, workVars
<1>9. CASE WorkerNext
  <2>1. PICK w \in Worker :
          \/ \E selected \in Selection : FetchRun(w, selected)
          \/ \E s \in Session : BeginCommit(w, s)
          \/ WorkerStep(w)
          \/ MarkFailsInCommit(w)
          \/ Abort(w)
    BY <1>9 DEF WorkerNext
  <2>2. CASE \/ \E selected \in Selection : FetchRun(w, selected)
             \/ \E s \in Session : BeginCommit(w, s)
    BY <1>1, <2>2 DEF FetchRun, BeginCommit
  <2>3. CASE ExpireCommit(w) \/ CreateRefused(w) \/ PublishDeletions(w)
             \/ CommitStatus(w) \/ Abort(w)
    BY <1>2, <2>3 DEF ExpireCommit, CreateRefused, PublishDeletions,
                      CommitStatus, Abort
  <2>4. CASE Mark(w) \/ MarkFailsInCommit(w)
    BY <1>4, <2>4 DEF Mark, MarkFailsInCommit
  <2>5. CASE \/ \E g \in Group, topics \in SUBSET Topic : Extract(w, g, topics)
             \/ \E topic \in Topic : PlanMemory(w, topic)
             \/ DropRow(w) \/ CreateRow(w) \/ PublishMemory(w)
    BY <1>1, <2>5 DEF Extract, PlanMemory, DropRow, CreateRow, PublishMemory
  <2> QED
    BY <1>3, <2>1, <2>2, <2>3, <2>4, <2>5 DEF WorkerStep
<1>10. CASE \E g \in Group, topic \in Topic : ApiStore(g, topic)
  BY <1>1, <1>10 DEF ApiStore, workVars
<1> QED
  BY <1>5, <1>6, <1>7, <1>8, <1>9, <1>10 DEF Next

(* What each writer of the table does to one message's row.                *)
LEMMA UpsertSteps ==
  ASSUME TypeOK, NEW u \in upserts, UpsertUpdate(u) \/ UpsertCreate(u)
  PROVE  /\ u.msg \in Msg /\ told' = told
         /\ entered' \in {entered, entered \cup {u.msg}}
         /\ \A m \in Msg \ {u.msg} : row'[m] = row[m]
         /\ row[u.msg].present => /\ row'[u.msg].present
                                 /\ row'[u.msg].consolidated = row[u.msg].consolidated
         /\ ~row[u.msg].present =>
              \/ row' = row /\ entered' = entered
              \/ row'[u.msg].present /\ ~row'[u.msg].consolidated
<1>1. u.msg \in Msg
  BY DEF TypeOK, Upsert
<1>2. CASE UpsertUpdate(u)
  BY <1>1, <1>2 DEF UpsertUpdate, UpdatedRow, TypeOK
<1>3. CASE UpsertCreate(u)
  BY <1>1, <1>3 DEF UpsertCreate, TypeOK
<1> QED
  BY <1>1, <1>2, <1>3

(* Only rows have the flag.                                                *)
LEMMA FlagHasRowSteps ==
  ASSUME IInv, [Next]_vars
  PROVE  FlagHasRow'
<1>1. CASE ~TableStep
  BY <1>1, OtherSteps DEF IInv, FlagHasRow
<1>2. ASSUME NEW u \in upserts, UpsertUpdate(u) \/ UpsertCreate(u)
      PROVE  FlagHasRow'
  BY <1>2, UpsertSteps DEF IInv, FlagHasRow
<1>3. ASSUME NEW selected \in Selection, PruneMessages(selected)
      PROVE  FlagHasRow'
  BY <1>3 DEF PruneMessages, NoRow, IInv, FlagHasRow
<1>4. ASSUME NEW w \in Worker, Mark(w) PROVE FlagHasRow'
  BY <1>4 DEF Mark, IInv, TypeOK, FlagHasRow
<1> QED
  BY <1>1, <1>2, <1>3, <1>4 DEF TableStep

(* A row gets the flag only from a mark, of messages told before.          *)
LEMMA FlagSteps ==
  ASSUME IInv, [Next]_vars
  PROVE  ConsolidatedWasTold'
<1>1. CASE ~TableStep
  BY <1>1, OtherSteps DEF IInv, ConsolidatedWasTold
<1>2. ASSUME NEW u \in upserts, UpsertUpdate(u) \/ UpsertCreate(u)
      PROVE  ConsolidatedWasTold'
  BY <1>2, UpsertSteps DEF IInv, FlagHasRow, ConsolidatedWasTold
<1>3. ASSUME NEW selected \in Selection, PruneMessages(selected)
      PROVE  ConsolidatedWasTold'
  BY <1>3 DEF PruneMessages, NoRow, IInv, ConsolidatedWasTold
<1>4. ASSUME NEW w \in Worker, Mark(w) PROVE ConsolidatedWasTold'
  BY <1>4 DEF Mark, MarkTargets, IInv, ConsumedWasTold, ConsolidatedWasTold
<1> QED
  BY <1>1, <1>2, <1>3, <1>4 DEF TableStep

(* A row leaves the table only flagged, so told.                           *)
LEMMA KeptSteps ==
  ASSUME IInv, [Next]_vars
  PROVE  NothingLost'
<1>1. CASE ~TableStep
  BY <1>1, OtherSteps DEF IInv, NothingLost
<1>2. ASSUME NEW u \in upserts, UpsertUpdate(u) \/ UpsertCreate(u)
      PROVE  NothingLost'
  <2> SUFFICES ASSUME NEW m \in entered' PROVE row'[m].present \/ m \in told'
    BY DEF NothingLost
  <2>1. CASE m = u.msg
    BY <1>2, <2>1, UpsertSteps DEF IInv, NothingLost
  <2>2. CASE m # u.msg
    <3>1. m \in entered /\ m \in Msg
      BY <1>2, <2>2, UpsertSteps DEF IInv, TypeOK
    <3> QED
      BY <1>2, <2>2, <3>1, UpsertSteps DEF IInv, NothingLost
  <2> QED
    BY <2>1, <2>2
<1>3. ASSUME NEW selected \in Selection, PruneMessages(selected)
      PROVE  NothingLost'
  BY <1>3 DEF PruneMessages, Prunable, IInv, TypeOK, ConsolidatedWasTold,
              NothingLost
<1>4. ASSUME NEW w \in Worker, Mark(w) PROVE NothingLost'
  BY <1>4 DEF Mark, IInv, TypeOK, NothingLost
<1> QED
  BY <1>1, <1>2, <1>3, <1>4 DEF TableStep

(* Nothing is flagged or consumed at first.                                *)
LEMMA InitialInvariant == Init => IInv
  BY InitialTypes
     DEF Init, IInv, HasGroup, FlagHasRow, ConsumedWasTold, ConsolidatedWasTold,
         NothingLost, NoRow, TypeOK

(* The invariant is inductive.                                             *)
LEMMA InvariantStep == IInv /\ [Next]_vars => IInv'
  BY TypeStep, FlagHasRowSteps, ConsumedSteps, FlagSteps, KeptSteps DEF IInv

(* What calls consumed they told, and what is flagged or gone was told.    *)
THEOREM InvariantHolds == Spec => []IInv
  BY InitialInvariant, InvariantStep, PTL DEF Spec

(* A flagged message went through extraction and storage, in whatever      *)
(* order calls, sessions, replays, pruning and crashes interleave.         *)
THEOREM FlaggedWasTold == Spec => []ConsolidatedWasTold
<1>1. IInv => ConsolidatedWasTold
  BY DEF IInv
<1> QED
  BY <1>1, InvariantHolds, PTL

(* No message leaves the table before its group was told.                  *)
THEOREM NoMessageLost == Spec => []NothingLost
<1>1. IInv => NothingLost
  BY DEF IInv
<1> QED
  BY <1>1, InvariantHolds, PTL

(* Storing a message again never takes the flag of its row away.           *)
THEOREM ReplayKeepsFlag == Spec => FlagKept
<1>1. ASSUME IInv, [Next]_vars
      PROVE  [\A m \in Msg : row[m].consolidated /\ row'[m].present
                               => row'[m].consolidated]_vars
  <2>1. CASE ~TableStep
    BY <1>1, <2>1, OtherSteps
  <2>2. ASSUME NEW u \in upserts, UpsertUpdate(u) \/ UpsertCreate(u)
        PROVE  \A m \in Msg : row[m].consolidated /\ row'[m].present
                                => row'[m].consolidated
    BY <1>1, <2>2, UpsertSteps DEF IInv, FlagHasRow
  <2>3. ASSUME NEW selected \in Selection, PruneMessages(selected)
        PROVE  \A m \in Msg : row[m].consolidated /\ row'[m].present
                                => row'[m].consolidated
    BY <2>3 DEF PruneMessages, NoRow
  <2>4. ASSUME NEW w \in Worker, Mark(w)
        PROVE  \A m \in Msg : row[m].consolidated /\ row'[m].present
                                => row'[m].consolidated
    BY <2>4 DEF Mark
  <2> QED
    BY <2>1, <2>2, <2>3, <2>4 DEF TableStep
<1> QED
  BY <1>1, InvariantHolds, PTL DEF Spec, FlagKept
-----------------------------------------------------------------------------
(***************************************************************************)
(* Consolidation implements MessageLedger.                                 *)
(***************************************************************************)
OpenMsg   == {m \in Msg : row[m].present /\ ~row[m].consolidated}
ClosedMsg == {m \in Msg : row[m].present /\ row[m].consolidated}

(* The table begins as the ledger does.                                    *)
LEMMA LedgerInit == Init => Ledger!Init
  BY MessageAssumption DEF Init, Ledger!Init, NoRow

(* Each step of the code is one of the ledger, or leaves it alone.         *)
LEMMA LedgerStep ==
  ASSUME IInv, IInv', [Next]_vars
  PROVE  [Ledger!Next]_(Ledger!vars)
<1> USE DEF Ledger!Next, Ledger!vars, Ledger!Arrive, Ledger!Tell, Ledger!Close,
            Ledger!Remove
<1>1. CASE ~TableStep
  <2>1. row' = row /\ told \subseteq told'
    BY <1>1, OtherSteps
  <2>2. PICK S \in SUBSET Msg : told' = told \cup S
    BY <2>1 DEF IInv, TypeOK
  <2>3. Ledger!Tell(S)
    BY <2>1, <2>2
  <2> QED
    BY <2>3
<1>2. ASSUME NEW u \in upserts, UpsertUpdate(u) \/ UpsertCreate(u)
      PROVE  [Ledger!Next]_(Ledger!vars)
  <2>1. CASE \A m \in Msg : /\ row'[m].present = row[m].present
                            /\ row'[m].consolidated = row[m].consolidated
    BY <1>2, <2>1, UpsertSteps DEF IInv
  <2>2. CASE ~row[u.msg].present /\ row'[u.msg].present /\ ~row'[u.msg].consolidated
    <3>1. Ledger!Arrive(u.msg)
      BY <1>2, <2>2, UpsertSteps DEF IInv
    <3> QED
      BY <1>2, <3>1, UpsertSteps DEF IInv
  <2>3. CASE row[u.msg].present
    <3>1. row'[u.msg].present = row[u.msg].present
      BY <1>2, <2>3, UpsertSteps DEF IInv, TypeOK
    <3>2. row'[u.msg].consolidated = row[u.msg].consolidated
      BY <1>2, <2>3, UpsertSteps DEF IInv
    <3>3. \A m \in Msg : /\ row'[m].present = row[m].present
                         /\ row'[m].consolidated = row[m].consolidated
      <4> TAKE m \in Msg
      <4>1. CASE m = u.msg
        BY <3>1, <3>2, <4>1
      <4>2. CASE m # u.msg
        BY <1>2, <4>2, UpsertSteps DEF IInv
      <4> QED
        BY <4>1, <4>2
    <3> QED
      BY <2>1, <3>3
  <2>4. CASE row' = row
    BY <2>1, <2>4
  <2> QED
    BY <1>2, <2>2, <2>3, <2>4, UpsertSteps DEF IInv
<1>3. ASSUME NEW selected \in Selection, PruneMessages(selected)
      PROVE  [Ledger!Next]_(Ledger!vars)
  <2>1. Prunable(selected) \in SUBSET Msg
    BY MessageAssumption DEF Prunable
  <2>2. Ledger!Remove(Prunable(selected))
    BY <1>3, <2>1 DEF PruneMessages, Prunable, NoRow
  <2> QED
    BY <2>1, <2>2
<1>4. ASSUME NEW w \in Worker, Mark(w) PROVE [Ledger!Next]_(Ledger!vars)
  <2> DEFINE S == OpenMsg \cap consumed[w]
  <2>1. S \in SUBSET Msg
    BY DEF OpenMsg
  <2>2. Ledger!Close(S)
    BY <1>4 DEF Mark, MarkTargets, OpenMsg, IInv, TypeOK, ConsumedWasTold
  <2> QED
    BY <2>1, <2>2
<1> QED
  BY <1>1, <1>2, <1>3, <1>4 DEF TableStep

(* Consolidation implements MessageLedger.                                 *)
THEOREM ImplementsLedger == Spec => KeepsLedger
  BY LedgerInit, LedgerStep, InvariantHolds, PTL DEF Spec, KeepsLedger, Ledger!Spec
-----------------------------------------------------------------------------
(***************************************************************************)
(* Safety of the memory table.                                             *)
(***************************************************************************)

(* The table is written by DropRow, CreateRow and ApiStore alone.          *)
LEMMA MemorySteps ==
  ASSUME [Next]_vars
  PROVE  \/ memory' = memory
         \/ \E w \in Worker : DropRow(w) \/ CreateRow(w)
         \/ \E g \in Group, topic \in Topic : ApiStore(g, topic)
<1>1. CASE UNCHANGED vars
  BY <1>1 DEF vars, memVars
<1>2. CASE MessageNext
  BY <1>2 DEF MessageNext, Submit, SyncMessages, UpsertSelect, UpsertUpdate,
              UpsertCreate, PruneMessages, memVars
<1>3. CASE SessionNext
  BY <1>3 DEF SessionNext, PrepareCleanup, SessionOverdue, Prepare, memVars
<1>4. CASE WorkerNext
  BY <1>4 DEF WorkerNext, WorkerStep, FetchRun, BeginCommit, ExpireCommit, Extract,
              PlanMemory, CreateRefused, PublishMemory, EndGroup, Mark,
              MarkFailsInCommit, PublishDeletions, CommitStatus, Abort, memVars
<1>5. CASE Crash
  BY <1>5 DEF Crash, memVars
<1> QED
  BY <1>1, <1>2, <1>3, <1>4, <1>5 DEF Next

(* A step that leaves the rows alone and every call between its queries    *)
(* there keeps what RowsSurvive says.                                      *)
LEMMA QuietSurvives ==
  ASSUME RowsSurvive, memory' = memory, named' = named, cut' = cut,
         \A w \in Worker : pc[w] = "create" =>
                             pc'[w] = "create" /\ put'[w] = put[w]
  PROVE  RowsSurvive'
  BY DEF RowsSurvive, BetweenQueries

(* So does the end of a call that is not between its queries.              *)
LEMMA EndSurvives ==
  ASSUME TypeOK, RowsSurvive, NEW w \in Worker, pc[w] # "create", Finish(w),
         memory' = memory, named' = named, cut' = cut
  PROVE  RowsSurvive'
<1>1. \A v \in Worker : pc[v] = "create" => pc'[v] = "create" /\ put'[v] = put[v]
  BY DEF Finish, TypeOK
<1> QED
  BY <1>1, QuietSurvives

(* Every step of a call keeps what RowsSurvive says.                       *)
LEMMA WorkerSurvives == TypeOK /\ RowsSurvive /\ WorkerNext => RowsSurvive'
<1> SUFFICES ASSUME TypeOK, RowsSurvive, NEW w \in Worker,
                    \/ \E selected \in Selection : FetchRun(w, selected)
                    \/ \E s \in Session : BeginCommit(w, s)
                    \/ WorkerStep(w)
                    \/ MarkFailsInCommit(w)
                    \/ Abort(w)
             PROVE  RowsSurvive'
  BY DEF WorkerNext
<1>1. CASE \/ \E selected \in Selection : FetchRun(w, selected)
           \/ \E s \in Session : BeginCommit(w, s)
           \/ \E g \in Group, topics \in SUBSET Topic : Extract(w, g, topics)
           \/ EndGroup(w)
  <2>1. /\ memory' = memory /\ named' = named /\ cut' = cut
        /\ \A v \in Worker : pc[v] = "create" =>
                               pc'[v] = "create" /\ put'[v] = put[v]
    BY <1>1 DEF FetchRun, BeginCommit, Extract, EndGroup, memVars, TypeOK
  <2> QED
    BY <2>1, QuietSurvives
<1>2. CASE \E topic \in Topic : PlanMemory(w, topic)
  <2>1. PICK p : put' = [put EXCEPT ![w] = p]
    BY <1>2 DEF PlanMemory
  <2>2. /\ memory' = memory /\ named' = named /\ cut' = cut
        /\ pc[w] = "memories" /\ pc' = [pc EXCEPT ![w] = "drop"]
    BY <1>2 DEF PlanMemory, memVars
  <2>3. \A v \in Worker : pc[v] = "create" => pc'[v] = "create" /\ put'[v] = put[v]
    BY <2>1, <2>2 DEF TypeOK
  <2> QED
    BY <2>2, <2>3, QuietSurvives
<1>3. CASE PublishMemory(w)
  <2>1. /\ memory' = memory /\ named' = named /\ cut' = cut
        /\ \A v \in Worker : pc[v] = "create" =>
                               pc'[v] = "create" /\ put'[v] = put[v]
    BY <1>3 DEF PublishMemory, TypeOK
  <2> QED
    BY <2>1, QuietSurvives
<1>4. CASE ExpireCommit(w) \/ PublishDeletions(w) \/ CommitStatus(w)
  BY <1>4, EndSurvives DEF ExpireCommit, PublishDeletions, CommitStatus, memVars
<1>5. CASE Mark(w) \/ MarkFailsInCommit(w)
  <2>1. /\ memory' = memory /\ named' = named /\ cut' = cut
        /\ pc[w] = "groups" /\ AfterMark(w)
    BY <1>5 DEF Mark, MarkFailsInCommit, memVars
  <2>2. CASE Finish(w)
    BY <2>1, <2>2, EndSurvives
  <2>3. CASE pc' \in {[pc EXCEPT ![w] = "status"], [pc EXCEPT ![w] = "delete"]}
             /\ UNCHANGED <<job, seen, todo, cur, mems, put, consumed>>
    <3>1. \A v \in Worker : pc[v] = "create" =>
                              pc'[v] = "create" /\ put'[v] = put[v]
      BY <2>1, <2>3 DEF TypeOK
    <3> QED
      BY <2>1, <3>1, QuietSurvives
  <2> QED
    BY <2>1, <2>2, <2>3 DEF AfterMark
<1>6. CASE DropRow(w)
  <2>1. memory' = memory \ RowsNamed(put[w].dtag)
    BY <1>6 DEF DropRow
  <2>2. /\ named' = named /\ cut' = cut /\ put' = put
        /\ pc'[w] = "create" /\ \A v \in Worker : pc[v] = "create" => pc'[v] = "create"
    BY <1>6 DEF DropRow, TypeOK
  <2> QED
    BY <2>1, <2>2 DEF RowsSurvive, BetweenQueries, RowsNamed
<1>7. CASE CreateRow(w)
  <2>1. PICK new : /\ new = [dtag |-> put[w].dtag, from |-> put[w].from]
                   /\ memory' = memory \cup {new}
    BY <1>7 DEF CreateRow
  <2>2. new.dtag = put[w].dtag
    BY <2>1
  <2>3. /\ named' = named \cup {put[w].dtag} /\ cut' = cut
        /\ \A v \in Worker : v # w => pc'[v] = pc[v] /\ put'[v] = put[v]
    BY <1>7 DEF CreateRow, TypeOK
  <2> QED
    BY <2>1, <2>2, <2>3 DEF RowsSurvive, BetweenQueries
<1>8. CASE CreateRefused(w)
  <2>1. PICK r \in memory : r.dtag = put[w].dtag
    BY <1>8 DEF CreateRefused, NameFree, RowsNamed
  <2>2. /\ memory' = memory /\ named' = named /\ cut' = cut
        /\ \A v \in Worker : v # w => pc'[v] = pc[v] /\ put'[v] = put[v]
    BY <1>8 DEF CreateRefused, Finish, TypeOK, memVars
  <2> QED
    BY <2>1, <2>2 DEF RowsSurvive, BetweenQueries
<1>9. CASE Abort(w)
  <2>1. /\ memory' = memory /\ named' = named
        /\ \A v \in Worker : v # w => pc'[v] = pc[v] /\ put'[v] = put[v]
        /\ cut' = cut \cup BetweenQueries({w})
    BY <1>9 DEF Abort, Finish, TypeOK
  <2>2. pc[w] = "create" => put[w].dtag \in cut'
    BY <2>1 DEF BetweenQueries
  <2> QED
    BY <2>1, <2>2 DEF RowsSurvive, BetweenQueries
<1> QED
  BY <1>1, <1>2, <1>3, <1>4, <1>5, <1>6, <1>7, <1>8, <1>9 DEF WorkerStep

(* However the deletes and creates of runs, commits and API stores of one  *)
(* name interleave, a name that had a row is only ever without one between *)
(* the two queries of a call, or after one was cut off there.              *)
THEOREM RowsOutliveStores == Spec => []RowsSurvive
<1>1. Init => RowsSurvive
  BY DEF Init, RowsSurvive
<1>2. TypeOK /\ RowsSurvive /\ [Next]_vars => RowsSurvive'
  <2> SUFFICES ASSUME TypeOK, RowsSurvive, [Next]_vars PROVE RowsSurvive'
    OBVIOUS
  <2>1. CASE UNCHANGED <<memVars, pc, put>>
    BY <2>1, QuietSurvives DEF memVars
  <2>2. CASE Crash
    BY <2>2 DEF Crash, RowsSurvive, BetweenQueries
  <2>3. ASSUME NEW g \in Group, NEW topic \in Topic, ApiStore(g, topic)
        PROVE  RowsSurvive'
    <3>1. PICK name, new :
            /\ new = [dtag |-> name, from |-> {}]
            /\ memory' = (memory \ RowsNamed(name)) \cup {new}
            /\ named' = named \cup {name}
      BY <2>3 DEF ApiStore
    <3>2. new.dtag = name /\ cut' = cut /\ pc' = pc /\ put' = put
      BY <2>3, <3>1 DEF ApiStore, workVars
    <3> QED
      BY <3>1, <3>2 DEF RowsSurvive, BetweenQueries, RowsNamed
  <2>4. CASE MessageNext
    BY <2>1, <2>4
       DEF MessageNext, Submit, SyncMessages, UpsertSelect, UpsertUpdate,
           UpsertCreate, PruneMessages, workVars
  <2>5. CASE SessionNext
    BY <2>1, <2>5 DEF SessionNext, PrepareCleanup, SessionOverdue, Prepare, workVars
  <2>6. CASE UNCHANGED vars
    BY <2>1, <2>6 DEF vars, workVars
  <2> QED
    BY <2>2, <2>3, <2>4, <2>5, <2>6, WorkerSurvives DEF Next
<1> QED
  BY <1>1, <1>2, TypesHold, PTL DEF Spec
-----------------------------------------------------------------------------
(***************************************************************************)
(* Scopes. What is published is of one scope, near-duplicates or not: what *)
(* calls store is named by a wrapped lookup name, so no later call finds   *)
(* it by lookup and publishes a merge with it, and what merges with a row  *)
(* of any name stays local.                                                *)
(***************************************************************************)
IsWrapped(d) == \E name \in LookupNames : Wraps(d, name)

(* Names of rows and puts. A row that tells messages is wrapped; a client's*)
(* own memory, which tells none, has a lookup name.                        *)
NamedRow(r) == \/ IsWrapped(r.dtag)
               \/ r.from = {} /\ r.dtag \in LookupNames

Storing(w) == pc[w] \in {"drop", "create", "publish"}

PutNamed(p) == IsWrapped(p.dtag) /\ (~p.near => OneScope(p.from))

ScopeInv ==
  /\ TypeOK /\ HasGroup
  /\ \A r \in memory : NamedRow(r)
  /\ \A w \in Worker : Storing(w) => PutNamed(put[w])
  /\ \A w \in Worker : pc[w] = "publish" => ~put[w].near
  /\ PublishedInScope

(* A name stored under has a tier in front.                                *)
LEMMA StoredUnderIs ==
  ASSUME PlainNames, NEW g \in Group, NEW d \in Path
  PROVE  \E v \in TierPrefix : StoreName(g, d) = <<v>> \o d
<1>1. TierOf[g] \in Tier /\ TierOf[g].id = NoScope
  BY MessageAssumption DEF PlainNames
<1>2. TierOf[g].base \in TierPrefix
  BY <1>1 DEF Tier, TierPrefix, ScopedTier
<1> QED
  BY <1>1, <1>2 DEF StoreName, BuildDtagFromTier, BuildDtag, ScopedTier,
                    UnscopedTier, TierPrefix

(* Lookup names are paths.                                                 *)
LEMMA LookupNamesArePaths == LookupNames \subseteq Path
  BY NamesArePaths, NameAssumption DEF LookupNames

(* A tier in front of a name, or of one that is wrapped, wraps it.         *)
LEMMA OneMoreTier ==
  ASSUME NEW v \in TierPrefix, NEW d \in Path, NEW name \in Path,
         d = name \/ Wraps(d, name)
  PROVE  Wraps(<<v>> \o d, name)
<1>1. /\ Len(<<v>> \o d) = 1 + Len(d) /\ (<<v>> \o d)[1] = v
      /\ \A i \in 1 .. Len(d) : (<<v>> \o d)[1 + i] = d[i]
      /\ Len(d) \in Nat /\ Len(name) \in Nat
  BY SegmentAssumption DEF Path
<1> DEFINE e == <<v>> \o d
<1> HIDE DEF e
<1>2. CASE d = name
  <2>1. \A i \in 1 .. 1 : e[i] \in TierPrefix
    BY <1>1 DEF e
  <2>2. 1 \in 1 .. Len(e) /\ Len(e) = 1 + Len(name)
    BY <1>1, <1>2 DEF e
  <2>3. \A i \in 1 .. Len(name) : e[1 + i] = name[i]
    BY <1>1, <1>2 DEF e
  <2> QED
    BY <2>1, <2>2, <2>3 DEF Wraps, e
<1>3. CASE Wraps(d, name)
  <2>1. PICK n \in 1 .. Len(d) :
          /\ Len(d) = n + Len(name)
          /\ \A i \in 1 .. n : d[i] \in TierPrefix
          /\ \A i \in 1 .. Len(name) : d[n + i] = name[i]
    BY <1>3 DEF Wraps
  <2>2. n + 1 \in 1 .. Len(e) /\ Len(e) = (n + 1) + Len(name)
    BY <1>1, <2>1 DEF e
  <2>3. ASSUME NEW i \in 1 .. n + 1 PROVE e[i] \in TierPrefix
    <3>1. CASE i = 1
      BY <1>1, <3>1 DEF e
    <3>2. CASE i # 1
      <4>1. i - 1 \in 1 .. n /\ i - 1 \in 1 .. Len(d) /\ 1 + (i - 1) = i
        BY <1>1, <2>1, <3>2
      <4> QED
        BY <1>1, <2>1, <4>1 DEF e
    <3> QED
      BY <3>1, <3>2
  <2>4. ASSUME NEW i \in 1 .. Len(name) PROVE e[(n + 1) + i] = name[i]
    <3>1. n + i \in 1 .. Len(d) /\ 1 + (n + i) = (n + 1) + i
      BY <1>1, <2>1
    <3> QED
      BY <1>1, <2>1, <3>1 DEF e
  <2> QED
    BY <2>2, <2>3, <2>4 DEF Wraps, e
<1> QED
  BY <1>2, <1>3

(* So whatever row a call plans, its name is wrapped.                      *)
LEMMA StoredIsWrapped ==
  ASSUME PlainNames, NEW g \in Group, NEW d \in Path,
         d \in LookupNames \/ IsWrapped(d)
  PROVE  IsWrapped(StoreName(g, d))
<1>1. PICK name \in LookupNames : d = name \/ Wraps(d, name)
  BY DEF IsWrapped
<1>2. PICK v \in TierPrefix : StoreName(g, d) = <<v>> \o d
  BY StoredUnderIs
<1> QED
  BY <1>1, <1>2, OneMoreTier, LookupNamesArePaths DEF IsWrapped

(* A put that will be published tells the messages of its group alone.     *)
LEMMA PlannedIsNamed ==
  ASSUME PlainNames, ScopeInv, NEW w \in Worker,
         NEW topic \in Topic, cur[w] \in Group, NEW p \in Puts(w, topic)
  PROVE  PutNamed(p)
<1> DEFINE name == LookupName(cur[w], topic)
<1>1. name \in LookupNames /\ name \in Path
  BY LookupNamesArePaths DEF LookupNames
<1>2. ~IsWrapped(name)
  BY <1>1 DEF PlainNames, IsWrapped
<1>3. \A r \in memory : r.dtag = name => r.from = {}
  BY <1>2 DEF ScopeInv, NamedRow
<1> HIDE DEF name
<1>4. CASE p = PutFor(w, name, {}, FALSE)
  <2>1. p.dtag = StoreName(cur[w], name) /\ p.from = GroupMsgs(seen[w], cur[w])
    BY <1>4 DEF PutFor
  <2>2. OneScope(p.from)
    BY <2>1 DEF OneScope, GroupMsgs
  <2> QED
    BY <1>1, <2>1, <2>2, StoredIsWrapped DEF PutNamed
<1>5. ASSUME NEW r \in memory, p = PutFor(w, r.dtag, r.from, TRUE)
      PROVE  PutNamed(p)
  <2>1. p.dtag = StoreName(cur[w], r.dtag) /\ p.near = TRUE
    BY <1>5 DEF PutFor
  <2>2. r.dtag \in Path /\ (r.dtag \in LookupNames \/ IsWrapped(r.dtag))
    BY DEF ScopeInv, NamedRow, TypeOK
  <2> QED
    BY <2>1, <2>2, StoredIsWrapped DEF PutNamed
<1>6. \/ p = PutFor(w, name, {}, FALSE)
      \/ \E r \in memory : r.dtag = name /\ p = PutFor(w, name, r.from, FALSE)
      \/ \E r \in memory : p = PutFor(w, r.dtag, r.from, TRUE)
  BY DEF Puts, name
<1> QED
  BY <1>3, <1>4, <1>5, <1>6

(* What a worker is storing it planned, and it gets to publishing only     *)
(* what is no near-duplicate.                                              *)
LEMMA PutSteps ==
  ASSUME TypeOK, [Next]_vars, NEW w \in Worker, Storing(w)'
  PROVE  \/ /\ Storing(w) /\ put'[w] = put[w]
            /\ pc'[w] = "publish" => pc[w] = "publish" \/ ~put[w].near
         \/ pc'[w] = "drop" /\ \E topic \in Topic : PlanMemory(w, topic)
<1>1. CASE UNCHANGED <<pc, put>>
  BY <1>1 DEF Storing
<1>2. ASSUME NEW v \in Worker, Finish(v)
      PROVE  Storing(w) /\ put'[w] = put[w] /\ pc'[w] = pc[w]
  BY <1>2 DEF Finish, TypeOK, Storing
<1>3. CASE WorkerNext
  <2>1. PICK v \in Worker :
          \/ \E selected \in Selection : FetchRun(v, selected)
          \/ \E s \in Session : BeginCommit(v, s)
          \/ WorkerStep(v)
          \/ MarkFailsInCommit(v)
          \/ Abort(v)
    BY <1>3 DEF WorkerNext
  <2>2. CASE \/ \E selected \in Selection : FetchRun(v, selected)
             \/ \E s \in Session : BeginCommit(v, s)
             \/ \E g \in Group, topics \in SUBSET Topic : Extract(v, g, topics)
             \/ EndGroup(v)
    BY <2>2 DEF FetchRun, BeginCommit, Extract, EndGroup, Storing, TypeOK
  <2>3. CASE AfterMark(v)
    BY <1>2, <2>3 DEF AfterMark, Storing, TypeOK
  <2>4. CASE CreateRow(v)
    BY <2>4 DEF CreateRow, Publishes, Storing, TypeOK
  <2>5. CASE PublishMemory(v) \/ DropRow(v)
    BY <2>5 DEF PublishMemory, DropRow, Storing, TypeOK
  <2>6. ASSUME NEW topic \in Topic, PlanMemory(v, topic)
        PROVE  \/ w = v /\ pc'[w] = "drop"
               \/ Storing(w) /\ put'[w] = put[w] /\ pc'[w] = pc[w]
    BY <2>6 DEF PlanMemory, Storing, TypeOK
  <2> QED
    BY <1>2, <2>1, <2>2, <2>3, <2>4, <2>5, <2>6
       DEF WorkerStep, ExpireCommit, CreateRefused, Mark, PublishDeletions,
           CommitStatus, MarkFailsInCommit, Abort
<1>4. CASE Crash
  BY <1>4 DEF Crash, Storing
<1> QED
  BY <1>1, <1>3, <1>4
     DEF Next, MessageNext, SessionNext, Submit, SyncMessages, UpsertSelect,
         UpsertUpdate, UpsertCreate, PruneMessages, PrepareCleanup, SessionOverdue,
         Prepare, ApiStore, vars, workVars

(* Only a publication changes what is published.                           *)
LEMMA PublishSteps ==
  ASSUME [Next]_vars
  PROVE  relayMem' = relayMem \/ \E w \in Worker : PublishMemory(w)
<1>1. CASE UNCHANGED vars
  BY <1>1 DEF vars, memVars
<1>2. CASE MessageNext
  BY <1>2 DEF MessageNext, Submit, SyncMessages, UpsertSelect, UpsertUpdate,
              UpsertCreate, PruneMessages, memVars
<1>3. CASE SessionNext
  BY <1>3 DEF SessionNext, PrepareCleanup, SessionOverdue, Prepare, memVars
<1>4. CASE WorkerNext
  BY <1>4 DEF WorkerNext, WorkerStep, FetchRun, BeginCommit, ExpireCommit, Extract,
              PlanMemory, DropRow, CreateRow, CreateRefused, EndGroup, Mark,
              MarkFailsInCommit, PublishDeletions, CommitStatus, Abort, memVars
<1>5. CASE Crash \/ \E g \in Group, topic \in Topic : ApiStore(g, topic)
  BY <1>5 DEF Crash, ApiStore, memVars
<1> QED
  BY <1>1, <1>2, <1>3, <1>4, <1>5 DEF Next

(* Every step keeps names and scopes so.                                   *)
LEMMA ScopeSteps ==
  ASSUME PlainNames, ScopeInv, [Next]_vars
  PROVE  ScopeInv'
<1>1. TypeOK' /\ HasGroup'
  BY TypeStep DEF ScopeInv
<1>2. ASSUME NEW w \in Worker, Storing(w)'
      PROVE  PutNamed(put'[w]) /\ (pc'[w] = "publish" => ~put'[w].near)
  <2>1. ASSUME NEW topic \in Topic, PlanMemory(w, topic) PROVE PutNamed(put'[w])
    <3>1. PICK p \in Puts(w, topic) : put' = [put EXCEPT ![w] = p]
      BY <2>1 DEF PlanMemory
    <3>2. PutNamed(p)
      BY <2>1, PlannedIsNamed DEF PlanMemory, ScopeInv, HasGroup
    <3> QED
      BY <3>1, <3>2 DEF ScopeInv, TypeOK
  <2> QED
    BY <1>2, <2>1, PutSteps DEF ScopeInv
<1>3. ASSUME NEW r \in memory' PROVE NamedRow(r)
  <2>1. CASE r \in memory
    BY <2>1 DEF ScopeInv
  <2>2. ASSUME NEW w \in Worker, CreateRow(w), r \notin memory PROVE NamedRow(r)
    <3>1. r = [dtag |-> put[w].dtag, from |-> put[w].from] /\ Storing(w)
      BY <2>2 DEF CreateRow, Storing
    <3>2. r.dtag = put[w].dtag
      BY <3>1
    <3> QED
      BY <3>1, <3>2 DEF ScopeInv, PutNamed, NamedRow
  <2>3. ASSUME NEW g \in Group, NEW topic \in Topic, ApiStore(g, topic),
               r \notin memory
        PROVE  NamedRow(r)
    <3>1. r = [dtag |-> LookupName(g, topic), from |-> {}]
      BY <2>3 DEF ApiStore
    <3>2. r.from = {} /\ r.dtag \in LookupNames
      BY <3>1 DEF LookupNames
    <3> QED
      BY <3>2 DEF NamedRow
  <2>4. ASSUME NEW w \in Worker, DropRow(w) PROVE r \in memory
    BY <2>4 DEF DropRow
  <2> QED
    BY <2>1, <2>2, <2>3, <2>4, MemorySteps
<1>4. ASSUME NEW e \in relayMem' PROVE OneScope(e.from)
  <2>1. CASE e \in relayMem
    BY <2>1 DEF ScopeInv, PublishedInScope
  <2>2. ASSUME NEW w \in Worker, PublishMemory(w), e \notin relayMem
        PROVE  OneScope(e.from)
    <3>1. e = [dtag |-> put[w].dtag, from |-> put[w].from]
      BY <2>2 DEF PublishMemory
    <3>2. e.from = put[w].from /\ Storing(w) /\ pc[w] = "publish"
      BY <2>2, <3>1 DEF PublishMemory, Storing
    <3> QED
      BY <3>2 DEF ScopeInv, PutNamed
  <2> QED
    BY <2>1, <2>2, PublishSteps
<1> QED
  BY <1>1, <1>2, <1>3, <1>4 DEF ScopeInv, PublishedInScope, Storing, NamedRow

(* However calls, clients, crashes and failures interleave, an embedder    *)
(* configured or not, what is published of one memory tells messages of    *)
(* one scope, as long as topics do not look like stored names.             *)
THEOREM PublishesInScope ==
  ASSUME PlainNames
  PROVE  Spec => []PublishedInScope
<1>1. Init => ScopeInv
  BY InitialTypes DEF Init, ScopeInv, HasGroup, Storing, PublishedInScope
<1>2. ScopeInv /\ [Next]_vars => ScopeInv'
  BY ScopeSteps
<1>3. ScopeInv => PublishedInScope
  BY DEF ScopeInv
<1> QED
  BY <1>1, <1>2, <1>3, PTL DEF Spec
=============================================================================
