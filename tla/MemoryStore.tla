----------------------------- MODULE MemoryStore -----------------------------
(***************************************************************************)
(* The table of memories and the relay it is a cache of:                   *)
(*   src/nomen_memory.rs (store, delete), src/nomen_sync.rs (memories),    *)
(*   crates/nomen-db/src/{memory,graph,schema}.rs and                      *)
(*   crates/nomen-api/src/operations/memory.rs (put, delete).              *)
(*                                                                         *)
(* Every write of a memory has a number: its content, its time and, once   *)
(* published, its event. Calls are records that say which of their steps   *)
(* is next; every .await on the database or the relay ends a step, so      *)
(* stores, deletions, one sync and one prune interleave with each other,   *)
(* with searches and with another device that uses the same relay.         *)
(*                                                                         *)
(* Not here: memories consolidation stores and the edges it draws, text,   *)
(* importance, type, model and embeddings of a memory, the supersedes tag  *)
(* (nothing reads it back), notifications, and version: it is at least 1   *)
(* in every row and 1 in every event, so the comparison in store_memory    *)
(* always finds a present row new enough.                                  *)
(***************************************************************************)
EXTENDS Naturals, FiniteSets, DTag

CONSTANTS
  Request,    \* [tier, topic] clients put and delete memories under
  Raw,        \* d-tags or bare topics clients delete by
  Remote,     \* d-tags the other device publishes
  Refs,       \* <<d-tag, d-tag>> pairs: the relation tags of events
  Author,     \* public key of the signer
  MaxWrite,   \* bound: writes of memories, here and on the other device
  MaxCall,    \* bound: stores in flight, and deletions in flight
  MaxFault    \* bound: crashes, losses of the table, calls cut off

ASSUME RequestAssumption ==
  /\ Request \subseteq [tier : Tier, topic : Path \ {NoTopic}]
  /\ Raw \subseteq Path \ {NoTopic} /\ Remote \subseteq Path
  /\ Refs \subseteq Path \X Path
  /\ Author \in Segment
ASSUME BoundAssumption ==
  MaxWrite \in Nat /\ MaxCall \in Nat /\ MaxFault \in Nat

VARIABLES
  memory,     \* table memory: [dtag, topic, content, synced, used]; synced:
              \* nostr_id is the id of an event, not the name of a source
  edges,      \* table references: <<d-tag, d-tag>>
  relay,      \* kind 31234 events: [dtag, id]
  stores,     \* Nomen::store calls: [dtag, topic, content, step]
  deletes,    \* Nomen::delete calls: [path, id, found, step]
  prune,      \* d-tags prune_memories has selected and not deleted yet
  syncStep,   \* where the sync is
  batch,      \* events it fetched and has not looked at
  cur,        \* the event it is storing
  aged,       \* writes older than the prune cutoff
  \* --- history and bounds ---
  through,    \* events the sync is through with
  dropped,    \* d-tags other calls removed a row of since it began
  deleted,    \* writes whose row a deletion removed
  issued,     \* writes so far
  faults

syncVars == <<syncStep, batch, cur, through>>
vars == <<memory, edges, relay, stores, deletes, prune, syncVars, aged,
          dropped, deleted, issued, faults>>

Write   == 1 .. MaxWrite
NoWrite == 0
Event   == [dtag : Path, id : Write]
NoEvent == [dtag |-> NoTopic, id |-> NoWrite]

HasRow(d)   == \E r \in memory : r.dtag = d

(* CREATE succeeds where the unique index memory_d_tag has no entry.       *)
NameFree(d) == ~HasRow(d)

(* A DELETE removes rows, and with them the edges that join them.          *)
RemoveRows(S) ==
  /\ memory' = memory \ S
  /\ edges' = {x \in edges : \A r \in S : r.dtag \notin {x[1], x[2]}}

(* Mutant: the row is created before it has its content.                   *)
AddEmptyRow(d, topic, n, synced) ==
  memory' = memory \cup {[dtag |-> d, topic |-> topic, content |-> NoWrite,
                          synced |-> synced, used |-> FALSE]}

(* Mutant: the row is given what was written last when it is created.      *)
AddLastRow(d, topic, n, synced) ==
  memory' = memory \cup {[dtag |-> d, topic |-> topic, content |-> issued,
                          synced |-> synced, used |-> FALSE]}

(* build_record: a row nobody has accessed yet.                            *)
AddRow(d, topic, n, synced) ==
  memory' = memory \cup {[dtag |-> d, topic |-> topic, content |-> n,
                          synced |-> synced, used |-> FALSE]}

Init ==
  /\ memory = {} /\ edges = {} /\ relay = {}
  /\ stores = {} /\ deletes = {} /\ prune = {}
  /\ syncStep = "idle" /\ batch = {} /\ cur = NoEvent
  /\ aged = {} /\ through = {} /\ dropped = {} /\ deleted = {}
  /\ issued = 0 /\ faults = 0
-----------------------------------------------------------------------------
(***************************************************************************)
(* memory.put: Nomen::store.                                               *)
(***************************************************************************)

(* The d-tag a memory is put under.                                        *)
PutName(q) == BuildDtagFromTier(q.tier, Author, q.topic)

BeginStore(q) ==
  /\ issued < MaxWrite /\ Cardinality(stores) < MaxCall
  /\ issued' = issued + 1
  /\ stores' = stores \cup {[dtag |-> PutName(q), topic |-> q.topic,
                             content |-> issued + 1, step |-> "drop"]}
  /\ UNCHANGED <<memory, edges, relay, deletes, prune, syncVars, aged,
                 dropped, deleted, faults>>

AdvanceStore(c, step) ==
  stores' = (stores \ {c}) \cup {[c EXCEPT !.step = step]}

(* store_memory_direct: DELETE, then CREATE.                               *)
StoreDrop(c) ==
  /\ c.step = "drop"
  /\ RemoveRows({r \in memory : r.dtag = c.dtag})
  /\ dropped' = IF HasRow(c.dtag) THEN dropped \cup {c.dtag} ELSE dropped
  /\ AdvanceStore(c, "create")
  /\ UNCHANGED <<relay, deletes, prune, syncVars, aged, deleted, issued,
                 faults>>

StoreCreate(c) ==
  /\ c.step = "create" /\ NameFree(c.dtag)
  /\ AddRow(c.dtag, c.topic, c.content, FALSE)
  /\ AdvanceStore(c, "publish")
  /\ UNCHANGED <<edges, relay, deletes, prune, syncVars, aged, dropped,
                 deleted, issued, faults>>

(* The error of a refused CREATE ends the call.                            *)
StoreRefused(c) ==
  /\ c.step = "create" /\ ~NameFree(c.dtag)
  /\ stores' = stores \ {c}
  /\ UNCHANGED <<memory, edges, relay, deletes, prune, syncVars, aged,
                 dropped, deleted, issued, faults>>

(* The relay keeps the last event published under a name.                  *)
Replace(d, n) ==
  relay' = {e \in relay : e.dtag # d} \cup {[dtag |-> d, id |-> n]}

(* A rejected or failed publication is only logged, the call returns Ok.   *)
StorePublish(c) ==
  /\ c.step = "publish"
  /\ Replace(c.dtag, c.content) \/ relay' = relay
  /\ stores' = stores \ {c}
  /\ UNCHANGED <<memory, edges, deletes, prune, syncVars, aged, dropped,
                 deleted, issued, faults>>
-----------------------------------------------------------------------------
(***************************************************************************)
(* memory.delete: Nomen::delete.                                           *)
(***************************************************************************)

(* The name memory.delete builds from visibility, scope and topic: it      *)
(* passes the scope of a group on, but not the scope of a circle.          *)
DeleteName(q) ==
  LET context == CASE q.tier.base \in {"personal", "private"} -> Author
                   [] q.tier.base = "group"                   -> q.tier.id
                   [] OTHER                                   -> NoScope
  IN  BuildDtag(q.tier.base, context, q.topic)

(* path is what the rows are looked up by, id the event id when the caller *)
(* gives one, found the event to delete on the relay.                      *)
BeginDelete(path, id) ==
  /\ Cardinality(deletes) < MaxCall
  /\ deletes' = deletes \cup
       {[path |-> path, id |-> id, found |-> NoWrite,
         step |-> IF path = NoTopic THEN "id" ELSE "find_topic"]}
  /\ UNCHANGED <<memory, edges, relay, stores, prune, syncVars, aged,
                 dropped, deleted, issued, faults>>

DeleteRequest ==
  \/ \E q \in Request : BeginDelete(DeleteName(q), NoWrite)
  \/ \E p \in Raw : BeginDelete(p, NoWrite)
  \/ \E n \in 1 .. issued : BeginDelete(NoTopic, n)

AdvanceDelete(c, step, found) ==
  deletes' = (deletes \ {c}) \cup {[c EXCEPT !.step = step, !.found = found]}

EventOf(r) == IF r.synced THEN r.content ELSE NoWrite

(* Rows are looked up by topic, by d-tag only if there are none: every row *)
(* has some nostr_id, a source if not an event.                            *)
LookedUp(c) ==
  {r \in memory : IF c.step = "find_topic" THEN r.topic = c.path
                                           ELSE r.dtag = c.path}

DeleteFind(c) ==
  /\ c.step \in {"find_topic", "find_dtag"}
  /\ \/ \E r \in LookedUp(c) : AdvanceDelete(c, "dtag", EventOf(r))
     \/ /\ LookedUp(c) = {}
        /\ AdvanceDelete(c, IF c.step = "find_topic" THEN "find_dtag"
                                                     ELSE "dtag", NoWrite)
  /\ UNCHANGED <<memory, edges, relay, stores, prune, syncVars, aged,
                 dropped, deleted, issued, faults>>

(* The DELETE statements: by d-tag, by topic, by nostr_id.                 *)
Doomed(c) ==
  {r \in memory : \/ c.step = "dtag" /\ r.dtag = c.path
                  \/ c.step = "topic" /\ r.topic = c.path
                  \/ c.step = "id" /\ EventOf(r) = c.id}

DeleteRows(c) ==
  /\ c.step \in {"dtag", "topic", "id"}
  /\ RemoveRows(Doomed(c))
  /\ dropped' = dropped \cup {r.dtag : r \in Doomed(c)}
  /\ deleted' = deleted \cup {r.content : r \in Doomed(c)}
  /\ AdvanceDelete(c, IF c.step = "dtag" THEN "topic" ELSE "nip09",
                      IF c.step = "id" THEN c.id ELSE c.found)
  /\ UNCHANGED <<relay, stores, prune, syncVars, aged, issued, faults>>

(* The NIP-09 deletion of the event found, if there was one; the relay     *)
(* may not take it. The call returns Ok all the same.                      *)
DeletePublish(c) ==
  /\ c.step = "nip09"
  /\ relay' = relay \/ relay' = {e \in relay : e.id # c.found}
  /\ deletes' = deletes \ {c}
  /\ UNCHANGED <<memory, edges, stores, prune, syncVars, aged, dropped,
                 deleted, issued, faults>>
-----------------------------------------------------------------------------
(***************************************************************************)
(* memory.sync: the memories in Nomen::sync. The order in which the relay  *)
(* sends events is any.                                                    *)
(***************************************************************************)

(* Mutant: a `since` filter at the prune cutoff.                           *)
RecentOnly == {e \in relay : e.id \notin aged}

(* fetch_memories: all the author's memory events, whatever their age.     *)
Fetched == relay

SyncBegin ==
  /\ syncStep = "idle"
  /\ syncStep' = "next" /\ batch' = Fetched
  /\ through' = {} /\ dropped' = {}
  /\ UNCHANGED <<memory, edges, relay, stores, deletes, prune, cur, aged,
                 deleted, issued, faults>>

(* Mutant: the row is looked for by the topic part of its name.            *)
ExistingTopic(e) ==
  {r \in memory : DtagTopic(r.dtag) = DtagTopic(e.dtag)}

(* store_memory: SELECT ... WHERE d_tag, which skips a memory that is      *)
(* there.                                                                  *)
Existing(e) == {r \in memory : r.dtag = e.dtag}

SyncSkip(e) ==
  /\ syncStep = "next" /\ Existing(e) # {}
  /\ batch' = batch \ {e} /\ through' = through \cup {e}
  /\ UNCHANGED <<memory, edges, relay, stores, deletes, prune, syncStep, cur,
                 aged, dropped, deleted, issued, faults>>

SyncMissing(e) ==
  /\ syncStep = "next" /\ Existing(e) = {}
  /\ batch' = batch \ {e} /\ cur' = e
  /\ syncStep' = "drop"
  /\ UNCHANGED <<memory, edges, relay, stores, deletes, prune, through, aged,
                 dropped, deleted, issued, faults>>

SyncDrop ==
  /\ syncStep = "drop"
  /\ RemoveRows({r \in memory : r.dtag = cur.dtag})
  /\ syncStep' = "create"
  /\ UNCHANGED <<relay, stores, deletes, prune, batch, cur, through, aged,
                 dropped, deleted, issued, faults>>

(* Mutant: a synced memory gets its topic from its name.                   *)
TopicInName(d) == DtagTopic(d)

(* parse_event: the topic is parse_d_tag(d), which is d.                   *)
SyncedTopic(d) == d

SyncCreate ==
  /\ syncStep = "create" /\ NameFree(cur.dtag)
  /\ AddRow(cur.dtag, SyncedTopic(cur.dtag), cur.id, TRUE)
  /\ syncStep' = "edges"
  /\ UNCHANGED <<edges, relay, stores, deletes, prune, batch, cur, through,
                 aged, dropped, deleted, issued, faults>>

(* A refused CREATE is counted and logged, the loop goes on.               *)
SyncRefused ==
  /\ syncStep = "create" /\ ~NameFree(cur.dtag)
  /\ syncStep' = "next" /\ through' = through \cup {cur} /\ cur' = NoEvent
  /\ UNCHANGED <<memory, edges, relay, stores, deletes, prune, batch, aged,
                 dropped, deleted, issued, faults>>

(* So is any other error of store_memory, in its SELECT, its DELETE or its *)
(* CREATE: the sync is not through with that event, the rest it stores.    *)
SyncFails ==
  /\ faults < MaxFault /\ faults' = faults + 1
  /\ \/ syncStep = "next" /\ \E e \in batch : batch' = batch \ {e}
     \/ syncStep \in {"drop", "create"} /\ UNCHANGED batch
  /\ syncStep' = "next" /\ cur' = NoEvent
  /\ UNCHANGED <<memory, edges, relay, stores, deletes, prune, through, aged,
                 dropped, deleted, issued>>

(* rebuild_edges_from_tags: the outgoing edges anew, those whose other end *)
(* has a row now. Its queries are one step: each of them only asks whether *)
(* a row is there, and errors are swallowed.                               *)
SyncEdges ==
  /\ syncStep = "edges"
  /\ edges' = {x \in edges : x[1] # cur.dtag}
                \cup {x \in Refs : x[1] = cur.dtag /\ HasRow(x[1]) /\ HasRow(x[2])}
  /\ syncStep' = "next" /\ through' = through \cup {cur} /\ cur' = NoEvent
  /\ UNCHANGED <<memory, relay, stores, deletes, prune, batch, aged, dropped,
                 deleted, issued, faults>>

SyncEnd ==
  /\ syncStep = "next" /\ batch = {}
  /\ syncStep' = "idle"
  /\ UNCHANGED <<memory, edges, relay, stores, deletes, prune, batch, cur,
                 through, aged, dropped, deleted, issued, faults>>
-----------------------------------------------------------------------------
(***************************************************************************)
(* memory.prune: prune_memories selects, then deletes name by name.        *)
(***************************************************************************)
Prunable(r) == ~r.used /\ r.content \in aged

PruneSelect ==
  /\ prune = {}
  /\ prune' = {r.dtag : r \in {q \in memory : Prunable(q)}}
  /\ prune' # {}
  /\ UNCHANGED <<memory, edges, relay, stores, deletes, syncVars, aged,
                 dropped, deleted, issued, faults>>

PruneDelete(d) ==
  /\ prune' = prune \ {d}
  /\ RemoveRows({r \in memory : r.dtag = d})
  /\ dropped' = IF HasRow(d) THEN dropped \cup {d} ELSE dropped
  /\ UNCHANGED <<relay, stores, deletes, syncVars, aged, deleted, issued,
                 faults>>

(* A search counts an access to what it returns.                           *)
Access(r) ==
  /\ ~r.used
  /\ memory' = (memory \ {r}) \cup {[r EXCEPT !.used = TRUE]}
  /\ UNCHANGED <<edges, relay, stores, deletes, prune, syncVars, aged,
                 dropped, deleted, issued, faults>>

GrowOld(n) ==
  /\ n \notin aged
  /\ aged' = aged \cup {n}
  /\ UNCHANGED <<memory, edges, relay, stores, deletes, prune, syncVars,
                 dropped, deleted, issued, faults>>
-----------------------------------------------------------------------------
(***************************************************************************)
(* The other device, and failures.                                         *)
(***************************************************************************)
RemotePublish(d) ==
  /\ issued < MaxWrite
  /\ issued' = issued + 1
  /\ Replace(d, issued + 1)
  /\ UNCHANGED <<memory, edges, stores, deletes, prune, syncVars, aged,
                 dropped, deleted, faults>>

RemoteDelete(e) ==
  /\ relay' = relay \ {e}
  /\ UNCHANGED <<memory, edges, stores, deletes, prune, syncVars, aged,
                 dropped, deleted, issued, faults>>

(* An error or a dropped future ends a call between two steps.             *)
Abort ==
  /\ faults < MaxFault /\ faults' = faults + 1
  /\ \/ /\ \E c \in stores : stores' = stores \ {c}
        /\ UNCHANGED <<deletes, prune, syncVars>>
     \/ /\ \E c \in deletes : deletes' = deletes \ {c}
        /\ UNCHANGED <<stores, prune, syncVars>>
     \/ /\ prune # {} /\ prune' = {}
        /\ UNCHANGED <<stores, deletes, syncVars>>
     \/ /\ syncStep # "idle" /\ syncStep' = "idle"
        /\ batch' = {} /\ cur' = NoEvent
        /\ UNCHANGED <<stores, deletes, prune, through>>
  /\ UNCHANGED <<memory, edges, relay, aged, dropped, deleted, issued>>

(* The process ends: its calls are gone, and the table too if it is lost.  *)
Crash(lost) ==
  /\ faults < MaxFault /\ faults' = faults + 1
  /\ memory' = IF lost THEN {} ELSE memory
  /\ edges' = IF lost THEN {} ELSE edges
  /\ stores' = {} /\ deletes' = {} /\ prune' = {}
  /\ syncStep' = "idle" /\ batch' = {} /\ cur' = NoEvent
  /\ through' = {} /\ dropped' = {}
  /\ UNCHANGED <<relay, aged, deleted, issued>>
-----------------------------------------------------------------------------
StoreStep(c) ==
  StoreDrop(c) \/ StoreCreate(c) \/ StoreRefused(c) \/ StorePublish(c)

DeleteStep(c) == DeleteFind(c) \/ DeleteRows(c) \/ DeletePublish(c)

SyncStep ==
  \/ \E e \in batch : SyncSkip(e) \/ SyncMissing(e)
  \/ SyncDrop \/ SyncCreate \/ SyncRefused \/ SyncEdges \/ SyncEnd

PruneStep == PruneSelect \/ \E d \in prune : PruneDelete(d)

Next ==
  \/ \E q \in Request : BeginStore(q)
  \/ \E c \in stores : StoreStep(c)
  \/ DeleteRequest
  \/ \E c \in deletes : DeleteStep(c)
  \/ SyncBegin \/ SyncStep \/ SyncFails
  \/ PruneStep
  \/ \E r \in memory : Access(r)
  \/ \E n \in 1 .. issued : GrowOld(n)
  \/ \E d \in Remote : RemotePublish(d)
  \/ \E e \in relay : RemoteDelete(e)
  \/ Abort
  \/ \E lost \in BOOLEAN : Crash(lost)

Spec == Init /\ [][Next]_vars

(* Calls in flight proceed, and sync is run again and again.               *)
LiveSpec == Spec /\ WF_vars(SyncBegin) /\ WF_vars(SyncStep)
                 /\ WF_vars(\E c \in stores : StoreStep(c))
-----------------------------------------------------------------------------
(***************************************************************************)
(* Properties.                                                             *)
(***************************************************************************)

(* Types of all variables.                                                 *)
Row == [dtag : Path, topic : Path, content : Write, synced : BOOLEAN,
        used : BOOLEAN]

TypeOK ==
  /\ memory \subseteq Row /\ edges \subseteq Path \X Path
  /\ relay \subseteq Event
  /\ stores \subseteq [dtag : Path, topic : Path, content : Write,
                       step : {"drop", "create", "publish"}]
  /\ deletes \subseteq [path : Path, id : Write \cup {NoWrite},
                        found : Write \cup {NoWrite},
                        step : {"find_topic", "find_dtag", "dtag", "topic",
                                "id", "nip09"}]
  /\ prune \subseteq Path
  /\ syncStep \in {"idle", "next", "drop", "create", "edges"}
  /\ batch \subseteq Event /\ cur \in Event \cup {NoEvent}
  /\ through \subseteq Event
  /\ aged \subseteq Write /\ deleted \subseteq Write
  /\ dropped \subseteq Path
  /\ issued \in 0 .. MaxWrite /\ faults \in 0 .. MaxFault

(* "If local state is lost, nomen sync recovers everything": an event the  *)
(* sync is through with has a row, unless a deletion, a prune or a store   *)
(* removed one since the sync began; stores that get in between, and       *)
(* refused CREATEs, do not make it miss one. (It is not through with an    *)
(* event whose store failed otherwise: that one it logs and misses.)       *)
SyncedHasRow == \A e \in through : HasRow(e.dtag) \/ e.dtag \in dropped

(* memory.delete takes an event off the relay only if the caller gave its  *)
(* id or its whole name: a deletion by bare topic, which rows of several   *)
(* scopes may share, never reaches an event of another scope.              *)
NamedDeletion ==
  [][\A e \in relay \ relay' :
       \/ \E f \in relay' : f.dtag = e.dtag
       \/ RemoteDelete(e)
       \/ \E c \in deletes : c \notin deletes' /\ (c.path = e.dtag \/ c.id = e.id)
    ]_vars

(* Whatever stores, deletions, prunes and crashes run beside it, a memory  *)
(* on the relay gets a row, if sync is run again and again.                *)
OnRelay(d) == \E e \in relay : e.dtag = d

Names == Remote \cup {PutName(q) : q \in Request}

RelayReachesTable == \A d \in Names : OnRelay(d) ~> (HasRow(d) \/ ~OnRelay(d))

(* The table keeps the promise of MemoryVersions: whatever the two queries *)
(* of a store, the stale batch of a sync, deletions by topic and crashes   *)
(* do to each other, readers only find a version under the name it was     *)
(* written under, one of each name, and none that was lost everywhere.     *)
Versions == INSTANCE MemoryVersions WITH
  Name  <- Names,
  shown <- {[dtag |-> r.dtag, id |-> r.content] : r \in memory},
  afoot <- relay \cup batch \cup ({cur} \ {NoEvent})
             \cup {[dtag |-> c.dtag, id |-> c.content] : c \in stores},
  last  <- issued

KeepsVersions == Versions!Spec

(* What the documents say and the code does not do, see README.            *)

(* A deleted memory does not come back: deletion reaches the relay.        *)
DeletedStaysDeleted == \A r \in memory : r.content \notin deleted

(* A newer event replaces an older version: after sync, no row is older    *)
(* than the event sync was through with.                                   *)
SyncedIsCurrent ==
  \A e \in through, r \in memory : r.dtag = e.dtag => r.content >= e.id

(* The graph is rebuilt from the relation tags of the events.              *)
GraphRebuilt ==
  syncStep = "idle" /\ dropped = {} =>
    \A e, f \in through :
      <<e.dtag, f.dtag>> \in Refs => <<e.dtag, f.dtag>> \in edges
=============================================================================
