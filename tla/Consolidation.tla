---------------------------- MODULE Consolidation ----------------------------
(***************************************************************************)
(* The consolidation of collected messages into memories:                  *)
(*   crates/nomen-llm/src/consolidate/{pipeline,two_phase,grouping}.rs     *)
(*   crates/nomen-db/src/{collected,message}.rs                            *)
(*   src/nomen_message.rs, the message half of src/nomen_sync.rs and       *)
(*   delete_old_messages of src/nomen_memory.rs.                           *)
(*                                                                         *)
(* A worker is one call in progress: consolidate(), which fetches a batch  *)
(* of unconsolidated messages, has an LLM extract memories group by group, *)
(* stores them, flags the messages and asks the relay to delete their      *)
(* originals; or the commit() of a session that prepare() wrote earlier,   *)
(* which does the same with memories an outside agent extracted. Every     *)
(* .await on the database, the LLM or the relay is the end of a step, so   *)
(* workers interleave with each other, with the writers of messages, with  *)
(* sync and with the pruning of old messages.                              *)
(*                                                                         *)
(* Not here: message and memory text, importance, entities and graph edges *)
(* (best effort, they never change the control flow), the CLI's dry_run    *)
(* (it returns before the first write).                                    *)
(***************************************************************************)
EXTENDS Naturals, FiniteSets, DTag

CONSTANTS
  Msg,          \* d-tags of collected messages (kind 30100)
  Group,        \* group keys: conversation identity, 4 hour window, scope
  GroupOf,      \* [Msg -> Group]: the group key of a message
  ScopeOf,      \* the scope in a group key: "personal", "group:<chat>", "public"
  TierOf,       \* [Group -> Tier]: the tier the group's memories get
  CreatedAt,    \* [Msg -> Nat]: the order the batch query sorts by
  NostrMsg,     \* the messages of platform "nostr" with an event id
  Topic,        \* topics the LLM or the agent may choose
  Author,       \* author_pubkey of the configuration, "" when there is none
  Worker,       \* consolidate() and commit() calls that may be in flight
  Session,      \* ids of two-phase sessions
  Selection,    \* what the filters and cutoffs of a call may select
  BatchSize, MinMessages,
  RelayOn,      \* is a relay configured?
  EmbedderOn,   \* is an embedder configured (near-duplicate detection)?
  Stored,       \* messages in the table at the start, the relay having
                \* been unreachable when they were stored
  MaxVersion,   \* bound: how often a client stores the same message
  MaxFault,     \* bound: how many calls are cut off or crashes happen
  MaxName,      \* bound: length of the names that grow by near-duplicates
  NoGroup, NoSession

ASSUME MessageAssumption ==
  /\ IsFiniteSet(Msg)
  /\ GroupOf \in [Msg -> Group] /\ TierOf \in [Group -> Tier]
  /\ DOMAIN ScopeOf = Group
  /\ CreatedAt \in [Msg -> Nat]
  /\ NostrMsg \subseteq Msg /\ Stored \subseteq Msg
  /\ Selection \subseteq SUBSET Msg
ASSUME NameAssumption ==
  /\ Topic \subseteq Path \ {<<>>} /\ Author \in Segment
  /\ NoGroup \notin Group /\ NoSession \notin Session
ASSUME ConfigAssumption ==
  /\ BatchSize \in Nat \ {0} /\ MinMessages \in Nat \ {0}
  /\ RelayOn \in BOOLEAN /\ EmbedderOn \in BOOLEAN
  /\ MaxVersion \in Nat \ {0} /\ MaxFault \in Nat /\ MaxName \in Nat

VARIABLES
  \* --- the database ---
  row,        \* table message: [Msg -> [present, version, consolidated]]
  memory,     \* table memory: set of [dtag, from], from = messages told in it
  session,    \* table consolidation_session: [Session -> [status, batch]]
  overdue,    \* sessions whose expires_at has passed
  \* --- the relay ---
  relayMsg,   \* [Msg -> version of the kind 30100 event, 0 if none]
  relayMem,   \* kind 31234 events: [dtag, from], as in memory
  nip09,      \* messages whose native event got a NIP-09 deletion
  \* --- calls in flight ---
  upserts,    \* store_collected_event calls: [msg, version, step]
  pc,         \* [Worker -> where the call is]
  job,        \* [Worker -> the session it commits, NoSession for a run]
  seen,       \* [Worker -> [Msg -> version it fetched, 0 if not in batch]]
  todo,       \* [Worker -> groups it has not begun]
  cur,        \* [Worker -> group whose memories it is storing]
  mems,       \* [Worker -> topics extracted from cur, not stored yet]
  put,        \* [Worker -> the memory row it is about to write]
  consumed,   \* [Worker -> all_consumed_msg_ids]
  \* --- history and bounds ---
  issued,     \* [Msg -> versions clients have stored so far]
  entered,    \* messages that ever had a row
  told,       \* messages whose group went through extraction and storage
  named,      \* names that ever had a memory row
  cut,        \* names whose store was cut off between its two queries
  faults

msgVars    == <<row, relayMsg, upserts, issued, entered>>
memVars    == <<memory, relayMem, named, cut>>
sessVars   == <<session, overdue>>
workVars   == <<pc, job, seen, todo, cur, mems, put, consumed>>
vars == <<msgVars, memVars, sessVars, workVars, nip09, told, faults>>

Version == 0 .. MaxVersion
NoRow   == [present |-> FALSE, version |-> 0, consolidated |-> FALSE]
Batch   == [Msg -> Version]
NoBatch == [m \in Msg |-> 0]
NoPut   == [dtag |-> <<>>, from |-> {}, near |-> FALSE]

PC == {"idle", "expire", "groups", "memories", "drop", "create", "publish",
       "delete", "status"}

InBatch(b)        == {m \in Msg : b[m] > 0}
GroupMsgs(b, g)   == {m \in InBatch(b) : GroupOf[m] = g}

(* Mutant: a group must exceed min_messages.                               *)
OverfullGroups(b) ==
  {g \in Group : Cardinality(GroupMsgs(b, g)) > MinMessages}

(* Only groups of at least min_messages are worked on.                     *)
FullGroups(b) == {g \in Group : Cardinality(GroupMsgs(b, g)) >= MinMessages}

(* The name a memory is looked up by, and the name store_direct, which     *)
(* takes that whole name for the topic, stores it under.                   *)
LookupName(g, topic) == BuildDtagFromTier(TierOf[g], Author, topic)

StoreName(g, name) == BuildDtagFromTier(TierOf[g], NoScope, name)

Init ==
  /\ row = [m \in Msg |-> IF m \in Stored
                           THEN [NoRow EXCEPT !.present = TRUE, !.version = 1]
                           ELSE NoRow]
  /\ memory = {} /\ relayMem = {} /\ named = {} /\ cut = {}
  /\ session = [s \in Session |-> [status |-> "none", batch |-> NoBatch]]
  /\ overdue = {}
  /\ relayMsg = [m \in Msg |-> 0]
  /\ issued = [m \in Msg |-> IF m \in Stored THEN 1 ELSE 0]
  /\ upserts = {} /\ entered = Stored
  /\ nip09 = {} /\ told = {} /\ faults = 0
  /\ pc = [w \in Worker |-> "idle"]
  /\ job = [w \in Worker |-> NoSession]
  /\ seen = [w \in Worker |-> NoBatch]
  /\ todo = [w \in Worker |-> {}]
  /\ cur = [w \in Worker |-> NoGroup]
  /\ mems = [w \in Worker |-> {}]
  /\ put = [w \in Worker |-> NoPut]
  /\ consumed = [w \in Worker |-> {}]
-----------------------------------------------------------------------------
(***************************************************************************)
(* Messages: message.store, sync, message deletion.                        *)
(***************************************************************************)

(* Nomen::store_collected_event, up to the database: sign and publish      *)
(* first; a relay failure is only logged.                                  *)
Submit(m) ==
  /\ issued[m] < MaxVersion
  /\ issued' = [issued EXCEPT ![m] = @ + 1]
  /\ upserts' = upserts \cup
                  {[msg |-> m, version |-> issued[m] + 1, step |-> "select"]}
  /\ \/ RelayOn /\ relayMsg' = [relayMsg EXCEPT ![m] = issued[m] + 1]
     \/ UNCHANGED relayMsg
  /\ UNCHANGED <<row, entered, memVars, sessVars, workVars, nip09, told, faults>>

(* Nomen::sync, messages: every kind 30100 event of the relay is stored,   *)
(* whatever the table holds and whichever is newer.                        *)
SyncMessages ==
  /\ RelayOn
  /\ \E m \in Msg : relayMsg[m] > 0
  /\ upserts' = upserts \cup
       {[msg |-> m, version |-> relayMsg[m], step |-> "select"] :
          m \in {x \in Msg : relayMsg[x] > 0}}
  /\ UNCHANGED <<row, relayMsg, issued, entered, memVars, sessVars, workVars,
                 nip09, told, faults>>

(* db store_collected_event, the SELECT: does the d-tag have a row?        *)
UpsertSelect(u) ==
  /\ u \in upserts /\ u.step = "select"
  /\ upserts' = (upserts \ {u}) \cup
       {[u EXCEPT !.step = IF row[u.msg].present THEN "update" ELSE "create"]}
  /\ UNCHANGED <<row, relayMsg, issued, entered, memVars, sessVars, workVars,
                 nip09, told, faults>>

(* Mutant: the UPDATE writes the whole new record.                         *)
ReplacedRow(r, version) ==
  [present |-> TRUE, version |-> version, consolidated |-> FALSE]

(* The UPDATE overwrites every column but `consolidated`.                  *)
UpdatedRow(r, version) == [r EXCEPT !.version = version]

(* It matches nothing when the row was deleted since the SELECT.           *)
UpsertUpdate(u) ==
  /\ u \in upserts /\ u.step = "update"
  /\ upserts' = upserts \ {u}
  /\ row' = IF row[u.msg].present
            THEN [row EXCEPT ![u.msg] = UpdatedRow(@, u.version)]
            ELSE row
  /\ UNCHANGED <<relayMsg, issued, entered, memVars, sessVars, workVars, nip09,
                 told, faults>>

(* The CREATE fails on the UNIQUE index when another call created the row  *)
(* since the SELECT.                                                       *)
UpsertCreate(u) ==
  /\ u \in upserts /\ u.step = "create"
  /\ upserts' = upserts \ {u}
  /\ row' = IF row[u.msg].present
            THEN row
            ELSE [row EXCEPT ![u.msg] = [present |-> TRUE,
                                         version |-> u.version,
                                         consolidated |-> FALSE]]
  /\ entered' = entered \cup {u.msg}
  /\ UNCHANGED <<relayMsg, issued, memVars, sessVars, workVars, nip09, told,
                 faults>>

(* Mutant: every old row goes.                                             *)
PrunableByAge(selected) == {m \in selected : row[m].present}

(* delete_collected_before: old rows go, but only consolidated ones.       *)
Prunable(selected) ==
  {m \in selected : row[m].present /\ row[m].consolidated}

PruneMessages(selected) ==
  /\ Prunable(selected) # {}
  /\ row' = [m \in Msg |-> IF m \in Prunable(selected) THEN NoRow ELSE row[m]]
  /\ UNCHANGED <<relayMsg, upserts, issued, entered, memVars, sessVars,
                 workVars, nip09, told, faults>>
-----------------------------------------------------------------------------
(***************************************************************************)
(* Fetching a batch: consolidate() and prepare().                          *)
(***************************************************************************)

(* get_unconsolidated_collected: the oldest batch_size unconsolidated rows *)
(* among those the filter selects; equal times in any order.               *)
Candidates(selected) ==
  {m \in selected : row[m].present /\ ~row[m].consolidated}

Batches(selected) ==
  {B \in SUBSET Candidates(selected) :
     /\ Cardinality(B) <= BatchSize
     /\ B # Candidates(selected) => Cardinality(B) = BatchSize
     /\ \A m \in B, n \in Candidates(selected) \ B : CreatedAt[m] <= CreatedAt[n]}

(* What the call remembers of its batch.                                   *)
Snapshot(B) == [m \in Msg |-> IF m \in B THEN row[m].version ELSE 0]

(* consolidate() up to the loop over the groups. It returns at once when   *)
(* fewer than min_messages came back.                                      *)
FetchRun(w, selected) ==
  /\ pc[w] = "idle"
  /\ \E B \in Batches(selected) :
       /\ Cardinality(B) >= MinMessages
       /\ seen' = [seen EXCEPT ![w] = Snapshot(B)]
       /\ todo' = [todo EXCEPT ![w] = FullGroups(Snapshot(B))]
  /\ pc' = [pc EXCEPT ![w] = "groups"]
  /\ job' = [job EXCEPT ![w] = NoSession]
  /\ UNCHANGED <<cur, mems, put, consumed, msgVars, memVars, sessVars, nip09,
                 told, faults>>

(* prepare(), its first query: cleanup_expired_consolidation_sessions.     *)
PrepareCleanup ==
  LET expired == {s \in overdue : session[s].status = "pending"}
  IN  /\ expired # {}
      /\ session' = [s \in Session |->
                       IF s \in expired
                       THEN [session[s] EXCEPT !.status = "expired"]
                       ELSE session[s]]
      /\ UNCHANGED <<overdue, msgVars, memVars, workVars, nip09, told, faults>>

(* prepare(), the rest: the messages of the full groups become the batches *)
(* of a new session. Nothing reserves them. (The session is written one    *)
(* query after the fetch; until the caller has its id nobody reads it, so  *)
(* one step shows the same behaviours.)                                    *)
Prepare(s, selected) ==
  /\ session[s].status = "none"
  /\ \E B \in Batches(selected) :
       /\ FullGroups(Snapshot(B)) # {}
       /\ session' = [session EXCEPT ![s] =
            [status |-> "pending",
             batch  |-> Snapshot({m \in B : GroupOf[m] \in FullGroups(Snapshot(B))})]]
  /\ UNCHANGED <<overdue, msgVars, memVars, workVars, nip09, told, faults>>

(* ttl_minutes have gone by since the session was written.                 *)
SessionOverdue(s) ==
  /\ session[s].status # "none" /\ s \notin overdue
  /\ overdue' = overdue \cup {s}
  /\ UNCHANGED <<session, msgVars, memVars, workVars, nip09, told, faults>>

(* commit(), the validation: a session that is not pending is refused, an  *)
(* overdue one is set to expired in a second query, and the status is not  *)
(* looked at again. The caller sends extractions for any of the batches.   *)
BeginCommit(w, s) ==
  /\ pc[w] = "idle"
  /\ session[s].status = "pending"
  /\ job' = [job EXCEPT ![w] = s]
  /\ IF s \in overdue
     THEN /\ pc' = [pc EXCEPT ![w] = "expire"]
          /\ UNCHANGED <<seen, todo>>
     ELSE /\ pc' = [pc EXCEPT ![w] = "groups"]
          /\ seen' = [seen EXCEPT ![w] = session[s].batch]
          /\ \E chosen \in SUBSET FullGroups(session[s].batch) :
               todo' = [todo EXCEPT ![w] = chosen]
  /\ UNCHANGED <<cur, mems, put, consumed, msgVars, memVars, sessVars, nip09,
                 told, faults>>

(* The state of a worker whose call is over.                               *)
Finish(w) ==
  /\ pc' = [pc EXCEPT ![w] = "idle"]
  /\ job' = [job EXCEPT ![w] = NoSession]
  /\ seen' = [seen EXCEPT ![w] = NoBatch]
  /\ todo' = [todo EXCEPT ![w] = {}]
  /\ cur' = [cur EXCEPT ![w] = NoGroup]
  /\ mems' = [mems EXCEPT ![w] = {}]
  /\ put' = [put EXCEPT ![w] = NoPut]
  /\ consumed' = [consumed EXCEPT ![w] = {}]

(* update_consolidation_session_status: unconditional.                     *)
SetStatus(s, status) == session' = [session EXCEPT ![s].status = status]

ExpireCommit(w) ==
  /\ pc[w] = "expire"
  /\ SetStatus(job[w], "expired")
  /\ Finish(w)
  /\ UNCHANGED <<overdue, msgVars, memVars, nip09, told, faults>>
-----------------------------------------------------------------------------
(***************************************************************************)
(* The loop over the groups, shared by consolidate() and commit().         *)
(***************************************************************************)

IsRun(w) == job[w] = NoSession

(* The LLM, or the agent, names the memories it found; possibly none.      *)
Extract(w, g, topics) ==
  /\ pc[w] = "groups" /\ g \in todo[w]
  /\ todo' = [todo EXCEPT ![w] = @ \ {g}]
  /\ cur' = [cur EXCEPT ![w] = g]
  /\ mems' = [mems EXCEPT ![w] = topics]
  /\ pc' = [pc EXCEPT ![w] = "memories"]
  /\ UNCHANGED <<job, seen, put, consumed, msgVars, memVars, sessVars, nip09,
                 told, faults>>

(* Mutant: the group's list of messages is added as one element.           *)
NestedPut(w, name, kept, near) ==
  [dtag |-> StoreName(cur[w], name),
   from |-> {GroupMsgs(seen[w], cur[w])} \cup kept,
   near |-> near]

(* The row: its content tells the group's messages and what was merged.    *)
PutFor(w, name, kept, near) ==
  [dtag |-> StoreName(cur[w], name),
   from |-> GroupMsgs(seen[w], cur[w]) \cup kept,
   near |-> near]

(* What the next row for a topic will hold. A run that finds a row under   *)
(* the lookup name has the LLM merge that row's text with the new          *)
(* messages, and keeps the extracted text when the merge fails; a commit   *)
(* only counts the find. Without a find, a run with an embedder may take   *)
(* any row for a near-duplicate and merge with it, under that row's name.  *)
Puts(w, topic) ==
  LET name  == LookupName(cur[w], topic)
      found == {r \in memory : r.dtag = name}
      merge == IF IsRun(w) THEN found ELSE {}
      near  == IF IsRun(w) /\ EmbedderOn /\ found = {}
               THEN {r \in memory : Len(r.dtag) < MaxName} ELSE {}
  IN  {PutFor(w, name, {}, FALSE)}
        \cup {PutFor(w, name, r.from, FALSE) : r \in merge}
        \cup {PutFor(w, r.dtag, r.from, TRUE) : r \in near}

PlanMemory(w, topic) ==
  /\ pc[w] = "memories" /\ topic \in mems[w]
  /\ mems' = [mems EXCEPT ![w] = @ \ {topic}]
  /\ \E p \in Puts(w, topic) : put' = [put EXCEPT ![w] = p]
  /\ pc' = [pc EXCEPT ![w] = "drop"]
  /\ UNCHANGED <<job, seen, todo, cur, consumed, msgVars, memVars, sessVars,
                 nip09, told, faults>>

(* Mutant: DELETE by the end of the name, whatever its tier.               *)
SameTopic(d) ==
  {r \in memory : r.dtag[Len(r.dtag)] = d[Len(d)]}

RowsNamed(d) == {r \in memory : r.dtag = d}

(* store_memory_direct, first query: DELETE the row of the d-tag.          *)
DropRow(w) ==
  /\ pc[w] = "drop"
  /\ memory' = memory \ RowsNamed(put[w].dtag)
  /\ pc' = [pc EXCEPT ![w] = "create"]
  /\ UNCHANGED <<job, seen, todo, cur, mems, put, consumed, relayMem, named,
                 cut, msgVars, sessVars, nip09, told, faults>>

NameFree(w) == RowsNamed(put[w].dtag) = {}

(* Mutant: a merged near-duplicate is published like any other memory.     *)
PublishesAll(w) == RelayOn

(* A near-duplicate is not published, nor is anything without a relay.     *)
Publishes(w) == RelayOn /\ ~put[w].near

(* store_memory_direct, second query: CREATE. The UNIQUE index on d_tag    *)
(* refuses it when another call created the row in between, and the error  *)
(* ends the whole call.                                                    *)
CreateRow(w) ==
  /\ pc[w] = "create"
  /\ NameFree(w)
  /\ memory' = memory \cup {[dtag |-> put[w].dtag, from |-> put[w].from]}
  /\ named' = named \cup {put[w].dtag}
  /\ IF Publishes(w)
     THEN pc' = [pc EXCEPT ![w] = "publish"] /\ UNCHANGED put
     ELSE pc' = [pc EXCEPT ![w] = "memories"] /\ put' = [put EXCEPT ![w] = NoPut]
  /\ UNCHANGED <<job, seen, todo, cur, mems, consumed, relayMem, cut,
                 msgVars, sessVars, nip09, told, faults>>

CreateRefused(w) ==
  /\ pc[w] = "create"
  /\ ~NameFree(w)
  /\ Finish(w)
  /\ UNCHANGED <<msgVars, memVars, sessVars, nip09, told, faults>>

(* A run publishes the kind 31234 event, which replaces the one of its     *)
(* name. RelayManager::publish is Ok also when no relay accepted it, and   *)
(* its failure is only logged; a commit counts the memory as published and *)
(* sends nothing.                                                          *)
PublishMemory(w) ==
  /\ pc[w] = "publish"
  /\ \/ /\ IsRun(w)
        /\ relayMem' = {e \in relayMem : e.dtag # put[w].dtag}
                         \cup {[dtag |-> put[w].dtag, from |-> put[w].from]}
     \/ relayMem' = relayMem
  /\ put' = [put EXCEPT ![w] = NoPut]
  /\ pc' = [pc EXCEPT ![w] = "memories"]
  /\ UNCHANGED <<job, seen, todo, cur, mems, consumed, memory, named, cut,
                 msgVars, sessVars, nip09, told, faults>>

(* All memories of the group are stored: its messages are consumed.        *)
EndGroup(w) ==
  /\ pc[w] = "memories" /\ mems[w] = {}
  /\ consumed' = [consumed EXCEPT ![w] = @ \cup GroupMsgs(seen[w], cur[w])]
  /\ told' = told \cup GroupMsgs(seen[w], cur[w])
  /\ cur' = [cur EXCEPT ![w] = NoGroup]
  /\ pc' = [pc EXCEPT ![w] = "groups"]
  /\ UNCHANGED <<job, seen, todo, mems, put, msgVars, memVars, sessVars, nip09,
                 faults>>
-----------------------------------------------------------------------------
(***************************************************************************)
(* After the loop.                                                         *)
(***************************************************************************)

(* What follows the marking: NIP-09 deletions for a run with a relay, the  *)
(* session's status for a commit.                                          *)
AfterMark(w) ==
  IF ~IsRun(w)
  THEN /\ pc' = [pc EXCEPT ![w] = "status"]
       /\ UNCHANGED <<job, seen, todo, cur, mems, put, consumed>>
  ELSE IF RelayOn
  THEN /\ pc' = [pc EXCEPT ![w] = "delete"]
       /\ UNCHANGED <<job, seen, todo, cur, mems, put, consumed>>
  ELSE Finish(w)

(* Mutant: everything fetched is marked.                                   *)
WholeBatch(w) == InBatch(seen[w])

MarkTargets(w) == consumed[w]

(* mark_collected_consolidated: by d-tag, whatever the rows hold by now.   *)
Mark(w) ==
  /\ pc[w] = "groups" /\ todo[w] = {}
  /\ row' = [m \in Msg |->
               IF m \in MarkTargets(w) /\ row[m].present
               THEN [row[m] EXCEPT !.consolidated = TRUE]
               ELSE row[m]]
  /\ AfterMark(w)
  /\ UNCHANGED <<relayMsg, upserts, issued, entered, memVars, sessVars, nip09,
                 told, faults>>

(* commit() ignores an error of the marking (`.ok()`) and goes on.         *)
MarkFailsInCommit(w) ==
  /\ pc[w] = "groups" /\ todo[w] = {} /\ ~IsRun(w)
  /\ faults < MaxFault /\ faults' = faults + 1
  /\ AfterMark(w)
  /\ UNCHANGED <<msgVars, memVars, sessVars, nip09, told>>

(* publish_deletion_events: one kind 5 event for every fetched message of  *)
(* platform "nostr" (at most 50 to an event; the batches here fit in one). *)
(* A relay failure is only logged.                                         *)
DeletionTargets(w) == NostrMsg \cap InBatch(seen[w])

PublishDeletions(w) ==
  /\ pc[w] = "delete"
  /\ \E targets \in {DeletionTargets(w), {}} : nip09' = nip09 \cup targets
  /\ Finish(w)
  /\ UNCHANGED <<msgVars, memVars, sessVars, told, faults>>

CommitStatus(w) ==
  /\ pc[w] = "status"
  /\ SetStatus(job[w], "committed")
  /\ Finish(w)
  /\ UNCHANGED <<overdue, msgVars, memVars, nip09, told, faults>>
-----------------------------------------------------------------------------
(***************************************************************************)
(* Failures and neighbours.                                                *)
(***************************************************************************)

(* The names calls have deleted a row of, or none, and not created it.     *)
BetweenQueries(W) == {put[w].dtag : w \in {v \in W : pc[v] = "create"}}

(* A call ends early: the LLM or a query fails (`?`), or its future is     *)
(* dropped. What it wrote so far stays.                                    *)
Abort(w) ==
  /\ pc[w] # "idle"
  /\ faults < MaxFault /\ faults' = faults + 1
  /\ cut' = cut \cup BetweenQueries({w})
  /\ Finish(w)
  /\ UNCHANGED <<memory, relayMem, named, msgVars, sessVars, nip09, told>>

(* The process dies: every call in flight is gone, the tables remain.      *)
Crash ==
  /\ faults < MaxFault /\ faults' = faults + 1
  /\ \/ upserts # {}
     \/ \E w \in Worker : pc[w] # "idle"
  /\ cut' = cut \cup BetweenQueries(Worker)
  /\ upserts' = {}
  /\ pc' = [w \in Worker |-> "idle"]
  /\ job' = [w \in Worker |-> NoSession]
  /\ seen' = [w \in Worker |-> NoBatch]
  /\ todo' = [w \in Worker |-> {}]
  /\ cur' = [w \in Worker |-> NoGroup]
  /\ mems' = [w \in Worker |-> {}]
  /\ put' = [w \in Worker |-> NoPut]
  /\ consumed' = [w \in Worker |-> {}]
  /\ UNCHANGED <<row, relayMsg, issued, entered, memory, relayMem, named,
                 sessVars, nip09, told>>

(* A memory of the same topic is stored through the API (Nomen::store, of  *)
(* which only the row matters here): the one way a lookup finds a row.     *)
ApiStore(g, topic) ==
  LET name == LookupName(g, topic)
  IN  /\ memory' = (memory \ RowsNamed(name)) \cup {[dtag |-> name, from |-> {}]}
      /\ named' = named \cup {name}
      /\ UNCHANGED <<relayMem, cut, msgVars, sessVars, workVars, nip09, told,
                     faults>>

MessageNext ==
  \/ \E m \in Msg : Submit(m)
  \/ SyncMessages
  \/ \E u \in upserts : UpsertSelect(u) \/ UpsertUpdate(u) \/ UpsertCreate(u)
  \/ \E selected \in Selection : PruneMessages(selected)

SessionNext ==
  \/ PrepareCleanup
  \/ \E s \in Session : SessionOverdue(s)
  \/ \E s \in Session, selected \in Selection : Prepare(s, selected)

WorkerStep(w) ==
  \/ ExpireCommit(w)
  \/ \E g \in Group, topics \in SUBSET Topic : Extract(w, g, topics)
  \/ \E topic \in Topic : PlanMemory(w, topic)
  \/ DropRow(w) \/ CreateRow(w) \/ CreateRefused(w) \/ PublishMemory(w)
  \/ EndGroup(w) \/ Mark(w) \/ PublishDeletions(w) \/ CommitStatus(w)

WorkerNext ==
  \E w \in Worker :
    \/ \E selected \in Selection : FetchRun(w, selected)
    \/ \E s \in Session : BeginCommit(w, s)
    \/ WorkerStep(w)
    \/ MarkFailsInCommit(w)
    \/ Abort(w)

Next ==
  \/ MessageNext
  \/ SessionNext
  \/ WorkerNext
  \/ Crash
  \/ \E g \in Group, topic \in Topic : ApiStore(g, topic)

Spec == Init /\ [][Next]_vars

(* Fairness: tasks of the runtime advance, and somebody keeps calling      *)
(* consolidate (the interval_hours of the configuration; nothing in the    *)
(* code calls it by itself). Calls fail at most MaxFault times.            *)
Fairness ==
  \A w \in Worker : WF_vars(WorkerStep(w)) /\ WF_vars(FetchRun(w, Msg))

LiveSpec == Spec /\ Fairness
-----------------------------------------------------------------------------
(***************************************************************************)
(* Properties.                                                             *)
(***************************************************************************)

(* Types of all variables.                                                 *)
Upsert == [msg : Msg, version : Version, step : {"select", "update", "create"}]

TypeOK ==
  /\ row \in [Msg -> [present : BOOLEAN, version : Version,
                      consolidated : BOOLEAN]]
  /\ memory \subseteq [dtag : Path, from : SUBSET Msg]
  /\ session \in [Session -> [status : {"none", "pending", "expired", "committed"},
                              batch : Batch]]
  /\ overdue \subseteq Session
  /\ relayMsg \in [Msg -> Version] /\ issued \in [Msg -> Version]
  /\ relayMem \subseteq [dtag : Path, from : SUBSET Msg]
  /\ named \subseteq Path /\ cut \subseteq Path
  /\ nip09 \subseteq Msg /\ entered \subseteq Msg /\ told \subseteq Msg
  /\ upserts \subseteq Upsert
  /\ pc \in [Worker -> PC]
  /\ job \in [Worker -> Session \cup {NoSession}]
  /\ seen \in [Worker -> Batch]
  /\ todo \in [Worker -> SUBSET Group]
  /\ cur \in [Worker -> Group \cup {NoGroup}]
  /\ mems \in [Worker -> SUBSET Topic]
  /\ put \in [Worker -> [dtag : Path, from : SUBSET Msg, near : BOOLEAN]]
  /\ consumed \in [Worker -> SUBSET Msg]
  /\ faults \in 0 .. MaxFault

(* At least once: a message carries the `consolidated` flag only after a   *)
(* call took its whole group through extraction and stored every memory    *)
(* that came of it, whatever failed, crashed or ran beside it. A flag      *)
(* without that would hide the message from every later run.               *)
ConsolidatedWasTold == \A m \in Msg : row[m].consolidated => m \in told

(* Pruning, crashes and the deletion of originals never lose a message     *)
(* before consolidation had it: once it was in the table it stays there    *)
(* until its group was told.                                               *)
NothingLost == \A m \in entered : row[m].present \/ m \in told

(* What the next property needs of names: no name a memory is looked up by *)
(* is another such name with tiers in front of it, which is what rows are  *)
(* stored under. Topics like "group/<chat>/conversation" of the fallback   *)
(* in grouping.rs are none. The tiers grouping derives have no id.         *)
Wraps(d, name) ==
  \E n \in 1 .. Len(d) :
    /\ Len(d) = n + Len(name)
    /\ \A i \in 1 .. n : d[i] \in TierPrefix
    /\ \A i \in 1 .. Len(name) : d[n + i] = name[i]

LookupNames == {LookupName(g, t) : g \in Group, t \in Topic}

PlainNames ==
  /\ \A d, name \in LookupNames : ~Wraps(d, name)
  /\ \A g \in Group : TierOf[g].id = NoScope

(* Cross-group guard (pipeline.rs, grouping.rs): a chat's content never    *)
(* gets onto the relay in the memory of another chat or scope. The merging *)
(* of near-duplicates does mix scopes in the local table; runs look rows   *)
(* up, merge with them and publish what they made, and still what is       *)
(* published tells messages of one scope.                                  *)
OneScope(from) ==
  \A m, n \in from : ScopeOf[GroupOf[m]] = ScopeOf[GroupOf[n]]

PublishedInScope == \A e \in relayMem : OneScope(e.from)

(* A store is a DELETE and a CREATE, and runs, commits and the API store   *)
(* the same names at once: a name that ever had a row has one, or a call   *)
(* is about to create it, or one was cut off just there. A CREATE that is  *)
(* refused loses nothing.                                                  *)
RowsSurvive ==
  named \subseteq {r.dtag : r \in memory} \cup BetweenQueries(Worker) \cup cut

(* Storing a message again, by a client or by sync, never makes a          *)
(* consolidated row unconsolidated: only deletion takes the flag away.     *)
FlagKept ==
  [][\A m \in Msg : row[m].consolidated /\ row'[m].present
                       => row'[m].consolidated]_vars

(* A group that min_messages waiting messages fill does not wait forever.  *)
Waiting(g) ==
  Cardinality({m \in Candidates(Msg) : GroupOf[m] = g}) >= MinMessages

FullGroupsDrain == \A g \in Group : Waiting(g) ~> ~Waiting(g)

(* The message table keeps the promise of MessageLedger: open and closed   *)
(* rows, closing after telling, removal of closed rows only.               *)
Ledger == INSTANCE MessageLedger WITH
            Held   <- Stored,
            open   <- {m \in Msg : row[m].present /\ ~row[m].consolidated},
            closed <- {m \in Msg : row[m].present /\ row[m].consolidated},
            told   <- told

KeepsLedger == Ledger!Spec

(* What the documents say and the code does not do, see README.            *)

(* NIP-09 deletions are published for consumed messages only.              *)
OnlyConsumedDeleted == \A m \in nip09 : m \in told
=============================================================================
