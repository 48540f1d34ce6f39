# A TLA+ verification of nomen

nomen is a memory for agents. Messages from chats are collected, consolidated
by an LLM into memories, and both are kept as Nostr events on a relay, which is
the source of truth, and as rows of a local SurrealDB, which is a cache. This
directory holds models of its core in TLA+, the TLC runs that check them on
small instances, and TLAPS proofs of what matters most. Paths below are
relative to the repository.

## 1. The system

| Component | State | Operations | Talks to |
|---|---|---|---|
| Collected messages (`nomen-db/src/collected.rs`, `src/nomen_message.rs`) | table `message`: one row per d-tag, with `consolidated` | store (publish, SELECT, UPDATE or CREATE), batch query, mark, delete old | relay, consolidation, sync |
| Consolidation (`nomen-llm/src/consolidate/pipeline.rs`, `grouping.rs`) | none between calls; a call keeps its batch, groups and consumed ids | fetch, group, extract, look up, merge, store, publish, mark, NIP-09 | LLM, memory and message tables, relay |
| Two-phase sessions (`two_phase.rs`, `nomen-db/src/message.rs`) | table `consolidation_session`: status, batches, expiry | prepare, commit, cleanup of expired ones | an agent that extracts, the tables |
| Memory names (`nomen-core/src/memory.rs`) | none | build and take apart d-tags | everything |
| Memory store (`nomen-db/src/memory.rs`, `src/nomen_memory.rs`) | table `memory`, unique by d-tag | store, delete, list, prune | relay, graph edges |
| Sync (`src/nomen_sync.rs`) | none | memories, messages and groups from relay to tables; embeddings; edges | relay, all tables |
| Graph (`nomen-db/src/graph.rs`) | edge tables | consolidated_from, references | memory store |
| Groups (`nomen-db/src/groups.rs`, `src/nomen_admin.rs`) | table `nomen_group`, a copy loaded at start | create, members, sync | relay |
| Filesystem daemon (`src/fs.rs`) | files, `state.json`, conflict copies; the daemon's queues | pull, push, poll, rename, orphans | dispatch, watcher, editors |
| Socket server (`nomen-transport/src/socket.rs`) | connection slots, per-connection identity, subscriptions, broadcast channel | accept, authenticate, dispatch, forward | dispatch |
| Wire client (`nomen-wire/src/client.rs`) | pending requests, reconnecting handle | request, time out, subscribe, reconnect | socket server |
| CVM server (`nomen-transport/src/cvm.rs`) | rate limiter | ACL, limit, handle | dispatch |
| MCP, HTTP, serve (`mcp.rs`, `http.rs`, `src/cli/server.rs`) | the stdio session | let requests through, run the loops | dispatch |
| Cluster fusion (`nomen-llm/src/cluster.rs`) | the list a run began with | list, synthesize, store, draw edges | LLM, memory and edge tables |
| Search (`nomen-db/src/search_engine.rs`, `search.rs`, `graph.rs`) | the results of a search under way | filter, expand, merge | memory and edge tables |
| Access rules, entities, embeddings, LLM, media, CLI, web | no state of their own that others race on | | |

What is hard in it: every `.await` on the database, the LLM or the relay lets
other calls in; nothing is transactional (a store of a memory is a DELETE and a
CREATE, a store of a message a SELECT and an UPDATE or CREATE); nothing is
reserved (two consolidations process the same messages); a call may stop
anywhere (LLM error, dropped future, crash) and leaves what it wrote; the relay
may refuse, and later replays what it has; sessions expire while committed.
`PROJECT.json` lists the hazards, each with its line and the properties that
watch it.

What makes each component correct:

- *messages*: no message disappears before consolidation had it; replays do not
  reopen it;
- *consolidation*: the flag means processed; nothing published mixes groups of
  different scope; no store leaves a name without its row; a full group is
  consolidated eventually; merging keeps what was there;
- *sessions*: a stale or twice committed session does no harm;
- *names*: what is stored is found again; taking apart undoes building;
- *memory store and sync*: sync misses nothing the relay has;
  a deletion reaches what it names and nothing else; deleted stays deleted; the
  newer version wins; the graph is that of the relation tags;
- *daemon*: an edit is pushed, kept as a conflict or still in the file, never
  lost; files follow memories;
- *server and client*: an answer reaches its request; every request ends;
  events reach subscribers; slots are returned;
- *groups and requests*: a group has the members its calls leave it with; calls
  end; a client is limited by its own requests;
- *fusion and search*: what was said to few never reaches a memory, a summary or
  an answer that more may read; a full cluster gets its summary; an answer names
  a memory once.

## 2. The modules

| Module | Models |
|---|---|
| `DTag` | memory names as sequences of segments |
| `MessageLedger` | abstract: what happens to a message (open, told, closed, removed) |
| `MemoryVersions` | abstract: which versions of memories readers find |
| `RemoteCalls` | abstract: what becomes of the calls of a client |
| `Consolidation` | message store, `consolidate()`, `prepare()`, `commit()`, sync of messages, pruning, crashes; implements `MessageLedger` |
| `MemoryStore` | put, delete, sync of memories, prune, accesses, another device, crashes; implements `MemoryVersions` |
| `FsSync` | directory, sync state, the commands and the daemon; editors and other clients |
| `SocketServer` | accept loop, connection tasks, broadcast channel |
| `WireClient` | client library over `SocketServer`: composes both; implements `RemoteCalls` |
| `Groups` | the group table under calls and sync |
| `Requests` | transports, session, CVM loop and rate limiter in front of `Groups` |
| `Grouping` | pure: which messages are consolidated together, and their tier |
| `Fusion` | consolidated memories, entities, puts, cluster runs and their edges; uses `Grouping` and `DTag` |
| `Search` | a search over the rows and edges of `Fusion` |
| `MC*` | small instances |
| `*Proofs` | theorems |

The lines of the code each definition stands for are in `map` in `PROJECT.json`.

`Consolidation` and `MemoryStore` share `DTag` and describe the same table of
memories from two sides: the first has what consolidation does to it and treats
everything else that stores as `ApiStore`, the second has every other writer.
Both are open in this sense: a property of one of them is about the rows as its
own writers leave them.

### State and steps of Consolidation

Tables are functions or sets (`row`, `memory`, `session`), the relay three
variables (`relayMsg`, `relayMem`, `nip09`). A *worker* is one call of
`consolidate()` or `commit()` in flight; `pc`, `job`, `seen`, `todo`, `cur`,
`mems`, `put`, `consumed` are its local variables. `job[w] = NoSession` says
that it is a direct run. A step is what happens between two awaits:

| Actions | Code |
|---|---|
| `FetchRun`, `Prepare`, `PrepareCleanup`, `BeginCommit`, `ExpireCommit` | beginning of `consolidate`, `prepare`, `commit` |
| `Extract` | the LLM's or the agent's answer for one group, any subset of `Topic` |
| `PlanMemory` | lookup by d-tag, merge, near-duplicate search: `Puts` is the set of rows the code may decide to write |
| `DropRow`, `CreateRow`, `CreateRefused` | `store_memory_direct`: DELETE, CREATE, refusal by the unique index |
| `PublishMemory` | kind 31234 event: accepted, rejected by all relays (which `RelayManager::publish` reports as `Ok`), or error |
| `EndGroup`, `Mark`, `MarkFailsInCommit`, `PublishDeletions`, `CommitStatus` | end of the loop and after it |
| `Abort`, `Crash` | any error return or dropped future; the end of the process |
| `Submit`, `SyncMessages`, `UpsertSelect`, `UpsertUpdate`, `UpsertCreate`, `PruneMessages` | the writers of messages |
| `ApiStore` | a memory stored through the API, its row only |

`told` is history: the messages of groups that went through extraction and had
every resulting memory stored. `issued` and `entered` are history too.
A message is its d-tag; a row keeps the version of its content so that edits
and replays are visible. A memory keeps its name and the set `from` of messages
whose content it tells. A merge with an existing memory keeps that memory's
`from`; an overwrite does not.

Two names appear for one memory. `consolidate` looks a memory up under
`build_dtag_from_tier(tier, author, topic)` and stores it through
`store_direct` with that whole d-tag as the topic, which prefixes it again:
`LookupName` and `StoreName`. So a consolidated memory is never found by the
lookup (lemma `BuildDtagFromTierGrows`: the stored name is longer), and a second
memory of a topic replaces the first (section 6).

A near-duplicate (`pipeline.rs:213`) may be a row of any scope: the run merges its
text with the group's messages and stores the result under the row's name, with
one more tier in front. So rows of the local table do tell messages of several
scopes, in `cons_runs` too. Such a row is not published (`Publishes`: the branch
ends in `continue`, line 278), and a run that looks up a memory to merge with
does not find it, since what is looked up has no tier twice. `PublishedInScope`
says what is left of the guard of `pipeline.rs:88`: the relay never gets a memory
that tells two scopes. It is as fragile as it looks: the mutant publishes the
merged memory as well, and a repair of the doubled name that forgets the chat
lets chats of the bare tier `group` find each other's rows. `MaxName` bounds how
often names grow. Messages of `cons_runs` have no native event (`NostrMsg`), so
that no NIP-09 deletions multiply its states.

`named` and `cut` are history, the names that ever had a row and those whose
store was cut off between its DELETE and its CREATE. `RowsSurvive` says that only
the latter can be without one: when two calls meet on a name, the CREATE of one
is refused, and it is that refusal that ends a whole call, not the row.

### State and steps of MemoryStore

Every write of a memory, here or on the other device, has a number; it stands
for the content, the creation time and, when published, the event. `memory` and
`edges` are the tables, `relay` the kind 31234 events. `stores` and `deletes`
are the calls in flight, records whose `step` names what comes next; `prune` is
what `prune_memories` has selected and not deleted yet; `syncStep`, `batch` and
`cur` are the local variables of the one sync in flight.

| Actions | Code |
|---|---|
| `BeginStore`, `StoreDrop`, `StoreCreate`, `StoreRefused`, `StorePublish` | `Nomen::store`: record and d-tag, DELETE, CREATE or its refusal, publication that may fail and is only logged |
| `DeleteRequest`, `BeginDelete` | `memory.delete`: by topic with visibility and scope, by raw string, by event id |
| `DeleteFind`, `DeleteRows`, `DeletePublish` | `Nomen::delete`: lookup by topic, then by d-tag; the two DELETEs, or the one by id; NIP-09 for the event found |
| `SyncBegin`, `SyncSkip`, `SyncMissing`, `SyncDrop`, `SyncCreate`, `SyncRefused`, `SyncFails`, `SyncEdges`, `SyncEnd` | the loop over memories in `Nomen::sync`, `store_memory`, `rebuild_edges_from_tags` |
| `PruneSelect`, `PruneDelete` | `prune_memories` |
| `Access`, `GrowOld` | access counts of a search; time |
| `RemotePublish`, `RemoteDelete` | another device with the same key |
| `Abort`, `Crash` | an error or a dropped future; the end of the process, with or without the database |

A row knows whether its `nostr_id` is the id of an event (`synced`), which it is
only when sync created it: `store` puts the source there. `through`, `dropped`
and `deleted` are history: the events this sync has dealt with, the names whose
row another call removed meanwhile, the writes a deletion removed. `SyncRefused`
is the unique index, `SyncFails` any other error of one event, in the SELECT,
the DELETE or the CREATE, after which the loop goes on with the next one; a sync
is not `through` with an event it counted as an error.

`MemoryVersions` is what a reader of the table may rely on. A version is one
write of one name. It is afoot while a put, the sync's batch or hand, or the
relay has it; only then can it be shown, under its own name and while no other
version of that name is. What is afoot no more never comes back. Versions may be
lost at any time. That a newer version wins, or that a deleted one is gone for
good, is not promised, since the code does neither (section 6). `KeepsVersions`
maps rows to `shown`, the rest to `afoot`.

### State and steps of FsSync

`mem` is the database as `memory.list` shows it, `file` the directory, `saved`
the state file, `torn` whether it is truncated and not yet written again,
`conflict` the copies of overwritten files. A process (`Proc`)
runs one of `push`, `pull`, a `poll` of the daemon or a push of `changed` files;
`run[p]` holds its local variables: its copy of the state, the list it got, what
is left to do. The daemon (`daemon`) runs one branch of its `select!` after the
other, as the code does, with `events`, `pending` and `own` (recently written)
between them. A step is a dispatched call, or the handling of one file.

| Actions | Code |
|---|---|
| `CommandInit`, `CommandPush`, `CommandPull`, `Start` | the commands; `start` pushes, pulls, removes orphans with `--clean`, then loops |
| `PushSkip`, `PushGone`, `PushRead`, `PushPut`, `PushFails`, `PushEnd` | `push_inner`, `push_changed_files` |
| `PullList`, `PullLoad`, `ListFails`, `MergeSkip`, `MergeWrite`, `MergeEnd` | `pull_inner`, `pull_incremental` |
| `Saving`, `SaveEnd`, `AfterSave` | `SyncState::save`, a truncation and a write, at the end of push, pull, poll, init and the deletion in a rename |
| `Orphans` | `find_orphan_files` |
| `TakeEvent`, `ForgetOwn`, `Flush`, `Poll`, `Rename`, `RenameForget` | the daemon's loop, `handle_rename` |
| `Kill` | stop, Ctrl-C, kill |
| `RemotePut`, `RemoteDelete`, `EditorWrite`, `EditorCreate`, `EditorDelete`, `EditorRename` | everybody else |

`PollKeepsEdits` is about polls of files with an entry: that is where the code
keeps a copy. Where it does not, see section 6.

A load that meets a torn state fails with `?`: `CommandPush` and `Start` are
disabled (the command ends without having done anything), a pull or poll ends
(`ListFails`), a flush forgets its paths and a rename its event. A kill in the
middle of a save leaves the state torn, and then no daemon starts any more until
`fs init` is run by hand. `RemoteReachesFile` therefore excepts `Unreadable`. No
property says which files a pull may remove: the code removes those of memories
put after the list was made, and those beyond the limit (section 6).

### State and steps of SocketServer and WireClient

A connection is used once. `link` is its place in the server (waiting to be
accepted, accepted and waiting for a permit, open, closed), `up` and `down` are
the frames on their way, `gone` says that the client's end is closed. A task of
the server takes one frame (`busy`) and handles it to its end, or forwards one
event; `pos` is how far its receiver of the broadcast channel is in `log`. A
client has a handle (`cur`), a call with its attempts (`call`), and for each
connection a `writer` and a `reader` task and the ids registered (`pending`).

| Actions | Code |
|---|---|
| `Accept`, `Admit` | accept, permit, task |
| `TakeRequest`, `ServeAuth`, `Refuse`, `ServeSubscribe`, `ServeUnsubscribe`, `Dispatch` | a request of a connection |
| `Lag`, `Forward` | `RecvError::Lagged`; an event to a subscriber |
| `HangUp`, `BreakFrame`, `Restart` | the ends of a connection |
| `BeginCall`, `Connect`, `ConnectFails`, `Send`, `Timeout`, `OpenStream`, `Close` | `ReconnectingClient` and `NomenClient` |
| `ReadResponse`, `ReadEvent`, `EndReader`, `EndWriter` | the two tasks of a connection |
| `Exit` | the client's process ends |

`executed` and `answered` are history (which puts were dispatched, which were
answered ok), `stream`, `got` and `missed` say from where on a receiver exists,
what it got, and what the channel had dropped.

`RemoteCalls` is what a caller of a reconnecting client may rely on: a call
returns at most once, a put that returns ok was executed before, nothing is
executed that nobody called. That a call that failed was not executed, or is
executed once, is not promised: a request that timed out may be executed late,
one that is sent again twice. `KeepsCalls` maps the calls of all clients that
have not returned to `open`, `executed` to `done`, `answered` to `ok`.

### State and steps of Groups and Requests

`table` counts how often the array of a group holds a member, since an addition
that races with another one pushes twice; `events` are the kind 30000 events;
`calls` are operations between their two queries; `todo` and `gap` are what a
sync has left and the group it has deleted and not created again. `member` is
history: memberships as the writes that took effect leave them, kept as sets.

`Known` compares the key of a message, which comes in hex, with the strings of
`allowed_npubs` (`cvm.rs:137`), which may be in either `Form`: a client that is
configured by its npub is refused, as `k3` is in the instance. (The gateway of the
SDK, which is outside, gets the parsed keys and lets it through.)

`served` are the times at which messages of a client passed the limiter since the
server was started, `earlier` those of the run before. The limiter is in memory
and `Kill` forgets it, so `BelowTwiceTheRate` is two statements: less than twice
the rate within the length of a window in one run, less than three times across
a restart. The second is tight: with rate M, 2M - 1 messages around the edge of
a window and M more after a restart.

`Requests` puts the transports in front: tasks of the runtime (HTTP, socket),
the stdio loop (`Reading` while it blocks on a line, `session` once
authenticated) and the CVM loop with `limit`, in the arithmetic of `WordSize`.
`Suspended` is the one thing that keeps a call from going on: a CVM call while
the stdio loop, a branch of the same `select!`, sits in a blocking read.

| Actions | Code |
|---|---|
| `CreateCheck`, `CreateRow`, `CreatePublish`, `AddCheck`, `AddPush`, `RemoveCheck`, `RemoveWrite` | group operations, query by query |
| `SyncFetch`, `SyncDelete`, `SyncCreate` | groups in `Nomen::sync` |
| `TaskRequest`, `McpAuth`, `McpRequest` | the transports |
| `CvmUnauthorized`, `CvmLimited`, `CvmServe` | a message in `CvmServer::run` |
| `Tick`, `ClockSetBack`, `Kill`, `Remote` | clock, process, another device |

### State and steps of Grouping, Fusion and Search

`Grouping` has the scope, identity and key of a message, the groups of a set of
messages, and their tier: `DerivedTier` by `derive_tier_from_messages`,
`SourceTier` by what `prepare` and `consolidate` work out for the guard,
`GroupTier` by `enforce_tier_guard`.

A row of `Fusion` is its name, tier column, topic, `said` (history: the tiers of
what its content was made of) and, for a summary, the names it is `of`. A row is
stored in one step here; `Consolidation` and `MemoryStore` have the DELETE and
the CREATE apart. A cluster run keeps the clusters of the rows it listed.

| Actions | Code |
|---|---|
| `Arrive`, `Put`, `Delete` | clients |
| `Consolidate`, `StoreEntity` | a memory of a group of messages; an entity found in it |
| `List`, `Synthesize`, `SynthesisFails`, `DrawEdge`, `RunEnd`, `RunPanics` | `run_cluster_fusion` |
| `Query`, `TextQuery`, `Expand`, `Answer` | `search`: hybrid query or the text fallback, `graph_expand`, `aggregate_results` |
| `Kill` | the process ends |

A row also has `cut`: its content is longer than 200 bytes and byte 200 is
within a character. `cluster.rs:366` slices there, so `RunPanics` is no fault: a
run that comes to a full cluster with such a member ends there, each time, and
that cluster never gets a summary while the memory is as it is. Clusters are
taken in any order, as they come from a `HashMap`; so others may or may not be
reached before. `CutTier` bounds the tiers whose contents may be so. A run lists
at most `ListLimit` rows (`cluster.rs:294`, 10000), the newest in the code and
any here, as rows have no time. A store that is refused after its DELETE takes
the old summary along (`SynthesisFails`). `FullIsSummarised` excepts what the
code does not do: `Hindered`, more rows than a run lists, or a full cluster
whose context cannot be cut.

Scores are left open: any `Limit` of the candidates may be the best, any hits may
be similar. Instances have no circles: `derive_cluster_tier` counts them as public
(section 6).

## 3. The runs

| Run | Instance | Shows |
|---|---|---|
| `cons_runs` | 2 callers, 4 messages in two full groups of two chats, one topic that looks like a name, relay, embedder, 1 fault | `TypeOK`, `PublishedInScope`, `RowsSurvive` |
| `cons_edits` | 1 caller called again and again, 2 messages with up to 2 versions, sync, pruning, 2 faults | `NothingLost`, `FlagKept`, `KeepsLedger` (refinement of `MessageLedger`), `FullGroupsDrain` |
| `cons_sessions` | 2 callers, 2 sessions over the same messages, expiry, 1 fault | `ConsolidatedWasTold`, `KeepsLedger` |
| `mem_sync` | 2 names of one topic, 2 writes, 1 put, 1 deletion (by name, topic or id), 1 sync, 1 fault | `TypeOK`, `SyncedHasRow`, `NamedDeletion`, `KeepsVersions` (refinement of `MemoryVersions`) |
| `mem_live` | 1 name, 2 writes, puts, deletions, prunes, 1 fault, sync repeated | `RelayReachesTable` |
| `fs_sync` | 1 process (commands or daemon), a public and a personal memory, 3 writes, 1 move, 1 kill | `TypeOK`, `EntryWasStored`, `PollKeepsEdits` |
| `fs_live` | the same with 2 writes and `--clean`, daemon restarted | `RemoteReachesFile` |
| `wire` | 1 client, 2 connections, 4 calls, 1 slot, channel of 1 event, 1 fault | `TypeOK`, `SlotsBalance`, `PutAnsweredOkWasDone`, `NoSilentGap`, `KeepsCalls` (refinement of `RemoteCalls`) |
| `wire_live` | the same with 3 calls | `CallReturns`, `GoneIsReleased` |
| `requests` | 1 group, 2 members, 3 CVM clients (one of them configured by its npub), rate 2 in a window of 2, load 5, 1 fault | `TypeOK`, `MembersFollowCalls`, `BelowTwiceTheRate`, `RefusedForItsOwn`, `GroupComesBack`, `CallsEnd` |
| `search` | 3 messages (direct, in a room, on another platform), puts in 3 tiers of one namespace, 1 entity, 1 search, load 3, lists of 4, public contents that cannot be cut, 1 fault | `TypeOK`, `SaidWithinTier`, `OfMemories`, `AnswersOnce`, `AnswerWithinTier`, `FullIsSummarised` |
| `cvm_starved` | as `requests`, no fault | a violation of `CvmCallEnds`: `server.rs:192` says the loops run concurrently |

Bounds. Two callers are enough for every race here: all interaction is through
rows, sessions and names, and each race is between one reader and one writer of
one of them. Three or four messages give a group below and one at
`min_messages`, and two groups; two versions give an edit and a replay of the
older one. `MaxFault` bounds cut off calls and crashes, `MaxVersion` how often a
client stores one message. `Selection` holds what filters select: everything, or
one chat. Symmetry (callers in `cons_runs`, callers and sessions in
`cons_sessions`) is sound: both are sets of model values, no definition names a
member, and these runs check no liveness. In `MemoryStore`, `MaxWrite` 2 gives a
version and its successor, or two names that share a topic (the name of a public
and of a group memory); `MaxCall` 1 puts one store and one deletion beside the
sync and the prune, all of which meet only in rows of a name; `MaxFault` 1 is
one crash, one loss of the table or one call cut off.

In `FsSync`, `MaxClock` 3 is a memory, its edit and a concurrent change;
`ListLimit` 2 is the number of memories. In `wire`, one slot makes the second
connection wait for the first, a channel of one event lags at the second, four
calls are authentication, subscription, a put and its repetition. In `requests`,
`MaxLoad` 5 is five CVM messages, or two requests and one message: two writers
of one group beside a sync, or two windows of two (three times the rate needs a
sixth message: across a restart the run sees only that five are possible, the
theorem has all numbers); `WordSize` 16 lets the subtraction wrap after the
clock is set back by one. In `search`, `MinMembers` 2 and `Depth` 1 make a
cluster of two of the three puts, so that a load of 3 is a full cluster of any
two tiers and a message, an addition or a deletion; `Limit` 2 leaves one out.

Deadlock is not checked: when nothing is left to do, the system rests.

Fairness (each `LiveSpec`). A call that can take a step takes it: the async
runtime runs ready tasks. Beyond that:

- `consolidate`, `memory.sync` and cluster runs are called again and again. This
  is an assumption about the operator or a timer: `interval_hours` and
  `check_consolidation_due` exist, but nothing in the code calls the pipeline by
  itself. Deletions and prunes need no fairness. A cluster run goes on until it
  ends; syncs of groups do too.
- a daemon that ended is started again, its `select!` does not leave the poll
  out for ever (tokio picks branches at random), and of the lists it asks for
  again and again some are answered: strong fairness, since failures and other
  branches disable them in between.
- a request that is not answered times out (30 s).
- nothing about faults but that they are finitely many, nothing about editors
  and clients, and nothing about lines on standard input.

Liveness is checked with one caller: of two callers, each may process the same
messages again and again only while new faults stop them. `CallsEnd` leaves out
CVM calls beside a stdio loop, which `cvm_starved` shows may not end.

Every property has a mutant in `PROJECT.json`, a definition preceding the one
it replaces, marked "Mutant": a plausible mistake in that place of the code
that makes TLC find the property violated.

## 4. The proofs

`DTagProofs`, for every set of segments: names built are names
(`BuildDtagIsPath`, `BuildDtagFromTierIsPath`), a built name is longer than its
topic (`BuildDtagFromTierGrows`), and `DtagTopic` undoes `BuildDtag`
(`TopicRoundTrip`) when a scoped tier has its scope. Without it, for the bare
tier `group` that consolidation gives its memories, the first segment of the
topic is read as the scope; the theorem needs that assumption.

`ConsolidationProofs`, for every value of the constants that satisfies the
three assumptions of `Consolidation` (finitely many messages; groups, tiers and
times of messages; names that are names; positive sizes):

- `TypesHold`: `Spec => []TypeOK`. Needs `HasGroup`: a call that stores memories
  has a group to store them for.
- `FlaggedWasTold`, `NoMessageLost`: `Spec => []ConsolidatedWasTold` and
  `Spec => []NothingLost`. Neither is inductive: a mark sets the flag of what
  the call has consumed, so `ConsumedWasTold` (consumed messages are told) is
  needed; pruning removes flagged rows, so `NothingLost` needs
  `ConsolidatedWasTold`; a CREATE finds an absent row unflagged (`FlagHasRow`).
  `IInv` is their conjunction with `TypeOK`; TLC agrees with it on the instances
  of `cons_edits` and `cons_sessions`. `OtherSteps` shows once that all but
  four actions leave the table alone, the lemmas after it treat those four.
- `ReplayKeepsFlag`: `Spec => FlagKept`.
- `ImplementsLedger`: `Spec => KeepsLedger`, step by step: a mark closes
  the open messages among the consumed, pruning removes, a CREATE lets arrive,
  the end of a group tells, everything else stutters.
- `RowsOutliveStores`: `Spec => []RowsSurvive`. A name without a row is that of
  a call between its two queries or was cut off there; the interesting steps are
  the DELETE of a name another call is also between the queries of, and the
  CREATE that is refused, which ends a call that had deleted: the row that
  refused it is of that name.
- `PublishesInScope`: `Spec => []PublishedInScope` under the hypothesis
  `PlainNames`: no name a memory is looked up by is another such name with tiers
  in front, and derived tiers have no id, which is so of those `grouping.rs`
  derives. Topics may begin with a tier, as `group/<chat>/...` of the fallback
  (`grouping.rs:93`) and the one of `cons_runs` do. Embedders are covered: rows
  that tell several scopes do arise, and the proof is that their names have a
  tier too many to be looked up.

`MemoryStoreProofs`, for all sets of requests, names and relation tags, and any
number of writes, calls and faults:

- `TypesHold`: `Spec => []TypeOK`, with `HoldsEvent` (a sync that is about to
  store holds an event).
- `SyncMissesNothing`: `Spec => []SyncedHasRow`. Not inductive: the DELETE of the
  event in hand could remove the row of one the sync was through with. It does
  not because the relay has one event of a name, hence the batch has
  (`MissesNone`); and between CREATE and edges the new row may only go by a call
  that is recorded in `dropped`. TLC agrees with `MissesNone` on the instance of
  `mem_sync`, and with `NamesKept` below.
- `DeletionNamesItsEvent`: `Spec => NamedDeletion`, from `NamesKept`: wherever an
  event is (`Carried`: relay, batch, in hand, synced row, store in flight), its
  number determines its name (`NamesStayDetermined`); a synced row has its whole
  name for a topic; so what a deletion found by topic or by name is the event of
  that name, and stays it until the deletion goes out (`FoundStays`). This is
  where the code is fragile: the proof, and the mutant of the run, rest on
  `SyncedTopic` being the whole d-tag, which section 6 lists as an
  inconsistency. Making the topics alike would let a deletion by bare topic
  reach the event of another scope.
- `ImplementsVersions`: `Spec => KeepsVersions`, step by step: a put that begins
  and a publication of the other device write a version, a CREATE under a free
  name shows one, everything else loses some or does nothing. A sync that creates
  a row needs `HoldsEvent`: what it creates is an event it fetched.

`RequestsProofs`, for all groups, members, clients, rates, windows and clocks
that satisfy `RequestsAssumption` (it bounds the clock so that only a start that
lies ahead makes the subtraction of two u64 wrap around):

- `TypesHold`: `Spec => []TypeOK`. The part about calls is not inductive: a
  request that starts takes a number that is free, and that there is one follows
  from the load, which is how many are running (`CInv`): fewer than there are
  numbers when the request may start (`Few`), so not all are taken (`FreeId`, by
  the pigeonhole principle).
- `Memberships`: `Spec => []MembersFollowCalls`, from `GInv`, which adds the
  types of the group part. The members a row lists are compared with what the
  calls that took effect leave, so each query of a call and each step of a sync
  has to change both alike (`CallKeeps`, `SyncKeeps`).
- `NotTwiceTheRate`: `Spec => []BelowTwiceTheRate`. An entry only has a count and
  a start; `LInv` says what they tell of the times messages passed at (`Sorted`):
  times are in order, the window began with the first message counted in it, and
  the messages of the window before that are still within reach do not include
  the one it began with. So at most rate - 1 of them add to at most rate in the
  window. `NewWindow` and `SameWindow` are the arithmetic of the two cases of
  `check()`. Across a restart `EInv` adds that the messages of a run within the
  length of a window of its first are its first window's (`FirstWindow`), and that
  those of the run before are in order, before them, and less than twice the rate
  (`Before`).
- `RefusedOwn`: `Spec => []RefusedForItsOwn`, from `Counted`: the last messages,
  as many as the count, are not older than the start, whether or not the clock
  was set back (`ElapsedIs`: a start that lies ahead counts as long ago).

`WireProofs`, for every set of clients, connections and calls, any number of
slots, retries and faults and every capacity of the channel:

- `TypesHold`, `NoSlotLost`: `Spec => []TypeOK` and `Spec => []SlotsBalance`, by
  counting the open connections, of which a step opens or ends at most one and a
  restart ends all.
- `OkWasDone`: `Spec => []PutAnsweredOkWasDone`. `Correlated` is inductive: every
  id on a connection was drawn there (`Drawn`), and what has the id of the call
  that waits there is its own request or the answer to it (`Fits`). All steps
  but a send ask nothing new and only answer what was asked (`OnlyAnswers`); a
  send draws an id nothing on the connection has.
- `NoGapUnnoticed`: `Spec => []NoSilentGap`, from `NoGaps`: nothing is sent on a
  connection before it has a task, so no stream begins on it (`Early`); the
  position of a receiver is within the log (`Behind`), which only grows
  (`LogGrows`). The proof goes through the three steps that move the position.
- `ImplementsCalls`: `Spec => KeepsCalls`. A step concerns one call at most
  (`CallMoves`), and only a dispatch executes (`OnlyDispatch`). What is dispatched
  may be an old request on a connection its client has given up; that it was
  called at all is `Numbered`: calls that have not returned have different numbers
  of calls begun, and so has everything asked on any connection. Only a send asks
  (`OnlySendAsks`). That a call that says it was done was done is `OkWasDone`.

`SearchProofs`, for all messages, names, topics, entities, depths and limits that
satisfy `WordAssumption` (names put have a tier and a topic made of segments). Two
of its theorems assume `NoCircles`: `derive_cluster_tier` counts a memory of a
circle as public, so a cluster with one would put what is said there into a
public summary (section 6). One assumes `PlainIds`: no group is called
"cluster", for the name of a memory put there begins like that of a summary.

- `TypesHold`: `Spec => []TypeOK`. What an answer or a cluster lists are names of
  rows, and a summary gets a name made of the scope of its members, so the names
  of all of these are needed to be names (`NameInv`).
- `NoSummaryOfSummaries`: `Spec => []OfMemories`. The run that builds clusters
  leaves out rows whose topic begins with "cluster", and reads the topic off the
  name: where the tier is scoped, the second segment is taken for the scope.
  `SummaryInv` says that the clusters at hand have members that are no
  summaries, and `SummaryIs` that what a run stores is one by its name, for a
  scoped tier (`ScopedParts`) and for one that is not (`UnscopedParts`).
- `NothingWidens`: `Spec => []SaidWithinTier`. Rows alone are not inductive: an
  entity found in a message and a cluster listed by a run carry what was said,
  and their tiers, into later steps, when the rows they were read from may be
  gone. `NarrowOnly` says of all three what the property says of rows.
- `NamedOnce`: `Spec => []AnswersOnce`, from `ListsOnce`: finitely many rows, one
  for each name (`RowsStep`), are listed by a query as entries of different names
  (`FoundOnce`), an expansion adds none that is listed (`Appended`), a merge only
  leaves entries out (`MergedOnce`).
- `AnswersStayNarrow`: `Spec => []AnswerWithinTier`, from `ListsOnce`,
  `NarrowOnly` and `Confined`: only an expansion disregards the tier, and a merged
  result holds nothing but what its parts do.

`FsProofs`, for all sets of processes and memories that satisfy the assumptions on
names, any number of contents, moves and kills:

- `TypesHold`, `SyncedWasStored`: `Spec => []TypeOK` and `Spec =>
  []EntryWasStored`, from `AllStored`. The property alone is not inductive:
  entries are also made of listed memories and of files on their way, so it
  needs that what is in the database or in a list held (`KeepsList`) was stored,
  that only listed names are merged, and that a file being put has a text and a
  tag (`Proper`). Steps are split into those that change only what one process
  does (`Unshared`), those others see (`Shared`) and those of editors and other
  clients (`Others`).
- `PollLosesNothing`: `Spec => PollKeepsEdits`, from `AllStored`.

The hypotheses `PlainNames`, `NoCircles` and `PlainIds` are defined beside the
properties they are about; `MCConsolidation` and `MCSearch` assume them, so that
TLC confirms that the instances it checks satisfy them.

Only model-checked: what holds under fairness (`FullGroupsDrain`,
`FullIsSummarised`, `RelayReachesTable`, `RemoteReachesFile`, `CallReturns`,
`GoneIsReleased`, `GroupComesBack`, `CallsEnd`). Liveness and ENABLED are beyond
the prover. Every other property of a passing run is a theorem.

## 5. What is left out

Not modelled, and why:

- text, importance, wording: no control depends on them, except scores, which
  are choices. Consequently search ranking, near-duplicate and entity detection
  are choices over everything they may return.
- `dry_run`, `fs status`, listings, counts, full-text queries: they only read.
- embeddings, type and importance of a memory (UPDATEs of the new row whose
  errors are swallowed), the supersedes tag, which nothing reads back,
  notifications, and `version`, which is 1 in every event and at least 1 in
  every row.
- `consolidated_from` and `contradicts` edges: best effort, errors swallowed,
  nothing but expansion reads them.
- the two queries in which `delete_collected_before` counts and deletes (one
  condition, one step).
- relay manager, LLM, embedding providers: I/O whose outcomes are choices in the
  modules that call them.
- access rules: two pure functions no operation calls. Media store: an existence
  check and a write, by content hash.
- configuration, CLI, service files, web interface, plugin: parsing and
  presentation around the operations, in sequence.
- several callers of one `ReconnectingClient`, its backoff times, and the bounded
  channel of 256 events between its reader and a receiver.
- in `FsSync`: directories, symbolic links, and an editor that writes between
  the read and the write of one file in a pull.

What could be added next: the bounded channels of the client; a relay that
reorders what it replays of groups; the composition of `FsSync` with the two
writes of a put in `MemoryStore`.

## 6. Other disagreements

Met while modelling. First those that a property states, in its module under
"What the documents say and the code does not do"; a copy of the configuration
named, with the property in it, shows each of them as a violation.

| Property | Configuration | What the code does |
|---|---|---|
| `OnlyConsumedDeleted` | `cons_runs` with `Msg = Stored = {m1, m2, m3}`, `BatchSize = 3` | `pipeline.rs:540` passes everything fetched to `publish_deletion_events`, the messages of groups below `min_messages` included; `pipeline.rs:31` and `docs/spec/consolidation.md:111` say consumed |
| `FullGroupsDrain` | `cons_edits` with three messages, `BatchSize = 2`, the oldest alone in its group | `collected.rs:371` fetches the oldest `batch_size`; small groups stay first and fill every batch; `docs/spec/consolidation.md:39` says they are skipped |
| `DeletedStaysDeleted` | `mem_sync` | `nomen_memory.rs:239` sends no NIP-09 event for a memory stored here, whose `nostr_id` is its source; sync brings it back; `docs/spec/api.md:180` says the deletion is published |
| `SyncedIsCurrent` | `mem_sync` with `Remote <- MCRemoteTwo` | `nomen-db/src/memory.rs:61` skips each name that has a row; `docs/spec/data-model.md:112` says a new event replaces the previous version |
| `GraphRebuilt` | `mem_sync` with `Remote <- MCRemoteTwo`, `Refs <- MCRefs` | `nomen_sync.rs:224` draws an edge only if its target was synced first; `docs/spec/data-model.md:244` and `:294` say every tag, the full graph |
| `DroppedIsReleased` | `wire_live` with `MaxFault = 0` | `client.rs:207` drops the sender and expects the reader to stop "when the connection drops", but the reader holds the other half of the socket; the server keeps the slot |

The others are plain from reading two places side by side.

Consolidation and memories:

- `pipeline.rs:218` searches near duplicates in all scopes and merges them, so
  that a row of the local table tells messages of several; lines 88-89 say that
  messages from different groups and tiers are never consolidated together.
- `pipeline.rs:286` looks a memory up under one name and stores it under another,
  so nothing is merged and the second memory of a topic replaces the first;
  `docs/spec/consolidation.md:89` describes the merge.
- `two_phase.rs:343` counts `events_published` for what it never publishes.
- `two_phase.rs:191` reads the status of a session and sets it many awaits later:
  two commits of one session both finish.
- `nomen-db/src/memory.rs:51` decides on a SELECT, line 68 deletes: a sync that
  overlaps with a put replaces the newer row by the event it fetched before.
- `nomen-relay/src/events.rs:90` makes the whole d-tag the topic of a synced row,
  `store` the topic alone: the same memory has two topics.
- `nomen-db/src/memory.rs:368` deletes what line 321 selected, a row that a search
  has used in between included.
- `operations/memory.rs:330` (delete) does not pass the scope of a circle to the
  name it builds, line 222 (get) does: a circle's memory is got but not deleted.
- `docs/spec/data-model.md:224` calls `version` "Monotonically increasing"; every
  event has version 1.
- `grouping.rs` says "Group by sender for DMs", but Nostr messages whose chat is
  `dm` are grouped by that chat, whoever sent them.
- a consolidated memory of a room has the tier `group` without the room.

Filesystem daemon:

- `docs/spec/filesystem.md:35` says the last write wins; no times are compared,
  a push overwrites whatever is there and a poll prefers the remote version.
- `filesystem.md:32` says deleting a file deletes the memory; the watcher leaves
  removals out, and the next pull writes the file again.
- the comment at `fs.rs:1063` has the new name decide after a rename; the
  `d_tag` of the frontmatter does (`fs.rs:460`), so the memory deleted is stored
  again under the old name.
- an edit within the 1.5 s in which the daemon ignores its own write is not
  pushed before the next start; a push that failed is not tried again before
  the next edit; `push` sends a file again whose entry was never saved.
- `pull_inner` writes over an edited file without a copy, a poll over a file it
  has no entry for; a second conflict overwrites the copy of the first; the
  removal of a stale file does not look whether it was edited; `--clean` removes
  files that were never sent.
- two processes write `state.json` over each other's.
- `state.json` is written in place (`fs.rs:81`): after a kill in between, or for
  whoever reads it in between, it cannot be parsed, and every load fails
  (`fs.rs:75`), so that the daemon does not start again. Paths a flush has taken
  are not pushed then.
- a memory put between the list and the load of the state, whose file has an
  entry by then, has its file removed as if it had been deleted remotely; the
  next poll writes it again.
- beyond 10000 memories (`fs.rs:889`) files are removed as if deleted remotely.

Server, client, transports:

- a reconnecting client neither authenticates nor subscribes again on its new
  connection; a `connection_closed` answer is returned as `Ok`; a repeated
  request may execute twice, one that timed out may execute late.
- `client.rs:93` drains the waiting requests once; one registered after it waits
  for its 30 s. Events between the answer to `subscribe` and the receiver
  (`client.rs:180`) are lost.
- `cvm.rs:37` subtracts wall-clock times without a check: set back, the clock
  makes a debug build panic and a release build begin a new window.
- `allowed_npubs` (`cvm.rs:137`) are compared as they are written with hex keys: a
  client configured by its npub is let in by the gateway and refused here.
- a restart forgets the rate limiter.
- the end of standard input ends the server, CVM loop included.
- `server.rs:105` and `:136` open the instances of socket and CVM without a relay:
  what they put is never published, although `docs/spec/api.md:140` has it so.
  Only the socket instance emits events.
- a session stores and deletes with the server's key while it builds names with
  the session's (`docs/spec/identity.md:61` has the session sign); without
  `identity.auth` requests are refused, although `identity.md:31` has the
  configured key as a fallback. `identity.md:38` has HTTP take an nsec, the code
  wants a signed event.

Groups:

- `add_member` and `remove_member` are never published, so the next sync reverts
  them; an `UPDATE` of a group that a sync has just deleted changes nothing and
  is answered `added: true` (`operations/group.rs:98`).
- a kill between `delete_group` and `create_group` leaves the group away until
  the next sync.
- the group store is read once, at the start, and `can_access` and
  `build_scope_filter` are called by no operation.

Fusion and search:

- `cluster.rs:249` says "Uses the most restrictive tier among members" and counts
  a circle as public: a cluster of circle memories gets a public summary.
- the summary of a cluster that gets narrower has a new name; the wider one
  stays. Summaries stay when members fall below the minimum.
- `cluster.rs:366` cuts at byte 200, which panics inside a character: a full
  cluster with such a memory ends every run that comes to it, and is never
  summarised; clusters after it in the order of that run are not either.
- a summary whose store fails at the CREATE is gone until the next run.
- storing a row again deletes the edges others drew to it; the target of a
  contradicts edge is looked up by its bare topic.
- the tier column holds the bare tier, and `memory.search` filters for
  `group:<id>`: a search of one group finds nothing.
- expansion along edges ignores the tier asked for; more than one hop has no
  effect (`README.md:26` has `--hops`); what matches by vector only never appears;
  the times of expanded results never parse and are the present.
- a write to the media store that is cut off leaves a partial file, which
  deduplication then takes for the whole.
