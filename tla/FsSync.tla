------------------------------- MODULE FsSync -------------------------------
(***************************************************************************)
(* Filesystem sync: src/fs.rs, started by src/cli/fs.rs.                   *)
(*                                                                         *)
(* The daemon and the commands `fs push` and `fs pull` keep a directory of *)
(* markdown files and the memories of the database alike. What they know   *)
(* of the last sync is state.json: an entry per file with its d-tag and    *)
(* the hash of its content. Every process loads the state, works on its    *)
(* copy and writes it back, with a truncation and then a write, and awaits *)
(* a dispatched call for every memory it puts, deletes or lists; an        *)
(* editor, other clients of the database and a second process act in       *)
(* between.                                                                *)
(*                                                                         *)
(* Every content has a number of its own, drawn when an editor or a client *)
(* writes it; a memory has also the time of its put (created_at), which    *)
(* its markdown carries, so that a file is the record [tag, text, stamp]   *)
(* of frontmatter d-tag, body and time. The hash of a file is that record. *)
(* Not here: version (memory.list always says 1 and every put changes the  *)
(* time, so the version never decides), directories, symbolic links,       *)
(* `fs status`, which only prints, and a file changed by an editor between *)
(* the read and the write of one file in a pull.                           *)
(***************************************************************************)
EXTENDS Naturals, FiniteSets, DTag

CONSTANTS
  Proc,       \* processes that may run a command or the daemon
  Name,       \* d-tags of memories
  Author,     \* public key memory.put stores personal memories under
  ListLimit,  \* memories in one answer of memory.list (10000)
  Clean,      \* `fs start --clean`
  MaxClock,   \* bound: contents written by editors and clients, and puts
  MaxMove,    \* bound: files deleted or renamed, memories deleted
  MaxFault    \* bound: processes killed

ASSUME NameAssumption == Name \subseteq Path /\ Author \in Segment
ASSUME BoundAssumption ==
  /\ ListLimit \in Nat /\ Clean \in BOOLEAN
  /\ MaxClock \in Nat /\ MaxMove \in Nat /\ MaxFault \in Nat

VARIABLES
  mem,        \* memories of the database: [text, stamp] or NoMem
  file,       \* files of the directory, by path
  saved,      \* state.json: [tag, hash] or NoEntry, by path
  torn,       \* is state.json truncated, so that no load can parse it?
  conflict,   \* .nomen-fs/conflicts, by path
  run,        \* what each process is doing
  daemon,     \* processes that started the daemon
  events,     \* of the watcher, not handled yet: [path, from]
  pending,    \* paths with a change that is not quiet for long enough
  own,        \* recently_written: paths the daemon wrote itself
  \* --- history and bounds ---
  stored,     \* contents that have been in the database
  clock, moves, faults

watch  == <<events, pending, own>>
bounds == <<moves, faults>>
vars   == <<mem, file, saved, torn, conflict, run, daemon, watch, stored,
            clock, bounds>>
-----------------------------------------------------------------------------
(***************************************************************************)
(* Paths and markdown.                                                     *)
(***************************************************************************)

(* dtag_to_path: tier, scope if any, topic; the last segment gets `.md`.   *)
(* A name without a topic is its own topic. (A path is written without its *)
(* extension: every file here is a .md file outside hidden directories.)   *)
DtagToPath(d) ==
  LET at    == ExtractVisibilityScope(d)
      topic == IF DtagTopic(d) = NoTopic THEN d ELSE DtagTopic(d)
  IN  IF at.scope = NoScope THEN <<at.visibility>> \o topic
      ELSE <<at.visibility, at.scope>> \o topic

(* path_to_dtag; NoTopic for a path it has no d-tag for.                   *)
PathToDtag(x) ==
  LET tier == x[1]
      skip == IF tier \in ScopedTier THEN 2 ELSE 1
  IN  IF tier \notin TierPrefix \/ Len(x) <= skip THEN NoTopic
      ELSE BuildDtag(tier, IF skip = 2 THEN x[2] ELSE NoScope,
                     SubSeq(x, skip + 1, Len(x)))

File  == {DtagToPath(d) : d \in Name}
Text  == 1 .. MaxClock
Stamp == 0 .. MaxClock

(* A frontmatter may have an empty d_tag, or be missing.                   *)
NoTag    == <<>>
Unparsed == <<NoScope>>

NoMem   == [text |-> 0, stamp |-> 0]
NoFile  == [tag |-> NoTag, text |-> 0, stamp |-> 0]
NoEntry == [tag |-> NoTag, hash |-> NoFile]

Exists(x) == file[x] # NoFile

(* json_memory_to_markdown                                                 *)
Markdown(n, m) == [tag |-> n, text |-> m.text, stamp |-> m.stamp]

(* The d-tag of a file: from its frontmatter, else from its path.          *)
ResolveTag(x, f) == IF f.tag # NoTag THEN f.tag ELSE PathToDtag(x)

(* The d-tag memory.put stores under: it builds the name again from the    *)
(* visibility and scope of the file's d-tag, personal ones with Author.    *)
StoredAs(d) ==
  LET at == ExtractVisibilityScope(d)
      id == IF at.visibility \in {"group", "circle"} THEN at.scope
            ELSE NoScope
  IN  BuildDtagFromTier([base |-> at.visibility, id |-> id], Author,
                        DtagTopic(d))

(* Every d-tag files or puts can come to is a name.                        *)
ASSUME ClosedAssumption ==
  \A n \in Name : /\ DtagTopic(n) # NoTopic
                  /\ StoredAs(n) \in Name /\ PathToDtag(DtagToPath(n)) = n

(* Mutant: a file without frontmatter is sent.                             *)
Nameless(x, f) == ResolveTag(x, f) = NoTopic

(* Files a push does not send: without frontmatter, or without a d-tag.    *)
Unsendable(x, f) == f.tag = Unparsed \/ ResolveTag(x, f) = NoTopic
-----------------------------------------------------------------------------
(***************************************************************************)
(* A process: the operation it runs and the step that is next, its copy of *)
(* the state, the list it got, the files or names left to do, the file     *)
(* (path, content) or entry in its hands, and whether it did something     *)
(* (count > 0).                                                            *)
(***************************************************************************)
NoList == [n \in Name |-> NoMem]
NoCur  == [path |-> NoTag, content |-> NoFile]
Idle   == [op |-> "none", step |-> "idle", st |-> [x \in File |-> NoEntry],
           list |-> NoList, todo |-> {}, cur |-> NoCur, changed |-> FALSE]

Watched == \E p \in daemon : run[p].op \notin {"push", "pull"}

Notify(x, from) ==
  events' = IF Watched THEN events \cup {[path |-> x, from |-> from]}
            ELSE events

Init ==
  /\ mem = NoList /\ clock = 0 /\ stored = {}
  /\ file = [x \in File |-> NoFile] /\ conflict = [x \in File |-> NoFile]
  /\ saved = [x \in File |-> NoEntry] /\ torn = FALSE
  /\ run = [p \in Proc |-> Idle] /\ daemon = {}
  /\ events = {} /\ pending = {} /\ own = {}
  /\ moves = 0 /\ faults = 0

Do(p, r) == run' = [run EXCEPT ![p] = r]

(* Load the state and go through the files S.                              *)
Pushing(op, S) ==
  [Idle EXCEPT !.op = op, !.step = "files", !.st = saved, !.todo = S]

Listing(op) == [Idle EXCEPT !.op = op, !.step = "list"]

Existing == {x \in File : Exists(x)}

(* `fs push`; `fs pull`; `fs start` when the PID file names no process     *)
(* that is alive: push, then pull, then the loop. The push loads the state *)
(* first of all: with a torn one it fails, and the daemon with it.         *)
CommandPush(p) ==
  /\ run[p] = Idle /\ p \notin daemon /\ ~torn
  /\ Do(p, Pushing("push", Existing))
  /\ UNCHANGED <<mem, file, saved, torn, conflict, daemon, watch, stored, clock,
                 bounds>>

CommandPull(p) ==
  /\ run[p] = Idle /\ p \notin daemon
  /\ Do(p, Listing("pull"))
  /\ UNCHANGED <<mem, file, saved, torn, conflict, daemon, watch, stored, clock,
                 bounds>>

Start(p) ==
  /\ run[p] = Idle /\ daemon = {} /\ ~torn
  /\ daemon' = {p}
  /\ Do(p, Pushing("push", Existing))
  /\ UNCHANGED <<mem, file, saved, torn, conflict, watch, stored, clock, bounds>>

(* SyncState::save: std::fs::write truncates state.json and writes it, and *)
(* what reads it in between, or after a kill in between, cannot parse it.  *)
Saving(p, state) ==
  /\ torn' = TRUE
  /\ Do(p, [run[p] EXCEPT !.step = "save", !.st = state, !.cur = NoCur])

(* The first push of the daemon is followed by a pull, the first pull by   *)
(* the orphans, the deletion of a renamed memory by the push of the file   *)
(* from its new path.                                                      *)
AfterSave(p) ==
  IF p \in daemon /\ run[p].op = "push" THEN Listing("pull")
  ELSE IF p \in daemon /\ run[p].op = "pull"
       THEN [Idle EXCEPT !.op = "pull", !.step = "orphans"]
  ELSE IF run[p].todo # {} THEN [run[p] EXCEPT !.step = "files"]
  ELSE Idle

SaveEnd(p) ==
  /\ run[p].step = "save"
  /\ saved' = run[p].st /\ torn' = FALSE
  /\ Do(p, AfterSave(p))
  /\ UNCHANGED <<mem, file, conflict, daemon, watch, stored, clock, bounds>>

(* `fs init` saves an empty state; nothing else makes a torn one whole.    *)
CommandInit(p) ==
  /\ run[p] = Idle /\ p \notin daemon
  /\ torn' = TRUE /\ Do(p, [Idle EXCEPT !.op = "init", !.step = "save"])
  /\ UNCHANGED <<mem, file, saved, conflict, daemon, watch, stored, clock,
                 bounds>>
-----------------------------------------------------------------------------
(***************************************************************************)
(* push_inner and push_changed_files.                                      *)
(***************************************************************************)
Rest(p, x) == run[p].todo \ {x}

(* Unchanged since the last sync, not sendable, or gone.                   *)
PushSkip(p, x) ==
  /\ run[p].step = "files" /\ x \in run[p].todo
  /\ \/ Exists(x) /\ run[p].st[x].hash = file[x]
     \/ Exists(x) /\ Unsendable(x, file[x])
     \/ ~Exists(x) /\ run[p].op = "changed"
  /\ Do(p, [run[p] EXCEPT !.todo = Rest(p, x)])
  /\ UNCHANGED <<mem, file, saved, torn, conflict, daemon, watch, stored, clock,
                 bounds>>

(* push_inner fails on a file that is gone since the walk.                 *)
PushGone(p, x) ==
  /\ run[p].op = "push" /\ run[p].step = "files"
  /\ x \in run[p].todo /\ ~Exists(x)
  /\ Do(p, Idle) /\ daemon' = daemon \ {p}
  /\ UNCHANGED <<mem, file, saved, torn, conflict, watch, stored, clock, bounds>>

PushRead(p, x) ==
  /\ run[p].step = "files" /\ x \in run[p].todo
  /\ Exists(x) /\ run[p].st[x].hash # file[x] /\ ~Unsendable(x, file[x])
  /\ Do(p, [run[p] EXCEPT !.step = "put", !.todo = Rest(p, x),
                          !.cur = [path |-> x, content |-> file[x]]])
  /\ UNCHANGED <<mem, file, saved, torn, conflict, daemon, watch, stored, clock,
                 bounds>>

(* Mutant: the file is hashed again when the put is done.                  *)
EntryOfFileNow(c, d) == [tag |-> d, hash |-> file[c.path]]

(* The entry of a pushed file: the hash is that of the content put.        *)
EntryOfPush(c, d) == [tag |-> d, hash |-> c.content]

Stores(d, text) ==
  /\ clock < MaxClock /\ clock' = clock + 1
  /\ mem' = [mem EXCEPT ![d] = [text |-> text, stamp |-> clock + 1]]
  /\ stored' = stored \cup {text}

PushPut(p) ==
  /\ run[p].step = "put"
  /\ LET c == run[p].cur
         d == StoredAs(ResolveTag(c.path, c.content))
     IN  /\ Stores(d, c.content.text)
         /\ Do(p, [run[p] EXCEPT !.step = "files", !.cur = NoCur,
                                 !.st[c.path] = EntryOfPush(c, d),
                                 !.changed = TRUE])
  /\ UNCHANGED <<file, saved, torn, conflict, daemon, watch, bounds>>

(* A failed put is only logged.                                            *)
PushFails(p) ==
  /\ run[p].step = "put"
  /\ Do(p, [run[p] EXCEPT !.step = "files", !.cur = NoCur])
  /\ UNCHANGED <<mem, file, saved, torn, conflict, daemon, watch, stored, clock,
                 bounds>>

(* push_inner always saves the state, push_changed_files only if it put    *)
(* something.                                                              *)
PushEnd(p) ==
  /\ run[p].step = "files" /\ run[p].todo = {}
  /\ IF run[p].op = "push" \/ run[p].changed THEN Saving(p, run[p].st)
     ELSE Do(p, Idle) /\ UNCHANGED torn
  /\ UNCHANGED <<mem, file, saved, conflict, daemon, watch, stored, clock,
                 bounds>>
-----------------------------------------------------------------------------
(***************************************************************************)
(* pull_inner and pull_incremental ("poll").                               *)
(***************************************************************************)

(* memory.list: the newest ListLimit memories.                             *)
Listed ==
  [n \in Name |->
     IF Cardinality({k \in Name : mem[k].stamp > mem[n].stamp}) < ListLimit
     THEN mem[n] ELSE NoMem]

PullList(p) ==
  /\ run[p].step = "list"
  /\ Do(p, [run[p] EXCEPT !.step = "load", !.list = Listed])
  /\ UNCHANGED <<mem, file, saved, torn, conflict, daemon, watch, stored, clock,
                 bounds>>

(* The state is loaded when the answer has come.                           *)
PullLoad(p) ==
  /\ run[p].step = "load" /\ ~torn
  /\ Do(p, [run[p] EXCEPT !.step = "merge", !.st = saved,
                          !.todo = {n \in Name : run[p].list[n] # NoMem}])
  /\ UNCHANGED <<mem, file, saved, torn, conflict, daemon, watch, stored, clock,
                 bounds>>

(* No list, or a state that cannot be parsed. The daemon survives a failed *)
(* poll, not a failed first pull.                                          *)
ListFails(p) ==
  /\ \/ run[p].step \in {"list", "orphans"}
     \/ run[p].step = "load" /\ torn
  /\ Do(p, Idle)
  /\ daemon' = IF run[p].op = "poll" THEN daemon ELSE daemon \ {p}
  /\ UNCHANGED <<mem, file, saved, torn, conflict, watch, stored, clock, bounds>>

(* Mutant: a file with an entry of this name counts as up to date.         *)
SyncedByName(p, n) ==
  LET x == DtagToPath(n) IN Exists(x) /\ run[p].st[x].tag = n

(* The file is there, and the entry says what the memory is now.           *)
Synced(p, n) ==
  LET x == DtagToPath(n) IN
  Exists(x) /\ run[p].st[x].hash = Markdown(n, run[p].list[n])

(* Mutant: the file is not compared with its entry.                        *)
NeverEdited(p, x) == FALSE

(* The file is not what the entry says.                                    *)
Edited(p, x) == file[x] # run[p].st[x].hash

(* A poll that finds only the time changed touches only the entry.         *)
SameBody(p, n) ==
  LET x == DtagToPath(n) IN
  /\ run[p].op = "poll" /\ Exists(x) /\ run[p].st[x] # NoEntry
  /\ ~Edited(p, x)
  /\ file[x].text = run[p].list[n].text /\ file[x].tag # Unparsed

EntryOf(p, n) == [tag |-> n, hash |-> Markdown(n, run[p].list[n])]

MergeSkip(p, n) ==
  /\ run[p].step = "merge" /\ n \in run[p].todo
  /\ \/ Synced(p, n)
        /\ Do(p, [run[p] EXCEPT !.todo = @ \ {n}])
     \/ ~Synced(p, n) /\ SameBody(p, n)
        /\ Do(p, [run[p] EXCEPT !.todo = @ \ {n},
                                !.st[DtagToPath(n)] = EntryOf(p, n)])
  /\ UNCHANGED <<mem, file, saved, torn, conflict, daemon, watch, stored, clock,
                 bounds>>

(* Only a poll, and only with an entry, keeps a copy of an edited file.    *)
MergeWrite(p, n) ==
  LET x == DtagToPath(n) IN
  /\ run[p].step = "merge" /\ n \in run[p].todo
  /\ ~Synced(p, n) /\ ~SameBody(p, n)
  /\ conflict' = IF /\ run[p].op = "poll" /\ Exists(x)
                    /\ run[p].st[x] # NoEntry /\ Edited(p, x)
                 THEN [conflict EXCEPT ![x] = file[x]] ELSE conflict
  /\ file' = [file EXCEPT ![x] = Markdown(n, run[p].list[n])]
  /\ own' = IF run[p].op = "poll" THEN own \cup {x} ELSE own
  /\ Notify(x, NoTag)
  /\ Do(p, [run[p] EXCEPT !.todo = @ \ {n}, !.changed = TRUE,
                          !.st[x] = EntryOf(p, n)])
  /\ UNCHANGED <<mem, saved, torn, daemon, pending, stored, clock, bounds>>

(* Entries of memories the list does not have.                             *)
Stale(p) ==
  {x \in File : /\ run[p].st[x] # NoEntry
                /\ run[p].list[run[p].st[x].tag] = NoMem}

(* Their files go, and the state is saved, by a poll only if it did        *)
(* something.                                                              *)
MergeEnd(p) ==
  LET gone  == Stale(p)
      state == [x \in File |-> IF x \in gone THEN NoEntry ELSE run[p].st[x]]
  IN
  /\ run[p].step = "merge" /\ run[p].todo = {}
  /\ file' = [x \in File |-> IF x \in gone THEN NoFile ELSE file[x]]
  /\ IF run[p].op = "pull" \/ run[p].changed \/ gone # {}
     THEN Saving(p, state)
     ELSE Do(p, Idle) /\ UNCHANGED torn
  /\ UNCHANGED <<mem, saved, conflict, daemon, watch, stored, clock,
                 bounds>>

(* find_orphan_files: with --clean, files that are no memory's are removed *)
Orphans(p) ==
  /\ run[p].step = "orphans"
  /\ LET kept == {DtagToPath(n) : n \in {m \in Name : Listed[m] # NoMem}}
     IN  file' = IF Clean THEN [x \in File |-> IF x \in kept THEN file[x]
                                               ELSE NoFile]
                 ELSE file
  /\ Do(p, Idle)
  /\ UNCHANGED <<mem, saved, torn, conflict, daemon, watch, stored, clock, bounds>>
-----------------------------------------------------------------------------
(***************************************************************************)
(* The daemon's loop: one branch of its select at a time.                  *)
(***************************************************************************)
Looping(p) == p \in daemon /\ run[p] = Idle

(* An event of a path the daemon wrote itself is dropped; so is a "rename  *)
(* from" of one, or one that is too old, and the new name is then a change *)
(* like any other.                                                         *)
TakeEvent(p, e) ==
  /\ Looping(p) /\ e \in events
  /\ events' = events \ {e}
  /\ \/ e.path \in own /\ UNCHANGED pending
     \/ e.path \notin own /\ pending' = pending \cup {e.path}
  /\ UNCHANGED <<mem, file, saved, torn, conflict, run, daemon, own, stored,
                 clock, bounds>>

(* WRITE_SUPPRESS_MS after the write.                                      *)
ForgetOwn(p, x) ==
  /\ Looping(p) /\ x \in own
  /\ own' = own \ {x}
  /\ UNCHANGED <<mem, file, saved, torn, conflict, run, daemon, events, pending,
                 stored, clock, bounds>>

(* Debounce tick: push the paths that have been quiet. When the state      *)
(* cannot be loaded the push fails, and the paths are forgotten all the    *)
(* same.                                                                   *)
Flush(p, S) ==
  /\ Looping(p) /\ S # {} /\ S \subseteq pending
  /\ pending' = pending \ S
  /\ IF torn THEN UNCHANGED run ELSE Do(p, Pushing("changed", S))
  /\ UNCHANGED <<mem, file, saved, torn, conflict, daemon, events, own, stored,
                 clock, bounds>>

Poll(p) ==
  /\ Looping(p)
  /\ Do(p, Listing("poll"))
  /\ UNCHANGED <<mem, file, saved, torn, conflict, daemon, watch, stored, clock,
                 bounds>>

(* handle_rename: the entry of the old path goes, its memory is deleted,   *)
(* and the file is pushed from the new path; it fails when the state       *)
(* cannot be loaded.                                                       *)
Rename(p, e) ==
  /\ Looping(p) /\ e \in events /\ e.from # NoTag
  /\ {e.path, e.from} \cap own = {}
  /\ events' = events \ {e}
  /\ \/ torn /\ UNCHANGED run
     \/ /\ ~torn /\ saved[e.from] = NoEntry
        /\ Do(p, Pushing("changed", {e.path}))
     \/ /\ ~torn /\ saved[e.from] # NoEntry
        /\ Do(p, [Pushing("changed", {e.path}) EXCEPT
                   !.step = "forget", !.st[e.from] = NoEntry,
                   !.cur = [path |-> saved[e.from].tag, content |-> NoFile]])
  /\ UNCHANGED <<mem, file, saved, torn, conflict, daemon, pending, own, stored,
                 clock, bounds>>

(* memory.delete done, or failed and logged; the state is saved, and       *)
(* loaded again by the push.                                               *)
RenameForget(p) ==
  /\ run[p].step = "forget"
  /\ \/ mem' = [mem EXCEPT ![run[p].cur.path] = NoMem]
     \/ UNCHANGED mem
  /\ Saving(p, run[p].st)
  /\ UNCHANGED <<file, saved, conflict, daemon, watch, stored, clock, bounds>>

(* Killed, or stopped by `fs stop` or Ctrl-C; in the middle of a save the  *)
(* state stays torn.                                                       *)
Kill(p) ==
  /\ faults < MaxFault /\ faults' = faults + 1
  /\ run[p] # Idle \/ p \in daemon
  /\ Do(p, Idle) /\ daemon' = daemon \ {p}
  /\ IF p \in daemon THEN events' = {} /\ pending' = {} /\ own' = {}
     ELSE UNCHANGED watch
  /\ UNCHANGED <<mem, file, saved, torn, conflict, stored, clock, moves>>
-----------------------------------------------------------------------------
(***************************************************************************)
(* Other clients of the database, and editors of the files.                *)
(***************************************************************************)
RemotePut(n) ==
  /\ Stores(n, clock + 1)
  /\ UNCHANGED <<file, saved, torn, conflict, run, daemon, watch, bounds>>

RemoteDelete(n) ==
  /\ mem[n] # NoMem /\ moves < MaxMove /\ moves' = moves + 1
  /\ mem' = [mem EXCEPT ![n] = NoMem]
  /\ UNCHANGED <<file, saved, torn, conflict, run, daemon, watch, stored, clock,
                 faults>>

Writes(x, tag, stamp) ==
  /\ clock < MaxClock /\ clock' = clock + 1
  /\ file' = [file EXCEPT ![x] = [tag |-> tag, text |-> clock + 1,
                                  stamp |-> stamp]]
  /\ Notify(x, NoTag)

EditorWrite(x) ==
  /\ Exists(x) /\ Writes(x, file[x].tag, file[x].stamp)
  /\ UNCHANGED <<mem, saved, torn, conflict, run, daemon, pending, own, stored,
                 bounds>>

(* A new file has no d-tag in its frontmatter, or no frontmatter.          *)
EditorCreate(x, tag) ==
  /\ ~Exists(x) /\ Writes(x, tag, 0)
  /\ UNCHANGED <<mem, saved, torn, conflict, run, daemon, pending, own, stored,
                 bounds>>

(* The watcher leaves out removals.                                        *)
EditorDelete(x) ==
  /\ Exists(x) /\ moves < MaxMove /\ moves' = moves + 1
  /\ file' = [file EXCEPT ![x] = NoFile]
  /\ UNCHANGED <<mem, saved, torn, conflict, run, daemon, watch, stored, clock,
                 faults>>

EditorRename(x, y) ==
  /\ Exists(x) /\ ~Exists(y) /\ moves < MaxMove /\ moves' = moves + 1
  /\ file' = [file EXCEPT ![x] = NoFile, ![y] = file[x]]
  /\ Notify(y, x)
  /\ UNCHANGED <<mem, saved, torn, conflict, run, daemon, pending, own, stored,
                 clock, faults>>
-----------------------------------------------------------------------------
(* What a process does once it has begun an operation.                     *)
Proceeds(p) ==
  \/ \E x \in File : PushSkip(p, x) \/ PushGone(p, x) \/ PushRead(p, x)
  \/ PushPut(p) \/ PushFails(p) \/ PushEnd(p)
  \/ PullList(p) \/ PullLoad(p) \/ ListFails(p)
  \/ \E n \in Name : MergeSkip(p, n) \/ MergeWrite(p, n)
  \/ MergeEnd(p) \/ Orphans(p) \/ RenameForget(p) \/ SaveEnd(p)

Step(p) ==
  \/ CommandPush(p) \/ CommandPull(p) \/ CommandInit(p)
  \/ Start(p) \/ Proceeds(p)
  \/ \E e \in events : TakeEvent(p, e) \/ Rename(p, e)
  \/ \E x \in File : ForgetOwn(p, x)
  \/ \E S \in SUBSET pending : Flush(p, S)
  \/ Poll(p) \/ Kill(p)

Environment ==
  \/ \E n \in Name : RemotePut(n) \/ RemoteDelete(n)
  \/ \E x \in File : EditorWrite(x) \/ EditorDelete(x)
  \/ \E x \in File, tag \in {NoTag, Unparsed} : EditorCreate(x, tag)
  \/ \E x, y \in File : EditorRename(x, y)

Next == (\E p \in Proc : Step(p)) \/ Environment

Spec == Init /\ [][Next]_vars

(* A daemon that ended is started again; what it is doing goes on; its     *)
(* select does not leave the poll out for ever; of the lists it asks for   *)
(* again and again some are answered.                                      *)
LiveSpec ==
  /\ Spec
  /\ \A p \in Proc : /\ SF_vars(Start(p)) /\ WF_vars(Proceeds(p))
                     /\ SF_vars(Poll(p)) /\ SF_vars(PullList(p))
                     /\ SF_vars(Orphans(p))
-----------------------------------------------------------------------------
Tag     == Name \cup {NoTag, Unparsed}
Content == [tag : Tag, text : 0 .. MaxClock, stamp : Stamp]
Entry   == [tag : Name \cup {NoTag}, hash : Content]
State   == [File -> Entry]
List    == [Name -> [text : 0 .. MaxClock, stamp : Stamp]]
Run     == [op : {"none", "push", "pull", "poll", "changed", "init"},
            step : {"idle", "files", "put", "list", "load", "merge",
                    "orphans", "forget", "save"},
            st : State, list : List, todo : SUBSET (File \cup Name),
            cur : [path : File \cup Name \cup {NoTag}, content : Content],
            changed : BOOLEAN]

TypeOK ==
  /\ mem \in List /\ file \in [File -> Content]
  /\ conflict \in [File -> Content]
  /\ saved \in State /\ torn \in BOOLEAN
  /\ run \in [Proc -> Run] /\ daemon \subseteq Proc
  /\ events \subseteq [path : File, from : File \cup {NoTag}]
  /\ pending \subseteq File /\ own \subseteq File
  /\ stored \subseteq Text /\ clock \in 0 .. MaxClock
  /\ moves \in 0 .. MaxMove /\ faults \in 0 .. MaxFault

(* What state.json, or the copy of it in a process, takes for synced has   *)
(* been in the database, whatever the editor did while the put was on its  *)
(* way: a file that still has its entry's hash holds nothing to send.      *)
EntryWasStored ==
  \A x \in File :
    /\ saved[x] # NoEntry => saved[x].hash.text \in stored
    /\ \A p \in Proc :
         run[p].st[x] # NoEntry => run[p].st[x].hash.text \in stored

(* A poll that writes over a file it has an entry for loses no edit: what  *)
(* was there has been in the database, or is in the conflicts directory.   *)
PollKeepsEdits ==
  [][\A p \in Proc : \A x \in File :
       /\ run[p].op = "poll" /\ run'[p] # run[p]
       /\ run[p].st[x] # NoEntry
       /\ Exists(x) /\ file'[x] \notin {file[x], NoFile}
       => file[x].text \in stored \/ conflict'[x] = file[x]]_vars

Unsent(n) ==
  LET f == file[DtagToPath(n)]
  IN  f # NoFile /\ (f.tag # n \/ f.text \notin stored)

(* A kill left a state that no process can load, and none is writing it:   *)
(* until `fs init` pushes and pulls fail, and no daemon starts.            *)
Unreadable == torn /\ \A p \in Proc : run[p].step # "save"

(* A memory whatever client put reaches its file, unless it is put again   *)
(* or deleted, an editor has a change there that was never sent, or the    *)
(* daemon was killed in the middle of a save.                              *)
RemoteReachesFile ==
  \A n \in Name, t \in Text :
    mem[n].text = t ~> \/ mem[n].text # t
                       \/ file[DtagToPath(n)].text = t
                       \/ Unsent(n)
                       \/ Unreadable
=============================================================================
