------------------------------ MODULE FsProofs ------------------------------
(***************************************************************************)
(* What holds of FsSync for any number of processes, memories and files,   *)
(* of edits, moves and kills.                                              *)
(***************************************************************************)
EXTENDS FsSync, TLAPS

-----------------------------------------------------------------------------
(***************************************************************************)
(* What a process holds: entries and listed memories whose contents are    *)
(* in S, names left to merge that are listed, and a file that can be sent. *)
(***************************************************************************)
KeepsEntries(st, S) ==
  \A x \in File : st[x] # NoEntry => st[x].tag \in Name /\ st[x].hash.text \in S

KeepsList(list, S) == \A n \in Name : list[n] # NoMem => list[n].text \in S

Proper(r, S) ==
  /\ r \in Run
  /\ KeepsEntries(r.st, S) /\ KeepsList(r.list, S)
  /\ r.step = "merge" => \A n \in r.todo \cap Name : r.list[n] # NoMem
  /\ r.step = "put" => /\ r.cur.path \in File /\ r.cur.content.text \in Text
                       /\ r.cur.content.tag # Unparsed

Files ==
  /\ file \in [File -> Content] /\ conflict \in [File -> Content]
  /\ \A x \in File : file[x] # NoFile => file[x].text \in Text

Database ==
  /\ mem \in List /\ KeepsList(mem, stored)
  /\ stored \subseteq Text /\ clock \in 0 .. MaxClock

Disk == saved \in State /\ KeepsEntries(saved, stored)

Daemon ==
  /\ daemon \subseteq Proc
  /\ events \subseteq [path : File, from : File \cup {NoTag}]
  /\ pending \subseteq File /\ own \subseteq File

Counters == moves \in 0 .. MaxMove /\ faults \in 0 .. MaxFault

Runs == run \in [Proc -> Run] /\ \A p \in Proc : Proper(run[p], stored)

AllStored == Files /\ Database /\ Disk /\ Daemon /\ Counters /\ Runs

(* The bounds are numbers, in all that follows.                            *)
USE NameAssumption, BoundAssumption

(* What was in the database stays counted as stored.                       *)
LEMMA StillProper ==
  ASSUME NEW S, NEW T, S \subseteq T, NEW r, Proper(r, S)
  PROVE  Proper(r, T)
  BY DEF Proper, KeepsEntries, KeepsList

(* A step of one process leaves the others as they were.                   *)
LEMMA OneRuns ==
  ASSUME Runs, NEW p \in Proc, NEW r, Do(p, r), Proper(r, stored'),
         stored \subseteq stored'
  PROVE  Runs'
<1>1. run' = [run EXCEPT ![p] = r] /\ r \in Run
  BY DEF Do, Proper
<1>2. run' \in [Proc -> Run]
  BY <1>1 DEF Runs
<1>3. ASSUME NEW q \in Proc PROVE Proper(run'[q], stored')
  <2>1. CASE q = p
    BY <1>1, <2>1 DEF Runs
  <2>2. CASE q # p
    <3>1. run'[q] = run[q] /\ Proper(run[q], stored)
      BY <1>1, <2>2 DEF Runs
    <3> QED
      BY <3>1, StillProper
  <2> QED
    BY <2>1, <2>2
<1> QED
  BY <1>2, <1>3 DEF Runs

(* Nothing is worth less when only the database and its history grow.      *)
LEMMA NoneRuns ==
  ASSUME Runs, run' = run, stored \subseteq stored'
  PROVE  Runs'
  BY StillProper DEF Runs

(* The constant records are well formed.                                   *)
LEMMA Constants ==
  /\ NoFile \in Content /\ NoEntry \in Entry /\ NoList \in List
  /\ [x \in File |-> NoEntry] \in State /\ NoCur \in [path : {NoTag}, content : {NoFile}]
  /\ \A S : Proper(Idle, S)
  /\ \A n \in Name : DtagToPath(n) \in File
<1>1. NoFile \in Content /\ NoEntry \in Entry
  BY DEF NoFile, NoEntry, Content, Entry, Tag, Stamp
<1>2. NoList \in List
  BY DEF NoList, NoMem, List, Stamp
<1>3. [x \in File |-> NoEntry] \in State
  BY <1>1 DEF State
<1>4. NoCur \in [path : {NoTag}, content : {NoFile}]
  BY DEF NoCur
<1>5. Idle \in Run
  BY <1>1, <1>2, <1>3 DEF Idle, Run, NoCur
<1>6. \A S : KeepsEntries(Idle.st, S) /\ KeepsList(Idle.list, S)
  BY DEF Idle, KeepsEntries, KeepsList, NoList
<1> QED
  BY <1>1, <1>2, <1>3, <1>4, <1>5, <1>6 DEF Proper, Idle, File

(* What begins with the state of the disk, or with nothing.                *)
LEMMA Begun ==
  ASSUME Disk, NEW S \in SUBSET File
  PROVE  /\ \A op \in {"push", "changed"} : Proper(Pushing(op, S), stored)
         /\ \A op \in {"pull", "poll"} : Proper(Listing(op), stored)
<1>1. ASSUME NEW op \in {"push", "changed"} PROVE Proper(Pushing(op, S), stored)
  <2>1. Pushing(op, S) = [Idle EXCEPT !.op = op, !.step = "files", !.st = saved, !.todo = S]
    BY DEF Pushing
  <2>2. Proper(Idle, stored)
    BY Constants
  <2>3. Pushing(op, S) \in Run
    BY <2>1, <2>2 DEF Disk, Proper, Run
  <2>4. LET r == Pushing(op, S) IN
        r.step = "files" /\ r.st = saved /\ r.list = Idle.list
    BY <2>1, <2>2 DEF Proper, Run
  <2> QED
    BY <2>2, <2>3, <2>4 DEF Disk, Proper
<1>2. ASSUME NEW op \in {"pull", "poll"} PROVE Proper(Listing(op), stored)
  <2>1. Listing(op) = [Idle EXCEPT !.op = op, !.step = "list"]
    BY DEF Listing
  <2> QED
    BY <2>1, Constants DEF Proper, Run
<1> QED
  BY <1>1, <1>2

(* What a push sends is stored under a name.                               *)
LEMMA SentName ==
  ASSUME NEW x \in File, NEW f \in Content, ~Unsendable(x, f) \/ f.tag # Unparsed
  PROVE  StoredAs(ResolveTag(x, f)) \in Name
<1>1. PICK n \in Name : x = DtagToPath(n)
  BY DEF File
<1>2. PathToDtag(x) \in Name
  BY <1>1, ClosedAssumption
<1>3. f.tag \in Name \cup {NoTag}
  BY DEF Content, Tag, Unsendable
<1>4. ResolveTag(x, f) \in Name
  BY <1>2, <1>3 DEF ResolveTag
<1> QED
  BY <1>4, ClosedAssumption

(* A put draws a new time and keeps what the database holds.               *)
LEMMA StoresKeeps ==
  ASSUME Database, NEW d \in Name, NEW text \in Text, Stores(d, text)
  PROVE  Database' /\ stored \subseteq stored' /\ text \in stored'
<1>1. clock + 1 \in 0 .. MaxClock /\ text \in 0 .. MaxClock
  BY DEF Database, Stores, Text
<1>2. mem' = [mem EXCEPT ![d] = [text |-> text, stamp |-> clock + 1]]
  BY DEF Stores
<1>3. mem' \in List
  BY <1>1, <1>2 DEF Database, List, Stamp
<1>4. stored' = stored \cup {text} /\ clock' = clock + 1
  BY DEF Stores
<1>5. KeepsList(mem', stored')
  BY <1>2, <1>4 DEF Database, KeepsList, List
<1> QED
  BY <1>1, <1>3, <1>4, <1>5 DEF Database

(* An event is one of files.                                               *)
LEMMA Notified ==
  ASSUME Daemon, NEW x \in File, NEW y \in File \cup {NoTag}, Notify(x, y)
  PROVE  events' \subseteq [path : File, from : File \cup {NoTag}]
  BY DEF Daemon, Notify

-----------------------------------------------------------------------------
(***************************************************************************)
(* Every step keeps AllStored.                                             *)
(***************************************************************************)

(* A step that changes only what one process does.                         *)
LEMMA Aside ==
  ASSUME AllStored, NEW p \in Proc, NEW r, Do(p, r), Proper(r, stored),
         UNCHANGED <<mem, file, saved, conflict, stored, clock>>,
         Daemon', Counters'
  PROVE  AllStored'
<1>1. Runs'
  BY OneRuns DEF AllStored
<1> QED
  BY <1>1 DEF AllStored, Files, Database, Disk

Alone(p) ==
  \/ CommandPush(p) \/ CommandPull(p) \/ CommandInit(p) \/ Start(p) \/ Poll(p)
  \/ \E x \in File : PushSkip(p, x) \/ PushGone(p, x) \/ PushRead(p, x)
  \/ PushFails(p) \/ PullList(p) \/ PullLoad(p) \/ ListFails(p)
  \/ \E n \in Name : MergeSkip(p, n)
  \/ \E S \in SUBSET pending : Flush(p, S)
  \/ Kill(p)
  \/ \E e \in events : Rename(p, e)

(* The process begins, skips, reads, fails, or lists.                      *)
LEMMA Unshared ==
  ASSUME AllStored, NEW p \in Proc, Alone(p)
  PROVE  AllStored'
<1>1. /\ run[p] \in Run /\ Proper(run[p], stored) /\ Daemon /\ Counters /\ Disk
      /\ Files /\ Database /\ Runs
  BY DEF AllStored, Runs
<1> USE <1>1
<1> DEFINE Done(r) == /\ Do(p, r) /\ UNCHANGED <<mem, file, saved, conflict, stored, clock>>
                      /\ Daemon' /\ Counters'
<1>2. ASSUME NEW r, Done(r), Proper(r, stored) PROVE AllStored'
  BY <1>2, Aside
<1> DEFINE Same == UNCHANGED <<events, pending, own, moves, faults>> /\ daemon' \subseteq daemon
<1>3. Same => Daemon' /\ Counters'
  BY DEF Daemon, Counters
<1>4. CASE CommandPush(p) \/ CommandPull(p) \/ Poll(p)
  <2>1. Same
    BY <1>4 DEF CommandPush, CommandPull, Poll, watch, bounds
  <2>2. PICK r : Done(r) /\ Proper(r, stored)
    BY <1>3, <1>4, <2>1, Begun DEF CommandPush, CommandPull, Poll, Existing
  <2> QED
    BY <1>2, <2>2
<1>5. CASE Start(p)
  <2>1. Daemon' /\ Counters'
    BY <1>5 DEF Start, watch, bounds, Daemon, Counters
  <2>2. PICK r : Done(r) /\ Proper(r, stored)
    BY <1>5, <2>1, Begun DEF Start, Existing
  <2> QED
    BY <1>2, <2>2
<1>6. ASSUME NEW x \in File, PushSkip(p, x) PROVE AllStored'
  <2> DEFINE r == [run[p] EXCEPT !.todo = Rest(p, x)]
  <2>1. Same /\ Done(r)
    BY <1>3, <1>6 DEF PushSkip, watch, bounds
  <2>2. Proper(r, stored)
    BY <1>6 DEF PushSkip, Proper, Run, Rest
  <2> QED
    BY <1>2, <2>1, <2>2
<1>7. ASSUME NEW x \in File, PushGone(p, x) PROVE AllStored'
  <2>1. Same /\ Done(Idle)
    BY <1>3, <1>7 DEF PushGone, watch, bounds
  <2> QED
    BY <1>2, <2>1, Constants
<1>8. ASSUME NEW x \in File, PushRead(p, x) PROVE AllStored'
  <2> DEFINE c == [path |-> x, content |-> file[x]]
             r == [run[p] EXCEPT !.step = "put", !.todo = Rest(p, x), !.cur = c]
  <2>1. Same /\ UNCHANGED <<mem, file, saved, conflict, stored, clock>>
    BY <1>8 DEF PushRead, watch, bounds
  <2>2. Do(p, r)
    BY <1>8 DEF PushRead
  <2>3. Done(r)
    BY <1>3, <2>1, <2>2
  <2>4. file[x] \in Content /\ file[x].text \in Text /\ file[x].tag # Unparsed
    BY <1>8 DEF PushRead, Files, Exists, Unsendable
  <2>5. c \in [path : File, content : Content] /\ c.content = file[x] /\ c.path = x
    BY <2>4
  <2> HIDE DEF c
  <2>6. Proper(r, stored)
    BY <2>4, <2>5 DEF Proper, Run, Rest
  <2> QED
    BY <1>2, <2>3, <2>6
<1>9. CASE PushFails(p)
  <2> DEFINE r == [run[p] EXCEPT !.step = "files", !.cur = NoCur]
  <2>1. Same /\ Done(r)
    BY <1>3, <1>9 DEF PushFails, watch, bounds
  <2>2. Proper(r, stored)
    BY Constants DEF Proper, Run
  <2> QED
    BY <1>2, <2>1, <2>2
<1>10. CASE PullList(p)
  <2> DEFINE r == [run[p] EXCEPT !.step = "load", !.list = Listed]
  <2>1. Same /\ Done(r)
    BY <1>3, <1>10 DEF PullList, watch, bounds
  <2>2. Listed \in List /\ KeepsList(Listed, stored)
    <3>1. ASSUME NEW n \in Name PROVE Listed[n] = mem[n] \/ Listed[n] = NoMem
      BY <3>1 DEF Listed
    <3>2. NoMem \in [text : 0 .. MaxClock, stamp : Stamp]
      BY DEF NoMem, Stamp
    <3> QED
      BY <3>1, <3>2 DEF Listed, List, Database, KeepsList
  <2>3. Proper(r, stored)
    BY <2>2 DEF Proper, Run
  <2> QED
    BY <1>2, <2>1, <2>3
<1>11. CASE PullLoad(p)
  <2> DEFINE T == {n \in Name : run[p].list[n] # NoMem}
             r == [run[p] EXCEPT !.step = "merge", !.st = saved, !.todo = T]
  <2>1. Same /\ Done(r)
    BY <1>3, <1>11 DEF PullLoad, watch, bounds
  <2>2. T \subseteq Name /\ \A n \in T : run[p].list[n] # NoMem
    OBVIOUS
  <2> HIDE DEF T
  <2>3. Proper(r, stored)
    BY <2>2 DEF Proper, Run, Disk
  <2> QED
    BY <1>2, <2>1, <2>3
<1>12. CASE ListFails(p)
  <2>1. Same /\ Done(Idle)
    BY <1>3, <1>12 DEF ListFails, watch, bounds
  <2> QED
    BY <1>2, <2>1, Constants
<1>13. ASSUME NEW n \in Name, MergeSkip(p, n) PROVE AllStored'
  <2> DEFINE r1 == [run[p] EXCEPT !.todo = @ \ {n}]
             r2 == [run[p] EXCEPT !.todo = @ \ {n}, !.st[DtagToPath(n)] = EntryOf(p, n)]
  <2>1. /\ Same /\ UNCHANGED <<mem, file, saved, conflict, stored, clock>>
        /\ run[p].step = "merge" /\ n \in run[p].todo
    BY <1>13 DEF MergeSkip, watch, bounds
  <2>2. Do(p, r1) \/ Do(p, r2)
    BY <1>13 DEF MergeSkip
  <2>3. Done(r1) \/ Done(r2)
    BY <1>3, <2>1, <2>2
  <2>4. Proper(r1, stored)
    BY <2>1 DEF Proper, Run
  <2>5. Proper(r2, stored)
    <3>1. EntryOf(p, n) \in Entry /\ EntryOf(p, n).tag = n /\ EntryOf(p, n).hash.text \in stored
      <4>1. run[p].list \in List /\ run[p].list[n].text \in stored
        BY <2>1 DEF Proper, Run, KeepsList
      <4>2. Markdown(n, run[p].list[n]) \in Content
            /\ Markdown(n, run[p].list[n]).text \in stored
        BY <4>1 DEF Markdown, List, Content, Tag
      <4> QED
        BY <4>2 DEF EntryOf, Entry
    <3>2. r2.st = [run[p].st EXCEPT ![DtagToPath(n)] = EntryOf(p, n)]
      BY DEF Run
    <3>3. r2.st \in State /\ KeepsEntries(r2.st, stored)
      BY <3>1, <3>2 DEF Proper, Run, State, KeepsEntries
    <3> QED
      BY <2>1, <3>3 DEF Proper, Run
  <2> QED
    BY <1>2, <2>3, <2>4, <2>5
<1>14. ASSUME NEW S \in SUBSET pending, Flush(p, S) PROVE AllStored'
  <2>1. Daemon' /\ Counters' /\ S \in SUBSET File
    BY <1>14 DEF Flush, bounds, Daemon, Counters
  <2>2. Do(p, Pushing("changed", S)) \/ Do(p, run[p])
    BY <1>14 DEF Flush, Do, Runs
  <2>3. Done(Pushing("changed", S)) \/ Done(run[p])
    BY <1>14, <2>1, <2>2 DEF Flush
  <2> QED
    BY <1>2, <2>1, <2>3, Begun
<1>15. CASE Kill(p)
  <2>1. Daemon' /\ Counters'
    BY <1>15 DEF Kill, watch, Daemon, Counters
  <2>2. Done(Idle)
    BY <1>15, <2>1 DEF Kill
  <2> QED
    BY <1>2, <2>2, Constants
<1>16. ASSUME NEW e \in events, Rename(p, e) PROVE AllStored'
  <2> DEFINE r0 == Pushing("changed", {e.path})
             c == [path |-> saved[e.from].tag, content |-> NoFile]
             r == [r0 EXCEPT !.step = "forget", !.st[e.from] = NoEntry, !.cur = c]
  <2>1. e.path \in File /\ e.from \in File
    BY <1>16 DEF Rename, Daemon
  <2>2. Done(r0) \/ Done(r) \/ Done(run[p])
    <3>1. Daemon' /\ Counters'
      BY <1>16 DEF Rename, bounds, Daemon, Counters
    <3>2. UNCHANGED <<mem, file, saved, conflict, stored, clock>>
      BY <1>16 DEF Rename
    <3>3. Do(p, r0) \/ Do(p, r) \/ Do(p, run[p])
      BY <1>16 DEF Rename, Do, Runs
    <3> QED
      BY <3>1, <3>2, <3>3
  <2>3. Proper(r0, stored)
    BY <2>1, Begun
  <2>4. c \in [path : Name \cup {NoTag}, content : Content]
    BY <2>1, Constants DEF Disk, State, Entry
  <2> HIDE DEF r0, c
  <2>5. r.st = [r0.st EXCEPT ![e.from] = NoEntry]
    BY <2>3 DEF Proper, Run
  <2>6. r.st \in State /\ KeepsEntries(r.st, stored)
    BY <2>1, <2>3, <2>5, Constants DEF Proper, Run, State, KeepsEntries
  <2>7. Proper(r, stored)
    BY <2>3, <2>4, <2>6 DEF Proper, Run
  <2> QED
    BY <1>2, <2>2, <2>3, <2>7
<1>17. CASE CommandInit(p)
  <2> DEFINE r == [Idle EXCEPT !.op = "init", !.step = "save"]
  <2>1. Same /\ Done(r)
    BY <1>3, <1>17 DEF CommandInit, watch, bounds
  <2>2. Proper(r, stored)
    BY Constants DEF Proper, Run
  <2> QED
    BY <1>2, <2>1, <2>2
<1> QED
  BY <1>4, <1>5, <1>6, <1>7, <1>8, <1>9, <1>10, <1>11, <1>12, <1>13, <1>14, <1>15, <1>16, <1>17
  DEF Alone

Visible(p) ==
  \/ PushPut(p) \/ PushEnd(p) \/ \E n \in Name : MergeWrite(p, n)
  \/ MergeEnd(p) \/ Orphans(p) \/ RenameForget(p) \/ SaveEnd(p)
  \/ \E e \in events : TakeEvent(p, e)
  \/ \E x \in File : ForgetOwn(p, x)

(* What a process is about to save is as good as what it has.              *)
LEMMA Saved ==
  ASSUME NEW S, NEW r, Proper(r, S), NEW st \in State, KeepsEntries(st, S)
  PROVE  Proper([r EXCEPT !.step = "save", !.st = st, !.cur = NoCur], S)
<1> DEFINE q == [r EXCEPT !.step = "save", !.st = st, !.cur = NoCur]
<1>1. NoCur \in [path : {NoTag}, content : Content]
  BY Constants
<1>2. r \in Run /\ KeepsList(r.list, S)
  BY DEF Proper
<1>3. q \in Run /\ q.st = st /\ q.list = r.list /\ q.step = "save"
  BY <1>1, <1>2 DEF Run
<1> QED
  BY <1>2, <1>3 DEF Proper

(* The process writes to the database, the disk or the directory.          *)
LEMMA Shared ==
  ASSUME AllStored, NEW p \in Proc, Visible(p)
  PROVE  AllStored'
<1>1. /\ run[p] \in Run /\ Proper(run[p], stored) /\ Daemon /\ Counters /\ Disk
      /\ Files /\ Database /\ Runs
  BY DEF AllStored, Runs
<1> USE <1>1
<1> DEFINE Same == UNCHANGED <<events, pending, own, moves, faults>> /\ daemon' \subseteq daemon
<1>2. Same => Daemon' /\ Counters'
  BY DEF Daemon, Counters
<1>3. CASE PushPut(p)
  <2> DEFINE c == run[p].cur
             d == StoredAs(ResolveTag(c.path, c.content))
             r == [run[p] EXCEPT !.step = "files", !.cur = NoCur,
                                 !.st[c.path] = EntryOfPush(c, d), !.changed = TRUE]
  <2>1. c.path \in File /\ c.content \in Content /\ c.content.text \in Text
        /\ c.content.tag # Unparsed
    BY <1>3 DEF PushPut, Proper, Run
  <2>2. d \in Name
    BY <2>1, SentName
  <2>3. Stores(d, c.content.text) /\ Do(p, r)
        /\ UNCHANGED <<file, saved, conflict>> /\ Same
    BY <1>3 DEF PushPut, watch, bounds
  <2>4. /\ EntryOfPush(c, d) \in Entry /\ EntryOfPush(c, d).tag = d
        /\ EntryOfPush(c, d).hash.text = c.content.text
    BY <2>1, <2>2 DEF EntryOfPush, Entry
  <2>5. r.st = [run[p].st EXCEPT ![c.path] = EntryOfPush(c, d)]
    BY DEF Run
  <2> DEFINE text == c.content.text
             en == EntryOfPush(c, d)
  <2>6. r \in Run
    <3>1. run[p].st \in State
      BY DEF Run
    <3>2. r.st \in State
      BY <2>1, <2>4, <2>5, <3>1 DEF State
    <3> HIDE DEF c, d
    <3> QED
      BY <2>5, <3>2, Constants DEF Run
  <2> HIDE DEF d
  <2>7. Database' /\ stored \subseteq stored' /\ text \in stored'
    BY <2>1, <2>2, <2>3, StoresKeeps
  <2>8. KeepsEntries(r.st, stored')
    BY <2>1, <2>2, <2>4, <2>5, <2>7 DEF Proper, KeepsEntries, Run, State
  <2>9. r.step = "files" /\ r.list = run[p].list
    BY DEF Run
  <2>10. Proper(r, stored')
    BY <2>6, <2>7, <2>8, <2>9 DEF Proper, KeepsList
  <2>11. Runs'
    BY <2>3, <2>7, <2>10, OneRuns
  <2>12. Disk' /\ Files'
    BY <2>3, <2>7 DEF Disk, Files, KeepsEntries
  <2> QED
    BY <1>2, <2>3, <2>7, <2>11, <2>12 DEF AllStored
<1>4. CASE PushEnd(p)
  <2>1. /\ UNCHANGED <<mem, file, saved, conflict, stored, clock>> /\ Same
        /\ Saving(p, run[p].st) \/ Do(p, Idle)
    BY <1>4 DEF PushEnd, watch, bounds
  <2>2. PICK r : Do(p, r) /\ Proper(r, stored)
    <3>1. run[p].st \in State /\ KeepsEntries(run[p].st, stored)
      BY DEF Proper, Run
    <3> QED
      BY <2>1, <3>1, Saved, Constants DEF Saving
  <2>3. Runs'
    BY <2>1, <2>2, OneRuns
  <2> QED
    BY <1>2, <2>1, <2>3 DEF AllStored, Files, Database, Disk
<1>5. ASSUME NEW n \in Name, MergeWrite(p, n) PROVE AllStored'
  <2> DEFINE x == DtagToPath(n)
             r == [run[p] EXCEPT !.todo = @ \ {n}, !.changed = TRUE, !.st[x] = EntryOf(p, n)]
             f == Markdown(n, run[p].list[n])
  <2>1. /\ Do(p, r) /\ file' = [file EXCEPT ![x] = f] /\ Notify(x, NoTag)
        /\ UNCHANGED <<mem, saved, daemon, pending, stored, clock, bounds>>
        /\ run[p].step = "merge" /\ n \in run[p].todo
    BY <1>5 DEF MergeWrite
  <2>11. /\ conflict' = [conflict EXCEPT ![x] = file[x]] \/ conflict' = conflict
         /\ own' = own \cup {x} \/ own' = own
    BY <1>5 DEF MergeWrite
  <2>2. x \in File
    BY Constants
  <2>3. f \in Content /\ f.text \in stored /\ f.text \in Text
    BY <2>1 DEF Markdown, Proper, Run, List, Content, Tag, KeepsList, Database
  <2>4. EntryOf(p, n) \in Entry /\ EntryOf(p, n).tag = n /\ EntryOf(p, n).hash = f
    BY <2>3 DEF EntryOf, Entry
  <2>5. r.st = [run[p].st EXCEPT ![x] = EntryOf(p, n)]
    BY DEF Run
  <2> HIDE DEF x, f
  <2>6. r.st \in State /\ KeepsEntries(r.st, stored)
    BY <2>2, <2>3, <2>4, <2>5 DEF Proper, Run, State, KeepsEntries
  <2>7. Proper(r, stored)
    BY <2>1, <2>6 DEF Proper, Run
  <2> HIDE DEF r
  <2>8. Runs'
    BY <2>1, <2>7, OneRuns
  <2>9. Files'
    BY <2>1, <2>2, <2>3, <2>11 DEF Files
  <2>10. Daemon'
    BY <2>1, <2>2, <2>11, Notified DEF Daemon
  <2> QED
    BY <2>1, <2>8, <2>9, <2>10 DEF AllStored, Database, Disk, Counters, bounds
<1>6. CASE MergeEnd(p)
  <2> DEFINE state == [x \in File |-> IF x \in Stale(p) THEN NoEntry ELSE run[p].st[x]]
  <2>1. /\ file' = [x \in File |-> IF x \in Stale(p) THEN NoFile ELSE file[x]]
        /\ UNCHANGED <<mem, saved, conflict, stored, clock>> /\ Same
        /\ Do(p, Idle) \/ Saving(p, state)
    BY <1>6 DEF MergeEnd, watch, bounds
  <2>2. state \in State /\ KeepsEntries(state, stored)
    BY Constants DEF Proper, Run, State, KeepsEntries
  <2> HIDE DEF state
  <2>3. PICK r : Do(p, r) /\ Proper(r, stored)
    BY <2>1, <2>2, Saved, Constants DEF Saving
  <2>4. Runs'
    BY <2>1, <2>3, OneRuns
  <2>5. Files'
    BY <2>1, Constants DEF Files
  <2> QED
    BY <1>2, <2>1, <2>4, <2>5 DEF AllStored, Database, Disk
<1>7. CASE Orphans(p)
  <2>1. Do(p, Idle) /\ UNCHANGED <<mem, saved, conflict, stored, clock>> /\ Same
    BY <1>7 DEF Orphans, watch, bounds
  <2>2. \E K : file' = [x \in File |-> IF x \in K THEN file[x] ELSE NoFile] \/ file' = file
    BY <1>7 DEF Orphans
  <2>3. Files'
    BY <2>1, <2>2, Constants DEF Files
  <2>4. Runs'
    BY <2>1, Constants, OneRuns
  <2> QED
    BY <1>2, <2>1, <2>3, <2>4 DEF AllStored, Database, Disk
<1>8. CASE RenameForget(p)
  <2>1. /\ mem' = [mem EXCEPT ![run[p].cur.path] = NoMem] \/ mem' = mem
        /\ Saving(p, run[p].st)
        /\ UNCHANGED <<file, saved, conflict, stored, clock>> /\ Same
    BY <1>8 DEF RenameForget, watch, bounds
  <2>2. PICK r : Do(p, r) /\ Proper(r, stored)
    BY <2>1, Saved DEF Saving, Proper, Run
  <2>3. Runs'
    BY <2>1, <2>2, OneRuns
  <2>4. NoMem \in [text : 0 .. MaxClock, stamp : Stamp]
    BY DEF NoMem, Stamp
  <2>5. Database'
    BY <2>1, <2>4 DEF Database, List, KeepsList
  <2> QED
    BY <1>2, <2>1, <2>3, <2>5 DEF AllStored, Files, Disk
<1>11. CASE SaveEnd(p)
  <2>1. /\ saved' = run[p].st /\ torn' = FALSE /\ Do(p, AfterSave(p))
        /\ UNCHANGED <<mem, file, conflict, stored, clock>> /\ Same
    BY <1>11 DEF SaveEnd, watch, bounds
  <2>2. Proper(AfterSave(p), stored)
    <3> DEFINE r == [run[p] EXCEPT !.step = "files"]
               q == [Idle EXCEPT !.op = "pull", !.step = "orphans"]
    <3>1. Proper(r, stored)
      BY DEF Proper, Run
    <3>2. Proper(q, stored)
      BY Constants DEF Proper, Run
    <3>3. Proper(Listing("pull"), stored)
      BY Begun
    <3>4. AfterSave(p) \in {Listing("pull"), q, r, Idle}
      BY DEF AfterSave
    <3> HIDE DEF r, q
    <3> QED
      BY <3>1, <3>2, <3>3, <3>4, Constants
  <2>3. Runs'
    BY <2>1, <2>2, OneRuns
  <2>4. Disk'
    BY <2>1 DEF Disk, Proper, Run
  <2> QED
    BY <1>2, <2>1, <2>3, <2>4 DEF AllStored, Files, Database
<1>9. ASSUME NEW e \in events, TakeEvent(p, e) PROVE AllStored'
  BY <1>9, NoneRuns DEF TakeEvent, AllStored, Files, Database, Disk, Daemon, Counters, bounds
<1>10. ASSUME NEW x \in File, ForgetOwn(p, x) PROVE AllStored'
  BY <1>10, NoneRuns DEF ForgetOwn, AllStored, Files, Database, Disk, Daemon, Counters, bounds
<1> QED
  BY <1>3, <1>4, <1>5, <1>6, <1>7, <1>8, <1>9, <1>10, <1>11 DEF Visible

(* Editors and other clients.                                              *)
LEMMA Others ==
  ASSUME AllStored, Environment
  PROVE  AllStored'
<1>1. Daemon /\ Counters /\ Disk /\ Files /\ Database /\ Runs
  BY DEF AllStored
<1> USE <1>1
<1>2. ASSUME NEW n \in Name, RemotePut(n) PROVE AllStored'
  <2>1. clock + 1 \in Text
    BY <1>2 DEF RemotePut, Stores, Database, Text
  <2>2. Database' /\ stored \subseteq stored'
    BY <1>2, <2>1, StoresKeeps DEF RemotePut
  <2>3. UNCHANGED <<file, saved, conflict, run, daemon, events, pending, own, moves, faults>>
    BY <1>2 DEF RemotePut, watch, bounds
  <2>4. Runs'
    BY <2>2, <2>3, NoneRuns
  <2> QED
    BY <2>2, <2>3, <2>4 DEF AllStored, Files, Disk, KeepsEntries, Daemon, Counters
<1>3. ASSUME NEW n \in Name, RemoteDelete(n) PROVE AllStored'
  <2>1. NoMem \in [text : 0 .. MaxClock, stamp : Stamp]
    BY DEF NoMem, Stamp
  <2>2. Database' /\ Counters'
    BY <1>3, <2>1 DEF RemoteDelete, Database, List, KeepsList, Counters
  <2>3. UNCHANGED <<file, saved, conflict, run, daemon, events, pending, own, stored>>
    BY <1>3 DEF RemoteDelete, watch
  <2>4. Runs'
    BY <2>3, NoneRuns
  <2> QED
    BY <2>2, <2>3, <2>4 DEF AllStored, Files, Disk, Daemon
<1>4. ASSUME NEW x \in File, NEW tag \in Tag, NEW stamp \in Stamp, Writes(x, tag, stamp),
             UNCHANGED <<mem, saved, conflict, run, daemon, pending, own, stored, bounds>>
      PROVE  AllStored'
  <2>1. clock' = clock + 1 /\ clock' \in 0 .. MaxClock /\ clock' \in Text
    BY <1>4 DEF Writes, Database, Text
  <2>2. file' = [file EXCEPT ![x] = [tag |-> tag, text |-> clock', stamp |-> stamp]]
    BY <1>4, <2>1 DEF Writes
  <2>3. Files'
    BY <1>4, <2>1, <2>2 DEF Files, Content
  <2>4. Daemon'
    BY <1>4, Notified DEF Writes, Daemon
  <2>5. Runs'
    BY <1>4, NoneRuns
  <2> QED
    BY <1>4, <2>1, <2>3, <2>4, <2>5 DEF AllStored, Database, Disk, Counters, bounds
<1>5. ASSUME NEW x \in File, EditorWrite(x) PROVE AllStored'
  <2>1. file[x].tag \in Tag /\ file[x].stamp \in Stamp
    BY DEF Files, Content
  <2> QED
    BY <1>4, <1>5, <2>1 DEF EditorWrite
<1>6. ASSUME NEW x \in File, NEW tag \in {NoTag, Unparsed}, EditorCreate(x, tag)
      PROVE  AllStored'
  <2>1. tag \in Tag /\ 0 \in Stamp
    BY DEF Tag, Stamp
  <2> QED
    BY <1>4, <1>6, <2>1 DEF EditorCreate
<1>7. ASSUME NEW x \in File, EditorDelete(x) PROVE AllStored'
  <2>1. Files' /\ Counters'
    BY <1>7, Constants DEF EditorDelete, Files, Counters
  <2> QED
    BY <1>7, <2>1, NoneRuns DEF EditorDelete, AllStored, Database, Disk, Daemon, watch
<1>8. ASSUME NEW x \in File, NEW y \in File, EditorRename(x, y) PROVE AllStored'
  <2>1. Files' /\ Counters'
    BY <1>8, Constants DEF EditorRename, Files, Counters
  <2>2. Daemon'
    BY <1>8, Notified DEF EditorRename, Daemon
  <2> QED
    BY <1>8, <2>1, <2>2, NoneRuns DEF EditorRename, AllStored, Database, Disk
<1> QED
  BY <1>2, <1>3, <1>5, <1>6, <1>7, <1>8 DEF Environment

(* All steps together.                                                     *)
LEMMA StoredStep == AllStored /\ [Next]_vars => AllStored'
<1> SUFFICES ASSUME AllStored, [Next]_vars PROVE AllStored'
  OBVIOUS
<1>1. ASSUME NEW p \in Proc, Step(p) PROVE AllStored'
  BY <1>1, Unshared, Shared DEF Step, Proceeds, Alone, Visible
<1>2. CASE UNCHANGED vars
  BY <1>2, NoneRuns DEF vars, watch, bounds, AllStored, Files, Database, Disk, Daemon, Counters,
                        Runs
<1> QED
  BY <1>1, <1>2, Others DEF Next

TornType == torn \in BOOLEAN

(* A step begins a save, ends one, or leaves the state as it was.          *)
LEMMA TornOrNot == TornType /\ [Next]_vars => TornType'
<1> SUFFICES ASSUME TornType, [Next]_vars PROVE torn' \in {torn, TRUE, FALSE}
  BY DEF TornType
<1>1. ASSUME NEW p \in Proc, Alone(p) PROVE torn' \in {torn, TRUE, FALSE}
  BY <1>1 DEF Alone, CommandPush, CommandPull, CommandInit, Start, Poll, PushSkip, PushGone,
    PushRead, PushFails, PullList, PullLoad, ListFails, MergeSkip, Flush, Kill, Rename
<1>2. ASSUME NEW p \in Proc, Visible(p) PROVE torn' \in {torn, TRUE, FALSE}
  BY <1>2 DEF Visible, PushPut, PushEnd, MergeWrite, MergeEnd, Orphans, RenameForget, SaveEnd,
    TakeEvent, ForgetOwn, Saving
<1>3. ASSUME NEW p \in Proc, Step(p) PROVE torn' \in {torn, TRUE, FALSE}
  BY <1>1, <1>2, <1>3 DEF Step, Proceeds, Alone, Visible
<1>4. CASE Environment
  BY <1>4 DEF Environment, RemotePut, RemoteDelete, EditorWrite, EditorCreate, EditorDelete,
    EditorRename
<1>5. CASE UNCHANGED vars
  BY <1>5 DEF vars
<1> QED
  BY <1>3, <1>4, <1>5 DEF Next

(* At first nothing is held, synced or stored.                             *)
LEMMA StoredAtFirst == Init => AllStored
<1> SUFFICES ASSUME Init PROVE AllStored
  OBVIOUS
<1>1. Files
  BY Constants DEF Init, Files
<1>2. Database
  BY Constants DEF Init, Database, KeepsList, NoList
<1>3. Disk
  BY Constants DEF Init, Disk, KeepsEntries
<1>4. Runs
  BY Constants DEF Init, Runs, Proper
<1> QED
  BY <1>1, <1>2, <1>3, <1>4 DEF Init, AllStored, Daemon, Counters

(* AllStored holds throughout.                                             *)
LEMMA Throughout == Spec => []AllStored
  BY StoredAtFirst, StoredStep, PTL DEF Spec

-----------------------------------------------------------------------------
(* Every variable keeps its type: what is put has a name, whatever is in   *)
(* the files and wherever they were moved to.                              *)
THEOREM TypesHold == Spec => []TypeOK
<1>1. AllStored /\ TornType => TypeOK
  BY DEF AllStored, TornType, TypeOK, Files, Database, Disk, Daemon, Counters, Runs
<1>2. Spec => []TornType
  <2>1. Init => TornType
    BY DEF Init, TornType
  <2> QED
    BY <2>1, TornOrNot, PTL DEF Spec
<1> QED
  BY <1>1, <1>2, Throughout, PTL

(* What state.json, or a copy of it in a process, takes for synced has     *)
(* been in the database, with any number of processes that overwrite each  *)
(* other's state and of edits between the read of a file and its put.      *)
THEOREM SyncedWasStored == Spec => []EntryWasStored
<1>1. AllStored => EntryWasStored
  BY DEF AllStored, Disk, Runs, Proper, KeepsEntries, EntryWasStored
<1> QED
  BY <1>1, Throughout, PTL

-----------------------------------------------------------------------------
(***************************************************************************)
(* What polls may do to files.                                             *)
(***************************************************************************)

(* A poll that writes over a file it has an entry for loses no edit: either*)
(* the file is as the entry says, and that was stored, or it is copied to  *)
(* the conflicts; nothing else a poll does writes a file.                  *)
THEOREM PollLosesNothing == Spec => PollKeepsEdits
<1> DEFINE Kept == \A p \in Proc : \A x \in File :
             /\ run[p].op = "poll" /\ run'[p] # run[p]
             /\ run[p].st[x] # NoEntry
             /\ Exists(x) /\ file'[x] \notin {file[x], NoFile}
             => file[x].text \in stored \/ conflict'[x] = file[x]
<1>1. AllStored /\ [Next]_vars => Kept
  <2> SUFFICES ASSUME AllStored, [Next]_vars, NEW p \in Proc, NEW x \in File,
                      run[p].op = "poll", run'[p] # run[p], run[p].st[x] # NoEntry,
                      Exists(x), file'[x] \notin {file[x], NoFile}
               PROVE  file[x].text \in stored \/ conflict'[x] = file[x]
    OBVIOUS
  <2>1. run \in [Proc -> Run] /\ file \in [File -> Content] /\ Proper(run[p], stored)
        /\ conflict \in [File -> Content]
    BY DEF AllStored, Runs, Files
  <2>2. ASSUME NEW q \in Proc, NEW n \in Name, MergeWrite(q, n)
        PROVE  file[x].text \in stored \/ conflict'[x] = file[x]
    <3>1. q = p
      <4>1. \E r : run' = [run EXCEPT ![q] = r]
        BY <2>2 DEF MergeWrite, Do
      <4> QED
        BY <2>1, <4>1
    <3>2. x = DtagToPath(n)
      <4>1. \E f : file' = [file EXCEPT ![DtagToPath(n)] = f]
        BY <2>2 DEF MergeWrite
      <4> QED
        BY <2>1, <4>1
    <3>3. CASE Edited(p, x)
      <4>1. conflict' = [conflict EXCEPT ![x] = file[x]]
        BY <2>2, <3>1, <3>2, <3>3 DEF MergeWrite
      <4> QED
        BY <2>1, <4>1
    <3>4. CASE ~Edited(p, x)
      BY <2>1, <3>4 DEF Edited, Proper, KeepsEntries
    <3> QED
      BY <3>3, <3>4
  <2>3. ASSUME NEW K, \/ file' = file
                      \/ file' = [y \in File |-> IF y \in K THEN file[y] ELSE NoFile]
        PROVE  FALSE
    BY <2>3
  <2>4. ASSUME NEW q \in Proc, MergeEnd(q) PROVE FALSE
    <3>1. file' = [y \in File |-> IF y \in Stale(q) THEN NoFile ELSE file[y]]
      BY <2>4 DEF MergeEnd
    <3> QED
      BY <3>1
  <2>5. ASSUME NEW q \in Proc, Orphans(q) PROVE FALSE
    BY <2>3, <2>5 DEF Orphans
  <2>6. ASSUME NEW q \in Proc, Alone(q) PROVE file' = file
    BY <2>6 DEF Alone, CommandPush, CommandPull, CommandInit, Start, Poll, PushSkip, PushGone, PushRead,
      PushFails, PullList, PullLoad, ListFails, MergeSkip, Flush, Kill, Rename
  <2>7. ASSUME NEW q \in Proc, Visible(q) PROVE
               \/ file' = file \/ \E n \in Name : MergeWrite(q, n)
               \/ MergeEnd(q) \/ Orphans(q)
    BY <2>7 DEF Visible, PushPut, PushEnd, RenameForget, SaveEnd, TakeEvent, ForgetOwn
  <2>8. CASE Environment
    <3>1. run' = run
      BY <2>8 DEF Environment, RemotePut, RemoteDelete, EditorWrite, EditorCreate, EditorDelete,
                  EditorRename
    <3> QED
      BY <3>1
  <2>9. ASSUME NEW q \in Proc, Step(q) PROVE Alone(q) \/ Visible(q)
    BY <2>9 DEF Step, Proceeds, Alone, Visible
  <2>10. CASE UNCHANGED vars
    BY <2>10 DEF vars
  <2> QED
    BY <2>2, <2>3, <2>4, <2>5, <2>6, <2>7, <2>8, <2>9, <2>10 DEF Next
<1>2. Spec => [][Kept]_vars
  BY <1>1, Throughout, PTL DEF Spec
<1> QED
  BY <1>2 DEF PollKeepsEdits
=============================================================================
