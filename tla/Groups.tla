------------------------------- MODULE Groups -------------------------------
(***************************************************************************)
(* The group table: crates/nomen-db/src/groups.rs, with the relay events   *)
(* of src/nomen_admin.rs and the group part of Nomen::sync.                *)
(*                                                                         *)
(* Every operation first reads the group and then writes it, in two        *)
(* queries: those of other calls and of a sync come in between. Members    *)
(* are an array, which may hold a member twice: here, how often it holds   *)
(* each. The other columns (name, parent, relay, NIP-29 tag) do not change *)
(* after the row is created and are left out.                              *)
(***************************************************************************)
EXTENDS Naturals, FiniteSets

CONSTANTS Group, Npub,
          NoGroup     \* neither a row nor an event

VARIABLES
  table,   \* nomen_group: members by group
  events,  \* kind 30000 events on the relay, newest by group: sets of members
  calls,   \* operations under way
  todo,    \* events a sync has fetched and not applied yet
  gap,     \* groups the sync has deleted and not created again
  member   \* history: membership according to the operations that took effect

groupVars == <<table, events, calls, todo, gap, member>>

Op   == {"group.create", "group.add_member", "group.remove_member"}
Args == [op : Op, group : Group, who : SUBSET Npub]

Row(S) == [n \in Npub |-> IF n \in S THEN 1 ELSE 0]

(* Groups with the members S, as an earlier run left them; none if empty.  *)
GroupsInit(S) ==
  /\ table = [g \in Group |-> IF S = {} THEN NoGroup ELSE Row(S)]
  /\ events = [g \in Group |-> IF S = {} THEN NoGroup ELSE S]
  /\ calls = {} /\ todo = {} /\ gap = {}
  /\ member = [g \in Group |-> S]
-----------------------------------------------------------------------------
(***************************************************************************)
(* A call: which request it answers, over which transport, what it does,   *)
(* and the query that is next.                                             *)
(***************************************************************************)
Begin(id, via, args) ==
  calls' = calls \cup {[id |-> id, via |-> via, args |-> args,
                        step |-> "check"]}

GoOn(c, step) == calls' = (calls \ {c}) \cup {[c EXCEPT !.step = step]}
End(c)        == calls' = calls \ {c}

Is(c, op, step) == c.args.op = op /\ c.step = step

(* create_group: refused if it is there, before and in the CREATE.         *)
CreateCheck(c) ==
  /\ Is(c, "group.create", "check")
  /\ IF table[c.args.group] = NoGroup THEN GoOn(c, "create") ELSE End(c)
  /\ UNCHANGED <<table, events, todo, gap, member>>

CreateRow(c) ==
  LET g == c.args.group IN
  /\ Is(c, "group.create", "create")
  /\ IF table[g] = NoGroup
     THEN /\ table' = [table EXCEPT ![g] = Row(c.args.who)]
          /\ member' = [member EXCEPT ![g] = c.args.who]
          /\ GoOn(c, "publish")
     ELSE End(c) /\ UNCHANGED <<table, member>>
  /\ UNCHANGED <<events, todo, gap>>

(* publish_group; a relay that refuses is only warned of.                  *)
CreatePublish(c) ==
  /\ Is(c, "group.create", "publish")
  /\ \/ events' = [events EXCEPT ![c.args.group] = c.args.who]
     \/ UNCHANGED events
  /\ End(c)
  /\ UNCHANGED <<table, todo, gap, member>>

Holds(g, n) == table[g] # NoGroup /\ table[g][n] > 0

(* add_member; it is not published.                                        *)
AddCheck(c) ==
  /\ Is(c, "group.add_member", "check")
  /\ IF table[c.args.group] = NoGroup
        \/ \E n \in c.args.who : Holds(c.args.group, n)
     THEN End(c) ELSE GoOn(c, "write")
  /\ UNCHANGED <<table, events, todo, gap, member>>

(* An UPDATE of a group that is gone meanwhile updates nothing and is ok.  *)
AddPush(c) ==
  LET g == c.args.group IN
  /\ Is(c, "group.add_member", "write")
  /\ IF table[g] = NoGroup THEN UNCHANGED <<table, member>>
     ELSE /\ table' = [table EXCEPT ![g] = [n \in Npub |->
                         IF n \in c.args.who THEN @[n] + 1 ELSE @[n]]]
          /\ member' = [member EXCEPT ![g] = @ \cup c.args.who]
  /\ End(c)
  /\ UNCHANGED <<events, todo, gap>>

(* remove_member; it is not published.                                     *)
RemoveCheck(c) ==
  /\ Is(c, "group.remove_member", "check")
  /\ IF \A n \in c.args.who : Holds(c.args.group, n)
     THEN GoOn(c, "write") ELSE End(c)
  /\ UNCHANGED <<table, events, todo, gap, member>>

(* Mutant: one occurrence is taken out.                                    *)
WithoutOne(m, S) ==
  [n \in Npub |-> IF n \in S THEN m[n] - 1 ELSE m[n]]

(* array::complement(members, [npub])                                      *)
Without(m, S) == [n \in Npub |-> IF n \in S THEN 0 ELSE m[n]]

RemoveWrite(c) ==
  LET g == c.args.group IN
  /\ Is(c, "group.remove_member", "write")
  /\ IF table[g] = NoGroup THEN UNCHANGED <<table, member>>
     ELSE /\ table' = [table EXCEPT ![g] = Without(@, c.args.who)]
          /\ member' = [member EXCEPT ![g] = @ \ c.args.who]
  /\ End(c)
  /\ UNCHANGED <<events, todo, gap>>

CallStep(c) ==
  \/ CreateCheck(c) \/ CreateRow(c) \/ CreatePublish(c)
  \/ AddCheck(c) \/ AddPush(c) \/ RemoveCheck(c) \/ RemoveWrite(c)
-----------------------------------------------------------------------------
(***************************************************************************)
(* Nomen::sync, its group part: each event fetched replaces the group, in  *)
(* two queries.                                                            *)
(***************************************************************************)

(* Mutant: groups that have no row are not fetched.                        *)
KnownGroups == {g \in Group : events[g] # NoGroup /\ table[g] # NoGroup}

(* fetch_groups                                                            *)
Fetched == {g \in Group : events[g] # NoGroup}

SyncFetch ==
  /\ todo = {} /\ gap = {}
  /\ todo' = {[group |-> g, who |-> events[g]] : g \in Fetched}
  /\ UNCHANGED <<table, events, calls, gap, member>>

SyncDelete(e) ==
  /\ e \in todo /\ gap = {}
  /\ table' = [table EXCEPT ![e.group] = NoGroup]
  /\ gap' = {e.group}
  /\ member' = [member EXCEPT ![e.group] = {}]
  /\ UNCHANGED <<events, calls, todo>>

SyncCreate(e) ==
  /\ e \in todo /\ e.group \in gap
  /\ IF table[e.group] = NoGroup
     THEN /\ table' = [table EXCEPT ![e.group] = Row(e.who)]
          /\ member' = [member EXCEPT ![e.group] = e.who]
     ELSE UNCHANGED <<table, member>>
  /\ todo' = todo \ {e} /\ gap' = {}
  /\ UNCHANGED <<events, calls>>

SyncStep(e) == SyncDelete(e) \/ SyncCreate(e)

(* Another device of the same key publishes the group.                     *)
RemoteGroup(g, S) ==
  /\ events' = [events EXCEPT ![g] = S]
  /\ UNCHANGED <<table, calls, todo, gap, member>>

(* The process ends: what was under way is lost.                           *)
GroupsKilled ==
  /\ calls' = {} /\ todo' = {} /\ gap' = {}
  /\ UNCHANGED <<table, events, member>>
=============================================================================
