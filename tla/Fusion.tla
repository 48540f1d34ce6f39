------------------------------- MODULE Fusion -------------------------------
(***************************************************************************)
(* From messages to memories, to entities, to cluster summaries: how far   *)
(* what was said travels. crates/nomen-llm/src/cluster.rs, and the stores  *)
(* of consolidation (consolidate/two_phase.rs) with what Grouping decides. *)
(*                                                                         *)
(* A row keeps what was said in it, as the tiers its content comes from.   *)
(* A store (a DELETE and a CREATE of a name, see Consolidation and         *)
(* MemoryStore for the two) is one step here; a cluster run holds the list *)
(* it began with while rows are stored and deleted.                        *)
(* Of a content matters, besides what was said in it, whether it can be    *)
(* cut: the member of a cluster is cut after 200 bytes, and the run panics *)
(* if a character goes across that place.                                  *)
(* Left out: relationships between entities, conflicts, the edges to       *)
(* messages, and the times of rows, by which a list has the newest of them *)
(* if there are too many: here it has any.                                 *)
(***************************************************************************)
EXTENDS Grouping, DTag, FiniteSets, SequencesExt

CONSTANTS
  Message,    \* messages that may come in
  PutName,    \* [tier, topic] clients put (bound)
  Topic,      \* topics the LLM gives (bound)
  Entity,     \* entities the extractor finds (bound)
  Author,     \* the public key of the signer
  Depth,      \* namespace_depth
  MinMembers, \* min_members of a cluster
  ListLimit,  \* memories a run lists (10000)
  Only,       \* prefix_filter; <<>> for none
  CutTier,    \* bound: tiers of contents that can be cut badly
  MaxLoad,    \* bound: messages, puts and deletions
  MaxFault    \* bound: failed syntheses, processes killed

ASSUME FusionAssumption ==
  /\ Depth \in Nat \ {0} /\ MinMembers \in Nat \ {0} /\ ListLimit \in Nat
  /\ MaxLoad \in Nat /\ MaxFault \in Nat
ASSUME WordAssumption ==
  /\ PutName \subseteq [tier : Tier, topic : Path] /\ Topic \subseteq Path
  /\ Entity \cup {Author, "entity", "cluster"} \subseteq Segment

VARIABLES
  inbox,   \* messages not consolidated yet
  rows,    \* table memory: [name, tier, topic, said, of, cut]
  edges,   \* table references: [from, to, relation], d-tags
  found,   \* entities of a stored memory that are not stored yet
  run,     \* the cluster run
  load, faults

fusionVars == <<inbox, rows, edges, found, run, load, faults>>

Public   == BareTier("public")
Group    == BareTier("group")
Personal == BareTier("personal")
Private  == BareTier("private")

(* Narrowness: what may be read more narrowly may not be read more widely. *)
Rank(tier) == CASE tier.base = "private"  -> 3
                [] tier.base = "personal" -> 2
                [] tier.base = "public"   -> 0
                [] OTHER                  -> 1

Within(said, tier) == \A s \in said : Rank(s) <= Rank(tier)

(* The column tier of a row: the id of a group is only in its name.        *)
BaseTier(tier) == IF tier.base = "group" THEN Group ELSE tier

Row(tier, author, topic, said, of, cut) ==
  [name |-> BuildDtagFromTier(tier, author, topic), tier |-> BaseTier(tier),
   topic |-> topic, said |-> said, of |-> of, cut |-> cut]

Names(R) == {r.name : r \in R}

Holding(d) == {r \in rows : r.name = d}

(* A DELETE takes the edges of its rows along.                             *)
Gone(d) == {e \in edges : d \in {e.from, e.to}}

(* Mutant: the old row is not deleted.                                     *)
Added(r) == rows \cup {r}

Replaced(r) == (rows \ Holding(r.name)) \cup {r}

Related(from, to, relation) ==
  IF {from, to} \subseteq Names(rows')
  THEN {[from |-> from, to |-> to, relation |-> relation]} ELSE {}

Use(n) == load + n <= MaxLoad /\ load' = load + n
Fault  == faults < MaxFault /\ faults' = faults + 1

NoRun == [listed |-> FALSE, clusters |-> {}, summary |-> <<>>, todo |-> {}]

FusionInit ==
  /\ inbox = {} /\ rows = {} /\ edges = {} /\ found = {}
  /\ run = NoRun /\ load = 0 /\ faults = 0
-----------------------------------------------------------------------------
(* May a content be such that a cut after 200 bytes is within a character? *)
Cuts(tier) == IF tier.base \in CutTier THEN BOOLEAN ELSE {FALSE}

Arrive(m) ==
  /\ Use(1) /\ inbox' = inbox \cup {m}
  /\ UNCHANGED <<rows, edges, found, run, faults>>

(* memory.put                                                              *)
Put(n, cut) ==
  LET r == Row(n.tier, Author, n.topic, {n.tier}, {}, cut) IN
  /\ Use(1) /\ cut \in Cuts(n.tier)
  /\ rows' = Replaced(r) /\ edges' = edges \ Gone(r.name)
  /\ UNCHANGED <<inbox, found, run, faults>>

Delete(r) ==
  /\ Use(1) /\ r \in rows /\ rows' = rows \ {r}
  /\ edges' = edges \ Gone(r.name)
  /\ UNCHANGED <<inbox, found, run, faults>>

(* commit: a memory of one group. It is looked up by a d-tag, and stored   *)
(* with this d-tag as its topic (see Consolidation).                       *)
Consolidate(S, topic, cut) ==
  LET tier == BareTier(GroupTier(S))
      said == {BareTier(SourceTier({m})) : m \in S}
      r == Row(tier, NoScope, BuildDtagFromTier(tier, Author, topic), said,
               {}, cut)
  IN
  /\ found = {} /\ S \in GroupsOf(inbox) /\ cut \in Cuts(tier)
  /\ inbox' = inbox \ S
  /\ rows' = Replaced(r) /\ edges' = edges \ Gone(r.name)
  /\ \E E \in SUBSET Entity :
       found' = {[memory |-> r.name, tier |-> tier, said |-> said,
                  name |-> e] : e \in E}
  /\ UNCHANGED <<run, load, faults>>

(* An entity is a memory of its own, in the tier of the memory that        *)
(* mentions it; to store it again drops what others mention of it.         *)
StoreEntity(f, cut) ==
  LET r == Row(f.tier, NoScope, <<"entity", f.name>>, f.said, {}, cut) IN
  /\ f \in found /\ found' = found \ {f} /\ cut \in Cuts(f.tier)
  /\ rows' = Replaced(r)
  /\ edges' = (edges \ Gone(r.name)) \cup Related(f.memory, r.name, "mentions")
  /\ UNCHANGED <<inbox, run, load, faults>>
-----------------------------------------------------------------------------
(***************************************************************************)
(* run_cluster_fusion.                                                     *)
(***************************************************************************)
Prefix(topic) == SubSeq(topic, 1, Depth)

(* What list_memories gives of the rows.                                   *)
Lists ==
  IF Cardinality(rows) <= ListLimit THEN {rows} ELSE kSubset(ListLimit, rows)

(* Mutant: summaries are clustered as well.                                *)
AllRows(L) == L

(* Memories with a path that are no summaries.                             *)
Clusterable(L) == {r \in L : Len(r.topic) > 1 /\ Head(r.topic) # "cluster"}

(* group_by_namespace: a topic has to go on below the prefix.              *)
ByNamespace(L) ==
  LET deep == {r \in Clusterable(L) : Len(r.topic) > Depth} IN
  {{r \in deep : Prefix(r.topic) = p} : p \in {Prefix(r.topic) : r \in deep}}

PrefixOf(c) == Prefix((CHOOSE r \in c : TRUE).topic)

(* Mutant: one member more.                                                *)
Crowds(L) == {c \in ByNamespace(L) :
                Cardinality(c) > MinMembers /\ IsPrefix(Only, PrefixOf(c))}

(* Only is compared by segments here, by characters in the code.           *)
Clusters(L) == {c \in ByNamespace(L) :
                  Cardinality(c) >= MinMembers /\ IsPrefix(Only, PrefixOf(c))}

(* Mutant: a group is looked for first.                                    *)
GroupFirst(c) ==
  LET has(base) == \E r \in c : r.tier.base = base IN
  IF has("group") THEN Group
  ELSE IF has("personal") THEN Personal
  ELSE IF has("private") THEN Private ELSE Public

(* derive_cluster_tier: a circle counts as public.                         *)
ClusterTier(c) ==
  LET has(base) == \E r \in c : r.tier.base = base IN
  IF has("private") THEN Private
  ELSE IF has("personal") THEN Personal
  ELSE IF has("group") THEN Group ELSE Public

List ==
  /\ ~run.listed
  /\ \E L \in Lists :
       run' = [NoRun EXCEPT !.listed = TRUE, !.clusters = Clusters(L)]
  /\ UNCHANGED <<inbox, rows, edges, found, load, faults>>

Drawing == run.todo # {}

(* The context of the cluster cannot be written: &detail[..200] is not at  *)
(* a boundary of characters.                                               *)
Panics(c) == \E r \in c : r.cut

(* The clusters are those of a HashMap: any of them may be next.           *)
Takes(c) == c \in run.clusters /\ ~Drawing /\ ~Panics(c)

(* The summary of a cluster is of the rows as they were listed.            *)
Summary(c) ==
  Row(ClusterTier(c), Author, <<"cluster">> \o PrefixOf(c),
      UNION {q.said : q \in c}, Names(c), FALSE)

(* It replaces the one of its tier.                                        *)
Synthesize(c) ==
  /\ Takes(c)
  /\ LET r == Summary(c)
     IN /\ rows' = Replaced(r) /\ edges' = edges \ Gone(r.name)
        /\ run' = [run EXCEPT !.clusters = @ \ {c}, !.summary = r.name,
                              !.todo = r.of]
  /\ UNCHANGED <<inbox, found, load, faults>>

(* The LLM does not answer, or the store is refused: its DELETE, or its    *)
(* CREATE when the DELETE is done.                                         *)
SynthesisFails(c) ==
  /\ Takes(c) /\ Fault
  /\ run' = [run EXCEPT !.clusters = @ \ {c}]
  /\ \/ UNCHANGED <<rows, edges>>
     \/ LET d == Summary(c).name
        IN rows' = rows \ Holding(d) /\ edges' = edges \ Gone(d)
  /\ UNCHANGED <<inbox, found, load>>

(* create_references_edge fails if one of the rows is gone.                *)
DrawEdge(d) ==
  /\ d \in run.todo
  /\ UNCHANGED rows
  /\ edges' = edges \cup Related(run.summary, d, "summarizes")
  /\ run' = [run EXCEPT !.todo = @ \ {d}]
  /\ UNCHANGED <<inbox, found, load, faults>>

RunEnd ==
  /\ run.listed /\ run.clusters = {} /\ ~Drawing
  /\ run' = NoRun
  /\ UNCHANGED <<inbox, rows, edges, found, load, faults>>

(* A run that comes to a cluster with such a content is over, every time.  *)
RunPanics ==
  /\ ~Drawing /\ \E c \in run.clusters : Panics(c)
  /\ run' = NoRun
  /\ UNCHANGED <<inbox, rows, edges, found, load, faults>>

RunStep ==
  \/ \E c \in run.clusters : Synthesize(c) \/ SynthesisFails(c)
  \/ \E d \in run.todo : DrawEdge(d)
  \/ RunEnd \/ RunPanics

FusionNext ==
  \/ \E m \in Message : Arrive(m)
  \/ \E r \in rows : Delete(r)
  \/ \E cut \in BOOLEAN :
       \/ \E n \in PutName : Put(n, cut)
       \/ \E S \in GroupsOf(inbox), t \in Topic : Consolidate(S, t, cut)
       \/ \E f \in found : StoreEntity(f, cut)
  \/ List \/ RunStep
-----------------------------------------------------------------------------
(* What the properties below need of the names clients put: none is of a   *)
(* circle, which derive_cluster_tier takes for public;                     *)
NoCircles == \A n \in PutName : n.tier.base # "circle"

(* and none of a group called "cluster", whose memories may be named like  *)
(* the summary of a bare group. The signer's key is none of these words.   *)
PlainIds ==
  /\ \A n \in PutName : n.tier.id # "cluster"
  /\ Author \notin TierPrefix \cup {"entity", "cluster"}

(* What was said to one person never gets into a memory a group or the     *)
(* public reads, nor what was said in a room into a public one: not by the *)
(* grouping of messages, not as an entity, not in the summary of a cluster *)
(* of several tiers.                                                       *)
SaidWithinTier == \A r \in rows : Within(r.said, r.tier)

(* Summaries do not feed on summaries, however often clusters are run: no  *)
(* memory a summary was made of has the name of a summary.                 *)
IsSummary(d) ==
  \E t \in {Public, Group, Personal, Private} :
    IsPrefix(BuildDtagFromTier(t, Author, <<"cluster">>), d)

OfMemories == \A r \in rows : \A d \in r.of : ~IsSummary(d)

Members(p) ==
  {r \in Clusterable(rows) : Len(r.topic) > Depth /\ Prefix(r.topic) = p}

Full(p) == Cardinality(Members(p)) >= MinMembers

Summarised(p) ==
  \E r \in rows : r.topic = <<"cluster">> \o p /\ Names(Members(p)) \subseteq r.of

(* Some rows may not be listed, or a run may come to a cluster it panics   *)
(* at before it comes to the others.                                       *)
Hindered ==
  Cardinality(rows) > ListLimit \/ \E c \in Clusters(rows) : Panics(c)

(* A cluster that stays full gets a summary of all its memories, although  *)
(* runs work on lists that are outdated when they store; unless there are  *)
(* more memories than a run lists, or one that makes every run panic.      *)
FullIsSummarised ==
  \A p \in {Prefix(n.topic) : n \in PutName} :
    Full(p) ~> Summarised(p) \/ ~Full(p) \/ Hindered
=============================================================================
