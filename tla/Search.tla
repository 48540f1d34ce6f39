------------------------------- MODULE Search -------------------------------
(***************************************************************************)
(* memory.search over the rows and edges of Fusion:                        *)
(* crates/nomen-db/src/search_engine.rs, search.rs and graph.rs.           *)
(*                                                                         *)
(* Which rows match, and in which order, is left open (text and vector     *)
(* scores, recency, importance); the tier filter, the limit, the expansion *)
(* of one hit after the other and the merging of similar results are not.  *)
(* The access count of the results is in MemoryStore.                      *)
(***************************************************************************)
EXTENDS Fusion

CONSTANTS
  AnyTier,   \* no tier filter
  Limit      \* limit

VARIABLES
  search,    \* the search under way
  answer     \* the last answer

vars == <<fusionVars, search, answer>>

NoSearch == [tier |-> AnyTier, expand |-> FALSE, hits |-> 0, todo |-> {},
             out |-> <<>>, step |-> "idle"]

Init == FusionInit /\ search = NoSearch /\ answer = NoSearch

Entry(r) == [name |-> r.name, said |-> r.said]

(* Mutant: the filter is not in the query.                                 *)
Everything(tier) == rows

(* WHERE tier = $tier: nothing for the tier of a group, which has an id.   *)
Candidates(tier) == {r \in rows : tier = AnyTier \/ r.tier = tier}

(* The best Limit rows, whichever they are.                                *)
Hits(tier) ==
  kSubset(Limit, Candidates(tier)) \cup
    {S \in SUBSET Candidates(tier) : Cardinality(S) < Limit}

Found(tier, expand, H) ==
  [tier |-> tier, expand |-> expand, hits |-> Cardinality(H),
   todo |-> IF expand THEN Names(H) ELSE {},
   out |-> SetToSeq({Entry(r) : r \in H}), step |-> "found"]

(* Bound: one search is answered.                                          *)
Idle == search.step = "idle" /\ answer = NoSearch

(* hybrid_search                                                           *)
Query(tier, expand) ==
  /\ Idle
  /\ \E H \in Hits(tier) : search' = Found(tier, expand, H)
  /\ UNCHANGED <<fusionVars, answer>>

(* text_only_search, without an embedder or when it fails: neither         *)
(* expanded nor merged, whatever was asked for.                            *)
TextQuery(tier) ==
  /\ Idle
  /\ \E H \in Hits(tier) : answer' = Found(tier, FALSE, H)
  /\ UNCHANGED <<fusionVars, search>>

Seen(out) == {out[i].name : i \in DOMAIN out}

(* get_graph_neighbors_simple, both ways; the tier is not looked at.       *)
Neighbours(d) == {r \in rows : \E e \in edges : {e.from, e.to} = {d, r.name}}

(* Mutant: only the direct hits are remembered as seen.                    *)
NotAHit(d, out) ==
  {r \in Neighbours(d) : r.name \notin search.todo \cup {d}}

(* graph_expand: seen_d_tags.                                              *)
Unseen(d, out) == {r \in Neighbours(d) : r.name \notin Seen(out)}

Expand(d) ==
  /\ d \in search.todo
  /\ search' = [search EXCEPT
       !.todo = @ \ {d},
       !.out = @ \o SetToSeq({Entry(r) : r \in Unseen(d, @)})]
  /\ UNCHANGED <<fusionVars, answer>>

(* aggregate_results: similar hits become one, under the name of the best  *)
(* of them, best[i]; what the graph added has no vector to compare.        *)
Merged(out, best) ==
  LET hits == DOMAIN best
      kept == SetToSeq({i \in DOMAIN out : i \notin hits \/ best[i] = i})
      told(i) == IF i \in hits
                 THEN UNION {out[j].said : j \in {j \in hits : best[j] = i}}
                 ELSE out[i].said
  IN  [k \in DOMAIN kept |-> [out[kept[k]] EXCEPT !.said = told(kept[k])]]

Bests(n) == {b \in [1 .. n -> 1 .. n] : \A i \in 1 .. n : b[b[i]] = b[i]}

Answer ==
  /\ search.step = "found" /\ search.todo = {}
  /\ \E best \in Bests(search.hits) :
       answer' = [search EXCEPT !.out = Merged(@, best)]
  /\ search' = NoSearch
  /\ UNCHANGED fusionVars

(* The process is killed.                                                  *)
Kill ==
  /\ Fault /\ run' = NoRun /\ found' = {} /\ search' = NoSearch
  /\ UNCHANGED <<inbox, rows, edges, load, answer>>

Next ==
  \/ FusionNext /\ UNCHANGED <<search, answer>>
  \/ \E t \in {n.tier : n \in PutName} \cup {AnyTier} :
       TextQuery(t) \/ \E x \in BOOLEAN : Query(t, x)
  \/ \E d \in search.todo : Expand(d)
  \/ Answer \/ Kill

Spec == Init /\ [][Next]_vars

(* Cluster runs are repeated, and go on until they end.                    *)
LiveSpec ==
  /\ Spec
  /\ WF_vars((List \/ RunStep) /\ UNCHANGED <<search, answer>>)
-----------------------------------------------------------------------------
TypeOK ==
  /\ inbox \subseteq Message
  /\ \A r \in rows : r.tier \in Tier /\ r.name \in Path /\ Holding(r.name) = {r}
  /\ \A e \in edges : {e.from, e.to} \subseteq Names(rows)
  /\ \A f \in found : f.name \in Entity
  /\ run.listed \in BOOLEAN
  /\ search.step \in {"idle", "found"}
  /\ load \in 0 .. MaxLoad /\ faults \in 0 .. MaxFault

(* An answer names a memory once, although hits share neighbours, hits are *)
(* neighbours of each other, and rows are replaced between the queries.    *)
AnswersOnce ==
  \A i, j \in DOMAIN answer.out :
    answer.out[i].name = answer.out[j].name => i = j

(* A search of one tier that is not expanded along the graph answers       *)
(* nothing that was said more narrowly, whether in a message, an entity, a *)
(* member of a cluster or a result it merges into another.                 *)
AnswerWithinTier ==
  answer.tier # AnyTier /\ ~answer.expand =>
    \A i \in DOMAIN answer.out : Within(answer.out[i].said, answer.tier)
=============================================================================
