---------------------------- MODULE SearchProofs ----------------------------
(***************************************************************************)
(* What holds of Search and Fusion for all messages, names, topics and     *)
(* entities, provided no client puts memories of a circle: a circle counts *)
(* as public in derive_cluster_tier.                                       *)
(***************************************************************************)
EXTENDS Search, DTagProofs, FiniteSetTheorems, TLAPS

-----------------------------------------------------------------------------
(* A run lists rows.                                                       *)
LEMMA ListsRows == \A L \in Lists : L \subseteq rows
  BY DEF Lists, kSubset

(***************************************************************************)
(* How far what was said travels.                                          *)
(***************************************************************************)
Base == {"public", "group", "personal", "private"}

(* A row, an entity to be stored or the member of a cluster is of a tier   *)
(* as narrow as what is said in it.                                        *)
Narrow(r) == r.tier.base \in Base /\ Within(r.said, r.tier)

NarrowOnly ==
  /\ \A r \in rows : Narrow(r)
  /\ \A f \in found : Narrow(f)
  /\ \A c \in run.clusters : \A r \in c : Narrow(r)

(* A rank follows from the base alone, and the tier column keeps the base. *)
LEMMA Ranks ==
  /\ \A t : t.base \in Base =>
       Rank(t) = IF t.base = "private" THEN 3
                 ELSE IF t.base = "personal" THEN 2
                 ELSE IF t.base = "public" THEN 0 ELSE 1
  /\ \A t : BaseTier(t).base = t.base
  /\ \A b : BareTier(b).base = b
  BY DEF Rank, Base, BaseTier, Group, BareTier

(* A row has the tier and the content it was given.                        *)
LEMMA Rows ==
  ASSUME NEW t, NEW a, NEW topic, NEW said, NEW of, NEW cut
  PROVE  Row(t, a, topic, said, of, cut).tier = BaseTier(t)
         /\ Row(t, a, topic, said, of, cut).said = said
  BY DEF Row

(* A row is narrow if it was given a tier that what is said in it keeps to.*)
LEMMA RowNarrow ==
  ASSUME NEW t, NEW a, NEW topic, NEW said, NEW of, NEW cut, t.base \in Base,
         Within(said, t)
  PROVE  Narrow(Row(t, a, topic, said, of, cut))
<1>1. BaseTier(t).base = t.base /\ Rank(BaseTier(t)) = Rank(t)
  BY Ranks
<1> QED
  BY <1>1, Rows DEF Narrow, Within

(* The memory of a group of messages is as narrow as each of them.         *)
LEMMA GroupNarrow ==
  ASSUME NEW S, NEW m \in S
  PROVE  /\ GroupTier(S) \in Base
         /\ Rank(BareTier(SourceTier({m}))) <= Rank(BareTier(GroupTier(S)))
<1>1. DerivedTier(S) \in {"personal", "group", "public"}
  BY DEF DerivedTier
<1>2. SourceTier({m}) \in {"personal", "group", "public"}
      /\ SourceTier(S) \in {"personal", "group", "public"}
  BY DEF SourceTier
<1>3. /\ SourceTier({m}) = "personal" => SourceTier(S) = "personal"
      /\ SourceTier({m}) = "group" => SourceTier(S) \in {"personal", "group"}
  BY DEF SourceTier
<1>4. /\ GroupTier(S) \in {"personal", "group", "public"}
      /\ SourceTier(S) = "personal" => GroupTier(S) = "personal"
      /\ SourceTier(S) = "group" => GroupTier(S) \in {"personal", "group"}
  BY <1>1, <1>2 DEF GroupTier, Guarded
<1> QED
  BY <1>2, <1>3, <1>4, Ranks DEF Base

(* The summary of a cluster is as narrow as its members.                   *)
LEMMA ClusterNarrow ==
  ASSUME NEW c, \A r \in c : Narrow(r)
  PROVE  ClusterTier(c).base \in Base /\ Within(UNION {r.said : r \in c}, ClusterTier(c))
<1>1. ClusterTier(c) \in {Private, Personal, Group, Public}
  BY DEF ClusterTier
<1>2. ClusterTier(c).base \in Base
  BY <1>1, Ranks DEF Private, Personal, Group, Public, Base
<1>3. ASSUME NEW r \in c PROVE Rank(r.tier) <= Rank(ClusterTier(c))
  <2>1. r.tier.base \in Base
    BY DEF Narrow
  <2>2. CASE r.tier.base = "private"
    <3>1. ClusterTier(c) = Private
      BY <2>2 DEF ClusterTier
    <3> QED
      BY <2>1, <2>2, <3>1, Ranks DEF Private, Base
  <2>3. CASE r.tier.base = "personal"
    <3>1. ClusterTier(c) \in {Private, Personal}
      BY <2>3 DEF ClusterTier
    <3> QED
      BY <2>1, <2>3, <3>1, Ranks DEF Private, Personal, Base
  <2>4. CASE r.tier.base = "group"
    <3>1. ClusterTier(c) \in {Private, Personal, Group}
      BY <2>4 DEF ClusterTier
    <3> QED
      BY <2>1, <2>4, <3>1, Ranks DEF Private, Personal, Group, Base
  <2>5. CASE r.tier.base = "public"
    BY <1>1, <2>1, <2>5, Ranks DEF Private, Personal, Group, Public, Base
  <2> QED
    BY <2>1, <2>2, <2>3, <2>4, <2>5 DEF Base
<1>4. ASSUME NEW r \in c, NEW s \in r.said PROVE Rank(s) <= Rank(ClusterTier(c))
  <2>1. Rank(s) <= Rank(r.tier)
    BY <1>4 DEF Narrow, Within
  <2>2. \A t : Rank(t) \in Int
    BY DEF Rank
  <2> QED
    BY <1>3, <2>1, <2>2
<1> QED
  BY <1>2, <1>4 DEF Within

(* Every way a row gets in is narrow, and what is found or listed is.      *)
LEMMA NarrowStep == NoCircles /\ NarrowOnly /\ [Next]_vars => NarrowOnly'
<1> SUFFICES ASSUME NoCircles, NarrowOnly, [Next]_vars PROVE NarrowOnly'
  OBVIOUS
<1>1. ASSUME NEW r, rows' = Replaced(r), Narrow(r) PROVE \A q \in rows' : Narrow(q)
  BY <1>1 DEF Replaced, NarrowOnly
<1>2. ASSUME NEW n \in PutName, NEW cut, Put(n, cut) PROVE NarrowOnly'
  <2>1. n.tier.base \in Base /\ Within({n.tier}, n.tier)
    <3>1. Rank(n.tier) <= Rank(n.tier)
      BY DEF Rank
    <3>2. n.tier.base \in TierPrefix /\ n.tier.base # "circle"
      BY WordAssumption DEF NoCircles, Tier, TierPrefix, ScopedTier
    <3>3. n.tier.base \in Base
      BY <3>2 DEF Base, TierPrefix, ScopedTier, UnscopedTier
    <3> QED
      BY <3>1, <3>3 DEF Within
  <2> QED
    BY <1>1, <1>2, <2>1, RowNarrow DEF Put, NarrowOnly
<1>3. ASSUME NEW S \in GroupsOf(inbox), NEW t \in Topic, NEW cut, Consolidate(S, t, cut)
      PROVE  NarrowOnly'
  <2> DEFINE tier == BareTier(GroupTier(S))
             said == {BareTier(SourceTier({m})) : m \in S}
             r == Row(tier, NoScope, BuildDtagFromTier(tier, Author, t), said, {}, cut)
  <2>1. \A m \in S : GroupTier(S) \in Base
          /\ Rank(BareTier(SourceTier({m}))) <= Rank(tier)
    BY GroupNarrow
  <2>2. Within(said, tier)
    BY <2>1 DEF Within
  <2>3. tier.base \in Base
    <3>1. GroupTier(S) \in Base
      BY DEF GroupTier, Guarded, DerivedTier, Base
    <3> QED
      BY <3>1, Ranks
  <2>4. \A f \in found' : Narrow(f)
    <3>1. PICK E \in SUBSET Entity :
            found' = {[memory |-> r.name, tier |-> tier, said |-> said,
                       name |-> e] : e \in E}
      BY <1>3 DEF Consolidate
    <3> HIDE DEF r, tier, said
    <3> QED
      BY <2>2, <2>3, <3>1 DEF Narrow
  <2>5. Narrow(r)
    BY <2>2, <2>3, RowNarrow
  <2>6. rows' = Replaced(r) /\ run' = run
    BY <1>3 DEF Consolidate
  <2> HIDE DEF r, tier, said
  <2> QED
    BY <1>1, <2>4, <2>5, <2>6 DEF NarrowOnly
<1>4. ASSUME NEW f \in found, NEW cut, StoreEntity(f, cut) PROVE NarrowOnly'
  <2>1. f.tier.base \in Base /\ Within(f.said, f.tier)
    BY DEF NarrowOnly, Narrow
  <2> QED
    BY <1>1, <1>4, <2>1, RowNarrow DEF StoreEntity, NarrowOnly
<1>5. CASE List
  <2>1. PICK L \in Lists : run' = [NoRun EXCEPT !.listed = TRUE, !.clusters = Clusters(L)]
    BY <1>5 DEF List
  <2>2. \A c \in Clusters(L) : \A q \in c : Narrow(q)
    BY ListsRows DEF Clusters, ByNamespace, Clusterable, NarrowOnly
  <2>3. run'.clusters = Clusters(L) /\ UNCHANGED <<rows, found>>
    BY <1>5, <2>1 DEF List, NoRun
  <2> QED
    BY <2>2, <2>3 DEF NarrowOnly
<1>6. ASSUME NEW c \in run.clusters, Synthesize(c) PROVE NarrowOnly'
  <2> DEFINE r == Row(ClusterTier(c), Author, <<"cluster">> \o PrefixOf(c),
                      UNION {q.said : q \in c}, Names(c), FALSE)
  <2>1. Narrow(r)
    BY ClusterNarrow, RowNarrow DEF NarrowOnly
  <2>2. rows' = Replaced(r) /\ found' = found
        /\ run' = [run EXCEPT !.clusters = @ \ {c}, !.summary = r.name, !.todo = r.of]
    BY <1>6 DEF Synthesize, Summary
  <2> HIDE DEF r
  <2>3. \A d \in run'.clusters : \A q \in d : Narrow(q)
    BY <2>2 DEF NarrowOnly
  <2> QED
    BY <1>1, <2>1, <2>2, <2>3 DEF NarrowOnly
<1>7. CASE Kill
  BY <1>7 DEF Kill, NoRun, NarrowOnly
<1>8. ASSUME rows' \subseteq rows, found' = found,
             run'.clusters \subseteq run.clusters \/ run'.clusters = {}
      PROVE  NarrowOnly'
  BY <1>8 DEF NarrowOnly
<1>9. ASSUME NEW c \in run.clusters, SynthesisFails(c) PROVE NarrowOnly'
  <2>1. rows' \subseteq rows /\ found' = found
    BY <1>9 DEF SynthesisFails
  <2>2. run' = [run EXCEPT !.clusters = @ \ {c}]
    BY <1>9 DEF SynthesisFails
  <2>3. run'.clusters \subseteq run.clusters \/ run'.clusters = {}
    BY <2>2
  <2> QED
    BY <1>8, <2>1, <2>3
<1>10. ASSUME NEW d \in run.todo, DrawEdge(d) PROVE NarrowOnly'
  <2>1. run' = [run EXCEPT !.todo = @ \ {d}] /\ UNCHANGED <<rows, found>>
    BY <1>10 DEF DrawEdge
  <2>2. run'.clusters = run.clusters
    BY <2>1
  <2> QED
    BY <1>8, <2>1, <2>2
<1>11. CASE RunEnd \/ RunPanics
  <2>1. run'.clusters = {} /\ UNCHANGED <<rows, found>>
    BY <1>11 DEF RunEnd, RunPanics, NoRun
  <2> QED
    BY <1>8, <2>1
<1>12. ASSUME NEW m \in Message, Arrive(m) PROVE NarrowOnly'
  BY <1>8, <1>12 DEF Arrive
<1>13. ASSUME NEW r \in rows, Delete(r) PROVE NarrowOnly'
  BY <1>13 DEF Delete, NarrowOnly
<1>14. ASSUME UNCHANGED fusionVars PROVE NarrowOnly'
  BY <1>8, <1>14 DEF fusionVars
<1>15. CASE FusionNext
  BY <1>2, <1>3, <1>4, <1>5, <1>6, <1>9, <1>10, <1>11, <1>12, <1>13, <1>15
  DEF FusionNext, RunStep
<1> QED
  BY <1>7, <1>14, <1>15 DEF Next, vars, Query, TextQuery, Expand, Answer

(* What was said to one person never gets into a memory a group or the     *)
(* public reads, nor what was said in a room into a public one, unless     *)
(* memories of a circle are put, which a cluster summarises as public.     *)
THEOREM NothingWidens ==
  ASSUME NoCircles
  PROVE  Spec => []SaidWithinTier
<1>1. NarrowOnly => SaidWithinTier
  BY DEF NarrowOnly, Narrow, SaidWithinTier
<1>2. Init => NarrowOnly
  BY DEF Init, FusionInit, NoRun, NarrowOnly
<1>3. NarrowOnly /\ [Next]_vars => NarrowOnly'
  BY NarrowStep, NoCircles
<1> QED
  BY <1>1, <1>2, <1>3, PTL DEF Spec

-----------------------------------------------------------------------------
(***************************************************************************)
(* What a search answers.                                                  *)
(***************************************************************************)
Elements(s) == {s[i] : i \in 1 .. Len(s)}

(* A list of entries, each of a memory of its own.                         *)
Listing(out) ==
  /\ out \in Seq(Elements(out))
  /\ \A i \in 1 .. Len(out) : out[i] = [name |-> out[i].name, said |-> out[i].said]
  /\ \A i, j \in 1 .. Len(out) : out[i].name = out[j].name => i = j

Searching(s) ==
  /\ s = [tier |-> s.tier, expand |-> s.expand, hits |-> s.hits,
          todo |-> s.todo, out |-> s.out, step |-> s.step]
  /\ Listing(s.out) /\ s.hits \in 0 .. Len(s.out)

OneRowPerName == \A q, r \in rows : q.name = r.name => q = r

ListsOnce ==
  /\ IsFiniteSet(rows) /\ OneRowPerName
  /\ Searching(search) /\ Listing(answer.out)

(* A sequence of members of a set is one of its elements.                  *)
LEMMA OfElements ==
  ASSUME NEW S, NEW s \in Seq(S)
  PROVE  s \in Seq(Elements(s))
<1>1. Len(s) \in Nat /\ s = [i \in 1 .. Len(s) |-> s[i]]
  OBVIOUS
<1>2. ASSUME NEW i \in 1 .. Len(s) PROVE s[i] \in Elements(s)
  BY DEF Elements
<1>3. s \in [1 .. Len(s) -> Elements(s)]
  BY <1>1, <1>2
<1> QED
  BY <1>1, <1>3

(* SetToSeq lists each element of a finite set once.                       *)
LEMMA Listed ==
  ASSUME NEW S, IsFiniteSet(S)
  PROVE  /\ Cardinality(S) \in Nat
         /\ SetToSeq(S) \in Seq(S) /\ Len(SetToSeq(S)) = Cardinality(S)
         /\ \A i, j \in 1 .. Cardinality(S) :
              SetToSeq(S)[i] = SetToSeq(S)[j] => i = j
<1>1. Cardinality(S) \in Nat /\ ExistsBijection(1 .. Cardinality(S), S)
  BY FS_CardinalityType
<1>2. \E f \in [1 .. Cardinality(S) -> S] : IsInjective(f)
  BY <1>1 DEF ExistsBijection, Bijection, Injection
<1>3. SetToSeq(S) \in [1 .. Cardinality(S) -> S] /\ IsInjective(SetToSeq(S))
  BY <1>2 DEF SetToSeq
<1>4. ASSUME NEW f \in [1 .. Cardinality(S) -> S]
      PROVE  f \in Seq(S) /\ Len(f) = Cardinality(S)
  BY <1>1
<1> QED
  BY <1>1, <1>3, <1>4 DEF IsInjective

(* The entries of rows are listed as the rows are, one for each.           *)
LEMMA EntriesOnce ==
  ASSUME IsFiniteSet(rows), OneRowPerName, NEW R \in SUBSET rows,
         NEW out, out = SetToSeq({Entry(r) : r \in R})
  PROVE  /\ Listing(out) /\ Len(out) = Cardinality(R)
         /\ \A i \in 1 .. Len(out) : \E r \in R : out[i] = Entry(r)
<1> DEFINE E == {Entry(r) : r \in R}
           f == [r \in R |-> Entry(r)]
<1>1. f \in Surjection(R, E) /\ f \in Injection(R, E)
  BY DEF Surjection, Injection, IsInjective, Entry, OneRowPerName
<1>2. IsFiniteSet(R)
  BY FS_Subset
<1>3. IsFiniteSet(E) /\ Cardinality(E) = Cardinality(R)
  BY <1>1, <1>2, FS_Surjection
<1>4. /\ out \in Seq(E) /\ Len(out) = Cardinality(E) /\ Cardinality(E) \in Nat
      /\ \A i, j \in 1 .. Len(out) : out[i] = out[j] => i = j
  BY <1>3, Listed
<1>5. \A e \in E : \E r \in R : e = Entry(r)
  OBVIOUS
<1> HIDE DEF E
<1>6. ASSUME NEW i \in 1 .. Len(out) PROVE \E r \in R : out[i] = Entry(r)
  <2>1. out[i] \in E
    BY <1>4
  <2> QED
    BY <1>5, <2>1
<1>7. out \in Seq(Elements(out))
  BY <1>4, OfElements
<1>8. ASSUME NEW i \in 1 .. Len(out)
      PROVE  out[i] = [name |-> out[i].name, said |-> out[i].said]
  <2>1. PICK r \in R : out[i] = [name |-> r.name, said |-> r.said]
    BY <1>6 DEF Entry
  <2> QED
    BY <2>1
<1>9. ASSUME NEW i \in 1 .. Len(out), NEW j \in 1 .. Len(out),
             out[i].name = out[j].name
      PROVE  i = j
  <2>1. PICK q \in R, r \in R : out[i] = Entry(q) /\ out[j] = Entry(r)
    BY <1>6
  <2>2. q = r
    BY <1>9, <2>1 DEF Entry, OneRowPerName
  <2> QED
    BY <1>4, <2>1, <2>2
<1> QED
  BY <1>3, <1>4, <1>6, <1>7, <1>8, <1>9 DEF Listing

(* What is appended to a list of entries is a list of entries, if it       *)
(* repeats none.                                                           *)
LEMMA Appended ==
  ASSUME NEW s, NEW t, Listing(s), Listing(t),
         \A i \in 1 .. Len(s), j \in 1 .. Len(t) : s[i].name # t[j].name
  PROVE  Listing(s \o t) /\ Len(s \o t) = Len(s) + Len(t)
<1> DEFINE A == Elements(s) \cup Elements(t)
           u == s \o t
<1>1. /\ s \in Seq(Elements(s)) /\ t \in Seq(Elements(t))
      /\ Elements(s) \subseteq A /\ Elements(t) \subseteq A
  BY DEF Listing
<1> HIDE DEF A
<1>2. s \in Seq(A) /\ t \in Seq(A)
  BY <1>1
<1>3. /\ s \o t \in Seq(A) /\ Len(s \o t) = Len(s) + Len(t)
      /\ \A i \in 1 .. Len(s) : (s \o t)[i] = s[i]
      /\ \A i \in 1 .. Len(s) + Len(t) : i > Len(s) => (s \o t)[i] = t[i - Len(s)]
      /\ Len(s) \in Nat /\ Len(t) \in Nat
  BY <1>2
<1> HIDE DEF u
<1>4. u \in Seq(Elements(u))
  BY <1>3, OfElements DEF u
<1>5. \A i \in 1 .. Len(u) :
        \/ i \in 1 .. Len(s) /\ u[i] = s[i]
        \/ i > Len(s) /\ i - Len(s) \in 1 .. Len(t) /\ u[i] = t[i - Len(s)]
  BY <1>3 DEF u
<1>6. ASSUME NEW i \in 1 .. Len(u)
      PROVE  u[i] = [name |-> u[i].name, said |-> u[i].said]
  <2>1. CASE i \in 1 .. Len(s) /\ u[i] = s[i]
    BY <2>1 DEF Listing
  <2>2. ASSUME NEW k \in 1 .. Len(t), u[i] = t[k]
        PROVE  u[i] = [name |-> u[i].name, said |-> u[i].said]
    BY <2>2 DEF Listing
  <2> QED
    BY <1>5, <2>1, <2>2
<1>7. ASSUME NEW i \in 1 .. Len(u), NEW j \in 1 .. Len(u), u[i].name = u[j].name
      PROVE  i = j
  <2>1. \A a, b \in 1 .. Len(t) : t[a].name = t[b].name => a = b
    BY DEF Listing
  <2>2. \A a, b \in 1 .. Len(s) : s[a].name = s[b].name => a = b
    BY DEF Listing
  <2>3. ASSUME NEW a \in 1 .. Len(t), NEW b \in 1 .. Len(t),
               a = i - Len(s), b = j - Len(s), u[i] = t[a], u[j] = t[b]
        PROVE  i = j
    <3>1. a = b
      BY <1>7, <2>1, <2>3
    <3> QED
      BY <1>3, <2>3, <3>1
  <2>4. CASE i \in 1 .. Len(s) /\ j \in 1 .. Len(s) /\ u[i] = s[i] /\ u[j] = s[j]
    BY <1>7, <2>2, <2>4
  <2>5. ASSUME NEW k \in 1 .. Len(s), NEW l \in 1 .. Len(t) PROVE s[k].name # t[l].name
    OBVIOUS
  <2>6. \/ i \in 1 .. Len(s) /\ u[i] = s[i]
        \/ i > Len(s) /\ i - Len(s) \in 1 .. Len(t) /\ u[i] = t[i - Len(s)]
    BY <1>5
  <2>7. \/ j \in 1 .. Len(s) /\ u[j] = s[j]
        \/ j > Len(s) /\ j - Len(s) \in 1 .. Len(t) /\ u[j] = t[j - Len(s)]
    BY <1>5
  <2> QED
    BY <1>7, <2>3, <2>4, <2>5, <2>6, <2>7
<1> QED
  BY <1>3, <1>4, <1>6, <1>7 DEF Listing, u

(* Merging keeps some of the entries, with what was said in the others.    *)
LEMMA MergedOnce ==
  ASSUME NEW out, Listing(out), NEW n \in 0 .. Len(out), NEW best \in Bests(n),
         NEW m, m = Merged(out, best)
  PROVE  /\ Listing(m)
         /\ \A k \in 1 .. Len(m) : \A x \in m[k].said :
              \E i \in 1 .. Len(out) : x \in out[i].said
         /\ Len(m) \in Nat
<1> DEFINE hits == DOMAIN best
           K == {i \in DOMAIN out : i \notin hits \/ best[i] = i}
           kept == SetToSeq(K)
           told(i) == IF i \in hits
                      THEN UNION {out[j].said : j \in {j \in hits : best[j] = i}}
                      ELSE out[i].said
<1>1. Len(out) \in Nat /\ DOMAIN out = 1 .. Len(out)
  BY DEF Listing
<1>2. hits = 1 .. n /\ hits \subseteq 1 .. Len(out)
  BY <1>1 DEF Bests
<1>3. K \subseteq 1 .. Len(out)
  BY <1>1
<1>4. IsFiniteSet(K)
  <2>1. IsFiniteSet(1 .. Len(out))
    BY <1>1, FS_Interval
  <2> HIDE DEF K
  <2> QED
    BY <1>3, <2>1, FS_Subset
<1>5. m = [k \in DOMAIN kept |-> [out[kept[k]] EXCEPT !.said = told(kept[k])]]
  BY DEF Merged
<1> HIDE DEF K
<1>6. /\ kept \in Seq(K) /\ Len(kept) = Cardinality(K) /\ Len(kept) \in Nat
      /\ \A i, j \in 1 .. Len(kept) : kept[i] = kept[j] => i = j
  BY <1>4, Listed
<1> HIDE DEF kept
<1>7. /\ DOMAIN kept = 1 .. Len(kept)
      /\ \A k \in 1 .. Len(kept) : kept[k] \in 1 .. Len(out)
  <2>1. DOMAIN kept = 1 .. Len(kept)
    BY <1>6
  <2>2. ASSUME NEW k \in 1 .. Len(kept) PROVE kept[k] \in K
    BY <1>6
  <2> QED
    BY <1>3, <2>1, <2>2
<1>8. ASSUME NEW k \in 1 .. Len(kept)
      PROVE  m[k] = [name |-> out[kept[k]].name, said |-> told(kept[k])]
  <2>1. m[k] = [out[kept[k]] EXCEPT !.said = told(kept[k])]
    BY <1>5, <1>7
  <2>2. ASSUME NEW e, NEW v, e = [name |-> e.name, said |-> e.said]
        PROVE  [e EXCEPT !.said = v] = [name |-> e.name, said |-> v]
    BY <2>2
  <2>3. out[kept[k]] = [name |-> out[kept[k]].name, said |-> out[kept[k]].said]
    BY <1>7 DEF Listing
  <2> HIDE DEF told
  <2> QED
    BY <2>1, <2>2, <2>3
<1>9. ASSUME NEW S, \A k \in 1 .. Len(kept) : m[k] \in S
      PROVE  m \in Seq(S) /\ Len(m) = Len(kept)
  <2>1. m \in [1 .. Len(kept) -> S] /\ Len(kept) \in Nat
    BY <1>5, <1>6, <1>7, <1>9
  <2> QED
    BY <2>1
<1>10. m \in Seq(Elements(m)) /\ Len(m) = Len(kept)
  <2> DEFINE S == {m[k] : k \in 1 .. Len(kept)}
  <2>1. \A k \in 1 .. Len(kept) : m[k] \in S
    OBVIOUS
  <2> HIDE DEF S
  <2> QED
    BY <1>9, <2>1, OfElements
<1>11. ASSUME NEW k \in 1 .. Len(m)
       PROVE  m[k] = [name |-> m[k].name, said |-> m[k].said]
  <2> HIDE DEF told
  <2>1. m[k] = [name |-> out[kept[k]].name, said |-> told(kept[k])]
    BY <1>8, <1>10
  <2> QED
    BY <2>1
<1>12. \A k, l \in 1 .. Len(m) : m[k].name = m[l].name => k = l
  <2>1. \A i, j \in 1 .. Len(out) : out[i].name = out[j].name => i = j
    BY DEF Listing
  <2>2. ASSUME NEW k \in 1 .. Len(m) PROVE m[k].name = out[kept[k]].name
    <3> HIDE DEF told
    <3>1. m[k] = [name |-> out[kept[k]].name, said |-> told(kept[k])]
      BY <1>8, <1>10
    <3> QED
      BY <3>1
  <2>3. ASSUME NEW k \in 1 .. Len(m), NEW l \in 1 .. Len(m), m[k].name = m[l].name
        PROVE  k = l
    <3>1. kept[k] \in 1 .. Len(out) /\ kept[l] \in 1 .. Len(out)
      BY <1>7, <1>10
    <3>2. out[kept[k]].name = out[kept[l]].name
      BY <2>2, <2>3
    <3>3. kept[k] = kept[l]
      BY <2>1, <3>1, <3>2
    <3> QED
      BY <1>6, <1>10, <3>3
  <2> QED
    BY <2>3
<1>13. ASSUME NEW k \in 1 .. Len(m), NEW x \in m[k].said
       PROVE  \E i \in 1 .. Len(out) : x \in out[i].said
  <2>1. kept[k] \in 1 .. Len(out)
    BY <1>7, <1>10
  <2>2. m[k].said = told(kept[k])
    <3> HIDE DEF told
    <3>1. m[k] = [name |-> out[kept[k]].name, said |-> told(kept[k])]
      BY <1>8, <1>10
    <3> QED
      BY <3>1
  <2>3. CASE kept[k] \notin hits
    BY <2>1, <2>2, <2>3
  <2>4. CASE kept[k] \in hits
    <3>1. PICK j \in hits : x \in out[j].said
      BY <2>2, <2>4
    <3> QED
      BY <1>2, <3>1
  <2> QED
    BY <2>3, <2>4
<1> QED
  BY <1>6, <1>10, <1>11, <1>12, <1>13 DEF Listing

(* Of finitely many rows, one for each name, an outcome of a query is a    *)
(* list of entries, whatever the filter and the limit.                     *)
LEMMA FoundOnce ==
  ASSUME IsFiniteSet(rows), OneRowPerName, NEW t, NEW x, NEW H \in Hits(t),
         NEW s, s = Found(t, x, H)
  PROVE  /\ Searching(s) /\ s.tier = t /\ s.expand = x
         /\ ~x => s.todo = {}
         /\ \A i \in 1 .. Len(s.out) :
              \E r \in rows : (t = AnyTier \/ r.tier = t) /\ s.out[i].said = r.said
<1>1. H \in SUBSET rows /\ \A r \in H : t = AnyTier \/ r.tier = t
  BY DEF Hits, kSubset, Candidates
<1>2. /\ Listing(s.out) /\ Len(s.out) = Cardinality(H)
      /\ \A i \in 1 .. Len(s.out) : \E r \in H : s.out[i] = Entry(r)
  <2> DEFINE out == s.out
  <2>1. out = SetToSeq({Entry(r) : r \in H}) /\ H \in SUBSET rows
    BY <1>1 DEF Found
  <2> HIDE DEF out
  <2>2. /\ Listing(out) /\ Len(out) = Cardinality(H)
        /\ \A i \in 1 .. Len(out) : \E r \in H : out[i] = Entry(r)
    BY <2>1, EntriesOnce
  <2> QED
    BY <2>2 DEF out
<1>3. Cardinality(H) \in Nat
  BY <1>1, FS_Subset, FS_CardinalityType
<1>4. ASSUME NEW i \in 1 .. Len(s.out)
      PROVE  \E r \in rows : (t = AnyTier \/ r.tier = t) /\ s.out[i].said = r.said
  <2>1. PICK r \in H : s.out[i] = Entry(r)
    BY <1>2
  <2> QED
    BY <1>1, <2>1 DEF Entry
<1>5. /\ s.hits = Cardinality(H) /\ s.tier = t /\ s.expand = x
      /\ s = [tier |-> s.tier, expand |-> s.expand, hits |-> s.hits,
              todo |-> s.todo, out |-> s.out, step |-> s.step]
      /\ ~x => s.todo = {}
  BY DEF Found
<1> QED
  BY <1>2, <1>3, <1>4, <1>5 DEF Searching

(* Rows stay finitely many, and one for each name.                         *)
LEMMA RowsStep ==
  ASSUME IsFiniteSet(rows), OneRowPerName, [Next]_vars
  PROVE  IsFiniteSet(rows') /\ OneRowPerName'
<1>1. ASSUME rows' \subseteq rows PROVE IsFiniteSet(rows') /\ OneRowPerName'
  BY <1>1, FS_Subset DEF OneRowPerName
<1>2. ASSUME NEW r, rows' = Replaced(r) PROVE IsFiniteSet(rows') /\ OneRowPerName'
  <2>1. IsFiniteSet(rows \ Holding(r.name))
    BY FS_Subset
  <2>2. IsFiniteSet(rows')
    BY <1>2, <2>1, FS_AddElement DEF Replaced
  <2>3. OneRowPerName'
    BY <1>2 DEF OneRowPerName, Replaced, Holding
  <2> QED
    BY <2>2, <2>3
<1>3. ASSUME NEW n \in PutName, NEW cut, Put(n, cut) PROVE \E r : rows' = Replaced(r)
  BY <1>3 DEF Put
<1>4. ASSUME NEW S \in GroupsOf(inbox), NEW t \in Topic, NEW cut, Consolidate(S, t, cut)
      PROVE  \E r : rows' = Replaced(r)
  BY <1>4 DEF Consolidate
<1>5. ASSUME NEW f \in found, NEW cut, StoreEntity(f, cut) PROVE \E r : rows' = Replaced(r)
  BY <1>5 DEF StoreEntity
<1>6. ASSUME NEW c \in run.clusters, Synthesize(c) PROVE \E r : rows' = Replaced(r)
  BY <1>6 DEF Synthesize, Summary
<1>7. ASSUME NEW c \in run.clusters, SynthesisFails(c) PROVE rows' \subseteq rows
  BY <1>7 DEF SynthesisFails
<1>8. ASSUME NEW d \in run.todo, DrawEdge(d) PROVE rows' = rows
  BY <1>8 DEF DrawEdge
<1>9. CASE RunEnd \/ RunPanics \/ List \/ Kill
  BY <1>1, <1>9 DEF RunEnd, RunPanics, List, Kill
<1>10. ASSUME NEW m \in Message, Arrive(m) PROVE rows' = rows
  BY <1>10 DEF Arrive
<1>11. ASSUME NEW r \in rows, Delete(r) PROVE rows' \subseteq rows
  BY <1>11 DEF Delete
<1>12. CASE FusionNext
  BY <1>1, <1>2, <1>3, <1>4, <1>5, <1>6, <1>7, <1>8, <1>9, <1>10, <1>11, <1>12
  DEF FusionNext, RunStep
<1>13. ASSUME UNCHANGED fusionVars PROVE rows' = rows
  BY <1>13 DEF fusionVars
<1>14. CASE UNCHANGED fusionVars
  BY <1>1, <1>13, <1>14
<1>15. FusionNext \/ Kill \/ UNCHANGED fusionVars
  <2>1. CASE Next
    <3>1. ASSUME NEW u, NEW x, Query(u, x) \/ TextQuery(u) PROVE UNCHANGED fusionVars
      BY <3>1 DEF Query, TextQuery
    <3>2. ASSUME NEW d, Expand(d) \/ Answer PROVE UNCHANGED fusionVars
      BY <3>2 DEF Expand, Answer
    <3> QED
      BY <2>1, <3>1, <3>2 DEF Next
  <2>2. CASE UNCHANGED vars
    BY <2>2 DEF vars
  <2> QED
    BY <2>1, <2>2
<1> QED
  BY <1>9, <1>12, <1>14, <1>15

(* Every step of a search keeps its list one of different memories.        *)
LEMMA OnceStep == ListsOnce /\ [Next]_vars => ListsOnce'
<1> SUFFICES ASSUME ListsOnce, [Next]_vars PROVE ListsOnce'
  OBVIOUS
<1>1. /\ IsFiniteSet(rows) /\ OneRowPerName /\ Searching(search) /\ Listing(answer.out)
      /\ IsFiniteSet(rows') /\ OneRowPerName'
  BY RowsStep DEF ListsOnce
<1>2. Searching(NoSearch)
  BY DEF NoSearch, Searching, Listing, Elements
<1>3. ASSUME NEW t, NEW x, Query(t, x) PROVE ListsOnce'
  BY <1>1, <1>3, FoundOnce DEF Query, ListsOnce
<1>4. ASSUME NEW t, TextQuery(t) PROVE ListsOnce'
  <2>1. PICK H \in Hits(t) : answer' = Found(t, FALSE, H)
    BY <1>4 DEF TextQuery
  <2>2. Searching(answer')
    BY <1>1, <2>1, FoundOnce
  <2> QED
    BY <1>1, <1>4, <2>2 DEF TextQuery, ListsOnce, Searching
<1>5. ASSUME NEW d \in search.todo, Expand(d) PROVE ListsOnce'
  <2> DEFINE R == Unseen(d, search.out)
             new == SetToSeq({Entry(r) : r \in R})
  <2>1. R \in SUBSET rows
    BY DEF Unseen, Neighbours
  <2>2. Listing(new) /\ \A j \in 1 .. Len(new) : \E r \in R : new[j] = Entry(r)
    <3> HIDE DEF R
    <3> QED
      BY <1>1, <2>1, EntriesOnce
  <2>3. /\ DOMAIN search.out = 1 .. Len(search.out) /\ Len(search.out) \in Nat
        /\ Listing(search.out)
    BY <1>1 DEF Searching, Listing
  <2>4. \A r \in R : \A i \in 1 .. Len(search.out) : search.out[i].name # r.name
    BY <2>3 DEF Unseen, Seen
  <2>5. search'.out = search.out \o new
    BY <1>1, <1>5 DEF Expand, Searching
  <2>6. /\ search'.hits = search.hits
        /\ search' = [tier |-> search'.tier, expand |-> search'.expand,
                      hits |-> search'.hits, todo |-> search'.todo,
                      out |-> search'.out, step |-> search'.step]
    <3>1. search = [tier |-> search.tier, expand |-> search.expand,
                    hits |-> search.hits, todo |-> search.todo,
                    out |-> search.out, step |-> search.step]
      BY <1>1 DEF Searching
    <3>2. search' = [search EXCEPT !.todo = search.todo \ {d}, !.out = search.out \o new]
      BY <1>5 DEF Expand
    <3> HIDE DEF new
    <3> QED
      BY <3>1, <3>2
  <2> HIDE DEF R, new
  <2>7. ASSUME NEW i \in 1 .. Len(search.out), NEW j \in 1 .. Len(new)
        PROVE  search.out[i].name # new[j].name
    <3>1. PICK r \in R : new[j] = Entry(r)
      BY <2>2
    <3> QED
      BY <2>4, <3>1 DEF Entry
  <2>8. Listing(search.out \o new) /\ Len(search.out \o new) = Len(search.out) + Len(new)
    BY <2>2, <2>3, <2>7, Appended
  <2>9. Len(new) \in Nat
    BY <2>2 DEF Listing
  <2>10. search.hits \in 0 .. Len(search.out)
    BY <1>1 DEF Searching
  <2>11. Searching(search')
    BY <2>3, <2>5, <2>6, <2>8, <2>9, <2>10 DEF Searching
  <2> QED
    BY <1>1, <1>5, <2>11 DEF Expand, ListsOnce
<1>6. CASE Answer
  <2>1. PICK best \in Bests(search.hits) :
          answer' = [search EXCEPT !.out = Merged(search.out, best)]
    BY <1>6 DEF Answer
  <2>2. /\ Listing(search.out) /\ search.hits \in 0 .. Len(search.out)
        /\ search = [tier |-> search.tier, expand |-> search.expand,
                     hits |-> search.hits, todo |-> search.todo,
                     out |-> search.out, step |-> search.step]
    BY <1>1 DEF Searching
  <2>3. answer'.out = Merged(search.out, best)
    BY <2>1, <2>2
  <2>4. Listing(answer'.out)
    BY <2>2, <2>3, MergedOnce
  <2> QED
    BY <1>1, <1>2, <1>6, <2>4 DEF Answer, ListsOnce
<1>7. CASE UNCHANGED <<search, answer>>
  BY <1>1, <1>7 DEF ListsOnce
<1>8. CASE Kill
  BY <1>1, <1>2, <1>8 DEF Kill, ListsOnce
<1> QED
  BY <1>3, <1>4, <1>5, <1>6, <1>7, <1>8 DEF Next, vars

(* An answer names a memory once: the first query lists each row once, an  *)
(* expansion adds only what is not yet in the list, a merge only leaves    *)
(* out, and at no time have two rows one name.                             *)
THEOREM NamedOnce == Spec => []AnswersOnce
<1>1. ListsOnce => AnswersOnce
  <2>1. ASSUME Listing(answer.out)
        PROVE  DOMAIN answer.out = 1 .. Len(answer.out)
    BY <2>1 DEF Listing
  <2> QED
    BY <2>1 DEF ListsOnce, AnswersOnce, Listing
<1>2. Init => ListsOnce
  BY FS_EmptySet DEF Init, FusionInit, NoSearch, ListsOnce, OneRowPerName,
                     Searching, Listing, Elements
<1> QED
  BY <1>1, <1>2, OnceStep, PTL DEF Spec

(* A search that is not expanded lists only what keeps to its tier.        *)
Confined(s) ==
  ~s.expand =>
    /\ s.todo = {}
    /\ s.tier # AnyTier => \A i \in 1 .. Len(s.out) : Within(s.out[i].said, s.tier)

AnswersConfined ==
  ListsOnce /\ NarrowOnly /\ Confined(search) /\ Confined(answer)

(* No step of a search widens it; only an expansion disregards the tier.   *)
LEMMA ConfinedStep ==
  NoCircles /\ AnswersConfined /\ [Next]_vars => AnswersConfined'
<1> SUFFICES ASSUME NoCircles, AnswersConfined, [Next]_vars PROVE AnswersConfined'
  OBVIOUS
<1>1. ListsOnce' /\ NarrowOnly'
  BY OnceStep, NarrowStep DEF AnswersConfined
<1>2. Confined(NoSearch)
  BY DEF NoSearch, Confined
<1>3. ASSUME NEW t, NEW x, NEW H \in Hits(t), NEW s, s = Found(t, x, H)
      PROVE  Confined(s)
  <2>1. IsFiniteSet(rows) /\ OneRowPerName /\ \A r \in rows : Within(r.said, r.tier)
    BY DEF AnswersConfined, ListsOnce, NarrowOnly, Narrow
  <2>2. /\ s.tier = t /\ s.expand = x /\ (~x => s.todo = {})
        /\ \A i \in 1 .. Len(s.out) :
             \E r \in rows : (t = AnyTier \/ r.tier = t) /\ s.out[i].said = r.said
    BY <1>3, <2>1, FoundOnce
  <2>3. ASSUME t # AnyTier, NEW i \in 1 .. Len(s.out) PROVE Within(s.out[i].said, t)
    BY <2>1, <2>2, <2>3
  <2> QED
    BY <2>2, <2>3 DEF Confined
<1>4. ASSUME NEW t, NEW x, Query(t, x) PROVE AnswersConfined'
  <2>1. Confined(search')
    BY <1>3, <1>4 DEF Query
  <2> QED
    BY <1>1, <1>4, <2>1 DEF Query, AnswersConfined
<1>5. ASSUME NEW t, TextQuery(t) PROVE AnswersConfined'
  <2>1. Confined(answer')
    BY <1>3, <1>5 DEF TextQuery
  <2> QED
    BY <1>1, <1>5, <2>1 DEF TextQuery, AnswersConfined
<1>6. ASSUME NEW d \in search.todo, Expand(d) PROVE AnswersConfined'
  <2>1. search.expand /\ Searching(search)
    BY DEF AnswersConfined, Confined, ListsOnce
  <2>2. search'.expand = search.expand
    BY <1>6, <2>1 DEF Expand, Searching
  <2> QED
    BY <1>1, <1>6, <2>1, <2>2 DEF Expand, AnswersConfined, Confined
<1>7. CASE Answer
  <2>1. PICK best \in Bests(search.hits) :
          answer' = [search EXCEPT !.out = Merged(search.out, best)]
    BY <1>7 DEF Answer
  <2>2. Listing(search.out) /\ search.hits \in 0 .. Len(search.out)
        /\ search = [tier |-> search.tier, expand |-> search.expand,
                     hits |-> search.hits, todo |-> search.todo,
                     out |-> search.out, step |-> search.step]
    BY DEF AnswersConfined, ListsOnce, Searching
  <2> DEFINE m == Merged(search.out, best)
  <2>3. /\ answer'.out = m /\ answer'.tier = search.tier
        /\ answer'.expand = search.expand /\ answer'.todo = search.todo
    BY <2>1, <2>2
  <2>4. \A k \in 1 .. Len(m) : \A x \in m[k].said :
          \E i \in 1 .. Len(search.out) : x \in search.out[i].said
    BY <2>2, MergedOnce
  <2> HIDE DEF m
  <2>5. ASSUME ~search.expand, search.tier # AnyTier, NEW k \in 1 .. Len(m)
        PROVE  Within(m[k].said, search.tier)
    <3>1. \A i \in 1 .. Len(search.out) : Within(search.out[i].said, search.tier)
      BY <2>5 DEF AnswersConfined, Confined
    <3> QED
      BY <2>4, <3>1 DEF Within
  <2>6. ~search.expand => search.todo = {}
    BY DEF AnswersConfined, Confined
  <2>7. Confined(answer')
    BY <2>3, <2>5, <2>6 DEF Confined
  <2> QED
    BY <1>1, <1>2, <1>7, <2>7 DEF Answer, AnswersConfined
<1>8. CASE UNCHANGED <<search, answer>>
  BY <1>1, <1>8 DEF AnswersConfined
<1>9. CASE Kill
  BY <1>1, <1>2, <1>9 DEF Kill, AnswersConfined
<1> QED
  BY <1>4, <1>5, <1>6, <1>7, <1>8, <1>9 DEF Next, vars

(* A search of one tier that does not follow the graph answers nothing     *)
(* that was said more narrowly, and neither does a merged result hold it.  *)
THEOREM AnswersStayNarrow ==
  ASSUME NoCircles
  PROVE  Spec => []AnswerWithinTier
<1>1. AnswersConfined => AnswerWithinTier
  <2>1. ASSUME Listing(answer.out)
        PROVE  DOMAIN answer.out = 1 .. Len(answer.out)
    BY <2>1 DEF Listing
  <2>2. ASSUME AnswersConfined, ~answer.expand, answer.tier # AnyTier
        PROVE  \A i \in 1 .. Len(answer.out) : Within(answer.out[i].said, answer.tier)
    BY <2>2 DEF AnswersConfined, Confined
  <2>3. AnswersConfined => \/ answer.tier = AnyTier \/ answer.expand \/ Listing(answer.out)
    BY DEF AnswersConfined, ListsOnce
  <2> QED
    BY <2>1, <2>2, <2>3 DEF AnswerWithinTier
<1>2. Init => AnswersConfined
  BY FS_EmptySet DEF Init, FusionInit, NoRun, NoSearch, AnswersConfined, ListsOnce,
    OneRowPerName, Searching, Listing, Elements, NarrowOnly, Confined
<1>3. AnswersConfined /\ [Next]_vars => AnswersConfined'
  BY ConfinedStep, NoCircles
<1> QED
  BY <1>1, <1>2, <1>3, PTL DEF Spec
-----------------------------------------------------------------------------
(***************************************************************************)
(* Names: what the memories are called that a summary is made of, and the  *)
(* types of the state.                                                     *)
(***************************************************************************)

(* The parts a name is built of.                                           *)
Scoped(d, v, s, topic)  == d = <<v, s>> \o topic
Unscoped(d, v, topic)   == d = <<v>> \o topic

(* A name is built of a tier, of the scope that goes with it, if there is  *)
(* one, and of the topic.                                                  *)
LEMMA BuiltIs ==
  ASSUME NEW tier \in Tier, NEW author, NEW topic, NEW d,
         d = BuildDtagFromTier(tier, author, topic)
  PROVE  \/ author # NoScope /\ Scoped(d, "personal", author, topic)
         \/ \E v \in {"group", "circle"} :
              tier.id # NoScope /\ Scoped(d, v, tier.id, topic)
         \/ author = NoScope /\ Unscoped(d, "personal", topic)
         \/ \E v \in {"group", "private", "public"} : Unscoped(d, v, topic)
<1>1. tier.base \in TierPrefix
  BY DEF Tier, TierPrefix, ScopedTier
<1> QED
  BY <1>1 DEF BuildDtagFromTier, BuildDtag, Scoped, Unscoped, ScopedTier,
     UnscopedTier, TierPrefix

(* The first segments of a scoped name.                                    *)
LEMMA ScopedParts ==
  ASSUME NEW v \in Segment, NEW s \in Segment, NEW topic \in Path, NEW d,
         Scoped(d, v, s, topic)
  PROVE  /\ d \in Path /\ Len(d) = Len(topic) + 2 /\ d[1] = v /\ d[2] = s
         /\ Len(topic) > 0 => d[3] = topic[1]
  BY DEF Scoped, Path

(* And of an unscoped one.                                                 *)
LEMMA UnscopedParts ==
  ASSUME NEW v \in Segment, NEW topic \in Path, NEW d, Unscoped(d, v, topic)
  PROVE  /\ d \in Path /\ Len(d) = Len(topic) + 1 /\ d[1] = v
         /\ Len(topic) > 0 => d[2] = topic[1]
  BY DEF Unscoped, Path

(* The words of names are segments.                                        *)
LEMMA Words ==
  /\ TierPrefix \cup Entity \cup {NoScope, Author, "entity", "cluster"} \subseteq Segment
  /\ {"personal", "group", "circle", "private", "public"} = TierPrefix
  /\ "cluster" \notin TierPrefix
  /\ \A t \in Tier : t.id \in Segment /\ BaseTier(t) \in Tier
  /\ \A b \in TierPrefix : BareTier(b) \in Tier /\ BareTier(b).id = NoScope
  /\ {Public, Group, Personal, Private} \subseteq Tier
  BY WordAssumption, SegmentAssumption
  DEF TierPrefix, ScopedTier, UnscopedTier, Tier, BareTier, BaseTier, Public, Group,
      Personal, Private

(* The name of a summary, by its segments.                                 *)
LEMMA SummaryIs ==
  ASSUME NEW d \in Path, IsSummary(d)
  PROVE  \/ d[2] = "cluster" /\ (d[1] = "personal" => Author = NoScope)
         \/ d[1] = "personal" /\ d[2] = Author /\ d[3] = "cluster"
            /\ Author # NoScope
<1>1. PICK t \in {Public, Group, Personal, Private} :
        IsPrefix(BuildDtagFromTier(t, Author, <<"cluster">>), d)
  BY DEF IsSummary
<1>2. PICK p : p = BuildDtagFromTier(t, Author, <<"cluster">>)
  OBVIOUS
<1>3. PICK c : c = <<"cluster">>
  OBVIOUS
<1>4. c \in Path
  BY <1>3, Words DEF Path
<1>5. Len(c) = 1 /\ c[1] = "cluster"
  BY <1>3
<1>6. /\ "personal" \in Segment /\ "group" \in Segment /\ "private" \in Segment
      /\ "public" \in Segment /\ Author \in Segment /\ t \in Tier
      /\ t.id = NoScope
  BY Words DEF Public, Group, Personal, Private, BareTier
<1>7. \/ Author # NoScope /\ Scoped(p, "personal", Author, c)
      \/ Author = NoScope /\ Unscoped(p, "personal", c)
      \/ \E v \in {"group", "private", "public"} : Unscoped(p, v, c)
  BY <1>2, <1>3, <1>6, BuiltIs
<1>8. \/ /\ Author # NoScope /\ Len(p) = 3
         /\ p[1] = "personal" /\ p[2] = Author /\ p[3] = "cluster"
      \/ /\ Len(p) = 2 /\ p[2] = "cluster" /\ (p[1] = "personal" => Author = NoScope)
  <2>1. CASE Author # NoScope /\ Scoped(p, "personal", Author, c)
    <3>1. /\ Len(p) = Len(c) + 2 /\ p[1] = "personal" /\ p[2] = Author
          /\ Len(c) > 0 => p[3] = c[1]
      BY <1>4, <1>6, <2>1, ScopedParts
    <3> QED
      BY <1>5, <2>1, <3>1
  <2>2. CASE Author = NoScope /\ Unscoped(p, "personal", c)
    <3>1. Len(p) = Len(c) + 1 /\ p[1] = "personal" /\ (Len(c) > 0 => p[2] = c[1])
      BY <1>4, <1>6, <2>2, UnscopedParts
    <3> QED
      BY <1>5, <2>2, <3>1
  <2>3. ASSUME NEW v \in {"group", "private", "public"}, Unscoped(p, v, c)
        PROVE  Len(p) = 2 /\ p[2] = "cluster" /\ p[1] # "personal"
    <3>1. Len(p) = Len(c) + 1 /\ p[1] = v /\ (Len(c) > 0 => p[2] = c[1])
      BY <1>4, <1>6, <2>3, UnscopedParts
    <3> QED
      BY <1>5, <2>3, <3>1
  <2> QED
    BY <1>7, <2>1, <2>2, <2>3
<1>9. /\ Len(d) \in Nat /\ Len(p) \in Nat /\ Len(p) <= Len(d)
      /\ SubSeq(p, 1, Len(p)) = SubSeq(d, 1, Len(p))
  BY <1>1, <1>2, <1>8 DEF IsPrefix, Path
<1>10. ASSUME NEW i \in 1 .. Len(p) PROVE d[i] = p[i]
  <2>1. SubSeq(d, 1, Len(p))[i] = d[i] /\ SubSeq(p, 1, Len(p))[i] = p[i]
    BY <1>9
  <2> QED
    BY <1>9, <2>1
<1> QED
  BY <1>8, <1>10

(* A memory a client puts has not the name of a summary, unless its topic  *)
(* begins like one.                                                        *)
LEMMA PutIsPlain ==
  ASSUME PlainIds, NEW n \in PutName, Len(n.topic) > 1,
         Head(n.topic) # "cluster"
  PROVE  ~IsSummary(BuildDtagFromTier(n.tier, Author, n.topic))
<1>1. PICK d : d = BuildDtagFromTier(n.tier, Author, n.topic)
  OBVIOUS
<1>2. /\ n.tier \in Tier /\ n.topic \in Path /\ n.tier.id # "cluster"
      /\ Len(n.topic) > 0 /\ n.topic[1] # "cluster"
      /\ n.tier.id \in Segment /\ Author \in Segment /\ Author # "cluster"
  BY WordAssumption, Words DEF PlainIds, Path
<1>3. /\ "personal" \in Segment /\ "group" \in Segment /\ "circle" \in Segment
      /\ "private" \in Segment /\ "public" \in Segment
  BY Words
<1>4. CASE Author # NoScope /\ Scoped(d, "personal", Author, n.topic)
  BY <1>1, <1>2, <1>3, <1>4, ScopedParts, SummaryIs
<1>5. ASSUME NEW v \in {"group", "circle"}, Scoped(d, v, n.tier.id, n.topic)
      PROVE  ~IsSummary(d)
  BY <1>2, <1>3, <1>5, ScopedParts, SummaryIs
<1>6. CASE Author = NoScope /\ Unscoped(d, "personal", n.topic)
  <2>1. d \in Path /\ d[2] # "cluster"
    BY <1>2, <1>3, <1>6, UnscopedParts
  <2> QED
    BY <1>1, <1>6, <2>1, SummaryIs
<1>7. ASSUME NEW v \in {"group", "private", "public"}, Unscoped(d, v, n.topic)
      PROVE  ~IsSummary(d)
  BY <1>2, <1>3, <1>7, UnscopedParts, SummaryIs
<1> QED
  BY <1>1, <1>2, <1>4, <1>5, <1>6, <1>7, BuiltIs

(* Nor has a memory stored without a scope, of a topic that begins with a  *)
(* tier or with "entity".                                                  *)
LEMMA StoredIsPlain ==
  ASSUME PlainIds, NEW tier \in Tier, tier.id = NoScope, NEW topic \in Path,
         Len(topic) > 0, topic[1] \in TierPrefix \cup {"entity"}
  PROVE  ~IsSummary(BuildDtagFromTier(tier, NoScope, topic))
<1>1. PICK d : d = BuildDtagFromTier(tier, NoScope, topic)
  OBVIOUS
<1>2. PICK v \in TierPrefix : Unscoped(d, v, topic)
  BY <1>1, BuiltIs, Words
<1>3. d \in Path /\ d[2] = topic[1]
  BY <1>2, Words, UnscopedParts
<1>4. d[2] # "cluster" /\ d[2] # Author
  BY <1>3, Words DEF PlainIds
<1> QED
  BY <1>1, <1>3, <1>4, SummaryIs

(* What a row, an entity to be stored and a cluster are made of.           *)
Typed(r) == r.name \in Path /\ r.topic \in Path /\ r.tier \in Tier

Deep(c) == c # {} /\ \A q \in c : q.topic \in Path /\ Len(q.topic) > Depth

NameInv ==
  /\ inbox \subseteq Message
  /\ \A r \in rows : Typed(r)
  /\ \A e \in edges : {e.from, e.to} \subseteq Names(rows)
  /\ \A f \in found : f.name \in Entity /\ f.tier \in Tier /\ f.tier.id = NoScope
  /\ \A c \in run.clusters : Deep(c)
  /\ run = [listed |-> run.listed, clusters |-> run.clusters,
            summary |-> run.summary, todo |-> run.todo]
  /\ run.listed \in BOOLEAN
  /\ load \in 0 .. MaxLoad /\ faults \in 0 .. MaxFault

(* A row made of a tier, a name and a topic has their types.               *)
LEMMA RowTyped ==
  ASSUME NEW t \in Tier, NEW a \in Segment, NEW topic \in Path, NEW said, NEW of,
         NEW cut
  PROVE  Typed(Row(t, a, topic, said, of, cut))
<1>1. BuildDtagFromTier(t, a, topic) \in Path
  BY BuildDtagFromTierIsPath
<1>2. BaseTier(t) \in Tier
  BY Words
<1> QED
  BY <1>1, <1>2 DEF Row, Typed

(* A store leaves the ends of the edges that are left in the table.        *)
LEMMA EdgesAfterStore ==
  ASSUME \A e \in edges : {e.from, e.to} \subseteq Names(rows),
         NEW r, rows' = Replaced(r), NEW from, NEW relation,
         \/ edges' = edges \ Gone(r.name)
         \/ edges' = (edges \ Gone(r.name)) \cup Related(from, r.name, relation)
  PROVE  \A e \in edges' : {e.from, e.to} \subseteq Names(rows')
<1>1. ASSUME NEW e \in edges, e \notin Gone(r.name)
      PROVE  {e.from, e.to} \subseteq Names(rows')
  BY <1>1 DEF Gone, Names, Replaced, Holding
<1>2. ASSUME NEW e \in Related(from, r.name, relation)
      PROVE  {e.from, e.to} \subseteq Names(rows')
  BY <1>2 DEF Related
<1> QED
  BY <1>1, <1>2

(* Every step of a cluster run, of storing and of searching keeps the      *)
(* types.                                                                  *)
LEMMA NameStep == NameInv /\ OneRowPerName /\ [Next]_vars => NameInv'
<1> SUFFICES ASSUME NameInv, OneRowPerName, [Next]_vars PROVE NameInv'
  OBVIOUS
<1>1. MaxLoad \in Nat /\ MaxFault \in Nat /\ Depth \in Nat /\ Depth > 0
      /\ load \in Nat /\ faults \in Nat
  BY FusionAssumption DEF NameInv
<1>2. ASSUME NEW r, rows' = Replaced(r), Typed(r) PROVE \A q \in rows' : Typed(q)
  BY <1>2 DEF Replaced, NameInv
<1>3. ASSUME NEW m \in Message, Arrive(m) PROVE NameInv'
  BY <1>1, <1>3 DEF Arrive, Use, NameInv
<1>4. ASSUME NEW n \in PutName, NEW cut, Put(n, cut) PROVE NameInv'
  <2> DEFINE r == Row(n.tier, Author, n.topic, {n.tier}, {}, cut)
  <2>1. Typed(r)
    BY RowTyped, WordAssumption, Words
  <2>2. rows' = Replaced(r) /\ edges' = edges \ Gone(r.name)
        /\ UNCHANGED <<inbox, found, run, faults>>
        /\ load' \in 0 .. MaxLoad
    BY <1>1, <1>4 DEF Put, Use
  <2> HIDE DEF r
  <2>3. \A e \in edges' : {e.from, e.to} \subseteq Names(rows')
    BY <2>2, EdgesAfterStore DEF NameInv
  <2> QED
    BY <1>2, <2>1, <2>2, <2>3 DEF NameInv
<1>5. ASSUME NEW r \in rows, Delete(r) PROVE NameInv'
  <2>1. rows' = rows \ {r} /\ edges' = edges \ Gone(r.name)
        /\ UNCHANGED <<inbox, found, run, faults>> /\ load' \in 0 .. MaxLoad
    BY <1>1, <1>5 DEF Delete, Use
  <2>2. ASSUME NEW e \in edges, e \notin Gone(r.name)
        PROVE  {e.from, e.to} \subseteq Names(rows')
    BY <2>1, <2>2 DEF Gone, Names, NameInv
  <2> QED
    BY <2>1, <2>2 DEF NameInv
<1>6. ASSUME NEW S \in GroupsOf(inbox), NEW t \in Topic, NEW cut, Consolidate(S, t, cut)
      PROVE  NameInv'
  <2> DEFINE tier == BareTier(GroupTier(S))
             said == {BareTier(SourceTier({m})) : m \in S}
             topic == BuildDtagFromTier(tier, Author, t)
             r == Row(tier, NoScope, topic, said, {}, cut)
  <2>1. tier \in Tier /\ tier.id = NoScope
    <3>1. GroupTier(S) \in TierPrefix
      BY DEF GroupTier, Guarded, DerivedTier, TierPrefix, ScopedTier, UnscopedTier
    <3> QED
      BY <3>1, Words
  <2>2. topic \in Path
    BY <2>1, BuildDtagFromTierIsPath, WordAssumption
  <2>3. Typed(r)
    BY <2>1, <2>2, RowTyped, Words
  <2>4. PICK E \in SUBSET Entity :
          found' = {[memory |-> r.name, tier |-> tier, said |-> said,
                     name |-> e] : e \in E}
    BY <1>6 DEF Consolidate
  <2>5. /\ rows' = Replaced(r) /\ edges' = edges \ Gone(r.name)
        /\ inbox' \subseteq inbox /\ UNCHANGED <<run, load, faults>>
    BY <1>6 DEF Consolidate
  <2> HIDE DEF r, tier, said, topic
  <2>6. \A f \in found' : f.name \in Entity /\ f.tier \in Tier /\ f.tier.id = NoScope
    BY <2>1, <2>4
  <2>7. \A e \in edges' : {e.from, e.to} \subseteq Names(rows')
    BY <2>5, EdgesAfterStore DEF NameInv
  <2> QED
    BY <1>2, <2>3, <2>5, <2>6, <2>7 DEF NameInv
<1>7. ASSUME NEW f \in found, NEW cut, StoreEntity(f, cut) PROVE NameInv'
  <2> DEFINE r == Row(f.tier, NoScope, <<"entity", f.name>>, f.said, {}, cut)
  <2>1. Typed(r)
    <3>1. <<"entity", f.name>> \in Path /\ NoScope \in Segment /\ f.tier \in Tier
      BY Words DEF NameInv, Path
    <3> QED
      BY <3>1, RowTyped
  <2>2. /\ rows' = Replaced(r) /\ found' = found \ {f}
        /\ edges' = (edges \ Gone(r.name)) \cup Related(f.memory, r.name, "mentions")
        /\ UNCHANGED <<inbox, run, load, faults>>
    BY <1>7 DEF StoreEntity
  <2> HIDE DEF r
  <2>3. \A e \in edges' : {e.from, e.to} \subseteq Names(rows')
    BY <2>2, EdgesAfterStore DEF NameInv
  <2> QED
    BY <1>2, <2>1, <2>2, <2>3 DEF NameInv
<1>8. CASE List
  <2>1. PICK L \in Lists :
             /\ run' = [NoRun EXCEPT !.listed = TRUE, !.clusters = Clusters(L)]
             /\ UNCHANGED <<inbox, rows, edges, found, load, faults>>
    BY <1>8 DEF List
  <2>2. \A c \in Clusters(L) : Deep(c)
    BY ListsRows DEF Clusters, ByNamespace, Clusterable, Deep, NameInv, Typed
  <2>3. run' = [listed |-> TRUE, clusters |-> Clusters(L), summary |-> <<>>, todo |-> {}]
    BY <2>1 DEF NoRun
  <2> QED
    BY <2>1, <2>2, <2>3 DEF NameInv
<1>9. ASSUME NEW c \in run.clusters, Synthesize(c) PROVE NameInv'
  <2> DEFINE topic == <<"cluster">> \o PrefixOf(c)
             r == Row(ClusterTier(c), Author, topic, UNION {q.said : q \in c}, Names(c), FALSE)
  <2>1. PrefixOf(c) \in Path
    <3>1. PICK q \in c : PrefixOf(c) = SubSeq(q.topic, 1, Depth)
      BY DEF PrefixOf, Prefix, NameInv, Deep
    <3>2. q.topic \in Seq(Segment) /\ Len(q.topic) > Depth
      BY DEF NameInv, Deep, Path
    <3> QED
      BY <1>1, <3>1, <3>2 DEF Path
  <2>2. topic \in Path /\ ClusterTier(c) \in Tier
    BY <2>1, OneBefore, Words DEF ClusterTier
  <2>3. Typed(r)
    BY <2>2, RowTyped, Words
  <2>4. /\ rows' = Replaced(r) /\ edges' = edges \ Gone(r.name)
        /\ run' = [run EXCEPT !.clusters = @ \ {c}, !.summary = r.name, !.todo = r.of]
        /\ UNCHANGED <<inbox, found, load, faults>>
    BY <1>9 DEF Synthesize, Summary
  <2> HIDE DEF r
  <2>5. run' = [listed |-> run.listed, clusters |-> run.clusters \ {c},
                summary |-> r.name, todo |-> r.of]
    BY <2>4 DEF NameInv
  <2>6. \A e \in edges' : {e.from, e.to} \subseteq Names(rows')
    BY <2>4, EdgesAfterStore DEF NameInv
  <2> QED
    BY <1>2, <2>3, <2>4, <2>5, <2>6 DEF NameInv
<1>10. ASSUME NEW c \in run.clusters, SynthesisFails(c) PROVE NameInv'
  <2>1. run' = [run EXCEPT !.clusters = @ \ {c}] /\ faults' \in 0 .. MaxFault
        /\ UNCHANGED <<inbox, found, load>>
    BY <1>1, <1>10 DEF SynthesisFails, Fault
  <2>3. PICK d : \/ UNCHANGED <<rows, edges>>
                 \/ rows' = rows \ Holding(d) /\ edges' = edges \ Gone(d)
    BY <1>10 DEF SynthesisFails
  <2>4. \A e \in edges' : {e.from, e.to} \subseteq Names(rows')
    BY <2>3 DEF Gone, Holding, Names, NameInv
  <2>5. rows' \subseteq rows
    BY <2>3
  <2>2. run' = [listed |-> run.listed, clusters |-> run.clusters \ {c},
                summary |-> run.summary, todo |-> run.todo]
    BY <2>1 DEF NameInv
  <2> QED
    BY <2>1, <2>2, <2>4, <2>5 DEF NameInv
<1>11. ASSUME NEW d \in run.todo, DrawEdge(d) PROVE NameInv'
  <2>1. /\ run' = [run EXCEPT !.todo = @ \ {d}] /\ rows' = rows
        /\ edges' = edges \cup Related(run.summary, d, "summarizes")
        /\ UNCHANGED <<inbox, found, load, faults>>
    BY <1>11 DEF DrawEdge
  <2>2. run' = [listed |-> run.listed, clusters |-> run.clusters,
                summary |-> run.summary, todo |-> run.todo \ {d}]
    BY <2>1 DEF NameInv
  <2>3. \A e \in Related(run.summary, d, "summarizes") :
          {e.from, e.to} \subseteq Names(rows')
    BY DEF Related
  <2> QED
    BY <2>1, <2>2, <2>3 DEF NameInv
<1>12. ASSUME run' = NoRun, UNCHANGED <<inbox, rows, edges, load>>,
              found' \in {found, {}}, faults' \in 0 .. MaxFault
       PROVE  NameInv'
  BY <1>12 DEF NoRun, NameInv
<1>13. CASE RunEnd
  BY <1>12, <1>13 DEF RunEnd, NameInv
<1>14. CASE RunPanics \/ Kill
  <2>1. faults' \in 0 .. MaxFault
    BY <1>1, <1>14 DEF RunPanics, Kill, Fault, NameInv
  <2> QED
    BY <1>12, <1>14, <2>1 DEF RunPanics, Kill
<1>15. ASSUME UNCHANGED fusionVars PROVE NameInv'
  BY <1>15 DEF fusionVars, NameInv
<1>16. CASE FusionNext
  BY <1>3, <1>4, <1>5, <1>6, <1>7, <1>8, <1>9, <1>10, <1>11, <1>13, <1>14, <1>16
  DEF FusionNext, RunStep
<1> QED
  BY <1>14, <1>15, <1>16 DEF Next, vars, Query, TextQuery, Expand, Answer

(* A search is under way or none is.                                       *)
SearchStep == search.step \in {"idle", "found"}

(* A search that is not idle has been found.                               *)
LEMMA SearchStepKept == ListsOnce /\ SearchStep /\ [Next]_vars => SearchStep'
<1> SUFFICES ASSUME ListsOnce, SearchStep, [Next]_vars PROVE SearchStep'
  OBVIOUS
<1>1. CASE UNCHANGED search
  BY <1>1 DEF SearchStep
<1>2. CASE search' = NoSearch
  BY <1>2 DEF NoSearch, SearchStep
<1>3. ASSUME NEW t, NEW x, Query(t, x) PROVE SearchStep'
  BY <1>3 DEF Query, Found, SearchStep
<1>4. ASSUME NEW d, Expand(d) PROVE SearchStep'
  <2>1. search = [tier |-> search.tier, expand |-> search.expand,
                  hits |-> search.hits, todo |-> search.todo,
                  out |-> search.out, step |-> search.step]
    BY DEF ListsOnce, Searching
  <2>2. PICK new : search' = [search EXCEPT !.todo = search.todo \ {d}, !.out = new]
    BY <1>4 DEF Expand
  <2>3. search'.step = search.step
    BY <2>1, <2>2
  <2> QED
    BY <2>3 DEF SearchStep
<1> QED
  BY <1>1, <1>2, <1>3, <1>4 DEF Next, vars, TextQuery, Answer, Kill

(* Together: rows are typed, one for each name, finitely many.             *)
LEMMA NamesHold == Spec => [](ListsOnce /\ NameInv /\ SearchStep)
<1>1. Init => ListsOnce
  BY FS_EmptySet DEF Init, FusionInit, NoSearch, ListsOnce, OneRowPerName,
                     Searching, Listing, Elements
<1>2. Init => NameInv /\ SearchStep
  BY FusionAssumption
  DEF Init, FusionInit, NoRun, NoSearch, NameInv, Names, SearchStep
<1>3. ListsOnce => OneRowPerName
  BY DEF ListsOnce
<1> QED
  BY <1>1, <1>2, <1>3, OnceStep, NameStep, SearchStepKept, PTL DEF Spec

(* Types of all that is stored and searched; the table has one row for     *)
(* each name, and no edge is left of a row that is gone: neither stores    *)
(* that replace a row nor summaries drawn from an outdated list leave one. *)
THEOREM TypesHold == Spec => []TypeOK
<1>1. ListsOnce /\ NameInv /\ SearchStep => TypeOK
  <2> SUFFICES ASSUME ListsOnce, NameInv, SearchStep PROVE TypeOK
    OBVIOUS
  <2>1. \A r \in rows : r.tier \in Tier /\ r.name \in Path /\ Holding(r.name) = {r}
    BY DEF ListsOnce, OneRowPerName, NameInv, Typed, Holding
  <2> QED
    BY <2>1 DEF NameInv, SearchStep, TypeOK
<1> QED
  BY <1>1, NamesHold, PTL

(* A memory that may be in a cluster has not the name of a summary, nor    *)
(* has one that is in a cluster or that a summary was made of.             *)
Clean(r) == Len(r.topic) > 1 /\ Head(r.topic) # "cluster" => ~IsSummary(r.name)

NoSummaries(D) == \A d \in D : ~IsSummary(d)

SummaryInv ==
  /\ \A r \in rows : Clean(r) /\ NoSummaries(r.of)
  /\ \A c \in run.clusters : \A q \in c : ~IsSummary(q.name)

(* A row has the name, the topic and the members it was given.             *)
LEMMA RowParts ==
  ASSUME NEW t, NEW a, NEW topic, NEW said, NEW of, NEW cut
  PROVE  /\ Row(t, a, topic, said, of, cut).name = BuildDtagFromTier(t, a, topic)
         /\ Row(t, a, topic, said, of, cut).topic = topic
         /\ Row(t, a, topic, said, of, cut).of = of
  BY DEF Row

(* Every step keeps summaries out of clusters.                             *)
LEMMA SummaryStep ==
  PlainIds /\ NameInv /\ SummaryInv /\ [Next]_vars => SummaryInv'
<1> SUFFICES ASSUME PlainIds, NameInv, SummaryInv, [Next]_vars PROVE SummaryInv'
  OBVIOUS
<1>1. ASSUME NEW r, rows' = Replaced(r), Clean(r), NoSummaries(r.of)
      PROVE  \A q \in rows' : Clean(q) /\ NoSummaries(q.of)
  BY <1>1 DEF Replaced, SummaryInv
<1>2. NoSummaries({})
  BY DEF NoSummaries
<1>3. ASSUME NEW n \in PutName, NEW cut, Put(n, cut) PROVE SummaryInv'
  <2> DEFINE r == Row(n.tier, Author, n.topic, {n.tier}, {}, cut)
  <2>1. Clean(r) /\ r.of = {}
    BY PutIsPlain, RowParts DEF Clean
  <2>2. rows' = Replaced(r) /\ run' = run
    BY <1>3 DEF Put
  <2> HIDE DEF r
  <2> QED
    BY <1>1, <1>2, <2>1, <2>2 DEF SummaryInv
<1>4. ASSUME NEW S \in GroupsOf(inbox), NEW t \in Topic, NEW cut, Consolidate(S, t, cut)
      PROVE  SummaryInv'
  <2> DEFINE tier == BareTier(GroupTier(S))
             said == {BareTier(SourceTier({m})) : m \in S}
             topic == BuildDtagFromTier(tier, Author, t)
             r == Row(tier, NoScope, topic, said, {}, cut)
  <2>1. tier \in Tier /\ tier.id = NoScope
    <3>1. GroupTier(S) \in TierPrefix
      BY DEF GroupTier, Guarded, DerivedTier, TierPrefix, ScopedTier, UnscopedTier
    <3> QED
      BY <3>1, Words
  <2>2. topic \in Path /\ Len(topic) > 0 /\ topic[1] \in TierPrefix
    <3>1. t \in Path /\ Author \in Segment
      BY WordAssumption
    <3>2. PICK d : d = topic
      OBVIOUS
    <3>3. \/ Scoped(d, "personal", Author, t)
          \/ \E v \in TierPrefix : Unscoped(d, v, t)
      BY <2>1, <3>2, BuiltIs, Words
    <3>4. d \in Path /\ Len(d) > 0 /\ d[1] \in TierPrefix
      <4>1. Len(t) \in Nat
        BY <3>1 DEF Path
      <4>2. CASE Scoped(d, "personal", Author, t)
        <5>1. "personal" \in Segment /\ "personal" \in TierPrefix
          BY Words
        <5> QED
          BY <3>1, <4>1, <4>2, <5>1, ScopedParts
      <4>3. ASSUME NEW v \in TierPrefix, Unscoped(d, v, t)
            PROVE  d \in Path /\ Len(d) > 0 /\ d[1] \in TierPrefix
        <5>1. v \in Segment
          BY Words
        <5> QED
          BY <3>1, <4>1, <4>3, <5>1, UnscopedParts
      <4> QED
        BY <3>3, <4>2, <4>3
    <3> HIDE DEF topic
    <3> QED
      BY <3>2, <3>4
  <2> HIDE DEF tier, topic, said
  <2>3. Clean(r) /\ r.of = {}
    BY <2>1, <2>2, StoredIsPlain, RowParts DEF Clean
  <2>4. rows' = Replaced(r) /\ run' = run
    BY <1>4 DEF Consolidate, tier, topic, said
  <2> HIDE DEF r
  <2> QED
    BY <1>1, <1>2, <2>3, <2>4 DEF SummaryInv
<1>5. ASSUME NEW f \in found, NEW cut, StoreEntity(f, cut) PROVE SummaryInv'
  <2> DEFINE topic == <<"entity", f.name>>
             r == Row(f.tier, NoScope, topic, f.said, {}, cut)
  <2>1. topic \in Path /\ Len(topic) > 0 /\ topic[1] = "entity"
    BY Words DEF NameInv, Path
  <2>2. f.tier \in Tier /\ f.tier.id = NoScope
    BY DEF NameInv
  <2> HIDE DEF topic
  <2>3. Clean(r) /\ r.of = {}
    BY <2>1, <2>2, StoredIsPlain, RowParts DEF Clean
  <2>4. rows' = Replaced(r) /\ run' = run
    BY <1>5 DEF StoreEntity, topic
  <2> HIDE DEF r
  <2> QED
    BY <1>1, <1>2, <2>3, <2>4 DEF SummaryInv
<1>6. CASE List
  <2>1. PICK L \in Lists : run'.clusters = Clusters(L) /\ rows' = rows
    BY <1>6 DEF List, NoRun
  <2>2. \A c \in Clusters(L) : \A q \in c : ~IsSummary(q.name)
    BY ListsRows DEF Clusters, ByNamespace, Clusterable, SummaryInv, Clean
  <2> QED
    BY <2>1, <2>2 DEF SummaryInv
<1>7. ASSUME NEW c \in run.clusters, Synthesize(c) PROVE SummaryInv'
  <2> DEFINE topic == <<"cluster">> \o PrefixOf(c)
             said == UNION {q.said : q \in c}
             of == Names(c)
             r == Row(ClusterTier(c), Author, topic, said, of, FALSE)
  <2>1. Head(topic) = "cluster"
    <3>1. PICK q \in c : PrefixOf(c) = SubSeq(q.topic, 1, Depth)
      BY DEF PrefixOf, Prefix, NameInv, Deep
    <3>2. q.topic \in Seq(Segment) /\ Len(q.topic) > Depth /\ Depth \in Nat
      BY FusionAssumption DEF NameInv, Deep, Path
    <3>3. PrefixOf(c) \in Path
      BY <3>1, <3>2 DEF Path
    <3>4. "cluster" \in Segment
      BY Words
    <3>5. (<<"cluster">> \o PrefixOf(c))[1] = "cluster"
      BY <3>3, <3>4, OneBefore
    <3> QED
      BY <3>5
  <2>2. NoSummaries(of)
    BY DEF NoSummaries, Names, SummaryInv
  <2>3. /\ rows' = Replaced(r)
        /\ run' = [run EXCEPT !.clusters = @ \ {c}, !.summary = r.name, !.todo = r.of]
    BY <1>7 DEF Synthesize, Summary
  <2> HIDE DEF topic, said, of
  <2>4. r.topic = topic /\ r.of = of
    BY DEF Row
  <2> HIDE DEF r
  <2>5. Clean(r) /\ NoSummaries(r.of)
    BY <2>1, <2>2, <2>4 DEF Clean
  <2>6. run'.clusters \subseteq run.clusters
    BY <2>3 DEF NameInv
  <2> QED
    BY <1>1, <2>3, <2>5, <2>6 DEF SummaryInv
<1>8. ASSUME rows' \subseteq rows,
             run'.clusters \subseteq run.clusters \/ run'.clusters = {}
      PROVE  SummaryInv'
  BY <1>8 DEF SummaryInv
<1>9. ASSUME NEW c \in run.clusters, SynthesisFails(c) PROVE SummaryInv'
  <2>1. run'.clusters \subseteq run.clusters /\ rows' \subseteq rows
    BY <1>9 DEF SynthesisFails, NameInv
  <2> QED
    BY <1>8, <2>1
<1>10. ASSUME NEW d \in run.todo, DrawEdge(d) PROVE SummaryInv'
  <2>1. run' = [run EXCEPT !.todo = @ \ {d}] /\ rows' = rows
    BY <1>10 DEF DrawEdge
  <2>2. run'.clusters = run.clusters
    BY <2>1
  <2> QED
    BY <1>8, <2>1, <2>2
<1>11. CASE RunEnd \/ RunPanics \/ Kill
  <2>1. run'.clusters = {} /\ rows' = rows
    BY <1>11 DEF RunEnd, RunPanics, Kill, NoRun
  <2> QED
    BY <1>8, <2>1
<1>12. ASSUME NEW m \in Message, Arrive(m) PROVE SummaryInv'
  BY <1>8, <1>12 DEF Arrive
<1>13. ASSUME NEW r \in rows, Delete(r) PROVE SummaryInv'
  BY <1>8, <1>13 DEF Delete
<1>14. ASSUME UNCHANGED fusionVars PROVE SummaryInv'
  BY <1>8, <1>14 DEF fusionVars
<1>15. CASE FusionNext
  BY <1>3, <1>4, <1>5, <1>6, <1>7, <1>9, <1>10, <1>11, <1>12, <1>13, <1>15
  DEF FusionNext, RunStep
<1> QED
  BY <1>11, <1>14, <1>15 DEF Next, vars, Query, TextQuery, Expand, Answer

(* No summary is made of summaries, however often clusters are run, on     *)
(* lists that are outdated when their summaries are stored: provided no    *)
(* group is called "cluster", whose memories may be named like summaries.  *)
THEOREM NoSummaryOfSummaries ==
  ASSUME PlainIds
  PROVE  Spec => []OfMemories
<1>1. SummaryInv => OfMemories
  BY DEF SummaryInv, NoSummaries, OfMemories
<1>2. Init => SummaryInv
  BY DEF Init, FusionInit, NoRun, SummaryInv
<1>3. NameInv /\ SummaryInv /\ [Next]_vars => SummaryInv'
  BY SummaryStep, PlainIds
<1> QED
  BY <1>1, <1>2, <1>3, NamesHold, PTL DEF Spec
=============================================================================
