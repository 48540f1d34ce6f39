-------------------------------- MODULE DTag --------------------------------
(***************************************************************************)
(* The names of memories: crates/nomen-core/src/memory.rs.                 *)
(*                                                                         *)
(* A d-tag `tier/topic` or `tier/scope/topic` is the sequence of its       *)
(* `/`-separated segments, so "public/rust/errors" is                      *)
(* <<"public", "rust", "errors">>; a topic is a sequence of segments too.  *)
(* NoScope is the empty scope of the code.                                 *)
(***************************************************************************)
EXTENDS Sequences, Naturals

CONSTANT Segment   \* strings without `/`

NoScope == ""

ScopedTier   == {"personal", "group", "circle"}
UnscopedTier == {"public", "private"}
TierPrefix   == ScopedTier \cup UnscopedTier

ASSUME SegmentAssumption == TierPrefix \cup {NoScope} \subseteq Segment

Path == Seq(Segment)

(* A tier of the code: a bare tier name, or "group:<id>" / "circle:<id>"   *)
(* with a non-empty id.                                                    *)
Tier == [base : TierPrefix, id : {NoScope}]
          \cup [base : {"group", "circle"}, id : Segment]
BareTier(base) == [base |-> base, id |-> NoScope]

(* build_dtag: only a scoped tier carries its scope, and only if there is  *)
(* one.                                                                    *)
BuildDtag(visibility, scope, topic) ==
  IF visibility \in ScopedTier /\ scope # NoScope
  THEN <<visibility, scope>> \o topic
  ELSE <<visibility>> \o topic

(* build_dtag_from_tier: the scope of `personal` is the author's key, the  *)
(* scope of `group:<id>` and `circle:<id>` is the id; a bare "group" has   *)
(* none, and a bare "circle" is not a tier the code knows: public.         *)
BuildDtagFromTier(tier, author, topic) ==
  CASE tier.base = "personal" -> BuildDtag("personal", author, topic)
    [] tier.base = "group"    -> BuildDtag("group", tier.id, topic)
    [] tier.base = "circle" /\ tier.id # NoScope ->
                                 BuildDtag("circle", tier.id, topic)
    [] tier.base = "private"  -> BuildDtag("private", NoScope, topic)
    [] OTHER                  -> BuildDtag("public", NoScope, topic)

(* is_v3_dtag: a known tier followed by at least one `/`.                  *)
IsV3Dtag(d) == Len(d) >= 2 /\ d[1] \in TierPrefix

(* dtag_topic / v3_dtag_topic: everything after the scope of a scoped tier *)
(* or after the tier of an unscoped one; NoTopic, the empty sequence,      *)
(* stands for None. An empty topic string is one empty segment.            *)
NoTopic    == <<>>
EmptyTopic == <<NoScope>>

DtagTopic(d) ==
  LET skip  == IF d[1] \in ScopedTier THEN 2 ELSE 1
      topic == SubSeq(d, skip + 1, Len(d))
  IN  IF IsV3Dtag(d) /\ topic # EmptyTopic THEN topic ELSE NoTopic

(* extract_visibility_scope                                                *)
ExtractVisibilityScope(d) ==
  IF ~IsV3Dtag(d)
  THEN [visibility |-> "public", scope |-> NoScope]
  ELSE [visibility |-> d[1],
        scope |-> IF d[1] \in ScopedTier THEN d[2] ELSE NoScope]
=============================================================================
