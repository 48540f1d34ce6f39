------------------------------ MODULE DTagProofs ------------------------------
(***************************************************************************)
(* Facts about the names of memories, for every tier, author and topic.    *)
(***************************************************************************)
EXTENDS DTag, SequenceTheorems, TLAPS

(* One segment before a path: what it is, and how to get the path back.    *)
LEMMA OneBefore ==
  ASSUME NEW x \in Segment, NEW t \in Path
  PROVE  /\ <<x>> \o t \in Path
         /\ Len(<<x>> \o t) = Len(t) + 1
         /\ (<<x>> \o t)[1] = x
         /\ SubSeq(<<x>> \o t, 2, Len(<<x>> \o t)) = t
<1>1. t \in Seq(Segment)
  BY DEF Path
<1>2. <<x>> \o t \in Seq(Segment)
  BY <1>1
<1>3. Len(<<x>> \o t) = Len(t) + 1
  BY <1>1
<1>4. (<<x>> \o t)[1] = x
  BY <1>1
<1>5. SubSeq(<<x>> \o t, 2, Len(<<x>> \o t)) = t
  BY <1>1
<1> QED
  BY <1>2, <1>3, <1>4, <1>5 DEF Path

(* Two segments before a path.                                             *)
LEMMA TwoBefore ==
  ASSUME NEW x \in Segment, NEW y \in Segment, NEW t \in Path
  PROVE  /\ <<x, y>> \o t \in Path
         /\ Len(<<x, y>> \o t) = Len(t) + 2
         /\ (<<x, y>> \o t)[1] = x
         /\ SubSeq(<<x, y>> \o t, 3, Len(<<x, y>> \o t)) = t
<1>1. t \in Seq(Segment)
  BY DEF Path
<1>2. <<x, y>> \o t \in Seq(Segment)
  BY <1>1
<1>3. Len(<<x, y>> \o t) = Len(t) + 2
  BY <1>1
<1>4. (<<x, y>> \o t)[1] = x
  BY <1>1
<1>5. SubSeq(<<x, y>> \o t, 3, Len(<<x, y>> \o t)) = t
  BY <1>1
<1> QED
  BY <1>2, <1>3, <1>4, <1>5 DEF Path

(* build_dtag makes a path of its segments.                                *)
LEMMA BuildDtagIsPath ==
  ASSUME NEW visibility \in Segment, NEW scope \in Segment, NEW topic \in Path
  PROVE  BuildDtag(visibility, scope, topic) \in Path
  BY OneBefore, TwoBefore DEF BuildDtag

(* build_dtag_from_tier makes a path.                                      *)
LEMMA BuildDtagFromTierIsPath ==
  ASSUME NEW tier \in Tier, NEW author \in Segment, NEW topic \in Path
  PROVE  BuildDtagFromTier(tier, author, topic) \in Path
<1>1. tier.id \in Segment /\ NoScope \in Segment
  BY SegmentAssumption DEF Tier
<1>2. \A v \in {"personal", "group", "circle", "private", "public"} : v \in Segment
  BY SegmentAssumption DEF TierPrefix, ScopedTier, UnscopedTier
<1> QED
  BY <1>1, <1>2, BuildDtagIsPath DEF BuildDtagFromTier

(* A built name is longer than the topic it is built from: storing a whole *)
(* name as the topic, as store_direct does, never yields that name again.  *)
LEMMA BuildDtagFromTierGrows ==
  ASSUME NEW tier \in Tier, NEW author \in Segment, NEW topic \in Path
  PROVE  Len(BuildDtagFromTier(tier, author, topic)) > Len(topic)
<1>1. Len(topic) \in Nat
  BY DEF Path
<1>2. ASSUME NEW v \in Segment, NEW s \in Segment
      PROVE  Len(BuildDtag(v, s, topic)) > Len(topic)
  <2>1. CASE BuildDtag(v, s, topic) = <<v, s>> \o topic
    <3>1. Len(<<v, s>> \o topic) = Len(topic) + 2
      BY TwoBefore
    <3> QED
      BY <1>1, <2>1, <3>1
  <2>2. CASE BuildDtag(v, s, topic) = <<v>> \o topic
    <3>1. Len(<<v>> \o topic) = Len(topic) + 1
      BY OneBefore
    <3> QED
      BY <1>1, <2>2, <3>1
  <2> QED
    BY <2>1, <2>2 DEF BuildDtag
<1>3. tier.id \in Segment /\ NoScope \in Segment
  BY SegmentAssumption DEF Tier
<1>4. \A v \in {"personal", "group", "circle", "private", "public"} : v \in Segment
  BY SegmentAssumption DEF TierPrefix, ScopedTier, UnscopedTier
<1> QED
  BY <1>2, <1>3, <1>4 DEF BuildDtagFromTier

(* dtag_topic undoes build_dtag for every topic that has content, when a   *)
(* scoped tier has its scope.                                              *)
THEOREM TopicRoundTrip ==
  ASSUME NEW visibility \in TierPrefix, NEW scope \in Segment,
         NEW topic \in Path, topic # NoTopic, topic # EmptyTopic,
         visibility \in ScopedTier => scope # NoScope
  PROVE  DtagTopic(BuildDtag(visibility, scope, topic)) = topic
<1>1. visibility \in Segment
  BY SegmentAssumption
<1>2. Len(topic) \in Nat /\ Len(topic) # 0
  BY EmptySeq DEF Path, NoTopic
<1>3. PICK d : d = BuildDtag(visibility, scope, topic)
  OBVIOUS
<1>4. CASE visibility \in ScopedTier
  <2>1. d = <<visibility, scope>> \o topic
    BY <1>3, <1>4 DEF BuildDtag
  <2>2. Len(<<visibility, scope>> \o topic) = Len(topic) + 2
    BY <1>1, TwoBefore
  <2>3. (<<visibility, scope>> \o topic)[1] = visibility
    BY <1>1, TwoBefore
  <2>4. SubSeq(<<visibility, scope>> \o topic, 3,
               Len(<<visibility, scope>> \o topic)) = topic
    BY <1>1, TwoBefore
  <2>5. d[1] = visibility
    BY <2>1, <2>3, Zenon
  <2>6. Len(d) = Len(topic) + 2
    BY <2>1, <2>2, Zenon
  <2>7. IsV3Dtag(d)
    BY <1>2, <2>5, <2>6 DEF IsV3Dtag
  <2>8. SubSeq(d, 2 + 1, Len(d)) = topic
    <3>1. 2 + 1 = 3
      OBVIOUS
    <3> QED
      BY <2>1, <2>4, <3>1, Zenon
  <2> QED
    BY <1>3, <1>4, <2>5, <2>7, <2>8, Zenon DEF DtagTopic
<1>5. CASE visibility \notin ScopedTier
  <2>1. d = <<visibility>> \o topic
    BY <1>3, <1>5 DEF BuildDtag
  <2>2. Len(<<visibility>> \o topic) = Len(topic) + 1
    BY <1>1, OneBefore
  <2>3. (<<visibility>> \o topic)[1] = visibility
    BY <1>1, OneBefore
  <2>4. SubSeq(<<visibility>> \o topic, 2, Len(<<visibility>> \o topic)) = topic
    BY <1>1, OneBefore
  <2>5. d[1] = visibility
    BY <2>1, <2>3, Zenon
  <2>6. Len(d) = Len(topic) + 1
    BY <2>1, <2>2, Zenon
  <2>7. IsV3Dtag(d)
    BY <1>2, <2>5, <2>6 DEF IsV3Dtag
  <2>8. SubSeq(d, 1 + 1, Len(d)) = topic
    <3>1. 1 + 1 = 2
      OBVIOUS
    <3> QED
      BY <2>1, <2>4, <3>1, Zenon
  <2> QED
    BY <1>3, <1>5, <2>5, <2>7, <2>8, Zenon DEF DtagTopic
<1> QED
  BY <1>4, <1>5
=============================================================================
