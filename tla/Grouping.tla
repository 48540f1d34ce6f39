------------------------------ MODULE Grouping ------------------------------
(***************************************************************************)
(* Which messages are consolidated together and how narrow the memory of   *)
(* them is: crates/nomen-llm/src/consolidate/grouping.rs.                  *)
(*                                                                         *)
(* A message is a record: source, the platform; sender; forum, the forum   *)
(* topic its sender string ends in, <<>> for none; chat and thread, each   *)
(* <<>> for none; at, its time. Paths (containers, scopes) are sequences   *)
(* of their segments.                                                      *)
(***************************************************************************)
EXTENDS Naturals, Sequences

CONSTANTS GroupSource, \* nostr, telegram and sources that start with "group"
          TimeWindow   \* TIME_WINDOW_SECS

ASSUME GroupingAssumption == TimeWindow \in Nat \ {0}

(* primary_container_id: chat/thread, or what there is of it.              *)
Container(m) == m.chat \o m.thread

NoRoom == {<<>>, <<"dm">>, <<"general">>}

IsDm(m) ==
  \/ m.source \in {"dm", "telegram_dm"}
  \/ m.source = "nostr" /\ Container(m) \in {<<>>, <<"dm">>}

InRoom(m)  == Container(m) \notin NoRoom
IsGroup(m) == InRoom(m) /\ m.source \in GroupSource

(* resolve_message_scope                                                   *)
Scope(m) == IF IsDm(m) THEN <<"personal">>
            ELSE IF IsGroup(m) THEN <<"group">> \o Container(m)
            ELSE <<"public">>

Identity(m) ==
  IF Container(m) \in {<<>>, <<"general">>} THEN m.sender
  ELSE IF m.thread # <<>> THEN Container(m) ELSE Container(m) \o m.forum

Key(m) == [identity |-> Identity(m), window |-> m.at \div TimeWindow,
           scope |-> Scope(m)]

(* group_messages                                                          *)
GroupsOf(S) == {{m \in S : Key(m) = k} : k \in {Key(m) : m \in S}}

(* derive_tier_from_messages                                               *)
DerivedTier(S) ==
  IF \E m \in S : IsDm(m) THEN "personal"
  ELSE IF \E m \in S : IsGroup(m) THEN "group" ELSE "public"

(* consolidate, prepare: most_restrictive_source                           *)
SourceTier(S) ==
  IF \E m \in S : IsDm(m) THEN "personal"
  ELSE IF \E m \in S : InRoom(m) THEN "group" ELSE "public"

(* enforce_tier_guard                                                      *)
Guarded(derived, source) ==
  IF source \in {"personal", "private"} THEN "personal"
  ELSE IF source = "group" /\ derived = "public" THEN "group" ELSE derived

GroupTier(S) == Guarded(DerivedTier(S), SourceTier(S))
=============================================================================
