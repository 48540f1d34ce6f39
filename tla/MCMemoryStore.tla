---------------------------- MODULE MCMemoryStore ----------------------------
(***************************************************************************)
(* Small instances of MemoryStore: one topic, public and in a group, so    *)
(* that two names share it.                                                *)
(***************************************************************************)
EXTENDS MemoryStore

MCSegment == STRING

X       == <<"x">>
PublicX == [tier |-> BareTier("public"), topic |-> X]
GroupX  == [tier |-> [base |-> "group", id |-> "g"], topic |-> X]

PublicName == PutName(PublicX)
GroupName  == PutName(GroupX)

MCNone      == {}
MCPublic    == {PublicX}
MCRawTopic  == {X}
MCRemote    == {GroupName}
MCRemoteTwo == {PublicName, GroupName}
MCRefs      == {<<GroupName, PublicName>>}
=============================================================================
