------------------------------ MODULE MCSearch ------------------------------
(***************************************************************************)
(* Small instance of Search: a direct message, a message in a room of a    *)
(* group platform and one of another platform; two topics of one namespace *)
(* in three tiers.                                                         *)
(***************************************************************************)
EXTENDS Search

Msg(source, sender, chat) ==
  [source |-> source, sender |-> <<sender>>, forum |-> <<>>, chat |-> chat,
   thread |-> <<>>, at |-> 0]

MCMessage == {Msg("nostr", "ann", <<"dm">>), Msg("telegram", "bob", <<"room">>),
              Msg("discord", "bob", <<"hall">>)}

Name(tier, leaf) == [tier |-> tier, topic |-> <<"a", leaf>>]
Club == [base |-> "group", id |-> "club"]

MCPutName == {Name(Club, "x"), Name(Public, "y"), Name(Personal, "x")}

MCTopic == {<<"t">>}
MCOnly == <<>>
MCSegment == TierPrefix \cup
  {NoScope, "me", "club", "a", "x", "y", "t", "entity", "bob", "cluster"}

ASSUME MCNames == NoCircles /\ PlainIds
=============================================================================
