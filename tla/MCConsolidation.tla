--------------------------- MODULE MCConsolidation ---------------------------
(***************************************************************************)
(* Small instances of Consolidation: two chats of the same tier. Group     *)
(* keys are records, as in the code.                                       *)
(***************************************************************************)
EXTENDS Consolidation, TLC

CONSTANTS m1, m2, m3, m4

MCKey(chat, window) ==
  [identity |-> chat, window |-> window, scope |-> "group:" \o chat]

A1 == MCKey("a", 1)
B1 == MCKey("b", 1)

MCSegment   == STRING
MCGroup     == {A1, B1}
MCScopeOf   == [g \in MCGroup |-> g.scope]
MCTierOf    == [g \in MCGroup |-> BareTier("group")]
MCTopic     == {<<"group", "a", "talk">>}
MCNoTopic   == {}
MCCreatedAt == [m \in Msg |-> IF m = m1 THEN 1 ELSE 2]

\* m1 and m2 in chat a, the others in chat b
MCGroupOfChats == [m \in Msg |-> IF m \in {m1, m2} THEN A1 ELSE B1]
\* the oldest message alone in chat b
MCGroupOfStarved == [m \in Msg |-> IF m = m1 THEN B1 ELSE A1]

MCAll   == {Msg}
MCNostr == {m1, m3} \cap Msg

ASSUME MCNames == PlainNames

\* calls are interchangeable, and so are sessions
MCSymmetry == Permutations(Worker) \cup Permutations(Session)
=============================================================================
