---------------------------- MODULE MessageLedger ----------------------------
(***************************************************************************)
(* What consolidation promises about messages, without saying how: a       *)
(* message is open from its arrival; it is told when its group has been    *)
(* through extraction and storage, possibly several times (at least once); *)
(* only told messages are closed, that is, hidden from later runs; only    *)
(* closed messages are removed from the table. A removed message may       *)
(* arrive again, from a client or from the relay.                          *)
(***************************************************************************)
CONSTANTS Msg,
          Held   \* messages that are open at the start

VARIABLES
  open,      \* messages waiting to be consolidated
  closed,    \* messages flagged as consolidated
  told       \* messages whose content went through extraction and storage

vars == <<open, closed, told>>

Init == open = Held /\ closed = {} /\ told = {}

Arrive(m) ==
  /\ m \notin open \cup closed
  /\ open' = open \cup {m}
  /\ UNCHANGED <<closed, told>>

(* Only what is, or was, in the table can be told: a batch may be stale,   *)
(* its messages closed or even removed by another call meanwhile.          *)
Tell(S) ==
  /\ told' = told \cup S
  /\ UNCHANGED <<open, closed>>

Close(S) ==
  /\ S \subseteq open \cap told
  /\ open' = open \ S
  /\ closed' = closed \cup S
  /\ UNCHANGED told

Remove(S) ==
  /\ S \subseteq closed
  /\ closed' = closed \ S
  /\ UNCHANGED <<open, told>>

Next ==
  \/ \E m \in Msg : Arrive(m)
  \/ \E S \in SUBSET Msg : Tell(S) \/ Close(S) \/ Remove(S)

Spec == Init /\ [][Next]_vars
=============================================================================
