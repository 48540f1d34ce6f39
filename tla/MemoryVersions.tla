--------------------------- MODULE MemoryVersions ---------------------------
(***************************************************************************)
(* What the table of memories promises about versions, without saying how: *)
(* a version is written under one name and has a number of its own; it is  *)
(* afoot as long as a call, a sync or the relay has it; only what is afoot *)
(* is shown, and only where no other version of that name is. Nothing is   *)
(* shown again, under any name, once it is afoot no more. Which version of *)
(* a name is shown, and for how long, is not promised: an older one may    *)
(* follow a newer one.                                                     *)
(***************************************************************************)
EXTENDS Naturals

CONSTANT Name

VARIABLES
  shown,   \* versions [dtag, id] readers find
  afoot,   \* versions that may yet be shown
  last     \* number of the version written last

vars == <<shown, afoot, last>>

Init == shown = {} /\ afoot = {} /\ last = 0

(* Writing a version may take others of its name out of the way.           *)
Write(d) ==
  LET v == [dtag |-> d, id |-> last + 1] IN
  /\ last' = last + 1
  /\ v \in afoot' /\ afoot' \subseteq afoot \cup {v}
  /\ UNCHANGED shown

Show(v) ==
  /\ \A w \in shown : w.dtag # v.dtag
  /\ shown' = shown \cup {v}
  /\ UNCHANGED <<afoot, last>>

(* Versions are deleted, replaced, pruned, refused or lost with a process. *)
Lose ==
  /\ UNCHANGED last
  /\ afoot' \subseteq afoot /\ shown' \subseteq shown

Next ==
  \/ Lose
  \/ \E v \in afoot : Show(v)
  \/ \E d \in Name : Write(d)

Spec == Init /\ [][Next]_vars
=============================================================================
