----------------------------- MODULE MCRequests -----------------------------
(***************************************************************************)
(* Small instances of Requests: one group, additions and removals of one   *)
(* member; two clients are allowed by their hex key, one by its npub.      *)
(***************************************************************************)
EXTENDS Requests

CONSTANTS g1, n1, n2

Ask(op, S) == [op |-> op, group |-> g1, who |-> S]

MCInput == {Ask("group.create", {n1}), Ask("group.add_member", {n2}),
            Ask("group.remove_member", {n2})}

MCCvmInput == {Ping, Ask("group.remove_member", {n2})}
MCFirst == {n1}

MCAllowed == {[key |-> "k1", form |-> "hex"], [key |-> "k2", form |-> "hex"],
              [key |-> "k3", form |-> "npub"]}
=============================================================================
