----------------------------- MODULE RemoteCalls -----------------------------
(***************************************************************************)
(* What the client library promises its callers, without saying how: a     *)
(* call that was begun returns at most once; only what was begun is done;  *)
(* what a call says was done was done before. It does not promise that a   *)
(* call that failed was not done, or will not be: the request of a call    *)
(* that returned long ago may still be done.                               *)
(***************************************************************************)
EXTENDS Naturals

VARIABLES
  begun,   \* calls begun so far, numbered from 1
  open,    \* calls that have not returned
  done,    \* calls the server has executed, once or several times
  ok       \* calls that returned saying they were done

vars == <<begun, open, done, ok>>

Init == begun = 0 /\ open = {} /\ done = {} /\ ok = {}

Begin ==
  /\ begun' = begun + 1 /\ open' = open \cup {begun + 1}
  /\ UNCHANGED <<done, ok>>

Do(n) ==
  /\ done' = done \cup {n}
  /\ UNCHANGED <<begun, open, ok>>

Succeed(n) ==
  /\ n \in done
  /\ open' = open \ {n} /\ ok' = ok \cup {n}
  /\ UNCHANGED <<begun, done>>

(* With an error, or with an answer that is not about anything done.       *)
Return(n) ==
  /\ open' = open \ {n}
  /\ UNCHANGED <<begun, done, ok>>

Next ==
  \/ Begin
  \/ \E n \in 1 .. begun : Do(n)
  \/ \E n \in open : Succeed(n) \/ Return(n)

Spec == Init /\ [][Next]_vars
=============================================================================
