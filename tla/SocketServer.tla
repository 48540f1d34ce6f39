---------------------------- MODULE SocketServer ----------------------------
(***************************************************************************)
(* The socket server: crates/nomen-transport/src/socket.rs, over the       *)
(* frames of crates/nomen-wire (types.rs, codec.rs).                       *)
(*                                                                         *)
(* A connection is used once; its two directions are queues of frames. Its *)
(* task takes one branch of its select at a time: the next frame, which it *)
(* handles to the end, or the next event of the broadcast channel. Every   *)
(* receiver of the channel has a position in the log of events; one that   *)
(* is more than the capacity behind has lost the oldest ones.              *)
(* Not here: the contents of requests and results, which dispatch decides; *)
(* a frame is what correlates it: its id, and the call it belongs to.      *)
(***************************************************************************)
EXTENDS Naturals, Sequences, FiniteSets

CONSTANTS
  Conn,           \* connections, numbers from 1: at most this many (bound)
  Call,           \* requests of callers, numbers from 1: bound
  MaxConnections, \* max_connections of the server
  EventCap,       \* capacity of the broadcast channel (1024)
  Interest        \* the event types clients subscribe to; "*" for all

ASSUME ServerAssumption ==
  /\ Conn \subseteq Nat \ {0} /\ Call \subseteq Nat \ {0}
  /\ MaxConnections \in Nat \ {0} /\ EventCap \in Nat \ {0}
  /\ Interest \subseteq {"*", "agent.connected", "agent.disconnected",
                         "memory.updated"}

VARIABLES
  link,       \* of each connection: none, backlog, held (accepted, waiting
              \* for a permit), open (it has a task), closed
  up, down,   \* frames on their way to the server, and to the client
  gone,       \* connections whose client end is closed
  auth,       \* connections that have a session backend
  subs,       \* subscriptions
  pos,        \* events the connection's receiver is through with
  busy,       \* the request its task is handling
  slots,      \* permits of the semaphore
  log,        \* types of the events broadcast so far
  executed    \* history: calls that were dispatched

serverVars == <<link, up, down, gone, auth, subs, pos, busy, slots, log,
                executed>>

Action    == {"identity.auth", "subscribe", "unsubscribe", "memory.put"}
EventType == {"agent.connected", "agent.disconnected", "memory.updated"}

Request   == [id : Nat \ {0}, call : Call, action : Action]
NoRequest == [id |-> 0, call |-> 0, action |-> "none"]

Response(id, code) == [kind |-> "response", id |-> id, code |-> code]
EventFrame(n)      == [kind |-> "event", id |-> n, code |-> log[n]]

Open   == {c \in Conn : link[c] = "open"}
Held   == {c \in Conn : link[c] = "held"}
Queued == {c \in Conn : link[c] = "backlog"}

ServerInit ==
  /\ link = [c \in Conn |-> "none"]
  /\ up = [c \in Conn |-> <<>>] /\ down = [c \in Conn |-> <<>>]
  /\ gone = {} /\ auth = {} /\ subs = [c \in Conn |-> {}]
  /\ pos = [c \in Conn |-> 0] /\ busy = [c \in Conn |-> NoRequest]
  /\ slots = MaxConnections /\ log = <<>>
  /\ executed = {}
-----------------------------------------------------------------------------
(***************************************************************************)
(* The accept loop: it accepts, then waits for a permit.                   *)
(***************************************************************************)
Accept(c) ==
  /\ Held = {} /\ c \in Queued /\ \A d \in Queued : c <= d
  /\ link' = [link EXCEPT ![c] = "held"]
  /\ UNCHANGED <<up, down, gone, auth, subs, pos, busy, slots, log, executed>>

(* agent.connected is sent before the new task has a receiver.             *)
Admit(c) ==
  /\ c \in Held /\ slots > 0
  /\ slots' = slots - 1
  /\ link' = [link EXCEPT ![c] = "open"]
  /\ log' = Append(log, "agent.connected")
  /\ pos' = [pos EXCEPT ![c] = Len(log')]
  /\ UNCHANGED <<up, down, gone, auth, subs, busy, executed>>
-----------------------------------------------------------------------------
(***************************************************************************)
(* A connection's task.                                                    *)
(***************************************************************************)
Free(c) == c \in Open /\ busy[c] = NoRequest

TakeRequest(c) ==
  /\ Free(c) /\ up[c] # <<>>
  /\ busy' = [busy EXCEPT ![c] = Head(up[c])]
  /\ up' = [up EXCEPT ![c] = Tail(@)]
  /\ UNCHANGED <<link, down, gone, auth, subs, pos, slots, log, executed>>

Respond(c, code) ==
  /\ down' = [down EXCEPT ![c] = Append(@, Response(busy[c].id, code))]
  /\ busy' = [busy EXCEPT ![c] = NoRequest]

(* handle_identity_auth, with a key that parses.                           *)
ServeAuth(c) ==
  /\ c \in Open /\ busy[c].action = "identity.auth"
  /\ auth' = auth \cup {c}
  /\ Respond(c, "ok")
  /\ UNCHANGED <<link, up, gone, subs, pos, slots, log, executed>>

Refuse(c) ==
  /\ c \in Open /\ busy[c].action \in Action \ {"identity.auth"}
  /\ c \notin auth
  /\ Respond(c, "auth_required")
  /\ UNCHANGED <<link, up, gone, auth, subs, pos, slots, log, executed>>

(* handle_subscribe                                                        *)
ServeSubscribe(c) ==
  /\ c \in Open \cap auth /\ busy[c].action = "subscribe"
  /\ subs' = [subs EXCEPT ![c] = @ \cup Interest]
  /\ Respond(c, IF Interest = {} THEN "invalid_params" ELSE "ok")
  /\ UNCHANGED <<link, up, gone, auth, pos, slots, log, executed>>

(* handle_unsubscribe                                                      *)
ServeUnsubscribe(c) ==
  /\ c \in Open \cap auth /\ busy[c].action = "unsubscribe"
  /\ subs' = [subs EXCEPT ![c] = @ \ Interest]
  /\ Respond(c, "ok")
  /\ UNCHANGED <<link, up, gone, auth, pos, slots, log, executed>>

(* Mutant: an operation that fails is answered ok.                         *)
AnswerOnly(c) ==
  /\ c \in Open \cap auth /\ busy[c].action = "memory.put"
  /\ Respond(c, "ok")
  /\ UNCHANGED <<link, up, gone, auth, subs, pos, slots, log, executed>>

(* Everything else is dispatched; here an operation that emits an event.   *)
Dispatch(c) ==
  /\ c \in Open \cap auth /\ busy[c].action = "memory.put"
  /\ executed' = executed \cup {busy[c].call}
  /\ log' = Append(log, "memory.updated")
  /\ Respond(c, "ok")
  /\ UNCHANGED <<link, up, gone, auth, subs, pos, slots>>

(* Mutant: a receiver that fell behind starts again at the newest event.   *)
ToNewest(c) == Len(log)

(* broadcast::Receiver: Lagged, and on with the oldest event still there.  *)
ResumeAt(c) == Len(log) - EventCap

Lagging(c) == Len(log) > pos[c] + EventCap

Lag(c) ==
  /\ Free(c) /\ Lagging(c)
  /\ pos' = [pos EXCEPT ![c] = ResumeAt(c)]
  /\ UNCHANGED <<link, up, down, gone, auth, subs, busy, slots, log, executed>>

(* is_subscribed                                                           *)
Subscribed(c, type) == "*" \in subs[c] \/ type \in subs[c]

Forward(c) ==
  /\ Free(c) /\ pos[c] < Len(log) /\ ~Lagging(c)
  /\ pos' = [pos EXCEPT ![c] = @ + 1]
  /\ down' = IF Subscribed(c, log[pos[c] + 1])
             THEN [down EXCEPT ![c] = Append(@, EventFrame(pos[c] + 1))]
             ELSE down
  /\ UNCHANGED <<link, up, gone, auth, subs, busy, slots, log, executed>>

(* Mutant: the permit is not given back.                                   *)
SlotKept == slots

(* Mutant: the permit is given back by hand and dropped as well.           *)
SlotTwice == slots + 2

(* The dropped permit.                                                     *)
SlotBack == slots + 1

(* Cleanup after the loop: subscriptions, agent.disconnected, permit.      *)
Cleanup(c) ==
  /\ link' = [link EXCEPT ![c] = "closed"]
  /\ subs' = [subs EXCEPT ![c] = {}]
  /\ auth' = auth \ {c}
  /\ up' = [up EXCEPT ![c] = <<>>]
  /\ busy' = [busy EXCEPT ![c] = NoRequest]
  /\ log' = Append(log, "agent.disconnected")
  /\ slots' = SlotBack /\ pos' = [pos EXCEPT ![c] = 0]
  /\ UNCHANGED <<down, gone, executed>>

(* Mutant: the end is noticed only with something left to send.            *)
EndedOnSend(c) == c \in gone /\ down[c] # <<>>

(* The stream ended, or an answer or event cannot be sent any more.        *)
Ended(c) == c \in gone

HangUp(c) == Free(c) /\ Ended(c) /\ Cleanup(c)

(* A frame that does not decode, or one too large to be sent.              *)
BreakFrame(c) == Free(c) /\ Cleanup(c)

(* The server ends and is started again: a new socket file, and nothing    *)
(* known of the old connections.                                           *)
Restart ==
  /\ link' = [c \in Conn |-> IF link[c] = "none" THEN "none" ELSE "closed"]
  /\ up' = [c \in Conn |-> <<>>]
  /\ auth' = {} /\ subs' = [c \in Conn |-> {}]
  /\ pos' = [c \in Conn |-> 0] /\ busy' = [c \in Conn |-> NoRequest]
  /\ slots' = MaxConnections /\ log' = <<>>
  /\ UNCHANGED <<down, gone, executed>>

Handle(c) ==
  \/ TakeRequest(c) \/ ServeAuth(c) \/ Refuse(c) \/ ServeSubscribe(c)
  \/ ServeUnsubscribe(c) \/ Dispatch(c) \/ HangUp(c)

ServerStep(c) == Accept(c) \/ Admit(c) \/ Handle(c) \/ Lag(c) \/ Forward(c)
=============================================================================
