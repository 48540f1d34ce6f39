----------------------------- MODULE WireClient -----------------------------
(***************************************************************************)
(* The client library on the other end of SocketServer:                    *)
(* crates/nomen-wire/src/client.rs, NomenClient under ReconnectingClient.  *)
(*                                                                         *)
(* A connection of a client is a writer task, which sends what it is given *)
(* until the handle is dropped or a send fails, and a reader task, which   *)
(* completes waiting requests and fans out events until the stream ends.   *)
(* They share the socket: it is closed when both have ended. A reconnecting*)
(* client runs one call at a time (it holds its lock meanwhile); a call    *)
(* that fails drops the handle and is tried again on a new connection.     *)
(* Not here: the time between the attempts.                                *)
(***************************************************************************)
EXTENDS SocketServer

CONSTANTS
  Client,     \* reconnecting clients
  MaxRetries, \* of a reconnecting client
  MaxFault    \* bound: restarts, broken frames, clients that exit

ASSUME ClientAssumption == MaxRetries \in Nat /\ MaxFault \in Nat

VARIABLES
  cur,        \* the handle of each client: a connection or NoConn
  call,       \* what each client is doing
  writer,     \* connections whose writer task runs
  reader,     \* connections whose reader task runs
  pending,    \* ids registered for an answer, by connection
  lastId,     \* the last id drawn, by connection
  stream,     \* position of the log from which on the connection's events
              \* reach a receiver, while it is subscribed; NoStream
  got,        \* events the receiver got
  missed,     \* history: events the channel had dropped when the
              \* connection's task came to them
  answered,   \* history: puts that were answered ok
  calls, faults

clientVars == <<cur, call, writer, reader, pending, lastId, stream, got,
                missed, answered, calls, faults>>
vars == <<serverVars, clientVars>>

NoConn   == 0
NoStream == 0
NoCall   == [step |-> "none", n |-> 0, action |-> "none", attempt |-> 0,
             id |-> 0]

Init ==
  /\ ServerInit
  /\ cur = [k \in Client |-> NoConn] /\ call = [k \in Client |-> NoCall]
  /\ writer = {} /\ reader = {}
  /\ pending = [c \in Conn |-> {}] /\ lastId = [c \in Conn |-> 0]
  /\ stream = [c \in Conn |-> NoStream] /\ got = [c \in Conn |-> {}]
  /\ missed = [c \in Conn |-> {}]
  /\ answered = {} /\ calls = 0 /\ faults = 0

Go(k, step) == call' = [call EXCEPT ![k].step = step]

(* The call of k returns.                                                  *)
Return(k, code) ==
  /\ answered' = IF code = "ok" /\ call[k].action = "memory.put"
                 THEN answered \cup {call[k].n} ELSE answered
  /\ call' = [call EXCEPT ![k] = NoCall]

(* An attempt of k failed: the handle goes, except that of a subscribe,    *)
(* which is not tried again either.                                        *)
FailAttempt(k) ==
  IF call[k].action \in {"subscribe", "unsubscribe"}
  THEN Return(k, "failed") /\ UNCHANGED cur
  ELSE /\ cur' = [cur EXCEPT ![k] = NoConn]
       /\ IF call[k].attempt = MaxRetries THEN Return(k, "failed")
          ELSE /\ call' = [call EXCEPT ![k].step = "connect",
                                       ![k].attempt = @ + 1, ![k].id = 0]
               /\ UNCHANGED answered

BeginCall(k, action) ==
  /\ call[k] = NoCall /\ calls + 1 \in Call
  /\ calls' = calls + 1
  /\ call' = [call EXCEPT ![k] = [NoCall EXCEPT !.step = "connect",
                                    !.n = calls + 1, !.action = action]]
  /\ UNCHANGED <<serverVars, cur, writer, reader, pending, lastId, stream,
                 got, missed, answered, faults>>

(* ensure_connected, NomenClient::connect                                  *)
Connect(k) ==
  /\ call[k].step = "connect"
  /\ IF cur[k] # NoConn
     THEN Go(k, "send") /\ UNCHANGED <<link, cur, writer, reader>>
     ELSE \E c \in Conn :
            /\ link[c] = "none" /\ \A d \in Conn : link[d] = "none" => c <= d
            /\ link' = [link EXCEPT ![c] = "backlog"]
            /\ cur' = [cur EXCEPT ![k] = c]
            /\ writer' = writer \cup {c} /\ reader' = reader \cup {c}
            /\ Go(k, "send")
  /\ UNCHANGED <<up, down, gone, auth, subs, pos, busy, slots, log, executed,
                 pending, lastId, stream, got, missed, answered, calls, faults>>

(* No server at the socket (or no connection left in the model).           *)
ConnectFails(k) ==
  /\ call[k].step = "connect" /\ cur[k] = NoConn
  /\ \A c \in Conn : link[c] # "none"
  /\ FailAttempt(k)
  /\ UNCHANGED <<serverVars, writer, reader, pending, lastId, stream, got, missed,
                 calls, faults>>

(* Mutant: the id is drawn again after it was used.                        *)
SameId(c) == 1

(* next_id                                                                 *)
NextId(c) == lastId[c] + 1

(* request_with_timeout: register, then hand the frame to the writer. The  *)
(* registration stays when there is no writer any more.                    *)
Send(k) ==
  LET c  == cur[k]
      id == NextId(c)
  IN
  /\ call[k].step = "send"
  /\ lastId' = [lastId EXCEPT ![c] = id]
  /\ pending' = [pending EXCEPT ![c] = @ \cup {id}]
  /\ IF c \in writer
     THEN /\ up' = [up EXCEPT ![c] = Append(@,
                      [id |-> id, call |-> call[k].n,
                       action |-> call[k].action])]
          /\ call' = [call EXCEPT ![k].step = "wait", ![k].id = id]
          /\ UNCHANGED <<cur, answered>>
     ELSE FailAttempt(k) /\ UNCHANGED up
  /\ UNCHANGED <<link, down, gone, auth, subs, pos, busy, slots, log,
                 executed, writer, reader, stream, got, missed, calls, faults>>

Waits(k, c, id) ==
  call[k].step = "wait" /\ cur[k] = c /\ call[k].id = id

(* Mutant: no time limit.                                                  *)
NeverExpires(k) == FALSE

(* tokio::time::timeout over the answer                                    *)
Expires(k) == call[k].step = "wait" /\ call[k].id \in pending[cur[k]]

Timeout(k) ==
  /\ Expires(k)
  /\ pending' = [pending EXCEPT ![cur[k]] = @ \ {call[k].id}]
  /\ FailAttempt(k)
  /\ UNCHANGED <<serverVars, writer, reader, lastId, stream, got, missed, calls,
                 faults>>

(* What the caller makes of a response: subscribe goes on to its stream.   *)
Complete(k, code) ==
  IF call[k].action = "subscribe" /\ code = "ok"
  THEN Go(k, "stream") /\ UNCHANGED answered ELSE Return(k, code)

(* The reader task: a response nobody waits for is dropped.                *)
ReadResponse(c) ==
  /\ c \in reader /\ down[c] # <<>> /\ Head(down[c]).kind = "response"
  /\ down' = [down EXCEPT ![c] = Tail(@)]
  /\ LET id == Head(down[c]).id IN
     /\ pending' = [pending EXCEPT ![c] = @ \ {id}]
     /\ IF id \in pending[c] /\ \E k \in Client : Waits(k, c, id)
        THEN \E k \in Client : /\ Waits(k, c, id)
                               /\ Complete(k, Head(down[c]).code)
        ELSE UNCHANGED <<call, answered>>
  /\ UNCHANGED <<link, up, gone, auth, subs, pos, busy, slots, log, executed,
                 cur, writer, reader, lastId, stream, got, missed, calls, faults>>

ReadEvent(c) ==
  /\ c \in reader /\ down[c] # <<>> /\ Head(down[c]).kind = "event"
  /\ down' = [down EXCEPT ![c] = Tail(@)]
  /\ got' = IF stream[c] = NoStream THEN got
            ELSE [got EXCEPT ![c] = @ \cup {Head(down[c]).id}]
  /\ UNCHANGED <<link, up, gone, auth, subs, pos, busy, slots, log, executed,
                 cur, call, writer, reader, pending, lastId, stream, missed, answered,
                 calls, faults>>

(* The receiver is created after the answer: what the reader passes on in  *)
(* between is lost. Its first event is the next one forwarded.             *)
OpenStream(k) ==
  LET c == cur[k] IN
  /\ call[k].step = "stream"
  /\ stream' = [stream EXCEPT ![c] = pos[c] + 1]
  /\ Return(k, "ok")
  /\ UNCHANGED <<serverVars, cur, writer, reader, pending, lastId, got, missed,
                 calls, faults>>

(* The stream ended: every registered request is answered                  *)
(* connection_closed. The handle stays where it is.                        *)
EndReader(c) ==
  /\ c \in reader /\ link[c] = "closed" /\ down[c] = <<>>
  /\ reader' = reader \ {c}
  /\ pending' = [pending EXCEPT ![c] = {}]
  /\ IF \E k \in Client : Waits(k, c, call[k].id) /\ call[k].id \in pending[c]
     THEN \E k \in Client : /\ Waits(k, c, call[k].id)
                            /\ call[k].id \in pending[c]
                            /\ Return(k, "connection_closed")
     ELSE UNCHANGED <<call, answered>>
  /\ gone' = IF c \in writer THEN gone ELSE gone \cup {c}
  /\ UNCHANGED <<link, up, down, auth, subs, pos, busy, slots, log, executed,
                 cur, writer, lastId, stream, got, missed, calls, faults>>

Dropped(c) == \A k \in Client : cur[k] # c

(* The writer ends when a frame cannot be sent, or when the handle is      *)
(* dropped and everything sent.                                            *)
EndWriter(c) ==
  /\ c \in writer
  /\ \/ link[c] = "closed" /\ up[c] # <<>>
     \/ Dropped(c) /\ (up[c] = <<>> \/ link[c] = "closed")
  /\ writer' = writer \ {c}
  /\ up' = IF link[c] = "closed" THEN [up EXCEPT ![c] = <<>>] ELSE up
  /\ gone' = IF c \in reader THEN gone ELSE gone \cup {c}
  /\ UNCHANGED <<link, down, auth, subs, pos, busy, slots, log, executed,
                 cur, call, reader, pending, lastId, stream, got, missed, answered,
                 calls, faults>>

(* ReconnectingClient::close                                               *)
Close(k) ==
  /\ call[k] = NoCall /\ cur[k] # NoConn
  /\ cur' = [cur EXCEPT ![k] = NoConn]
  /\ UNCHANGED <<serverVars, call, writer, reader, pending, lastId, stream,
                 got, missed, answered, calls, faults>>
-----------------------------------------------------------------------------
(* Faults: the process of the clients exits between calls and closes every *)
(* socket it has; the server restarts; a frame does not decode.            *)
Fault == faults < MaxFault /\ faults' = faults + 1

Exit ==
  /\ Fault
  /\ \A k \in Client : call[k] = NoCall
  /\ gone' = gone \cup writer \cup reader
  /\ writer' = {} /\ reader' = {}
  /\ cur' = [k \in Client |-> NoConn]
  /\ down' = [c \in Conn |-> <<>>] /\ pending' = [c \in Conn |-> {}]
  /\ stream' = [c \in Conn |-> NoStream] /\ got' = [c \in Conn |-> {}]
  /\ UNCHANGED <<link, up, auth, subs, pos, busy, slots, log, executed, call,
                 lastId, missed, answered, calls>>

ServerRestart ==
  /\ Fault /\ Restart
  /\ stream' = [c \in Conn |-> NoStream] /\ got' = [c \in Conn |-> {}]
  /\ missed' = [c \in Conn |-> {}]
  /\ UNCHANGED <<cur, call, writer, reader, pending, lastId, answered, calls>>

ServerBreak(c) ==
  /\ Fault /\ BreakFrame(c)
  /\ stream' = [stream EXCEPT ![c] = NoStream]
  /\ got' = [got EXCEPT ![c] = {}] /\ missed' = [missed EXCEPT ![c] = {}]
  /\ UNCHANGED <<cur, call, writer, reader, pending, lastId, answered, calls>>

(* A connection that is no longer subscribed to something starts anew.     *)
ServerActs(c) ==
  /\ ServerStep(c)
  /\ stream' = IF stream[c] # NoStream /\ subs'[c] # subs[c]
               THEN [stream EXCEPT ![c] = NoStream] ELSE stream
  /\ got' = IF stream'[c] = NoStream THEN [got EXCEPT ![c] = {}] ELSE got
  /\ missed' = IF link'[c] = "closed" THEN [missed EXCEPT ![c] = {}]
               ELSE IF Lag(c)
               THEN [missed EXCEPT ![c] = @ \cup
                       {n \in 1 .. Len(log) : pos[c] < n
                                             /\ n + EventCap <= Len(log)}]
               ELSE missed
  /\ UNCHANGED <<cur, call, writer, reader, pending, lastId, answered, calls,
                 faults>>

ClientStep(k) ==
  \/ Connect(k) \/ ConnectFails(k) \/ Send(k) \/ Timeout(k) \/ OpenStream(k)

Task(c) ==
  ReadResponse(c) \/ ReadEvent(c) \/ EndReader(c) \/ EndWriter(c)

Next ==
  \/ \E k \in Client, a \in Action : BeginCall(k, a)
  \/ \E k \in Client : ClientStep(k) \/ Close(k)
  \/ \E c \in Conn : Task(c) \/ ServerActs(c) \/ ServerBreak(c)
  \/ Exit \/ ServerRestart

Spec == Init /\ [][Next]_vars

(* Tasks run; a request that is not answered times out.                    *)
LiveSpec ==
  /\ Spec
  /\ \A k \in Client : WF_vars(ClientStep(k))
  /\ \A c \in Conn :
       /\ WF_vars(Task(c))
       /\ WF_vars((Accept(c) \/ Admit(c) \/ Handle(c)) /\ ServerActs(c))
       /\ WF_vars((Lag(c) \/ Forward(c)) /\ ServerActs(c))
-----------------------------------------------------------------------------
Frame == [kind : {"response", "event"}, id : Nat,
          code : EventType \cup {"ok", "auth_required", "invalid_params"}]

TypeOK ==
  /\ link \in [Conn -> {"none", "backlog", "held", "open", "closed"}]
  /\ up \in [Conn -> Seq(Request)] /\ down \in [Conn -> Seq(Frame)]
  /\ gone \subseteq Conn /\ auth \subseteq Conn
  /\ subs \in [Conn -> SUBSET Interest] /\ pos \in [Conn -> Nat]
  /\ busy \in [Conn -> Request \cup {NoRequest}]
  /\ slots \in 0 .. MaxConnections
  /\ log \in Seq(EventType) /\ executed \subseteq Call
  /\ cur \in [Client -> Conn \cup {NoConn}]
  /\ call \in [Client ->
       [step : {"none", "connect", "send", "wait", "stream"},
        n : Call \cup {0}, action : Action \cup {"none"},
        attempt : 0 .. MaxRetries, id : Nat]]
  /\ writer \subseteq Conn /\ reader \subseteq Conn
  /\ pending \in [Conn -> SUBSET Nat] /\ lastId \in [Conn -> Nat]
  /\ stream \in [Conn -> Nat] /\ got \in [Conn -> SUBSET Nat]
  /\ missed \in [Conn -> SUBSET Nat]
  /\ answered \subseteq Call
  /\ calls \in Nat /\ faults \in 0 .. MaxFault

(* Every permit is either free or one of an open connection, through       *)
(* restarts, broken frames and clients that exit: the server does not lose *)
(* the capacity to serve.                                                  *)
SlotsBalance == slots + Cardinality(Open) = MaxConnections

(* The answer a caller gets is the answer to its own request: a memory.put *)
(* that was answered ok has been dispatched for this very call, although   *)
(* answers to requests that timed out are still on their way.              *)
PutAnsweredOkWasDone == answered \subseteq executed

(* Between two events a receiver gets on a connection that stays           *)
(* subscribed it misses none, but what the channel had dropped already.    *)
NoSilentGap ==
  \A c \in Open : stream[c] # NoStream =>
    \A n \in stream[c] .. pos[c] :
      Subscribed(c, log[n]) =>
        \/ n \in got[c] \cup missed[c]
        \/ \E i \in DOMAIN down[c] : down[c][i].kind = "event"
                                   /\ down[c][i].id = n

(* The client library keeps the promise of RemoteCalls to its callers,     *)
(* whatever time limits, retries on new connections, late answers, lost    *)
(* connections and restarts do to a call: it returns once, with ok only    *)
(* after it was executed, and the server executes nothing nobody called.   *)
Calls == INSTANCE RemoteCalls WITH
  begun <- calls,
  open  <- {call[k].n : k \in {j \in Client : call[j].step # "none"}},
  done  <- executed,
  ok    <- answered

KeepsCalls == Calls!Spec

(* Every call returns, with an answer or an error.                         *)
CallReturns ==
  \A k \in Client : call[k].step # "none" ~> call[k].step = "none"

(* The slot of a client that is gone is freed.                             *)
GoneIsReleased ==
  \A c \in Conn : c \in Open \cap gone ~> c \notin Open

(* What the documents say and the code does not do, see README.            *)

(* A connection whose handle was dropped or closed is released.            *)
DroppedIsReleased ==
  \A c \in Conn : c \in Open /\ Dropped(c) ~> c \notin Open
=============================================================================
