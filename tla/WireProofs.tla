----------------------------- MODULE WireProofs -----------------------------
(***************************************************************************)
(* What holds of WireClient over SocketServer for any number of clients,   *)
(* connections, calls and slots, every capacity of the channel and every   *)
(* number of retries and faults.                                           *)
(***************************************************************************)
EXTENDS WireClient, FiniteSetTheorems, TLAPS

-----------------------------------------------------------------------------
(***************************************************************************)
(* Types.                                                                  *)
(***************************************************************************)

(* The types of the server's part of the state, but for the free slots.    *)
ServerTypes ==
  /\ link \in [Conn -> {"none", "backlog", "held", "open", "closed"}]
  /\ up \in [Conn -> Seq(Request)] /\ down \in [Conn -> Seq(Frame)]
  /\ gone \subseteq Conn /\ auth \subseteq Conn
  /\ subs \in [Conn -> SUBSET Interest] /\ pos \in [Conn -> Nat]
  /\ busy \in [Conn -> Request \cup {NoRequest}]
  /\ log \in Seq(EventType) /\ executed \subseteq Call

(* A queue that grows by an element, and one that loses its first.         *)
LEMMA Pushed ==
  ASSUME NEW S, NEW f \in [Conn -> Seq(S)], NEW c \in Conn, NEW x \in S
  PROVE  [f EXCEPT ![c] = Append(@, x)] \in [Conn -> Seq(S)]
<1>1. Append(f[c], x) \in Seq(S)
  OBVIOUS
<1> QED
  BY <1>1

(* So does a queue that loses its first element, which is one of its type. *)
LEMMA Popped ==
  ASSUME NEW S, NEW f \in [Conn -> Seq(S)], NEW c \in Conn, f[c] # <<>>
  PROVE  /\ [f EXCEPT ![c] = Tail(@)] \in [Conn -> Seq(S)]
         /\ Head(f[c]) \in S
<1>1. Tail(f[c]) \in Seq(S) /\ Head(f[c]) \in S
  OBVIOUS
<1> QED
  BY <1>1

(* An answer is a frame, and the task is free after it.                    *)
LEMMA RespondTypes ==
  ASSUME ServerTypes, NEW c \in Conn,
         NEW code \in {"ok", "auth_required", "invalid_params"},
         Respond(c, code)
  PROVE  /\ down' \in [Conn -> Seq(Frame)]
         /\ busy' \in [Conn -> Request \cup {NoRequest}]
<1>1. busy[c].id \in Nat
  BY DEF ServerTypes, Request, NoRequest
<1>2. Response(busy[c].id, code) \in Frame
  BY <1>1 DEF Response, Frame
<1>3. down' \in [Conn -> Seq(Frame)]
  BY <1>2, Pushed DEF Respond, ServerTypes
<1>4. busy' \in [Conn -> Request \cup {NoRequest}]
  BY DEF Respond, ServerTypes
<1> QED
  BY <1>3, <1>4

(* The end of a connection's task.                                         *)
LEMMA CleanupTypes ==
  ASSUME ServerTypes, NEW c \in Conn, Cleanup(c)
  PROVE  ServerTypes'
<1>1. up' \in [Conn -> Seq(Request)] /\ down' \in [Conn -> Seq(Frame)]
  <2>1. <<>> \in Seq(Request)
    OBVIOUS
  <2> QED
    BY <2>1 DEF Cleanup, ServerTypes
<1>2. log' \in Seq(EventType)
  BY DEF Cleanup, ServerTypes, EventType
<1>3. link' \in [Conn -> {"none", "backlog", "held", "open", "closed"}]
  BY DEF Cleanup, ServerTypes
<1>4. /\ subs' \in [Conn -> SUBSET Interest] /\ pos' \in [Conn -> Nat]
      /\ busy' \in [Conn -> Request \cup {NoRequest}]
  BY DEF Cleanup, ServerTypes
<1>5. gone' \subseteq Conn /\ auth' \subseteq Conn /\ executed' \subseteq Call
  BY DEF Cleanup, ServerTypes
<1> QED
  BY <1>1, <1>2, <1>3, <1>4, <1>5 DEF ServerTypes

(* Every step of the server keeps the types.                               *)
LEMMA ServerTypesKept ==
  ASSUME ServerTypes, NEW c \in Conn, ServerStep(c)
  PROVE  ServerTypes'
<1>1. CASE Accept(c)
  BY <1>1 DEF Accept, ServerTypes
<1>2. CASE Admit(c)
  <2>1. log' \in Seq(EventType) /\ Len(log') \in Nat
    BY <1>2 DEF Admit, ServerTypes, EventType
  <2> QED
    BY <1>2, <2>1 DEF Admit, ServerTypes
<1>3. CASE TakeRequest(c)
  <2>1. Head(up[c]) \in Request /\ up' \in [Conn -> Seq(Request)]
    BY <1>3, Popped DEF TakeRequest, ServerTypes
  <2> QED
    BY <1>3, <2>1 DEF TakeRequest, ServerTypes
<1>4. CASE ServeAuth(c)
  BY <1>4, RespondTypes DEF ServeAuth, ServerTypes
<1>5. CASE Refuse(c)
  BY <1>5, RespondTypes DEF Refuse, ServerTypes
<1>6. CASE ServeSubscribe(c)
  BY <1>6, RespondTypes DEF ServeSubscribe, ServerTypes
<1>7. CASE ServeUnsubscribe(c)
  BY <1>7, RespondTypes DEF ServeUnsubscribe, ServerTypes
<1>8. CASE Dispatch(c)
  <2>1. busy[c] \in Request
    BY <1>8 DEF Dispatch, ServerTypes, NoRequest
  <2>2. executed' \subseteq Call /\ log' \in Seq(EventType)
    BY <1>8, <2>1 DEF Dispatch, ServerTypes, Request, EventType
  <2> QED
    BY <1>8, <2>2, RespondTypes DEF Dispatch, ServerTypes
<1>9. CASE HangUp(c)
  BY <1>9, CleanupTypes DEF HangUp
<1>10. CASE Lag(c)
  <2>1. ResumeAt(c) \in Nat
    BY <1>10, ServerAssumption DEF Lag, Lagging, ResumeAt, ServerTypes
  <2> QED
    BY <1>10, <2>1 DEF Lag, ServerTypes
<1>11. CASE Forward(c)
  <2>1. pos[c] + 1 \in 1 .. Len(log)
    BY <1>11 DEF Forward, ServerTypes
  <2>2. EventFrame(pos[c] + 1) \in Frame
    BY <2>1 DEF EventFrame, Frame, ServerTypes
  <2>3. down' \in [Conn -> Seq(Frame)]
    BY <1>11, <2>2, Pushed DEF Forward, ServerTypes
  <2> QED
    BY <1>11, <2>1, <2>3 DEF Forward, ServerTypes
<1> QED
  BY <1>1, <1>2, <1>3, <1>4, <1>5, <1>6, <1>7, <1>8, <1>9, <1>10, <1>11
  DEF ServerStep, Handle

(* So does its end and new start.                                          *)
LEMMA RestartTypes ==
  ASSUME ServerTypes, Restart
  PROVE  ServerTypes'
<1>1. /\ up' \in [Conn -> Seq(Request)] /\ log' \in Seq(EventType)
      /\ busy' \in [Conn -> Request \cup {NoRequest}]
  BY DEF Restart, ServerTypes
<1>2. link' \in [Conn -> {"none", "backlog", "held", "open", "closed"}]
  BY DEF Restart, ServerTypes
<1> QED
  BY <1>1, <1>2 DEF Restart, ServerTypes

(* The types of the clients' part. A call under way is one of Call, and    *)
(* has a connection from when it is about to send; only a subscribe goes   *)
(* on to its stream.                                                       *)
CallType ==
  [step : {"none", "connect", "send", "wait", "stream"}, n : Call \cup {0},
   action : Action \cup {"none"}, attempt : 0 .. MaxRetries, id : Nat]

ClientTypes ==
  /\ cur \in [Client -> Conn \cup {NoConn}] /\ call \in [Client -> CallType]
  /\ writer \subseteq Conn /\ reader \subseteq Conn
  /\ pending \in [Conn -> SUBSET Nat] /\ lastId \in [Conn -> Nat]
  /\ stream \in [Conn -> Nat] /\ got \in [Conn -> SUBSET Nat]
  /\ missed \in [Conn -> SUBSET Nat]
  /\ answered \subseteq Call
  /\ calls \in Nat /\ faults \in 0 .. MaxFault

UnderWay(k) ==
  /\ call[k].step # "none" => call[k].n \in Call /\ call[k].action \in Action
  /\ call[k].step \in {"send", "wait", "stream"} => cur[k] \in Conn
  /\ call[k].step = "stream" => call[k].action = "subscribe"

Types == ServerTypes /\ ClientTypes /\ \A k \in Client : UnderWay(k)

(* A call that goes on, returns or fails an attempt.                       *)
LEMMA NoCallType == NoCall \in CallType /\ NoCall.step = "none"
<1>1. 0 \in 0 .. MaxRetries
  BY ClientAssumption
<1> QED
  BY <1>1 DEF NoCall, CallType

(* A call that returns is none any more.                                   *)
LEMMA ReturnTypes ==
  ASSUME Types, NEW k \in Client, NEW code, call[k].step # "none",
         Return(k, code)
  PROVE  /\ call' \in [Client -> CallType] /\ answered' \subseteq Call
         /\ \A j \in Client : j # k => call'[j] = call[j]
         /\ call'[k] = NoCall
<1>1. call[k].n \in Call
  BY DEF Types, UnderWay
<1> QED
  BY <1>1, NoCallType DEF Return, Types, ClientTypes

(* A call that goes on changes its step.                                   *)
LEMMA GoTypes ==
  ASSUME Types, NEW k \in Client,
         NEW s \in {"none", "connect", "send", "wait", "stream"}, Go(k, s)
  PROVE  /\ call' \in [Client -> CallType]
         /\ \A j \in Client : j # k => call'[j] = call[j]
         /\ call'[k].step = s /\ call'[k].n = call[k].n
         /\ call'[k].action = call[k].action /\ call'[k].id = call[k].id
  BY DEF Go, Types, ClientTypes, CallType

(* An attempt that fails ends the call or sends it back to connect.        *)
LEMMA FailTypes ==
  ASSUME Types, NEW k \in Client, call[k].step # "none", FailAttempt(k)
  PROVE  /\ cur' \in [Client -> Conn \cup {NoConn}]
         /\ call' \in [Client -> CallType] /\ answered' = answered
         /\ \A j \in Client : j # k => call'[j] = call[j] /\ cur'[j] = cur[j]
         /\ call'[k].step \in {"none", "connect"}
         /\ call'[k].step # "none" => call'[k].n = call[k].n
                                   /\ call'[k].action = call[k].action
<1>1. CASE call[k].action \in {"subscribe", "unsubscribe"}
  BY <1>1, NoCallType DEF FailAttempt, Return, Types, ClientTypes
<1>2. CASE call[k].action \notin {"subscribe", "unsubscribe"}
  <2>1. cur' \in [Client -> Conn \cup {NoConn}]
        /\ \A j \in Client : j # k => cur'[j] = cur[j]
    BY <1>2 DEF FailAttempt, Types, ClientTypes
  <2>2. CASE call[k].attempt = MaxRetries
    <3>1. Return(k, "failed")
      BY <1>2, <2>2 DEF FailAttempt
    <3>2. call' = [call EXCEPT ![k] = NoCall] /\ answered' = answered
      BY <3>1 DEF Return
    <3> QED
      BY <2>1, <3>2, NoCallType DEF Types, ClientTypes
  <2>3. CASE call[k].attempt # MaxRetries
    <3>1. call' = [call EXCEPT ![k].step = "connect", ![k].attempt = @ + 1,
                               ![k].id = 0]
          /\ answered' = answered
      BY <1>2, <2>3 DEF FailAttempt
    <3>2. call[k].attempt + 1 \in 0 .. MaxRetries
      <4>1. call[k].attempt \in 0 .. MaxRetries
        BY DEF Types, ClientTypes, CallType
      <4> QED
        BY <2>3, <4>1, ClientAssumption
    <3>3. call' \in [Client -> CallType]
      BY <3>1, <3>2 DEF Types, ClientTypes, CallType
    <3>4. call'[k].step = "connect" /\ call'[k].n = call[k].n
          /\ call'[k].action = call[k].action
          /\ \A j \in Client : j # k => call'[j] = call[j]
      BY <3>1 DEF Types, ClientTypes, CallType
    <3> QED
      BY <2>1, <3>1, <3>3, <3>4
  <2> QED
    BY <2>2, <2>3
<1> QED
  BY <1>1, <1>2

(* The steps of a client's call.                                           *)
LEMMA CallTypes ==
  ASSUME Types, NEW k \in Client, ClientStep(k)
  PROVE  Types'
<1>1. CASE Connect(k)
  <2>1. /\ call' \in [Client -> CallType]
        /\ \A j \in Client : j # k => call'[j] = call[j]
        /\ call'[k].step = "send" /\ call'[k].n = call[k].n
        /\ call'[k].action = call[k].action
    BY <1>1, GoTypes DEF Connect
  <2>2. CASE cur[k] # NoConn
    <3>1. cur[k] \in Conn /\ UNCHANGED <<link, cur, writer, reader>>
      BY <1>1, <2>2 DEF Connect, Types, ClientTypes
    <3>2. ServerTypes' /\ ClientTypes'
      BY <1>1, <2>1, <3>1 DEF Connect, Types, ServerTypes, ClientTypes
    <3>3. ASSUME NEW j \in Client PROVE UnderWay(j)'
      BY <1>1, <2>1, <3>1 DEF Connect, Types, UnderWay
    <3> QED
      BY <3>2, <3>3 DEF Types
  <2>3. ASSUME cur[k] = NoConn, NEW c \in Conn,
               link' = [link EXCEPT ![c] = "backlog"],
               cur' = [cur EXCEPT ![k] = c],
               writer' = writer \cup {c}, reader' = reader \cup {c}
        PROVE  Types'
    <3>1. ServerTypes'
      BY <1>1, <2>3 DEF Connect, Types, ServerTypes
    <3>2. ClientTypes'
      BY <1>1, <2>1, <2>3 DEF Connect, Types, ClientTypes
    <3>3. ASSUME NEW j \in Client PROVE UnderWay(j)'
      BY <1>1, <2>1, <2>3 DEF Connect, Types, UnderWay, ClientTypes
    <3> QED
      BY <3>1, <3>2, <3>3 DEF Types
  <2> QED
    BY <1>1, <2>2, <2>3 DEF Connect
<1>2. CASE ConnectFails(k)
  <2>1. ServerTypes' /\ ClientTypes'
    BY <1>2, FailTypes DEF ConnectFails, Types, ServerTypes, ClientTypes, serverVars
  <2>2. ASSUME NEW j \in Client PROVE UnderWay(j)'
    BY <1>2, FailTypes DEF ConnectFails, Types, UnderWay
  <2> QED
    BY <2>1, <2>2 DEF Types
<1>3. CASE Send(k)
  <2> DEFINE c == cur[k]
             id == NextId(c)
  <2>1. c \in Conn /\ call[k].n \in Call /\ call[k].action \in Action
    BY <1>3 DEF Send, Types, UnderWay
  <2>2. id \in Nat \ {0}
    BY <2>1 DEF NextId, Types, ClientTypes
  <2>3. lastId' \in [Conn -> Nat] /\ pending' \in [Conn -> SUBSET Nat]
    BY <1>3, <2>1, <2>2 DEF Send, Types, ClientTypes
  <2>4. CASE c \in writer
    <3> DEFINE r == [id |-> id, call |-> call[k].n, action |-> call[k].action]
    <3>1. r \in Request
      BY <2>1, <2>2 DEF Request
    <3>2. up' = [up EXCEPT ![c] = Append(@, r)]
      BY <1>3, <2>4 DEF Send
    <3> HIDE DEF r
    <3>3. up' \in [Conn -> Seq(Request)]
      BY <2>1, <3>1, <3>2, Pushed DEF Types, ServerTypes
    <3>4. call' = [call EXCEPT ![k].step = "wait", ![k].id = id]
          /\ UNCHANGED <<cur, answered>>
      BY <1>3, <2>4 DEF Send
    <3> HIDE DEF id, c
    <3>5. call' \in [Client -> CallType]
          /\ (\A j \in Client : j # k => call'[j] = call[j])
          /\ call'[k].n = call[k].n /\ call'[k].action = call[k].action
          /\ call'[k].step = "wait"
      BY <2>2, <3>4 DEF Types, ClientTypes, CallType
    <3>6. ServerTypes' /\ ClientTypes'
      BY <1>3, <2>3, <3>3, <3>4, <3>5 DEF Send, Types, ServerTypes, ClientTypes
    <3>7. ASSUME NEW j \in Client PROVE UnderWay(j)'
      BY <2>1, <3>4, <3>5 DEF Types, UnderWay, c
    <3> QED
      BY <3>6, <3>7 DEF Types
  <2>5. CASE c \notin writer
    <3>1. FailAttempt(k) /\ UNCHANGED up
      BY <1>3, <2>5 DEF Send
    <3> HIDE DEF id, c
    <3>2. ServerTypes' /\ ClientTypes'
      BY <1>3, <2>3, <3>1, FailTypes DEF Send, Types, ServerTypes, ClientTypes
    <3>3. ASSUME NEW j \in Client PROVE UnderWay(j)'
      BY <1>3, <3>1, FailTypes DEF Send, Types, UnderWay
    <3> QED
      BY <3>2, <3>3 DEF Types
  <2> QED
    BY <2>4, <2>5
<1>4. CASE Timeout(k)
  <2>1. cur[k] \in Conn /\ call[k].step # "none"
    BY <1>4 DEF Timeout, Expires, Types, UnderWay
  <2>2. pending' \in [Conn -> SUBSET Nat]
    BY <1>4, <2>1 DEF Timeout, Types, ClientTypes
  <2>3. ServerTypes' /\ ClientTypes'
    BY <1>4, <2>1, <2>2, FailTypes
    DEF Timeout, Types, ServerTypes, ClientTypes, serverVars
  <2>4. ASSUME NEW j \in Client PROVE UnderWay(j)'
    BY <1>4, <2>1, FailTypes DEF Timeout, Types, UnderWay
  <2> QED
    BY <2>3, <2>4 DEF Types
<1>5. CASE OpenStream(k)
  <2>1. cur[k] \in Conn /\ call[k].step # "none"
    BY <1>5 DEF OpenStream, Types, UnderWay
  <2>2. stream' \in [Conn -> Nat]
    BY <1>5, <2>1 DEF OpenStream, Types, ClientTypes, ServerTypes
  <2>3. ServerTypes' /\ ClientTypes'
    BY <1>5, <2>1, <2>2, ReturnTypes
    DEF OpenStream, Types, ServerTypes, ClientTypes, serverVars
  <2>4. ASSUME NEW j \in Client PROVE UnderWay(j)'
    BY <1>5, <2>1, ReturnTypes, NoCallType DEF OpenStream, Types, UnderWay
  <2> QED
    BY <2>3, <2>4 DEF Types
<1> QED
  BY <1>1, <1>2, <1>3, <1>4, <1>5 DEF ClientStep

(* A response that is completed, or a connection that ended under a call.  *)
LEMMA CompleteTypes ==
  ASSUME Types, NEW c \in Conn, NEW k \in Client, NEW i, Waits(k, c, i),
         NEW code, Complete(k, code) \/ Return(k, code)
  PROVE  /\ call' \in [Client -> CallType] /\ answered' \subseteq Call
         /\ \A j \in Client : j # k => call'[j] = call[j]
         /\ \/ call'[k] = NoCall
            \/ /\ call'[k].step = "stream" /\ call'[k].n = call[k].n
               /\ call'[k].action = "subscribe" /\ call[k].step = "wait"
<1>1. call[k].step # "none"
  BY DEF Waits
<1>2. CASE Return(k, code)
  BY <1>1, <1>2, ReturnTypes
<1>3. CASE Go(k, "stream") /\ answered' = answered /\ call[k].action = "subscribe"
  BY <1>3, GoTypes DEF Waits, Types, ClientTypes
<1> QED
  BY <1>2, <1>3 DEF Complete

(* The two tasks of a client's connection.                                 *)
LEMMA TaskTypes ==
  ASSUME Types, NEW c \in Conn, Task(c)
  PROVE  Types'
<1>1. CASE ReadResponse(c)
  <2> DEFINE id == Head(down[c]).id
             code == Head(down[c]).code
  <2>1. down' \in [Conn -> Seq(Frame)]
    BY <1>1, Popped DEF ReadResponse, Types, ServerTypes
  <2>2. pending' \in [Conn -> SUBSET Nat]
    BY <1>1 DEF ReadResponse, Types, ClientTypes
  <2>3. ServerTypes'
    BY <1>1, <2>1 DEF ReadResponse, Types, ServerTypes
  <2>4. CASE UNCHANGED <<call, answered>>
    <3>1. ClientTypes'
      BY <1>1, <2>2, <2>4 DEF ReadResponse, Types, ClientTypes
    <3> QED
      BY <1>1, <2>3, <2>4, <3>1 DEF ReadResponse, Types, UnderWay
  <2>5. ASSUME NEW k \in Client, Waits(k, c, id), Complete(k, code)
        PROVE  Types'
    <3> HIDE DEF id, code
    <3>1. ClientTypes'
      BY <1>1, <2>2, <2>5, CompleteTypes DEF ReadResponse, Types, ClientTypes
    <3>2. ASSUME NEW j \in Client PROVE UnderWay(j)'
      <4>1. CASE j # k
        <5>1. call'[j] = call[j] /\ cur'[j] = cur[j]
          BY <1>1, <2>5, <4>1, CompleteTypes DEF ReadResponse
        <5> QED
          BY <5>1 DEF Types, UnderWay
      <4>2. CASE j = k
        <5>1. \/ call'[k] = NoCall
              \/ /\ call'[k].step = "stream" /\ call'[k].n = call[k].n
                 /\ call'[k].action = "subscribe" /\ call[k].step = "wait"
          BY <1>1, <2>5, CompleteTypes
        <5>2. cur'[k] = cur[k] /\ "subscribe" \in Action
          BY <1>1, <2>5 DEF ReadResponse, Action
        <5> QED
          BY <4>2, <5>1, <5>2, NoCallType DEF Types, UnderWay
      <4> QED
        BY <4>1, <4>2
    <3> QED
      BY <2>3, <3>1, <3>2 DEF Types
  <2> QED
    BY <1>1, <2>4, <2>5 DEF ReadResponse
<1>2. CASE ReadEvent(c)
  <2>1. down' \in [Conn -> Seq(Frame)] /\ Head(down[c]) \in Frame
    BY <1>2, Popped DEF ReadEvent, Types, ServerTypes
  <2>2. got' \in [Conn -> SUBSET Nat]
    <3>1. Head(down[c]).id \in Nat
      BY <2>1 DEF Frame
    <3> QED
      BY <1>2, <3>1 DEF ReadEvent, Types, ClientTypes
  <2>3. ServerTypes'
    BY <1>2, <2>1 DEF ReadEvent, Types, ServerTypes
  <2>4. ClientTypes'
    BY <1>2, <2>2 DEF ReadEvent, Types, ClientTypes
  <2> QED
    BY <1>2, <2>3, <2>4 DEF ReadEvent, Types, UnderWay
<1>3. CASE EndReader(c)
  <2>1. ServerTypes'
    BY <1>3 DEF EndReader, Types, ServerTypes
  <2>2. /\ pending' \in [Conn -> SUBSET Nat] /\ reader' \subseteq Conn
    BY <1>3 DEF EndReader, Types, ClientTypes
  <2>3. CASE UNCHANGED <<call, answered>>
    <3>1. ClientTypes'
      BY <1>3, <2>2, <2>3 DEF EndReader, Types, ClientTypes
    <3> QED
      BY <1>3, <2>1, <2>3, <3>1 DEF EndReader, Types, UnderWay
  <2>4. ASSUME NEW k \in Client, Waits(k, c, call[k].id),
               Return(k, "connection_closed")
        PROVE  Types'
    <3>1. ClientTypes'
      BY <1>3, <2>2, <2>4, CompleteTypes DEF EndReader, Types, ClientTypes
    <3>2. ASSUME NEW j \in Client PROVE UnderWay(j)'
      <4>1. CASE j # k
        <5>1. call'[j] = call[j] /\ cur'[j] = cur[j]
          BY <1>3, <2>4, <4>1, CompleteTypes DEF EndReader
        <5> QED
          BY <5>1 DEF Types, UnderWay
      <4>2. CASE j = k
        <5>1. \/ call'[k] = NoCall
              \/ /\ call'[k].step = "stream" /\ call'[k].n = call[k].n
                 /\ call'[k].action = "subscribe" /\ call[k].step = "wait"
          BY <1>3, <2>4, CompleteTypes
        <5>2. cur'[k] = cur[k] /\ "subscribe" \in Action
          BY <1>3, <2>4 DEF EndReader, Action
        <5> QED
          BY <4>2, <5>1, <5>2, NoCallType DEF Types, UnderWay
      <4> QED
        BY <4>1, <4>2
    <3> QED
      BY <2>1, <3>1, <3>2 DEF Types
  <2> QED
    BY <1>3, <2>3, <2>4 DEF EndReader
<1>4. CASE EndWriter(c)
  <2>1. up' \in [Conn -> Seq(Request)]
    <3>1. <<>> \in Seq(Request)
      OBVIOUS
    <3> QED
      BY <1>4, <3>1 DEF EndWriter, Types, ServerTypes
  <2>2. ServerTypes'
    BY <1>4, <2>1 DEF EndWriter, Types, ServerTypes
  <2>3. ClientTypes'
    BY <1>4 DEF EndWriter, Types, ClientTypes
  <2> QED
    BY <1>4, <2>2, <2>3 DEF EndWriter, Types, UnderWay
<1> QED
  BY <1>1, <1>2, <1>3, <1>4 DEF Task

(* A call that begins, and a handle that is closed.                        *)
LEMMA CallerTypes ==
  ASSUME Types, NEW k \in Client,
         (\E a \in Action : BeginCall(k, a)) \/ Close(k)
  PROVE  Types'
<1>1. ASSUME NEW a \in Action, BeginCall(k, a) PROVE Types'
  <2> DEFINE new == [NoCall EXCEPT !.step = "connect", !.n = calls + 1,
                                   !.action = a]
  <2>1. new \in CallType /\ new.step = "connect" /\ new.n \in Call
        /\ new.action \in Action
    BY <1>1, NoCallType DEF BeginCall, CallType
  <2>2. call' = [call EXCEPT ![k] = new]
    BY <1>1 DEF BeginCall
  <2> HIDE DEF new
  <2>3. ServerTypes'
    BY <1>1 DEF BeginCall, Types, ServerTypes, serverVars
  <2>4. /\ calls' = calls + 1
        /\ UNCHANGED <<cur, writer, reader, pending, lastId, stream, got, missed,
                      answered, faults>>
    BY <1>1 DEF BeginCall
  <2>5. ClientTypes'
    BY <2>1, <2>2, <2>4 DEF Types, ClientTypes
  <2>6. ASSUME NEW j \in Client PROVE UnderWay(j)'
    BY <2>1, <2>2, <2>4 DEF Types, ClientTypes, UnderWay
  <2> QED
    BY <2>3, <2>5, <2>6 DEF Types
<1>2. CASE Close(k)
  <2>1. ServerTypes' /\ ClientTypes'
    BY <1>2 DEF Close, Types, ServerTypes, ClientTypes, serverVars
  <2>2. ASSUME NEW j \in Client PROVE UnderWay(j)'
    BY <1>2, NoCallType DEF Close, Types, ClientTypes, UnderWay
  <2> QED
    BY <2>1, <2>2 DEF Types
<1> QED
  BY <1>1, <1>2

(* A step of the server, with what the streams note of it.                 *)
LEMMA ServerActsTypes ==
  ASSUME Types, NEW c \in Conn, ServerActs(c)
  PROVE  Types'
<1>1. ServerTypes'
  BY ServerTypesKept DEF ServerActs, Types
<1>2. stream' \in [Conn -> Nat] /\ got' \in [Conn -> SUBSET Nat]
  BY DEF ServerActs, Types, ClientTypes, NoStream
<1>3. missed' \in [Conn -> SUBSET Nat]
  <2>1. \A n \in 1 .. Len(log) : n \in Nat
    BY DEF Types, ServerTypes
  <2> QED
    BY <2>1 DEF ServerActs, Types, ClientTypes
<1>4. ClientTypes'
  BY <1>2, <1>3 DEF ServerActs, Types, ClientTypes
<1> QED
  BY <1>1, <1>4 DEF ServerActs, Types, UnderWay

(* Restarts, frames that do not decode, and clients that exit.             *)
LEMMA FaultTypes ==
  ASSUME Types, Exit \/ ServerRestart \/ \E c \in Conn : ServerBreak(c)
  PROVE  Types'
<1>1. ASSUME Fault PROVE faults' \in 0 .. MaxFault
  BY <1>1, ClientAssumption DEF Fault, Types, ClientTypes
<1>2. CASE Exit
  <2>1. down' \in [Conn -> Seq(Frame)]
    BY <1>2 DEF Exit
  <2>2. ServerTypes'
    BY <1>2, <2>1 DEF Exit, Types, ServerTypes, ClientTypes
  <2>3. ClientTypes'
    BY <1>1, <1>2 DEF Exit, Types, ClientTypes, NoStream
  <2>4. ASSUME NEW j \in Client PROVE UnderWay(j)'
    BY <1>2, NoCallType DEF Exit, Types, UnderWay
  <2> QED
    BY <2>2, <2>3, <2>4 DEF Types
<1>3. CASE ServerRestart
  <2>1. ServerTypes'
    BY <1>3, RestartTypes DEF ServerRestart, Types
  <2>2. ClientTypes'
    BY <1>1, <1>3 DEF ServerRestart, Types, ClientTypes, NoStream
  <2> QED
    BY <1>3, <2>1, <2>2 DEF ServerRestart, Types, UnderWay
<1>4. ASSUME NEW c \in Conn, ServerBreak(c) PROVE Types'
  <2>1. ServerTypes'
    BY <1>4, CleanupTypes DEF ServerBreak, BreakFrame, Types
  <2>2. ClientTypes'
    BY <1>1, <1>4 DEF ServerBreak, Types, ClientTypes, NoStream
  <2> QED
    BY <1>4, <2>1, <2>2 DEF ServerBreak, Types, UnderWay
<1> QED
  BY <1>2, <1>3, <1>4

(* The initial state, and a step that changes nothing.                     *)
LEMMA InitialTypes == Init => Types
<1> SUFFICES ASSUME Init PROVE Types
  OBVIOUS
<1>1. ServerTypes
  BY DEF Init, ServerInit, ServerTypes
<1>2. 0 \in 0 .. MaxFault
  BY ClientAssumption
<1>3. ClientTypes
  BY <1>2, NoCallType DEF Init, ClientTypes, NoStream, NoConn
<1>4. ASSUME NEW k \in Client PROVE UnderWay(k)
  BY NoCallType DEF Init, UnderWay
<1> QED
  BY <1>1, <1>3, <1>4 DEF Types

(* Every step keeps the types.                                             *)
LEMMA TypesStep == Types /\ [Next]_vars => Types'
<1> SUFFICES ASSUME Types, [Next]_vars PROVE Types'
  OBVIOUS
<1>1. CASE UNCHANGED vars
  <2>1. UNCHANGED serverVars /\ UNCHANGED clientVars
    BY <1>1 DEF vars
  <2>2. ServerTypes'
    BY <2>1 DEF serverVars, Types, ServerTypes
  <2>3. ClientTypes'
    BY <2>1 DEF clientVars, Types, ClientTypes
  <2> QED
    BY <2>1, <2>2, <2>3 DEF clientVars, Types, UnderWay
<1>2. CASE Next
  BY <1>2, CallerTypes, CallTypes, TaskTypes, ServerActsTypes, FaultTypes DEF Next
<1> QED
  BY <1>1, <1>2

(* Every state has them.                                                   *)
LEMMA TypesInvariant == Spec => []Types
  BY InitialTypes, TypesStep, PTL DEF Spec

-----------------------------------------------------------------------------
(***************************************************************************)
(* The slots.                                                              *)
(***************************************************************************)
SlotsCounted == slots \in Nat /\ IsFiniteSet(Open) /\ SlotsBalance

(* Steps that open and end no connection, open one, and end one.           *)
LEMMA NoneOpened ==
  ASSUME SlotsCounted, slots' = slots, Open' = Open
  PROVE  SlotsCounted'
  BY DEF SlotsCounted, SlotsBalance

(* A connection takes a free slot.                                         *)
LEMMA OneOpened ==
  ASSUME SlotsCounted, NEW c \in Conn, c \notin Open, slots > 0,
         slots' = slots - 1, Open' = Open \cup {c}
  PROVE  SlotsCounted'
<1>1. IsFiniteSet(Open) /\ Cardinality(Open) \in Int /\ MaxConnections \in Int
  BY FS_CardinalityType, ServerAssumption DEF SlotsCounted
<1>2. IsFiniteSet(Open') /\ Cardinality(Open') = Cardinality(Open) + 1
  BY <1>1, FS_AddElement
<1> QED
  BY <1>1, <1>2 DEF SlotsCounted, SlotsBalance

(* An open connection gives its slot back.                                 *)
LEMMA OneEnded ==
  ASSUME SlotsCounted, NEW c \in Open, slots' = slots + 1, Open' = Open \ {c}
  PROVE  SlotsCounted'
<1>1. IsFiniteSet(Open) /\ Cardinality(Open) \in Int /\ MaxConnections \in Int
  BY FS_CardinalityType, ServerAssumption DEF SlotsCounted
<1>2. IsFiniteSet(Open') /\ Cardinality(Open') = Cardinality(Open) - 1
  BY <1>1, FS_RemoveElement
<1> QED
  BY <1>1, <1>2 DEF SlotsCounted, SlotsBalance

(* The end of a connection's task is the end of an open connection.        *)
LEMMA CleanupCounts ==
  ASSUME Types, SlotsCounted, NEW c \in Conn, Free(c), Cleanup(c)
  PROVE  SlotsCounted'
<1>1. c \in Open /\ slots' = slots + 1
  BY DEF Free, Cleanup, SlotBack
<1>2. Open' = Open \ {c}
  BY DEF Cleanup, Open, Types, ServerTypes
<1> QED
  BY <1>1, <1>2, OneEnded

(* Every step balances.                                                    *)
LEMMA SlotsStep == Types /\ SlotsCounted /\ [Next]_vars => SlotsCounted'
<1> SUFFICES ASSUME Types, SlotsCounted, [Next]_vars PROVE SlotsCounted'
  OBVIOUS
<1>1. ASSUME UNCHANGED <<link, slots>> PROVE SlotsCounted'
  <2>1. Open' = Open
    BY <1>1 DEF Open
  <2> QED
    BY <1>1, <2>1, NoneOpened
<1>2. CASE UNCHANGED vars
  BY <1>1, <1>2 DEF vars, serverVars
<1>3. ASSUME NEW k \in Client, (\E a \in Action : BeginCall(k, a)) \/ Close(k)
      PROVE  SlotsCounted'
  BY <1>1, <1>3 DEF BeginCall, Close, serverVars
<1>4. ASSUME NEW k \in Client, ClientStep(k) PROVE SlotsCounted'
  <2>1. CASE Connect(k)
    <3>1. ASSUME NEW c \in Conn, link[c] = "none",
                 link' = [link EXCEPT ![c] = "backlog"], slots' = slots
          PROVE  SlotsCounted'
      <4>1. Open' = Open
        BY <3>1 DEF Open, Types, ServerTypes
      <4> QED
        BY <3>1, <4>1, NoneOpened
    <3> QED
      BY <1>1, <2>1, <3>1 DEF Connect
  <2>2. CASE ConnectFails(k) \/ Send(k) \/ Timeout(k) \/ OpenStream(k)
    BY <1>1, <2>2 DEF ConnectFails, Send, Timeout, OpenStream, serverVars
  <2> QED
    BY <1>4, <2>1, <2>2 DEF ClientStep
<1>5. ASSUME NEW c \in Conn, Task(c) PROVE SlotsCounted'
  BY <1>1, <1>5 DEF Task, ReadResponse, ReadEvent, EndReader, EndWriter
<1>6. ASSUME NEW c \in Conn, ServerStep(c) PROVE SlotsCounted'
  <2>1. CASE Accept(c)
    <3>1. Open' = Open /\ slots' = slots
      BY <2>1 DEF Accept, Open, Queued, Types, ServerTypes
    <3> QED
      BY <3>1, NoneOpened
  <2>2. CASE Admit(c)
    <3>1. c \notin Open /\ slots > 0 /\ Open' = Open \cup {c}
          /\ slots' = slots - 1
      BY <2>2 DEF Admit, Open, Held, Types, ServerTypes
    <3> QED
      BY <3>1, OneOpened
  <2>3. CASE HangUp(c)
    BY <2>3, CleanupCounts DEF HangUp
  <2>4. CASE TakeRequest(c) \/ ServeAuth(c) \/ Refuse(c)
    BY <1>1, <2>4 DEF TakeRequest, ServeAuth, Refuse
  <2>5. CASE ServeSubscribe(c) \/ ServeUnsubscribe(c) \/ Dispatch(c)
    BY <1>1, <2>5 DEF ServeSubscribe, ServeUnsubscribe, Dispatch
  <2>6. CASE Lag(c) \/ Forward(c)
    BY <1>1, <2>6 DEF Lag, Forward
  <2> QED
    BY <1>6, <2>1, <2>2, <2>3, <2>4, <2>5, <2>6 DEF ServerStep, Handle
<1>7. ASSUME NEW c \in Conn, ServerBreak(c) PROVE SlotsCounted'
  BY <1>7, CleanupCounts DEF ServerBreak, BreakFrame
<1>8. CASE Exit
  BY <1>1, <1>8 DEF Exit
<1>9. CASE ServerRestart
  <2>1. Open' = {} /\ slots' = MaxConnections
    BY <1>9 DEF ServerRestart, Restart, Open
  <2>2. IsFiniteSet(Open') /\ Cardinality(Open') = 0
    BY <2>1, FS_EmptySet
  <2> QED
    BY <2>1, <2>2, ServerAssumption DEF SlotsCounted, SlotsBalance
<1> QED
  BY <1>2, <1>3, <1>4, <1>5, <1>6, <1>7, <1>8, <1>9 DEF Next, ServerActs

(* The slots balance in every state.                                       *)
LEMMA SlotsInvariant == Spec => []SlotsCounted
<1>1. Init => SlotsCounted
  <2> SUFFICES ASSUME Init PROVE SlotsCounted
    OBVIOUS
  <2>1. Open = {} /\ slots = MaxConnections
    BY DEF Init, ServerInit, Open
  <2>2. IsFiniteSet(Open) /\ Cardinality(Open) = 0
    BY <2>1, FS_EmptySet
  <2> QED
    BY <2>1, <2>2, ServerAssumption DEF SlotsCounted, SlotsBalance
<1> QED
  BY <1>1, SlotsStep, TypesInvariant, PTL DEF Spec

(* Every permit is free or one of an open connection, whatever ends how:   *)
(* a task that hangs up, a frame that does not decode, the whole server.   *)
THEOREM NoSlotLost == Spec => []SlotsBalance
<1>1. SlotsCounted => SlotsBalance
  BY DEF SlotsCounted
<1> QED
  BY <1>1, SlotsInvariant, PTL

(* Every variable keeps its type: the free slots are never negative and    *)
(* never more than there are, since they balance.                          *)
THEOREM TypesHold == Spec => []TypeOK
<1>1. Types /\ SlotsCounted => TypeOK
  <2> SUFFICES ASSUME Types, SlotsCounted PROVE TypeOK
    OBVIOUS
  <2>1. Cardinality(Open) \in Nat /\ MaxConnections \in Nat
    BY FS_CardinalityType, ServerAssumption DEF SlotsCounted
  <2>2. slots <= MaxConnections
    BY <2>1 DEF SlotsCounted, SlotsBalance
  <2> QED
    BY <2>1, <2>2 DEF SlotsCounted, Types, ServerTypes, ClientTypes, TypeOK, CallType
<1> QED
  BY <1>1, TypesInvariant, SlotsInvariant, PTL

-----------------------------------------------------------------------------
(***************************************************************************)
(* Answers and calls.                                                      *)
(***************************************************************************)
Elements(q) == {q[i] : i \in 1 .. Len(q)}

(* Nothing, in the empty one.                                              *)
LEMMA EmptyElements == Elements(<<>>) = {}
  BY DEF Elements

(* A queue that grows has its new element as well.                         *)
LEMMA PushedElements ==
  ASSUME NEW S, NEW q \in Seq(S), NEW x \in S
  PROVE  Elements(Append(q, x)) = Elements(q) \cup {x}
<1>1. Len(Append(q, x)) = Len(q) + 1 /\ Len(q) \in Nat
  OBVIOUS
<1>2. \A i \in 1 .. Len(q) : Append(q, x)[i] = q[i]
  OBVIOUS
<1>3. Append(q, x)[Len(q) + 1] = x
  OBVIOUS
<1> QED
  BY <1>1, <1>2, <1>3 DEF Elements

(* A queue that loses its first element has no other ones.                 *)
LEMMA PoppedElements ==
  ASSUME NEW S, NEW q \in Seq(S), q # <<>>
  PROVE  Elements(Tail(q)) \subseteq Elements(q) /\ Head(q) \in Elements(q)
<1>1. Len(q) \in Nat /\ Len(q) > 0 /\ Len(Tail(q)) = Len(q) - 1
  OBVIOUS
<1>2. \A i \in 1 .. Len(q) - 1 : Tail(q)[i] = q[i + 1]
  OBVIOUS
<1>3. Head(q) = q[1]
  OBVIOUS
<1> QED
  BY <1>1, <1>2, <1>3 DEF Elements

(* It has had the first and has the others.                                *)
LEMMA SplitElements ==
  ASSUME NEW S, NEW q \in Seq(S), q # <<>>
  PROVE  Elements(q) = Elements(Tail(q)) \cup {Head(q)}
<1>1. Len(q) \in Nat /\ Len(Tail(q)) = Len(q) - 1 /\ Head(q) = q[1]
  OBVIOUS
<1>2. \A i \in 1 .. Len(q) - 1 : Tail(q)[i] = q[i + 1]
  OBVIOUS
<1>3. ASSUME NEW i \in 1 .. Len(q) PROVE q[i] \in Elements(Tail(q)) \cup {Head(q)}
  <2>1. CASE i = 1
    BY <1>1, <2>1
  <2>2. CASE i # 1
    <3>1. i - 1 \in 1 .. Len(Tail(q))
      BY <1>1, <2>2
    <3>2. q[i] = Tail(q)[i - 1]
      BY <1>1, <1>2, <3>1
    <3> QED
      BY <3>1, <3>2 DEF Elements
  <2> QED
    BY <2>1, <2>2
<1>4. Elements(q) \subseteq Elements(Tail(q)) \cup {Head(q)}
  BY <1>3 DEF Elements
<1> QED
  BY <1>4, PoppedElements

(* What the server has to answer, or is answering, and what it answered.   *)
Asked(c)   == Elements(up[c]) \cup {busy[c]}
Answers(c) == {f \in Elements(down[c]) : f.kind = "response"}

(* Every id on a connection has been drawn there.                          *)
Drawn(c) ==
  /\ \A r \in Asked(c) : r.id <= lastId[c]
  /\ \A f \in Answers(c) : f.id <= lastId[c]

(* A call that waits: what has its id on its connection is its own.        *)
Fits(k) ==
  call[k].step = "wait" =>
    /\ call[k].id \in 1 .. lastId[cur[k]]
    /\ \A r \in Asked(cur[k]) : r.id = call[k].id =>
         r.call = call[k].n /\ r.action = call[k].action
    /\ \A f \in Answers(cur[k]) :
         f.id = call[k].id /\ f.code = "ok" /\ call[k].action = "memory.put" =>
           call[k].n \in executed

(* The invariant.                                                          *)
Correlated ==
  /\ \A c \in Conn : Drawn(c)
  /\ \A k \in Client : Fits(k)
  /\ PutAnsweredOkWasDone

(* What all steps but Send do: they ask nothing new, and a new answer is   *)
(* that to something asked, a put being done when it is ok.                *)
AnswersTo(f, r) ==
  /\ f.id = r.id
  /\ f.code = "ok" /\ r.action = "memory.put" => r.call \in executed'

(* The steps that ask nothing.                                             *)
OnlyAnswers ==
  /\ executed \subseteq executed'
  /\ \A c \in Conn :
       /\ Asked(c)' \subseteq Asked(c) \cup {NoRequest}
       /\ \A f \in Answers(c)' :
            f \in Answers(c) \/ \E r \in Asked(c) : AnswersTo(f, r)

(* They keep the invariant, if no other call waits after them.             *)
LEMMA OnlyAnswersKeeps ==
  ASSUME Types, Types', Correlated, OnlyAnswers, lastId' = lastId,
         answered' \subseteq executed',
         \A k \in Client : call'[k].step = "wait" =>
           call'[k] = call[k] /\ cur'[k] = cur[k]
  PROVE  Correlated'
<1>1. ASSUME NEW c \in Conn PROVE Drawn(c)'
  <2>1. lastId[c] \in Nat /\ NoRequest.id = 0
    BY DEF Types, ClientTypes, NoRequest
  <2>2. \A r \in Asked(c)' : r.id <= lastId[c]
    BY <2>1 DEF OnlyAnswers, Correlated, Drawn
  <2>3. \A f \in Answers(c)' : f.id <= lastId[c]
    BY <2>1 DEF OnlyAnswers, AnswersTo, Correlated, Drawn
  <2> QED
    BY <2>2, <2>3 DEF Drawn
<1>2. ASSUME NEW k \in Client, call'[k].step = "wait" PROVE Fits(k)'
  <2> DEFINE c == cur[k]
  <2>1. /\ c \in Conn /\ cur'[k] = c /\ call'[k] = call[k]
        /\ call[k].step = "wait" /\ Fits(k)
    BY <1>2 DEF Types, UnderWay, Correlated
  <2>2. call[k].id \in 1 .. lastId[c] /\ lastId[c] \in Nat
    BY <2>1 DEF Fits, Types, ClientTypes
  <2>3. ASSUME NEW r \in Asked(c)', r.id = call[k].id
        PROVE  r.call = call[k].n /\ r.action = call[k].action
    <3>1. r # NoRequest
      BY <2>2, <2>3 DEF NoRequest
    <3> QED
      BY <2>1, <2>3, <3>1 DEF Fits, OnlyAnswers
  <2>4. ASSUME NEW f \in Answers(c)', f.id = call[k].id, f.code = "ok",
               call[k].action = "memory.put"
        PROVE  call[k].n \in executed'
    <3>1. CASE f \in Answers(c)
      BY <2>1, <2>4, <3>1 DEF Fits, OnlyAnswers
    <3>2. ASSUME NEW r \in Asked(c), AnswersTo(f, r) PROVE call[k].n \in executed'
      BY <2>1, <2>4, <3>2 DEF Fits, AnswersTo
    <3> QED
      BY <2>1, <2>4, <3>1, <3>2 DEF OnlyAnswers
  <2> QED
    BY <2>1, <2>2, <2>3, <2>4 DEF Fits, Asked, Answers
<1>3. ASSUME NEW k \in Client, call'[k].step # "wait" PROVE Fits(k)'
  BY <1>3 DEF Fits
<1> QED
  BY <1>1, <1>2, <1>3 DEF Correlated, PutAnsweredOkWasDone

(* What a step does to the queues of a connection, one by one.             *)
LEMMA NothingAsked ==
  ASSUME UNCHANGED <<up, down, busy, executed>>
  PROVE  OnlyAnswers
  BY DEF OnlyAnswers, Asked, Answers

(* The next request is taken from the queue.                               *)
LEMMA UpPopped ==
  ASSUME Types, NEW c \in Conn, up[c] # <<>>, up' = [up EXCEPT ![c] = Tail(@)],
         busy' = [busy EXCEPT ![c] = Head(up[c])], UNCHANGED <<down, executed>>
  PROVE  OnlyAnswers
<1>1. Elements(Tail(up[c])) \subseteq Elements(up[c]) /\ Head(up[c]) \in Elements(up[c])
  BY PoppedElements DEF Types, ServerTypes
<1>2. ASSUME NEW d \in Conn PROVE Asked(d)' \subseteq Asked(d)
  <2>1. CASE d = c
    BY <1>1, <2>1 DEF Asked, Types, ServerTypes
  <2>2. CASE d # c
    BY <2>2 DEF Asked, Types, ServerTypes
  <2> QED
    BY <2>1, <2>2
<1> QED
  BY <1>2 DEF OnlyAnswers, Answers

(* The requests of a connection are gone.                                  *)
LEMMA UpEmptied ==
  ASSUME Types, NEW c \in Conn, up' = [up EXCEPT ![c] = <<>>],
         busy' = [busy EXCEPT ![c] = NoRequest] \/ busy' = busy,
         UNCHANGED <<down, executed>>
  PROVE  OnlyAnswers
<1>1. ASSUME NEW d \in Conn PROVE Asked(d)' \subseteq Asked(d) \cup {NoRequest}
  <2>1. CASE d = c
    BY <2>1, EmptyElements DEF Asked, Types, ServerTypes
  <2>2. CASE d # c
    BY <2>2 DEF Asked, Types, ServerTypes
  <2> QED
    BY <2>1, <2>2
<1> QED
  BY <1>1 DEF OnlyAnswers, Answers

(* A frame is read.                                                        *)
LEMMA DownPopped ==
  ASSUME Types, NEW c \in Conn, down[c] # <<>>,
         down' = [down EXCEPT ![c] = Tail(@)], UNCHANGED <<up, busy, executed>>
  PROVE  OnlyAnswers
<1>1. Elements(Tail(down[c])) \subseteq Elements(down[c])
  BY PoppedElements DEF Types, ServerTypes
<1>2. ASSUME NEW d \in Conn PROVE Answers(d)' \subseteq Answers(d)
  <2>1. CASE d = c
    BY <1>1, <2>1 DEF Answers, Types, ServerTypes
  <2>2. CASE d # c
    BY <2>2 DEF Answers, Types, ServerTypes
  <2> QED
    BY <2>1, <2>2
<1> QED
  BY <1>2 DEF OnlyAnswers, Asked

(* A frame is sent: an event, or the answer to the request at hand.        *)
LEMMA DownPushed ==
  ASSUME Types, NEW c \in Conn, NEW f \in Frame,
         down' = [down EXCEPT ![c] = Append(@, f)],
         busy' = [busy EXCEPT ![c] = NoRequest] \/ busy' = busy,
         up' = up, executed \subseteq executed',
         f.kind = "event" \/ AnswersTo(f, busy[c])
  PROVE  OnlyAnswers
<1>1. Elements(Append(down[c], f)) = Elements(down[c]) \cup {f}
  BY PushedElements DEF Types, ServerTypes
<1>2. ASSUME NEW d \in Conn
      PROVE  /\ Asked(d)' \subseteq Asked(d) \cup {NoRequest}
             /\ \A g \in Answers(d)' :
                  g \in Answers(d) \/ \E r \in Asked(d) : AnswersTo(g, r)
  <2>1. Asked(d)' \subseteq Asked(d) \cup {NoRequest}
    BY DEF Asked, Types, ServerTypes
  <2>2. CASE d = c
    <3>1. Answers(c)' \subseteq Answers(c) \cup {f}
      BY <1>1 DEF Answers, Types, ServerTypes
    <3>2. f \in Answers(c)' => AnswersTo(f, busy[c])
      BY DEF Answers
    <3>3. busy[c] \in Asked(c)
      BY DEF Asked
    <3> QED
      BY <2>1, <2>2, <3>1, <3>2, <3>3
  <2>3. CASE d # c
    <3>1. Answers(d)' = Answers(d)
      BY <2>3 DEF Answers, Types, ServerTypes
    <3> QED
      BY <2>1, <3>1
  <2> QED
    BY <2>2, <2>3
<1> QED
  BY <1>2 DEF OnlyAnswers

(* The request at hand is answered.                                        *)
LEMMA RespondAnswers ==
  ASSUME Types, NEW c \in Conn,
         NEW code \in {"ok", "auth_required", "invalid_params"},
         Respond(c, code), up' = up, executed \subseteq executed',
         code = "ok" /\ busy[c].action = "memory.put" => busy[c].call \in executed'
  PROVE  OnlyAnswers
<1> DEFINE f == Response(busy[c].id, code)
<1>1. busy[c].id \in Nat
  BY DEF Types, ServerTypes, Request, NoRequest
<1>2. f \in Frame /\ AnswersTo(f, busy[c])
  BY <1>1 DEF Response, Frame, AnswersTo
<1>3. down' = [down EXCEPT ![c] = Append(@, f)]
      /\ busy' = [busy EXCEPT ![c] = NoRequest]
  BY DEF Respond
<1> HIDE DEF f
<1> QED
  BY <1>2, <1>3, DownPushed

(* The server asks nothing, and answers ok to a put it has dispatched.     *)
LEMMA ServerOnlyAnswers ==
  ASSUME Types, NEW c \in Conn, ServerStep(c) \/ BreakFrame(c)
  PROVE  OnlyAnswers
<1>1. CASE Accept(c) \/ Admit(c) \/ Lag(c)
  BY <1>1, NothingAsked DEF Accept, Admit, Lag
<1>2. CASE TakeRequest(c)
  BY <1>2, UpPopped DEF TakeRequest
<1>3. CASE ServeAuth(c)
  BY <1>3, RespondAnswers DEF ServeAuth
<1>4. CASE Refuse(c)
  BY <1>4, RespondAnswers DEF Refuse
<1>5. CASE ServeSubscribe(c)
  BY <1>5, RespondAnswers DEF ServeSubscribe
<1>6. CASE ServeUnsubscribe(c)
  BY <1>6, RespondAnswers DEF ServeUnsubscribe
<1>7. CASE Dispatch(c)
  BY <1>7, RespondAnswers DEF Dispatch
<1>8. CASE HangUp(c) \/ BreakFrame(c)
  BY <1>8, UpEmptied DEF HangUp, BreakFrame, Cleanup
<1>9. CASE Forward(c)
  <2>1. pos[c] + 1 \in 1 .. Len(log)
    BY <1>9 DEF Forward, Types, ServerTypes
  <2>2. EventFrame(pos[c] + 1) \in Frame /\ EventFrame(pos[c] + 1).kind = "event"
    BY <2>1 DEF EventFrame, Frame, Types, ServerTypes
  <2>3. CASE down' = [down EXCEPT ![c] = Append(@, EventFrame(pos[c] + 1))]
    BY <1>9, <2>2, <2>3, DownPushed DEF Forward
  <2> QED
    BY <1>9, <2>3, NothingAsked DEF Forward
<1> QED
  BY <1>1, <1>2, <1>3, <1>4, <1>5, <1>6, <1>7, <1>8, <1>9 DEF ServerStep, Handle

(* Ids are numbers.                                                        *)
LEMMA Ids ==
  ASSUME Types, NEW c \in Conn
  PROVE  /\ \A r \in Asked(c) : r.id \in Nat
         /\ \A f \in Answers(c) : f.id \in Nat
<1>1. up[c] \in Seq(Request) /\ down[c] \in Seq(Frame)
      /\ busy[c] \in Request \cup {NoRequest}
  BY DEF Types, ServerTypes
<1>2. Elements(up[c]) \subseteq Request
  BY <1>1 DEF Elements
<1>3. Elements(down[c]) \subseteq Frame
  BY <1>1 DEF Elements
<1>4. \A r \in Request \cup {NoRequest} : r.id \in Nat
  BY DEF Request, NoRequest
<1>5. \A f \in Frame : f.id \in Nat
  BY DEF Frame
<1> QED
  BY <1>1, <1>2, <1>3, <1>4, <1>5 DEF Asked, Answers

(* The attempt fails without a writer, the id drawn all the same.          *)
LEMMA UnsentKeeps ==
  ASSUME Types, Types', Correlated, NEW k \in Client, Send(k),
         cur[k] \notin writer
  PROVE  Correlated'
<1>1. FailAttempt(k) /\ UNCHANGED <<up, down, busy, executed>>
  BY DEF Send
<1>2. answered' = answered /\ \A j \in Client : call'[j].step = "wait" =>
         j # k /\ call'[j] = call[j] /\ cur'[j] = cur[j]
  <2>1. call[k].step # "none"
    BY DEF Send
  <2> QED
    BY <1>1, <2>1, FailTypes
<1>3. ASSUME NEW d \in Conn
      PROVE  lastId[d] \in Nat /\ lastId'[d] \in Nat /\ lastId[d] <= lastId'[d]
  <2>1. lastId' = [lastId EXCEPT ![cur[k]] = lastId[cur[k]] + 1] /\ cur[k] \in Conn
    BY DEF Send, NextId, Types, UnderWay
  <2> QED
    BY <2>1 DEF Types, ClientTypes
<1>4. \A d \in Conn : Asked(d)' = Asked(d) /\ Answers(d)' = Answers(d)
  BY <1>1 DEF Asked, Answers
<1>5. ASSUME NEW d \in Conn PROVE Drawn(d)'
  <2>1. Drawn(d)
    BY DEF Correlated
  <2>2. ASSUME NEW r \in Asked(d)' PROVE r.id <= lastId'[d]
    <3>1. r.id \in Nat /\ r.id <= lastId[d]
      BY <1>4, <2>1, <2>2, Ids DEF Drawn
    <3> QED
      BY <1>3, <3>1
  <2>3. ASSUME NEW f \in Answers(d)' PROVE f.id <= lastId'[d]
    <3>1. f.id \in Nat /\ f.id <= lastId[d]
      BY <1>4, <2>1, <2>3, Ids DEF Drawn
    <3> QED
      BY <1>3, <3>1
  <2> QED
    BY <2>2, <2>3 DEF Drawn
<1>6. ASSUME NEW j \in Client, call'[j].step = "wait" PROVE Fits(j)'
  <2>1. call'[j] = call[j] /\ cur'[j] = cur[j] /\ cur[j] \in Conn /\ Fits(j)
    BY <1>2, <1>6 DEF Types, UnderWay, Correlated
  <2>2. call[j].id \in 1 .. lastId[cur[j]]
    BY <1>6, <2>1 DEF Fits
  <2>3. call[j].id \in 1 .. lastId'[cur[j]]
    BY <1>3, <2>1, <2>2
  <2> QED
    BY <1>1, <1>6, <2>1, <2>3 DEF Fits, Asked, Answers
<1>7. ASSUME NEW j \in Client, call'[j].step # "wait" PROVE Fits(j)'
  BY <1>7 DEF Fits
<1> QED
  BY <1>1, <1>2, <1>5, <1>6, <1>7 DEF Correlated, PutAnsweredOkWasDone

(* A request is sent under an id that nothing on its connection has.       *)
LEMMA SentKeeps ==
  ASSUME Types, Types', Correlated, NEW k \in Client, Send(k),
         NEW c \in Conn, cur[k] = c, c \in writer
  PROVE  Correlated'
<1> DEFINE id == lastId[c] + 1
<1>1. call[k].n \in Call /\ call[k].action \in Action
  BY DEF Send, Types, UnderWay
<1>2. id \in Nat \ {0} /\ lastId[c] \in Nat
  BY DEF Types, ClientTypes
<1>3. PICK r \in Request : /\ r.id = id /\ r.call = call[k].n
                           /\ r.action = call[k].action
                           /\ up' = [up EXCEPT ![c] = Append(@, r)]
  <2> DEFINE r == [id |-> id, call |-> call[k].n, action |-> call[k].action]
  <2>1. r \in Request /\ r.id = id /\ r.call = call[k].n /\ r.action = call[k].action
    BY <1>1, <1>2 DEF Request
  <2>2. up' = [up EXCEPT ![c] = Append(@, r)]
    BY DEF Send, NextId
  <2> QED
    BY <2>1, <2>2
<1>4. /\ call' = [call EXCEPT ![k].step = "wait", ![k].id = id]
      /\ lastId' = [lastId EXCEPT ![c] = id]
      /\ UNCHANGED <<cur, answered, down, busy, executed>>
  BY DEF Send, NextId
<1> HIDE DEF id
<1>5. Elements(Append(up[c], r)) = Elements(up[c]) \cup {r}
  BY <1>3, PushedElements DEF Types, ServerTypes
<1>6. Asked(c)' = Asked(c) \cup {r}
  BY <1>3, <1>4, <1>5 DEF Asked, Types, ServerTypes
<1>7. \A d \in Conn : d # c => Asked(d)' = Asked(d) /\ lastId'[d] = lastId[d]
  BY <1>3, <1>4 DEF Asked, Types, ServerTypes, ClientTypes
<1>8. \A d \in Conn : Answers(d)' = Answers(d)
  BY <1>4 DEF Answers
<1>9. lastId'[c] = id /\ id = lastId[c] + 1
  BY <1>4 DEF Types, ClientTypes, id
<1>10. \A q \in Asked(c) : q.id \in Nat /\ q.id <= lastId[c]
  BY Ids DEF Correlated, Drawn
<1>11. \A f \in Answers(c) : f.id \in Nat /\ f.id <= lastId[c]
  BY Ids DEF Correlated, Drawn
<1>12. \A q \in Asked(c) : q.id <= id /\ q.id # id
  BY <1>2, <1>9, <1>10
<1>13. \A f \in Answers(c) : f.id <= id /\ f.id # id
  BY <1>2, <1>9, <1>11
<1>14. id <= id
  BY <1>2
<1>15. ASSUME NEW d \in Conn PROVE Drawn(d)'
  <2>1. CASE d = c
    <3>1. \A q \in Asked(c)' : q.id <= lastId'[c]
      BY <1>3, <1>6, <1>9, <1>12, <1>14
    <3>2. \A f \in Answers(c)' : f.id <= lastId'[c]
      BY <1>8, <1>9, <1>13
    <3> QED
      BY <2>1, <3>1, <3>2 DEF Drawn
  <2>2. CASE d # c
    BY <1>7, <1>8, <2>2 DEF Drawn, Correlated
  <2> QED
    BY <2>1, <2>2
<1>16. Fits(k)'
  <2>1. /\ call'[k].id = id /\ call'[k].n = call[k].n
        /\ call'[k].action = call[k].action /\ cur'[k] = c
    BY <1>4 DEF Types, ClientTypes, CallType
  <2>2. id \in 1 .. lastId'[c]
    BY <1>2, <1>9
  <2>3. \A q \in Asked(c)' : q.id = id => q = r
    BY <1>6, <1>12
  <2>4. \A f \in Answers(c)' : f.id # id
    BY <1>8, <1>13
  <2>5. \A q \in Asked(c)' : q.id = id => q.call = call[k].n /\ q.action = call[k].action
    BY <1>3, <2>3
  <2> QED
    BY <2>1, <2>2, <2>4, <2>5 DEF Fits, Asked, Answers
<1>17. ASSUME NEW j \in Client, j # k, NEW d \in Conn, cur[j] = d,
              call'[j].step = "wait"
       PROVE  Fits(j)'
  <2>1. call'[j] = call[j] /\ cur'[j] = d
    BY <1>4, <1>17 DEF Types, ClientTypes
  <2>2. call[j].id \in 1 .. lastId[d] /\ Fits(j)
    BY <1>17, <2>1 DEF Correlated, Fits
  <2>3. call[j].id \in 1 .. lastId'[d] /\ (d = c => call[j].id # id)
    <3>1. CASE d = c
      BY <1>2, <1>9, <2>2, <3>1
    <3>2. CASE d # c
      BY <1>7, <2>2, <3>2
    <3> QED
      BY <3>1, <3>2
  <2>4. \A q \in Asked(d)' : q.id = call[j].id => q \in Asked(d)
    <3>1. CASE d = c
      BY <1>3, <1>6, <2>3, <3>1
    <3>2. CASE d # c
      BY <1>7, <3>2
    <3> QED
      BY <3>1, <3>2
  <2>5. Answers(d)' = Answers(d)
    BY <1>8
  <2>6. \A q \in Asked(d)' : q.id = call[j].id =>
          q.call = call[j].n /\ q.action = call[j].action
    BY <1>17, <2>1, <2>2, <2>4 DEF Fits
  <2>7. \A f \in Answers(d)' :
          f.id = call[j].id /\ f.code = "ok" /\ call[j].action = "memory.put" =>
            call[j].n \in executed'
    BY <1>4, <1>17, <2>1, <2>2, <2>5 DEF Fits
  <2> QED
    BY <2>1, <2>3, <2>6, <2>7 DEF Fits, Asked, Answers
<1>18. ASSUME NEW j \in Client PROVE Fits(j)'
  <2>1. CASE j = k
    BY <1>16, <2>1
  <2>2. CASE j # k /\ call'[j].step = "wait"
    <3>1. cur[j] \in Conn
      BY <1>4, <2>2 DEF Types, ClientTypes, UnderWay
    <3> QED
      BY <1>17, <2>2, <3>1
  <2>3. CASE call'[j].step # "wait"
    BY <2>3 DEF Fits
  <2> QED
    BY <2>1, <2>2, <2>3
<1> QED
  BY <1>4, <1>15, <1>18 DEF Correlated, PutAnsweredOkWasDone

(* An ok to a put that waits comes from a server that has dispatched it.   *)
LEMMA ReadKeeps ==
  ASSUME Types, Types', Correlated, NEW c \in Conn, ReadResponse(c)
  PROVE  Correlated'
<1> DEFINE f == Head(down[c])
<1>1. f \in Elements(down[c]) /\ f.kind = "response"
  BY PoppedElements DEF ReadResponse, Types, ServerTypes
<1>2. OnlyAnswers
  BY DownPopped DEF ReadResponse
<1>3. UNCHANGED <<lastId, cur, executed>>
  BY DEF ReadResponse
<1>4. CASE UNCHANGED <<call, answered>>
  BY <1>2, <1>3, <1>4, OnlyAnswersKeeps DEF Correlated, PutAnsweredOkWasDone
<1>5. ASSUME NEW k \in Client, Waits(k, c, f.id), Complete(k, f.code)
      PROVE  Correlated'
  <2>1. call[k].step = "wait" /\ cur[k] = c /\ call[k].id = f.id /\ f \in Answers(c)
    BY <1>1, <1>5 DEF Waits, Answers
  <2>2. f.code = "ok" /\ call[k].action = "memory.put" => call[k].n \in executed
    BY <2>1 DEF Correlated, Fits
  <2> HIDE DEF f
  <2>3. answered' \subseteq executed'
    BY <1>3, <1>5, <2>2 DEF Complete, Return, Correlated, PutAnsweredOkWasDone
  <2>4. \A j \in Client : call'[j].step = "wait" => call'[j] = call[j]
    BY <1>5, CompleteTypes, NoCallType
  <2> QED
    BY <1>2, <1>3, <2>3, <2>4, OnlyAnswersKeeps
<1> QED
  BY <1>4, <1>5 DEF ReadResponse

(* Every step keeps answers and calls together.                            *)
LEMMA CorrelatedStep == Types /\ Types' /\ Correlated /\ [Next]_vars => Correlated'
<1> SUFFICES ASSUME Types, Types', Correlated, [Next]_vars PROVE Correlated'
  OBVIOUS
<1>1. answered \subseteq executed
  BY DEF Correlated, PutAnsweredOkWasDone
<1>2. ASSUME OnlyAnswers, UNCHANGED <<lastId, cur, call, answered>>
      PROVE  Correlated'
  <2>1. answered' \subseteq executed'
    BY <1>1, <1>2 DEF OnlyAnswers
  <2> QED
    BY <1>2, <2>1, OnlyAnswersKeeps
<1>3. ASSUME UNCHANGED <<up, down, busy, executed, lastId, answered>>,
             \A k \in Client : call'[k].step = "wait" =>
               call'[k] = call[k] /\ cur'[k] = cur[k]
      PROVE  Correlated'
  BY <1>1, <1>3, NothingAsked, OnlyAnswersKeeps
<1>4. CASE UNCHANGED vars
  BY <1>3, <1>4 DEF vars, serverVars, clientVars
<1>5. ASSUME NEW k \in Client, NEW a \in Action, BeginCall(k, a)
      PROVE  Correlated'
  <2> DEFINE new == [NoCall EXCEPT !.step = "connect", !.n = calls + 1,
                                   !.action = a]
  <2>1. new.step = "connect"
    BY DEF NoCall
  <2>2. call' = [call EXCEPT ![k] = new]
    BY <1>5 DEF BeginCall
  <2> HIDE DEF new
  <2>3. \A j \in Client : call'[j].step = "wait" => call'[j] = call[j]
    BY <2>1, <2>2 DEF Types, ClientTypes
  <2>4. UNCHANGED <<up, down, busy, executed, lastId, answered, cur>>
    BY <1>5 DEF BeginCall, serverVars
  <2> QED
    BY <1>3, <2>3, <2>4
<1>6. ASSUME NEW k \in Client, Close(k) PROVE Correlated'
  <2>1. \A j \in Client : call[j].step = "wait" => cur'[j] = cur[j]
    BY <1>6, NoCallType DEF Close, Types, ClientTypes
  <2> QED
    BY <1>3, <1>6, <2>1 DEF Close, serverVars
<1>7. ASSUME NEW k \in Client, ClientStep(k) PROVE Correlated'
  <2>1. CASE Connect(k)
    <3>1. Go(k, "send")
      BY <2>1 DEF Connect
    <3>2. \A j \in Client : call'[j].step = "wait" => j # k /\ call'[j] = call[j]
      BY <3>1, GoTypes
    <3>3. \A j \in Client : j # k => cur'[j] = cur[j]
      BY <2>1 DEF Connect, Types, ClientTypes
    <3> QED
      BY <1>3, <2>1, <3>2, <3>3 DEF Connect
  <2>2. CASE ConnectFails(k) \/ Timeout(k)
    <3>1. FailAttempt(k) /\ call[k].step # "none"
          /\ UNCHANGED <<up, down, busy, executed, lastId>>
      BY <2>2 DEF ConnectFails, Timeout, Expires, serverVars
    <3>2. answered' = answered /\ \A j \in Client : call'[j].step = "wait" =>
             call'[j] = call[j] /\ cur'[j] = cur[j]
      BY <3>1, FailTypes
    <3> QED
      BY <1>3, <3>1, <3>2
  <2>3. CASE Send(k)
    <3>1. cur[k] \in Conn
      BY <2>3 DEF Send, Types, UnderWay
    <3> QED
      BY <2>3, <3>1, UnsentKeeps, SentKeeps
  <2>4. CASE OpenStream(k)
    <3>1. call[k].step = "stream" /\ call[k].action = "subscribe" /\ Return(k, "ok")
      BY <2>4 DEF OpenStream, Types, UnderWay
    <3>2. answered' = answered
      BY <3>1 DEF Return
    <3>3. \A j \in Client : call'[j].step = "wait" => call'[j] = call[j]
      BY <3>1, ReturnTypes, NoCallType
    <3> QED
      BY <1>3, <2>4, <3>2, <3>3 DEF OpenStream, serverVars
  <2> QED
    BY <1>7, <2>1, <2>2, <2>3, <2>4 DEF ClientStep
<1>8. ASSUME NEW c \in Conn, Task(c) PROVE Correlated'
  <2>1. CASE ReadResponse(c)
    BY <2>1, ReadKeeps
  <2>2. CASE ReadEvent(c)
    BY <1>2, <2>2, DownPopped DEF ReadEvent
  <2>3. CASE EndReader(c)
    <3>1. UNCHANGED <<up, down, busy, executed, lastId, cur>>
      BY <2>3 DEF EndReader
    <3>2. CASE UNCHANGED <<call, answered>>
      BY <1>3, <3>1, <3>2
    <3>3. ASSUME NEW k \in Client, Waits(k, c, call[k].id),
                 Return(k, "connection_closed")
          PROVE  Correlated'
      <4>1. answered' = answered
        BY <3>3 DEF Return
      <4>2. \A j \in Client : call'[j].step = "wait" => call'[j] = call[j]
        BY <3>3, ReturnTypes, NoCallType DEF Waits
      <4> QED
        BY <1>3, <3>1, <4>1, <4>2
    <3> QED
      BY <2>3, <3>2, <3>3 DEF EndReader
  <2>4. CASE EndWriter(c)
    BY <1>2, <2>4, UpEmptied, NothingAsked DEF EndWriter
  <2> QED
    BY <1>8, <2>1, <2>2, <2>3, <2>4 DEF Task
<1>9. ASSUME NEW c \in Conn, ServerActs(c) PROVE Correlated'
  BY <1>2, <1>9, ServerOnlyAnswers DEF ServerActs
<1>10. ASSUME NEW c \in Conn, ServerBreak(c) PROVE Correlated'
  BY <1>2, <1>10, ServerOnlyAnswers DEF ServerBreak
<1>11. CASE Exit
  <2>1. OnlyAnswers
    BY <1>11, EmptyElements DEF Exit, OnlyAnswers, Asked, Answers
  <2>2. \A j \in Client : call'[j].step # "wait"
    BY <1>11, NoCallType DEF Exit
  <2>3. UNCHANGED <<lastId, answered, executed>>
    BY <1>11 DEF Exit
  <2> QED
    BY <1>1, <2>1, <2>2, <2>3, OnlyAnswersKeeps
<1>12. CASE ServerRestart
  <2>1. OnlyAnswers
    BY <1>12, EmptyElements DEF ServerRestart, Restart, OnlyAnswers, Asked, Answers
  <2> QED
    BY <1>2, <1>12, <2>1 DEF ServerRestart
<1> QED
  BY <1>4, <1>5, <1>6, <1>7, <1>8, <1>9, <1>10, <1>11, <1>12 DEF Next

(* A put that is answered ok has been dispatched, for this very call: no   *)
(* answer to a request that timed out, or was sent on an earlier           *)
(* connection, is taken for it, however many calls and retries there are.  *)
THEOREM OkWasDone == Spec => []PutAnsweredOkWasDone
<1>1. Init => Correlated
  <2> SUFFICES ASSUME Init PROVE Correlated
    OBVIOUS
  <2>1. ASSUME NEW c \in Conn PROVE Drawn(c)
    <3>1. Asked(c) = {NoRequest} /\ Answers(c) = {} /\ lastId[c] = 0
      BY EmptyElements DEF Init, ServerInit, Asked, Answers
    <3> QED
      BY <3>1 DEF Drawn, NoRequest
  <2>2. ASSUME NEW k \in Client PROVE Fits(k)
    BY NoCallType DEF Init, Fits
  <2>3. PutAnsweredOkWasDone
    BY DEF Init, ServerInit, PutAnsweredOkWasDone
  <2> QED
    BY <2>1, <2>2, <2>3 DEF Correlated
<1>2. Correlated => PutAnsweredOkWasDone
  BY DEF Correlated
<1> QED
  BY <1>1, <1>2, CorrelatedStep, TypesInvariant, PTL DEF Spec

-----------------------------------------------------------------------------
(***************************************************************************)
(* Events.                                                                 *)
(***************************************************************************)
Events(c)  == {f.id : f \in {g \in Elements(down[c]) : g.kind = "event"}}
Covered(c) == got[c] \cup missed[c] \cup Events(c)

(* What NoSilentGap says of a connection.                                  *)
Gapless(c) ==
  c \in Open /\ stream[c] # NoStream =>
    \A n \in stream[c] .. pos[c] : Subscribed(c, log[n]) => n \in Covered(c)

(* Before a connection has a task, nothing is sent on it.                  *)
Early(c) ==
  link[c] \in {"none", "backlog", "held"} =>
    /\ down[c] = <<>> /\ stream[c] = NoStream
    /\ \A k \in Client : call[k].step = "stream" => cur[k] # c

(* A receiver is never ahead of the log.                                   *)
Behind(c) == c \in Open => pos[c] <= Len(log)

(* The invariant of the events.                                            *)
NoGaps == \A c \in Conn : Gapless(c) /\ Early(c) /\ Behind(c)

(* The log only grows, while the server lives.                             *)
LogGrows ==
  /\ Len(log) <= Len(log')
  /\ \A n \in 1 .. Len(log) : log'[n] = log[n]

(* A broadcast event.                                                      *)
LEMMA LogAppended ==
  ASSUME Types, NEW t \in EventType, log' = Append(log, t)
  PROVE  LogGrows /\ Len(log') = Len(log) + 1
  BY DEF LogGrows, Types, ServerTypes

(* No event.                                                               *)
LEMMA LogUnchanged ==
  ASSUME Types, UNCHANGED log
  PROVE  LogGrows
<1>1. Len(log) \in Nat
  BY DEF Types, ServerTypes
<1> QED
  BY <1>1 DEF LogGrows

(* Steps that come to no event leave what is covered covered.              *)
LEMMA StillGapless ==
  ASSUME Types, NEW c \in Conn, Gapless(c), Behind(c), LogGrows,
         link'[c] = "open" => link[c] = "open",
         subs'[c] = subs[c], pos'[c] = pos[c],
         stream'[c] # NoStream => stream'[c] = stream[c]
                                  /\ Covered(c) \subseteq Covered(c)'
  PROVE  Gapless(c)' /\ Behind(c)'
<1>1. pos[c] \in Nat /\ Len(log) \in Nat /\ stream[c] \in Nat
  BY DEF Types, ServerTypes, ClientTypes
<1>2. SUFFICES ASSUME link'[c] = "open" PROVE Gapless(c)' /\ Behind(c)'
  BY DEF Gapless, Behind, Open
<1>3. c \in Open /\ pos[c] <= Len(log) /\ pos'[c] = pos[c]
  BY <1>2 DEF Open, Behind
<1>4. Behind(c)'
  <2>1. Len(log') >= pos[c]
    BY <1>1, <1>3 DEF LogGrows, Types
  <2> QED
    BY <1>3, <2>1 DEF Behind
<1>5. Gapless(c)'
  <2> SUFFICES ASSUME stream'[c] # NoStream, NEW n \in stream[c] .. pos[c],
                      Subscribed(c, log[n])'
               PROVE  n \in Covered(c)'
    BY <1>3 DEF Gapless, Covered, Events, Subscribed
  <2>1. n \in 1 .. Len(log)
    BY <1>1, <1>3 DEF NoStream
  <2>2. Subscribed(c, log[n])
    BY <2>1 DEF LogGrows, Subscribed
  <2>3. n \in Covered(c)
    BY <1>3, <2>2 DEF Gapless
  <2> QED
    BY <2>3
<1> QED
  BY <1>4, <1>5

(* What a step of the server on one connection does to another.            *)
LEMMA OtherConnection ==
  ASSUME Types, NEW d \in Conn, ServerStep(d) \/ BreakFrame(d),
         NEW c \in Conn, c # d
  PROVE  /\ link'[c] = link[c] /\ down'[c] = down[c] /\ subs'[c] = subs[c]
         /\ pos'[c] = pos[c] /\ LogGrows
<1>1. CASE Accept(d) \/ TakeRequest(d)
  BY <1>1, LogUnchanged DEF Accept, TakeRequest, Types, ServerTypes
<1>2. CASE Admit(d)
  <2>1. LogGrows
    BY <1>2, LogAppended DEF Admit, EventType
  <2> QED
    BY <1>2, <2>1 DEF Admit, Types, ServerTypes
<1>3. CASE ServeAuth(d) \/ Refuse(d) \/ ServeSubscribe(d) \/ ServeUnsubscribe(d)
  <2>1. LogGrows
    BY <1>3, LogUnchanged DEF ServeAuth, Refuse, ServeSubscribe, ServeUnsubscribe
  <2> QED
    BY <1>3, <2>1
    DEF ServeAuth, Refuse, ServeSubscribe, ServeUnsubscribe, Respond, Types,
        ServerTypes
<1>4. CASE Dispatch(d)
  <2>1. LogGrows
    BY <1>4, LogAppended DEF Dispatch, EventType
  <2> QED
    BY <1>4, <2>1 DEF Dispatch, Respond, Types, ServerTypes
<1>5. CASE HangUp(d) \/ BreakFrame(d)
  <2>1. LogGrows
    BY <1>5, LogAppended DEF HangUp, BreakFrame, Cleanup, EventType
  <2> QED
    BY <1>5, <2>1 DEF HangUp, BreakFrame, Cleanup, Types, ServerTypes
<1>6. CASE Lag(d) \/ Forward(d)
  <2>1. LogGrows
    BY <1>6, LogUnchanged DEF Lag, Forward
  <2> QED
    BY <1>6, <2>1 DEF Lag, Forward, Types, ServerTypes
<1> QED
  BY <1>1, <1>2, <1>3, <1>4, <1>5, <1>6 DEF ServerStep, Handle

(* A frame appended is one more that is covered, if it is an event.        *)
LEMMA EventPushed ==
  ASSUME Types, NEW c \in Conn, NEW f \in Frame,
         down' = [down EXCEPT ![c] = Append(@, f)]
  PROVE  /\ Events(c) \subseteq Events(c)'
         /\ f.kind = "event" => f.id \in Events(c)'
<1>1. Elements(Append(down[c], f)) = Elements(down[c]) \cup {f}
  BY PushedElements DEF Types, ServerTypes
<1>2. down'[c] = Append(down[c], f)
  BY DEF Types, ServerTypes
<1> QED
  BY <1>1, <1>2 DEF Events

(* The task's own steps, but for those that come to an event.              *)
LEMMA OwnSteps ==
  ASSUME Types, NoGaps, NEW c \in Conn,
         \/ Accept(c) \/ TakeRequest(c) \/ ServeAuth(c) \/ Refuse(c)
         \/ ServeSubscribe(c) \/ ServeUnsubscribe(c) \/ Dispatch(c)
         \/ HangUp(c) \/ BreakFrame(c),
         stream'[c] = stream[c] \/ stream'[c] = NoStream,
         stream'[c] # NoStream =>
           subs'[c] = subs[c] /\ got'[c] = got[c]
           /\ (link'[c] # "closed" => missed'[c] = missed[c])
  PROVE  Gapless(c)' /\ Behind(c)'
<1>1. CASE HangUp(c) \/ BreakFrame(c)
  BY <1>1 DEF HangUp, BreakFrame, Cleanup, Gapless, Behind, Open, Types, ServerTypes
<1>2. CASE Accept(c)
  BY <1>2 DEF Accept, Gapless, Behind, Open, Types, ServerTypes
<1>3. CASE TakeRequest(c)
  <2>1. UNCHANGED <<link, down, pos, subs>> /\ LogGrows
    BY <1>3, LogUnchanged DEF TakeRequest
  <2>2. c \in Open /\ link'[c] # "closed"
    BY <1>3, <2>1 DEF TakeRequest, Free, Open
  <2>3. stream'[c] # NoStream => Covered(c) \subseteq Covered(c)'
    BY <2>1, <2>2 DEF Covered, Events
  <2> QED
    BY <2>1, <2>3, StillGapless DEF NoGaps
<1>4. ASSUME NEW code \in {"ok", "auth_required", "invalid_params"}, Respond(c, code),
             UNCHANGED <<link, pos>>, c \in Open, LogGrows
      PROVE  Gapless(c)' /\ Behind(c)'
  <2>1. busy[c].id \in Nat
    BY DEF Types, ServerTypes, Request, NoRequest
  <2>2. Response(busy[c].id, code) \in Frame
    BY <2>1 DEF Response, Frame
  <2>3. Events(c) \subseteq Events(c)'
    BY <1>4, <2>2, EventPushed DEF Respond
  <2>4. stream'[c] # NoStream => Covered(c) \subseteq Covered(c)'
    BY <1>4, <2>3 DEF Covered, Open
  <2>5. CASE stream'[c] = NoStream
    <3>1. pos[c] <= Len(log) /\ Len(log) <= Len(log') /\ pos[c] \in Nat
          /\ Len(log) \in Nat /\ Len(log') \in Int
      BY <1>4 DEF NoGaps, Behind, LogGrows, Types, ServerTypes
    <3> QED
      BY <1>4, <2>5, <3>1 DEF Gapless, Behind
  <2>6. CASE stream'[c] # NoStream
    BY <1>4, <2>4, <2>6, StillGapless DEF NoGaps
  <2> QED
    BY <2>5, <2>6
<1>5. CASE ServeAuth(c)
  BY <1>4, <1>5, LogUnchanged DEF ServeAuth
<1>6. CASE Refuse(c)
  BY <1>4, <1>6, LogUnchanged DEF Refuse
<1>7. CASE ServeSubscribe(c)
  BY <1>4, <1>7, LogUnchanged DEF ServeSubscribe
<1>8. CASE ServeUnsubscribe(c)
  BY <1>4, <1>8, LogUnchanged DEF ServeUnsubscribe
<1>9. CASE Dispatch(c)
  <2>1. LogGrows
    BY <1>9, LogAppended DEF Dispatch, EventType
  <2> QED
    BY <1>4, <1>9, <2>1 DEF Dispatch
<1> QED
  BY <1>1, <1>2, <1>3, <1>5, <1>6, <1>7, <1>8, <1>9

(* The next event is forwarded, or not subscribed to.                      *)
LEMMA ForwardKeeps ==
  ASSUME Types, NoGaps, NEW c \in Conn, Forward(c), stream'[c] = stream[c],
         got'[c] = got[c], missed'[c] = missed[c]
  PROVE  Gapless(c)' /\ Behind(c)'
<1>1. c \in Open /\ pos[c] \in Nat /\ Len(log) \in Nat /\ stream[c] \in Nat
      /\ pos[c] < Len(log) /\ Gapless(c) /\ pos'[c] = pos[c] + 1
      /\ UNCHANGED <<link, subs, log>>
  BY DEF Forward, Free, NoGaps, Types, ServerTypes, ClientTypes
<1>2. EventFrame(pos[c] + 1) \in Frame /\ EventFrame(pos[c] + 1).kind = "event"
      /\ EventFrame(pos[c] + 1).id = pos[c] + 1
  BY <1>1 DEF EventFrame, Frame, Types, ServerTypes
<1>3. Events(c) \subseteq Events(c)'
      /\ (Subscribed(c, log[pos[c] + 1]) => pos[c] + 1 \in Events(c)')
  <2>1. CASE Subscribed(c, log[pos[c] + 1])
    <3>1. down' = [down EXCEPT ![c] = Append(@, EventFrame(pos[c] + 1))]
      BY <2>1 DEF Forward
    <3> QED
      BY <1>2, <3>1, EventPushed
  <2>2. CASE ~Subscribed(c, log[pos[c] + 1])
    <3>1. down' = down
      BY <2>2 DEF Forward
    <3> QED
      BY <2>2, <3>1 DEF Events
  <2> QED
    BY <2>1, <2>2
<1>4. Behind(c)'
  BY <1>1 DEF Behind
<1>5. ASSUME stream[c] # NoStream, NEW n \in stream[c] .. pos[c] + 1,
             Subscribed(c, log[n])
      PROVE  n \in Covered(c)'
  <2>1. CASE n = pos[c] + 1
    BY <1>3, <1>5, <2>1 DEF Covered
  <2>2. CASE n # pos[c] + 1
    <3>1. n \in stream[c] .. pos[c]
      BY <1>1, <1>5, <2>2
    <3>2. n \in Covered(c)
      BY <1>1, <1>5, <3>1 DEF Gapless
    <3> QED
      BY <1>3, <3>2 DEF Covered
  <2> QED
    BY <2>1, <2>2
<1> QED
  BY <1>1, <1>4, <1>5 DEF Gapless, Subscribed

(* Events a receiver that fell behind has lost are noted as missed.        *)
LEMMA LagKeeps ==
  ASSUME Types, NoGaps, NEW c \in Conn, Lag(c), stream'[c] = stream[c],
         got'[c] = got[c],
         missed'[c] = missed[c] \cup
           {n \in 1 .. Len(log) : pos[c] < n /\ n + EventCap <= Len(log)}
  PROVE  Gapless(c)' /\ Behind(c)'
<1>1. c \in Open /\ pos[c] \in Nat /\ Len(log) \in Nat /\ stream[c] \in Nat
      /\ EventCap \in Nat /\ EventCap > 0 /\ Gapless(c)
      /\ UNCHANGED <<link, subs, log, down>>
  BY ServerAssumption DEF Lag, Free, NoGaps, Types, ServerTypes, ClientTypes
<1>2. pos'[c] = Len(log) - EventCap
  BY DEF Lag, ResumeAt, Types, ServerTypes
<1>3. Behind(c)'
  BY <1>1, <1>2 DEF Behind
<1>4. ASSUME stream[c] # NoStream, NEW n \in stream[c] .. (Len(log) - EventCap),
             Subscribed(c, log[n])
      PROVE  n \in Covered(c)'
  <2>1. n \in Nat /\ n >= 1 /\ n + EventCap <= Len(log)
    BY <1>1, <1>4 DEF NoStream
  <2>2. CASE pos[c] < n
    <3>1. n \in 1 .. Len(log)
      BY <1>1, <2>1
    <3> QED
      BY <2>1, <2>2, <3>1 DEF Covered
  <2>3. CASE n <= pos[c]
    <3>1. n \in stream[c] .. pos[c]
      BY <1>1, <1>4, <2>3
    <3>2. n \in Covered(c)
      BY <1>1, <1>4, <3>1 DEF Gapless
    <3> QED
      BY <1>1, <3>2 DEF Covered, Events
  <2> QED
    BY <1>1, <2>1, <2>2, <2>3
<1> QED
  BY <1>1, <1>2, <1>3, <1>4 DEF Gapless, Subscribed

(* The first frame is sent by a task.                                      *)
LEMMA EarlyKept ==
  ASSUME Types, NoGaps, NEW d \in Conn, ServerStep(d) \/ BreakFrame(d),
         NEW c \in Conn, stream'[c] # NoStream => stream'[c] = stream[c],
         UNCHANGED <<call, cur>>
  PROVE  Early(c)'
<1>1. CASE c # d
  BY <1>1, OtherConnection DEF NoGaps, Early
<1>2. CASE c = d
  <2>1. CASE Accept(c)
    BY <2>1 DEF Accept, Queued, NoGaps, Early, Types, ServerTypes
  <2>2. CASE Admit(c)
    BY <2>2 DEF Admit, Early, Types, ServerTypes
  <2>3. CASE BreakFrame(c) \/ HangUp(c)
    BY <2>3 DEF BreakFrame, HangUp, Cleanup, Early, Types, ServerTypes
  <2>4. ASSUME c \in Open, UNCHANGED link PROVE Early(c)'
    BY <2>4 DEF Open, Early
  <2>5. CASE TakeRequest(c) \/ ServeAuth(c) \/ Refuse(c) \/ ServeSubscribe(c)
    BY <2>4, <2>5 DEF TakeRequest, Free, ServeAuth, Refuse, ServeSubscribe
  <2>6. CASE ServeUnsubscribe(c) \/ Dispatch(c) \/ Lag(c) \/ Forward(c)
    BY <2>4, <2>6 DEF ServeUnsubscribe, Dispatch, Lag, Forward, Free
  <2> QED
    BY <1>2, <2>1, <2>2, <2>3, <2>5, <2>6 DEF ServerStep, Handle
<1> QED
  BY <1>1, <1>2

(* All steps of the server, with what the streams note of them.            *)
LEMMA ServerGaps ==
  ASSUME Types, NoGaps, NEW d \in Conn, ServerActs(d) \/ ServerBreak(d)
  PROVE  NoGaps'
<1>1. ServerStep(d) \/ BreakFrame(d)
  BY DEF ServerActs, ServerBreak
<1>2. /\ stream' = stream \/ stream' = [stream EXCEPT ![d] = NoStream]
      /\ UNCHANGED <<call, cur>>
  BY DEF ServerActs, ServerBreak
<1>3. ASSUME NEW c \in Conn, c # d PROVE Gapless(c)' /\ Behind(c)'
  <2>1. stream'[c] = stream[c] /\ got'[c] = got[c] /\ missed'[c] = missed[c]
    BY <1>3 DEF ServerActs, ServerBreak, Types, ClientTypes
  <2>2. /\ link'[c] = link[c] /\ down'[c] = down[c] /\ subs'[c] = subs[c]
        /\ pos'[c] = pos[c] /\ LogGrows
    BY <1>1, <1>3, OtherConnection
  <2>3. Covered(c)' = Covered(c)
    BY <2>1, <2>2 DEF Covered, Events
  <2> QED
    BY <2>1, <2>2, <2>3, StillGapless DEF NoGaps
<1>4. stream'[d] = stream[d] \/ stream'[d] = NoStream
  BY <1>2 DEF Types, ClientTypes
<1>5. CASE ServerBreak(d)
  <2>1. stream'[d] = NoStream
    BY <1>5 DEF ServerBreak, Types, ClientTypes
  <2>2. Gapless(d)' /\ Behind(d)'
    BY <1>5, <2>1, OwnSteps DEF ServerBreak
  <2> QED
    BY <1>1, <1>2, <1>3, <1>4, <2>2, EarlyKept DEF NoGaps, Types, ClientTypes
<1>6. CASE ServerActs(d)
  <2>1. stream'[d] # NoStream => subs'[d] = subs[d] /\ got'[d] = got[d]
    BY <1>6 DEF ServerActs, Types, ClientTypes
  <2>2. ASSUME ~Lag(d), link'[d] # "closed" PROVE missed'[d] = missed[d]
    BY <1>6, <2>2 DEF ServerActs
  <2>3. CASE Admit(d)
    <3>1. stream[d] = NoStream /\ pos'[d] = Len(log')
      BY <2>3 DEF Admit, Held, NoGaps, Early, Types, ServerTypes
    <3>2. stream'[d] = NoStream
      BY <1>4, <3>1
    <3>3. Len(log') \in Nat
      BY <2>3 DEF Admit, Types, ServerTypes
    <3> QED
      BY <1>1, <1>2, <1>3, <1>4, <3>1, <3>2, <3>3, EarlyKept
      DEF NoGaps, Gapless, Behind, Types, ClientTypes
  <2>4. CASE Forward(d)
    <3>1. ~Lag(d) /\ link'[d] # "closed" /\ subs' = subs
      BY <2>4 DEF Forward, Lag, Free, Open
    <3>2. stream' = stream /\ missed'[d] = missed[d]
      BY <1>6, <2>2, <3>1 DEF ServerActs
    <3>3. CASE stream[d] # NoStream
      <4>1. Gapless(d)' /\ Behind(d)'
        BY <2>1, <2>4, <3>2, <3>3, ForwardKeeps
      <4> QED
        BY <1>1, <1>2, <1>3, <3>2, <4>1, EarlyKept DEF NoGaps
    <3>4. CASE stream[d] = NoStream
      <4>1. Gapless(d)'
        BY <3>2, <3>4 DEF Gapless
      <4>2. Behind(d)'
        BY <2>4 DEF Forward, Behind, Types, ServerTypes
      <4> QED
        BY <1>1, <1>2, <1>3, <3>2, <4>1, <4>2, EarlyKept DEF NoGaps
    <3> QED
      BY <3>3, <3>4
  <2>5. CASE Lag(d)
    <3>1. link'[d] # "closed" /\ subs' = subs
      BY <2>5 DEF Lag, Free, Open
    <3>2. stream' = stream
      BY <1>6, <3>1 DEF ServerActs
    <3>3. missed'[d] = missed[d] \cup
            {n \in 1 .. Len(log) : pos[d] < n /\ n + EventCap <= Len(log)}
      BY <1>6, <2>5, <3>1 DEF ServerActs, Types, ClientTypes
    <3>4. CASE stream[d] # NoStream
      <4>1. Gapless(d)' /\ Behind(d)'
        BY <2>1, <2>5, <3>2, <3>3, <3>4, LagKeeps
      <4> QED
        BY <1>1, <1>2, <1>3, <3>2, <4>1, EarlyKept DEF NoGaps
    <3>5. CASE stream[d] = NoStream
      <4>1. Gapless(d)'
        BY <3>2, <3>5 DEF Gapless
      <4>2. Behind(d)'
        BY <2>5, ServerAssumption DEF Lag, ResumeAt, Behind, Types, ServerTypes
      <4> QED
        BY <1>1, <1>2, <1>3, <3>2, <4>1, <4>2, EarlyKept DEF NoGaps
    <3> QED
      BY <3>4, <3>5
  <2>6. CASE ~Lag(d) /\ ~Admit(d) /\ ~Forward(d)
    <3>1. Gapless(d)' /\ Behind(d)'
      BY <1>4, <1>6, <2>1, <2>2, <2>6, OwnSteps DEF ServerActs, ServerStep, Handle
    <3> QED
      BY <1>1, <1>2, <1>3, <1>4, <3>1, EarlyKept DEF NoGaps, Types, ClientTypes
  <2> QED
    BY <2>3, <2>4, <2>5, <2>6
<1> QED
  BY <1>5, <1>6

(* Steps of a client that read nothing and open no stream.                 *)
LEMMA ClientKeepsGaps ==
  ASSUME Types, NoGaps,
         UNCHANGED <<link, down, subs, pos, log, stream, got, missed>>,
         \A k \in Client : call'[k].step = "stream" =>
           call[k].step = "stream" /\ cur'[k] = cur[k]
  PROVE  NoGaps'
<1>1. ASSUME NEW c \in Conn PROVE Gapless(c)' /\ Behind(c)' /\ Early(c)'
  <2>1. Covered(c)' = Covered(c)
    BY DEF Covered, Events
  <2>2. Gapless(c)' /\ Behind(c)'
    BY <2>1, LogUnchanged, StillGapless DEF NoGaps
  <2>3. Early(c)'
    BY DEF NoGaps, Early
  <2> QED
    BY <2>2, <2>3
<1> QED
  BY <1>1 DEF NoGaps

(* Reading takes an event from the queue to the receiver.                  *)
LEMMA ReadGaps ==
  ASSUME Types, NoGaps, NEW d \in Conn, ReadResponse(d) \/ ReadEvent(d)
  PROVE  NoGaps'
<1>1. /\ down[d] # <<>> /\ down' = [down EXCEPT ![d] = Tail(@)]
      /\ UNCHANGED <<link, subs, pos, log, stream, missed, cur>>
  BY DEF ReadResponse, ReadEvent
<1>2. Elements(down[d]) = Elements(Tail(down[d])) \cup {Head(down[d])}
  BY <1>1, SplitElements DEF Types, ServerTypes
<1>3. link[d] \in {"open", "closed"}
  BY <1>1 DEF NoGaps, Early, Types, ServerTypes
<1>4. ASSUME NEW c \in Conn, stream[c] # NoStream
      PROVE  Covered(c) \subseteq Covered(c)'
  <2>1. CASE c # d
    <3>1. down'[c] = down[c] /\ got'[c] = got[c]
      BY <1>1, <2>1 DEF ReadResponse, ReadEvent, Types, ServerTypes, ClientTypes
    <3> QED
      BY <1>1, <3>1 DEF Covered, Events
  <2>2. CASE c = d
    <3>1. down'[d] = Tail(down[d])
      BY <1>1 DEF Types, ServerTypes
    <3>2. CASE ReadResponse(d)
      <4>1. Head(down[d]).kind # "event" /\ got' = got
        BY <3>2 DEF ReadResponse
      <4>2. Events(d) \subseteq Events(d)'
        BY <1>2, <3>1, <4>1 DEF Events
      <4> QED
        BY <1>1, <2>2, <4>1, <4>2 DEF Covered
    <3>3. CASE ReadEvent(d)
      <4>1. got'[d] = got[d] \cup {Head(down[d]).id}
        BY <1>4, <2>2, <3>3 DEF ReadEvent, Types, ClientTypes
      <4>2. Events(d) \subseteq Events(d)' \cup {Head(down[d]).id}
        BY <1>2, <3>1 DEF Events
      <4> QED
        BY <1>1, <2>2, <4>1, <4>2 DEF Covered
    <3> QED
      BY <3>2, <3>3
  <2> QED
    BY <2>1, <2>2
<1>5. ASSUME NEW c \in Conn PROVE Gapless(c)' /\ Behind(c)'
  BY <1>1, <1>4, LogUnchanged, StillGapless DEF NoGaps
<1>6. ASSUME NEW k \in Client, call'[k].step = "stream"
      PROVE  call[k].step = "stream" \/ cur[k] = d
  <2> DEFINE id == Head(down[d]).id
             code == Head(down[d]).code
  <2>1. CASE call' = call
    BY <1>6, <2>1
  <2>2. ASSUME NEW j \in Client, Waits(j, d, id), Complete(j, code)
        PROVE  call[k].step = "stream" \/ cur[k] = d
    <3>1. cur[j] = d
      BY <2>2 DEF Waits
    <3> HIDE DEF id, code
    <3>2. k # j => call'[k] = call[k]
      BY <2>2, CompleteTypes
    <3> QED
      BY <1>6, <3>1, <3>2
  <2> QED
    BY <2>1, <2>2 DEF ReadResponse, ReadEvent
<1>7. ASSUME NEW c \in Conn PROVE Early(c)'
  <2>1. CASE c = d
    BY <1>1, <1>3, <2>1 DEF Early
  <2>2. CASE c # d
    <3>1. down'[c] = down[c]
      BY <1>1, <2>2 DEF Types, ServerTypes
    <3> QED
      BY <1>1, <1>6, <2>2, <3>1 DEF NoGaps, Early
  <2> QED
    BY <2>1, <2>2
<1> QED
  BY <1>5, <1>7 DEF NoGaps

(* A stream begins with the next event its connection comes to.            *)
LEMMA StreamGaps ==
  ASSUME Types, NoGaps, NEW k \in Client, NEW d \in Conn, cur[k] = d, OpenStream(k)
  PROVE  NoGaps'
<1>1. /\ stream' = [stream EXCEPT ![d] = pos[d] + 1] /\ call[k].step = "stream"
      /\ UNCHANGED <<link, down, subs, pos, log, got, missed, cur>>
  BY DEF OpenStream, serverVars
<1>2. call'[k].step # "stream" /\ \A j \in Client : j # k => call'[j] = call[j]
  BY <1>1, ReturnTypes, NoCallType DEF OpenStream
<1>3. link[d] \in {"open", "closed"}
  BY <1>1 DEF NoGaps, Early, Types, ServerTypes
<1>4. ASSUME NEW c \in Conn PROVE Gapless(c)' /\ Behind(c)' /\ Early(c)'
  <2>1. CASE c # d
    <3>1. stream'[c] = stream[c] /\ Covered(c)' = Covered(c)
      BY <1>1, <2>1 DEF Covered, Events, Types, ClientTypes
    <3>2. Gapless(c)' /\ Behind(c)'
      BY <1>1, <3>1, LogUnchanged, StillGapless DEF NoGaps
    <3>3. Early(c)'
      BY <1>1, <1>2, <3>1 DEF NoGaps, Early
    <3> QED
      BY <3>2, <3>3
  <2>2. CASE c = d
    <3>1. stream'[d] = pos[d] + 1 /\ pos'[d] = pos[d] /\ pos[d] \in Nat
      BY <1>1 DEF Types, ServerTypes, ClientTypes
    <3>2. \A n \in stream'[d] .. pos'[d] : FALSE
      BY <3>1
    <3>3. Gapless(d)'
      BY <3>2 DEF Gapless
    <3>4. Behind(d)'
      BY <1>1 DEF NoGaps, Behind, Open
    <3>5. Early(d)'
      BY <1>1, <1>3 DEF Early
    <3> QED
      BY <2>2, <3>3, <3>4, <3>5
  <2> QED
    BY <2>1, <2>2
<1> QED
  BY <1>4 DEF NoGaps

(* Every step leaves no gap.                                               *)
LEMMA GapsStep == Types /\ NoGaps /\ [Next]_vars => NoGaps'
<1> SUFFICES ASSUME Types, NoGaps, [Next]_vars PROVE NoGaps'
  OBVIOUS
<1>1. CASE UNCHANGED vars
  BY <1>1, ClientKeepsGaps DEF vars, serverVars, clientVars
<1>2. ASSUME NEW k \in Client, NEW a \in Action, BeginCall(k, a) PROVE NoGaps'
  <2> DEFINE new == [NoCall EXCEPT !.step = "connect", !.n = calls + 1,
                                   !.action = a]
  <2>1. new.step = "connect"
    BY DEF NoCall
  <2>2. call' = [call EXCEPT ![k] = new]
    BY <1>2 DEF BeginCall
  <2> HIDE DEF new
  <2>3. \A j \in Client : call'[j].step = "stream" => call'[j] = call[j]
    BY <2>1, <2>2 DEF Types, ClientTypes
  <2>4. UNCHANGED <<link, down, subs, pos, log, stream, got, missed, cur>>
    BY <1>2 DEF BeginCall, serverVars
  <2> QED
    BY <2>3, <2>4, ClientKeepsGaps
<1>3. ASSUME NEW k \in Client, Close(k) PROVE NoGaps'
  <2>1. \A j \in Client : call[j].step = "stream" => cur'[j] = cur[j]
    BY <1>3, NoCallType DEF Close, Types, ClientTypes
  <2> QED
    BY <1>3, <2>1, ClientKeepsGaps DEF Close, serverVars
<1>4. ASSUME NEW k \in Client, Connect(k) PROVE NoGaps'
  <2>1. /\ \A j \in Client : j # k => call'[j] = call[j] /\ cur'[j] = cur[j]
        /\ call'[k].step = "send"
        /\ UNCHANGED <<down, subs, pos, log, stream, got, missed>>
    BY <1>4, GoTypes DEF Connect, Types, ClientTypes
  <2>2. CASE link' = link
    BY <2>1, <2>2, ClientKeepsGaps
  <2>3. ASSUME NEW d \in Conn, link[d] = "none", link' = [link EXCEPT ![d] = "backlog"]
        PROVE  NoGaps'
    <3>1. ASSUME NEW c \in Conn PROVE Gapless(c)' /\ Behind(c)' /\ Early(c)'
      <4>1. Covered(c)' = Covered(c)
        BY <2>1 DEF Covered, Events
      <4>2. link'[c] = "open" => link[c] = "open"
        BY <2>3 DEF Types, ServerTypes
      <4>3. Gapless(c)' /\ Behind(c)'
        BY <2>1, <4>1, <4>2, LogUnchanged, StillGapless DEF NoGaps
      <4>4. link'[c] \in {"none", "backlog", "held"} =>
              link[c] \in {"none", "backlog", "held"}
        BY <2>3 DEF Types, ServerTypes
      <4>5. Early(c)'
        BY <2>1, <4>4 DEF NoGaps, Early
      <4> QED
        BY <4>3, <4>5
    <3> QED
      BY <3>1 DEF NoGaps
  <2> QED
    BY <1>4, <2>2, <2>3 DEF Connect
<1>5. ASSUME NEW k \in Client, ConnectFails(k) \/ Timeout(k) PROVE NoGaps'
  <2>1. FailAttempt(k) /\ call[k].step # "none"
        /\ UNCHANGED <<link, down, subs, pos, log, stream, got, missed>>
    BY <1>5 DEF ConnectFails, Timeout, Expires, serverVars
  <2>2. \A j \in Client : call'[j].step = "stream" =>
           call'[j] = call[j] /\ cur'[j] = cur[j]
    BY <2>1, FailTypes
  <2> QED
    BY <2>1, <2>2, ClientKeepsGaps
<1>6. ASSUME NEW k \in Client, Send(k) PROVE NoGaps'
  <2>1. UNCHANGED <<link, down, subs, pos, log, stream, got, missed>>
        /\ call[k].step = "send"
    BY <1>6 DEF Send
  <2>2. CASE cur[k] \in writer
    <3>1. cur' = cur /\ call' = [call EXCEPT ![k].step = "wait",
                                            ![k].id = NextId(cur[k])]
      BY <1>6, <2>2 DEF Send
    <3>2. \A j \in Client : call'[j].step = "stream" => call[j].step = "stream"
      BY <3>1 DEF Types, ClientTypes, CallType
    <3> QED
      BY <2>1, <3>1, <3>2, ClientKeepsGaps
  <2>3. CASE cur[k] \notin writer
    <3>1. FailAttempt(k)
      BY <1>6, <2>3 DEF Send
    <3>2. \A j \in Client : call'[j].step = "stream" =>
             call'[j] = call[j] /\ cur'[j] = cur[j]
      BY <2>1, <3>1, FailTypes
    <3> QED
      BY <2>1, <3>2, ClientKeepsGaps
  <2> QED
    BY <2>2, <2>3
<1>7. ASSUME NEW k \in Client, OpenStream(k) PROVE NoGaps'
  <2>1. cur[k] \in Conn
    BY <1>7 DEF OpenStream, Types, UnderWay
  <2> QED
    BY <1>7, <2>1, StreamGaps
<1>8. ASSUME NEW c \in Conn, Task(c) PROVE NoGaps'
  <2>1. CASE ReadResponse(c) \/ ReadEvent(c)
    BY <2>1, ReadGaps
  <2>2. CASE EndReader(c)
    <3>1. UNCHANGED <<link, down, subs, pos, log, stream, got, missed, cur>>
      BY <2>2 DEF EndReader
    <3>2. CASE call' = call
      BY <3>1, <3>2, ClientKeepsGaps
    <3>3. ASSUME NEW k \in Client, Waits(k, c, call[k].id),
                 Return(k, "connection_closed")
          PROVE  NoGaps'
      <4>1. \A j \in Client : call'[j].step = "stream" => call'[j] = call[j]
        BY <3>3, ReturnTypes, NoCallType DEF Waits
      <4> QED
        BY <3>1, <4>1, ClientKeepsGaps
    <3> QED
      BY <2>2, <3>2, <3>3 DEF EndReader
  <2>3. CASE EndWriter(c)
    BY <2>3, ClientKeepsGaps DEF EndWriter
  <2> QED
    BY <1>8, <2>1, <2>2, <2>3 DEF Task
<1>9. CASE Exit
  <2>1. ASSUME NEW c \in Conn PROVE Gapless(c)' /\ Behind(c)' /\ Early(c)'
    BY <1>9, NoCallType DEF Exit, Gapless, Behind, Open, Early, NoGaps
  <2> QED
    BY <2>1 DEF NoGaps
<1>10. CASE ServerRestart
  <2>1. ASSUME NEW c \in Conn PROVE Gapless(c)' /\ Behind(c)' /\ Early(c)'
    <3>1. link'[c] = IF link[c] = "none" THEN "none" ELSE "closed"
      BY <1>10 DEF ServerRestart, Restart
    <3>2. link'[c] # "open"
      BY <3>1
    <3>3. Early(c)'
      BY <1>10, <3>1 DEF ServerRestart, Restart, Early, NoGaps
    <3> QED
      BY <3>2, <3>3 DEF Gapless, Behind, Open
  <2> QED
    BY <2>1 DEF NoGaps
<1> QED
  BY <1>1, <1>2, <1>3, <1>4, <1>5, <1>6, <1>7, <1>8, <1>9, <1>10, ServerGaps
  DEF Next, ClientStep

(* Between two events a receiver gets on a connection that stays           *)
(* subscribed it misses none but what the channel had dropped, for every   *)
(* capacity of the channel: the forwarding of events, the answers between  *)
(* them and the lag of the receiver leave no gap of their own.             *)
THEOREM NoGapUnnoticed == Spec => []NoSilentGap
<1>1. Init => NoGaps
  BY NoCallType DEF Init, ServerInit, NoGaps, Gapless, Early, Behind, Open
<1>2. Types /\ NoGaps => NoSilentGap
  <2> SUFFICES ASSUME Types, NoGaps, NEW c \in Open, stream[c] # NoStream,
                      NEW n \in stream[c] .. pos[c], Subscribed(c, log[n]),
                      n \notin got[c] \cup missed[c]
               PROVE  \E i \in DOMAIN down[c] : down[c][i].kind = "event"
                                              /\ down[c][i].id = n
    BY DEF NoSilentGap
  <2>1. c \in Conn /\ down[c] \in Seq(Frame) /\ DOMAIN down[c] = 1 .. Len(down[c])
    BY DEF Open, Types, ServerTypes
  <2>2. n \in Events(c)
    BY <2>1 DEF NoGaps, Gapless, Covered
  <2> QED
    BY <2>1, <2>2 DEF Events, Elements
<1> QED
  BY <1>1, <1>2, GapsStep, TypesInvariant, PTL DEF Spec
-----------------------------------------------------------------------------
(* WireClient implements RemoteCalls. Numbers of calls: a call that has    *)
(* not returned has one of those begun, none has that of another, and what *)
(* is asked on any connection, of whatever age, bears such a number.       *)
NumberedCall(k) == call[k].step # "none" => call[k].n \in 1 .. calls

NumberedRequests(c) == \A r \in Asked(c) : r = NoRequest \/ r.call \in 1 .. calls

Numbered ==
  /\ \A k \in Client : NumberedCall(k)
  /\ \A j, k \in Client :
       /\ call[j].step # "none" /\ call[k].step # "none"
       /\ call[j].n = call[k].n
       => j = k
  /\ \A c \in Conn : NumberedRequests(c)

(* A call that goes on, under its number.                                  *)
GoesOn(k) ==
  /\ call[k].step # "none" /\ call'[k].step # "none" /\ call'[k].n = call[k].n
  /\ \A j \in Client : j # k => call'[j] = call[j]
  /\ answered' = answered

(* A call that returns.                                                    *)
Returns(k) ==
  /\ call[k].step # "none" /\ call'[k].step = "none"
  /\ \A j \in Client : j # k => call'[j] = call[j]
  /\ answered' \in {answered, answered \cup {call[k].n}}

(* What a step does to the calls: nothing, or something to one of them.    *)
OneCall ==
  /\ calls' = calls /\ executed' = executed
  /\ \E k \in Client : GoesOn(k) \/ Returns(k)

(* Return, Go and FailAttempt in these terms.                              *)
LEMMA ReturnReturns ==
  ASSUME Types, NEW k \in Client, NEW code, call[k].step # "none", Return(k, code)
  PROVE  Returns(k)
<1>1. answered' \in {answered, answered \cup {call[k].n}}
  BY DEF Return
<1> QED
  BY <1>1, ReturnTypes, NoCallType DEF Returns

(* A call that takes its next step goes on.                                *)
LEMMA GoGoesOn ==
  ASSUME Types, NEW k \in Client, NEW s \in {"connect", "send", "wait", "stream"},
         call[k].step # "none", Go(k, s), answered' = answered
  PROVE  GoesOn(k)
  BY GoTypes DEF GoesOn

(* An attempt that fails ends the call or is tried again.                  *)
LEMMA FailEnds ==
  ASSUME Types, NEW k \in Client, call[k].step # "none", FailAttempt(k)
  PROVE  GoesOn(k) \/ Returns(k)
  BY FailTypes DEF GoesOn, Returns

(* Each step concerns one call at most.                                    *)
LEMMA CallMoves ==
  ASSUME Types, [Next]_vars
  PROVE  \/ UNCHANGED <<call, answered, calls>>
         \/ \E k \in Client, a \in Action : BeginCall(k, a)
         \/ OneCall
<1>1. ASSUME NEW k \in Client, Connect(k) PROVE UNCHANGED <<call, answered, calls>> \/ OneCall
  <2>1. Go(k, "send") /\ call[k].step # "none"
        /\ UNCHANGED <<answered, calls, executed>>
    BY <1>1 DEF Connect
  <2> QED
    BY <2>1, GoGoesOn DEF OneCall
<1>2. ASSUME NEW k \in Client, ConnectFails(k) \/ Timeout(k) PROVE OneCall
  <2>1. FailAttempt(k) /\ call[k].step # "none" /\ UNCHANGED <<calls, executed>>
    BY <1>2 DEF ConnectFails, Timeout, Expires, serverVars
  <2> QED
    BY <2>1, FailEnds DEF OneCall
<1>3. ASSUME NEW k \in Client, Send(k) PROVE OneCall
  <2>1. call[k].step # "none" /\ UNCHANGED <<calls, executed>>
    BY <1>3 DEF Send
  <2>2. CASE FailAttempt(k)
    BY <2>1, <2>2, FailEnds DEF OneCall
  <2>3. CASE cur[k] \in writer
    <3>1. call' = [call EXCEPT ![k].step = "wait", ![k].id = NextId(cur[k])]
          /\ answered' = answered
      BY <1>3, <2>3 DEF Send
    <3>2. GoesOn(k)
      BY <2>1, <3>1 DEF GoesOn, Types, ClientTypes, CallType
    <3> QED
      BY <2>1, <3>2 DEF OneCall
  <2> QED
    BY <1>3, <2>2, <2>3 DEF Send
<1>4. ASSUME NEW k \in Client, OpenStream(k) PROVE OneCall
  <2>1. Return(k, "ok") /\ call[k].step # "none" /\ UNCHANGED <<calls, executed>>
    BY <1>4 DEF OpenStream, serverVars
  <2> QED
    BY <2>1, ReturnReturns DEF OneCall
<1>5. ASSUME NEW c \in Conn, ReadResponse(c)
      PROVE  UNCHANGED <<call, answered, calls>> \/ OneCall
  <2>1. UNCHANGED <<calls, executed>>
    BY <1>5 DEF ReadResponse
  <2>2. ASSUME NEW k \in Client, NEW id, NEW code, Waits(k, c, id), Complete(k, code)
        PROVE  OneCall
    <3>1. call[k].step # "none"
      BY <2>2 DEF Waits
    <3>2. CASE Go(k, "stream") /\ answered' = answered
      BY <2>1, <3>1, <3>2, GoGoesOn DEF OneCall
    <3>3. CASE Return(k, code)
      BY <2>1, <3>1, <3>3, ReturnReturns DEF OneCall
    <3> QED
      BY <2>2, <3>2, <3>3 DEF Complete
  <2> QED
    BY <1>5, <2>1, <2>2 DEF ReadResponse
<1>6. ASSUME NEW c \in Conn, EndReader(c)
      PROVE  UNCHANGED <<call, answered, calls>> \/ OneCall
  <2>1. UNCHANGED <<calls, executed>>
    BY <1>6 DEF EndReader
  <2>2. ASSUME NEW k \in Client, Waits(k, c, call[k].id), Return(k, "connection_closed")
        PROVE  OneCall
    BY <2>1, <2>2, ReturnReturns DEF OneCall, Waits
  <2> QED
    BY <1>6, <2>1, <2>2 DEF EndReader
<1>7. ASSUME NEW c \in Conn, ReadEvent(c) \/ EndWriter(c) \/ ServerActs(c) \/ ServerBreak(c)
      PROVE  UNCHANGED <<call, answered, calls>>
  BY <1>7 DEF ReadEvent, EndWriter, ServerActs, ServerBreak
<1>8. ASSUME Exit \/ ServerRestart \/ (\E k \in Client : Close(k)) \/ UNCHANGED vars
      PROVE  UNCHANGED <<call, answered, calls>>
  BY <1>8 DEF Exit, ServerRestart, Close, vars, clientVars
<1> QED
  BY <1>1, <1>2, <1>3, <1>4, <1>5, <1>6, <1>7, <1>8 DEF Next, ClientStep, Task

(* Only a dispatch executes.                                               *)
LEMMA OnlyDispatch ==
  ASSUME [Next]_vars
  PROVE  executed' = executed \/ \E c \in Conn : Dispatch(c) /\ ServerActs(c)
<1>1. ASSUME NEW c \in Conn, ServerActs(c)
      PROVE  executed' = executed \/ Dispatch(c)
  BY <1>1 DEF ServerActs, ServerStep, Accept, Admit, Handle, TakeRequest,
              ServeAuth, Refuse, ServeSubscribe, ServeUnsubscribe, HangUp,
              Cleanup, Lag, Forward
<1>2. ASSUME NEW c \in Conn, Task(c) \/ ServerBreak(c) PROVE executed' = executed
  BY <1>2 DEF Task, ReadResponse, ReadEvent, EndReader, EndWriter,
              ServerBreak, BreakFrame, Cleanup
<1>3. ASSUME NEW k \in Client, ClientStep(k) \/ Close(k) PROVE executed' = executed
  BY <1>3 DEF ClientStep, Connect, ConnectFails, Send, Timeout, OpenStream,
              Close, serverVars
<1>4. ASSUME NEW k \in Client, NEW a \in Action, BeginCall(k, a)
      PROVE  executed' = executed
  BY <1>4 DEF BeginCall, serverVars
<1>5. ASSUME Exit \/ ServerRestart \/ UNCHANGED vars PROVE executed' = executed
  BY <1>5 DEF Exit, ServerRestart, Restart, vars, serverVars
<1> QED
  BY <1>1, <1>2, <1>3, <1>4, <1>5 DEF Next

(* Nothing is asked by any step but a send.                                *)
LEMMA OnlySendAsks ==
  ASSUME Types, [Next]_vars, NEW c \in Conn
  PROVE  \/ Asked(c)' \subseteq Asked(c) \cup {NoRequest}
         \/ \E k \in Client : Send(k)
<1>1. ASSUME OnlyAnswers PROVE Asked(c)' \subseteq Asked(c) \cup {NoRequest}
  BY <1>1 DEF OnlyAnswers
<1>2. ASSUME UNCHANGED <<up, busy>> PROVE Asked(c)' = Asked(c)
  BY <1>2 DEF Asked
<1>3. ASSUME NEW k \in Client, ClientStep(k) \/ Close(k), ~Send(k)
      PROVE  UNCHANGED <<up, busy>>
  BY <1>3 DEF ClientStep, Connect, ConnectFails, Timeout, OpenStream, Close, serverVars
<1>4. ASSUME NEW k \in Client, NEW a \in Action, BeginCall(k, a)
      PROVE  UNCHANGED <<up, busy>>
  BY <1>4 DEF BeginCall, serverVars
<1>5. ASSUME NEW d \in Conn, Task(d) PROVE Asked(c)' \subseteq Asked(c) \cup {NoRequest}
  <2>1. CASE ReadResponse(d) \/ ReadEvent(d) \/ EndReader(d)
    BY <1>2, <2>1 DEF ReadResponse, ReadEvent, EndReader
  <2>2. CASE EndWriter(d)
    BY <1>1, <1>2, <2>2, UpEmptied DEF EndWriter
  <2> QED
    BY <1>5, <2>1, <2>2 DEF Task
<1>6. ASSUME NEW d \in Conn, ServerActs(d) \/ ServerBreak(d) PROVE OnlyAnswers
  BY <1>6, ServerOnlyAnswers DEF ServerActs, ServerBreak
<1>7. CASE Exit \/ UNCHANGED vars
  BY <1>2, <1>7 DEF Exit, vars, serverVars
<1>8. CASE ServerRestart
  BY <1>8, EmptyElements DEF ServerRestart, Restart, Asked
<1> QED
  BY <1>1, <1>2, <1>3, <1>4, <1>5, <1>6, <1>7, <1>8 DEF Next

(* A send asks with the number of its call.                                *)
LEMMA SendAsks ==
  ASSUME Types, NEW k \in Client, Send(k), NEW c \in Conn, NEW r \in Asked(c)'
  PROVE  r \in Asked(c) \/ r.call = call[k].n
<1>1. busy' = busy
  BY DEF Send
<1>2. CASE up' = up
  BY <1>1, <1>2 DEF Asked
<1>3. CASE cur[k] \in writer
  <2>1. PICK q : /\ up' = [up EXCEPT ![cur[k]] = Append(@, q)]
                 /\ q \in Request /\ q.call = call[k].n
    <3> DEFINE q == [id |-> NextId(cur[k]), call |-> call[k].n, action |-> call[k].action]
    <3>1. cur[k] \in Conn /\ call[k].n \in Call /\ call[k].action \in Action
      BY DEF Send, Types, UnderWay
    <3>2. NextId(cur[k]) \in Nat \ {0}
      BY <3>1 DEF NextId, Types, ClientTypes
    <3>3. q \in Request /\ q.call = call[k].n
      BY <3>1, <3>2 DEF Request
    <3>4. up' = [up EXCEPT ![cur[k]] = Append(@, q)]
      BY <1>3 DEF Send
    <3> QED
      BY <3>3, <3>4
  <2>2. CASE c = cur[k]
    <3>1. up[c] \in Seq(Request) /\ up'[c] = Append(up[c], q)
      BY <2>1, <2>2 DEF Types, ServerTypes
    <3>2. Elements(up'[c]) = Elements(up[c]) \cup {q}
      BY <2>1, <3>1, PushedElements
    <3> QED
      BY <1>1, <2>1, <3>2 DEF Asked
  <2>3. CASE c # cur[k]
    BY <1>1, <2>1, <2>3 DEF Asked, Types, ServerTypes
  <2> QED
    BY <2>2, <2>3
<1> QED
  BY <1>2, <1>3 DEF Send

(* Numbers stay those of calls begun, each that of one call.               *)
LEMMA NumberedStep == Types /\ Numbered /\ [Next]_vars => Numbered'
<1> SUFFICES ASSUME Types, Numbered, [Next]_vars PROVE Numbered'
  OBVIOUS
<1>1. calls \in Nat
  BY DEF Types, ClientTypes
<1>2. ASSUME NEW k \in Client, NEW a \in Action, BeginCall(k, a)
      PROVE  /\ calls' = calls + 1 /\ call'[k].n = calls + 1 /\ call[k].step = "none"
             /\ \A j \in Client : j # k => call'[j] = call[j]
             /\ UNCHANGED <<up, busy>>
  <2> DEFINE new == [NoCall EXCEPT !.step = "connect", !.n = calls + 1, !.action = a]
  <2>1. new.n = calls + 1
    BY DEF NoCall
  <2>2. call' = [call EXCEPT ![k] = new] /\ call[k] = NoCall
        /\ calls' = calls + 1 /\ UNCHANGED <<up, busy>>
    BY <1>2 DEF BeginCall, serverVars
  <2> HIDE DEF new
  <2> QED
    BY <2>1, <2>2, NoCallType DEF Types, ClientTypes
<1>3. calls' \in Nat /\ calls <= calls'
  <2>1. calls' = calls \/ calls' = calls + 1
    BY <1>2, CallMoves DEF OneCall
  <2> QED
    BY <1>1, <2>1
<1>4. /\ \A k \in Client : NumberedCall(k)'
      /\ \A j, k \in Client :
           call'[j].step # "none" /\ call'[k].step # "none" /\ call'[j].n = call'[k].n
           => j = k
  <2>1. CASE UNCHANGED <<call, answered, calls>>
    BY <2>1 DEF Numbered, NumberedCall
  <2>2. ASSUME NEW k \in Client, NEW a \in Action, BeginCall(k, a)
        PROVE  /\ \A j \in Client : NumberedCall(j)'
               /\ \A i, j \in Client :
                    call'[i].step # "none" /\ call'[j].step # "none"
                    /\ call'[i].n = call'[j].n => i = j
    <3>1. \A j \in Client : j # k /\ call'[j].step # "none" =>
            call'[j] = call[j] /\ call[j].n \in 1 .. calls
      BY <1>2, <2>2 DEF Numbered, NumberedCall
    <3>2. calls' = calls + 1 /\ call'[k].n = calls + 1
      BY <1>2, <2>2
    <3>3. \A j \in Client : NumberedCall(j)'
      BY <1>1, <3>1, <3>2 DEF NumberedCall
    <3>4. \A j \in Client : j # k /\ call'[j].step # "none" => call'[j].n # call'[k].n
      BY <1>1, <3>1, <3>2
    <3> QED
      BY <3>1, <3>3, <3>4 DEF Numbered
  <2>3. ASSUME NEW k \in Client, GoesOn(k) \/ Returns(k), calls' = calls
        PROVE  /\ \A j \in Client : NumberedCall(j)'
               /\ \A i, j \in Client :
                    call'[i].step # "none" /\ call'[j].step # "none"
                    /\ call'[i].n = call'[j].n => i = j
    <3>1. \A j \in Client : call'[j].step # "none" =>
            call[j].step # "none" /\ call'[j].n = call[j].n
      BY <2>3 DEF GoesOn, Returns
    <3> QED
      BY <2>3, <3>1 DEF Numbered, NumberedCall
  <2> QED
    BY <2>1, <2>2, <2>3, CallMoves DEF OneCall
<1>5. ASSUME NEW c \in Conn PROVE NumberedRequests(c)'
  <2>1. NumberedRequests(c)
    BY DEF Numbered
  <2>2. ASSUME NEW k \in Client, Send(k), NEW r \in Asked(c)'
        PROVE  r = NoRequest \/ r.call \in 1 .. calls'
    <3>1. call[k].n \in 1 .. calls
      BY <2>2 DEF Send, Numbered, NumberedCall
    <3>2. r \in Asked(c) \/ r.call = call[k].n
      BY <2>2, SendAsks
    <3>3. 1 .. calls \subseteq 1 .. calls'
      BY <1>1, <1>3
    <3> QED
      BY <2>1, <3>1, <3>2, <3>3 DEF NumberedRequests
  <2>3. CASE Asked(c)' \subseteq Asked(c) \cup {NoRequest}
    <3>1. 1 .. calls \subseteq 1 .. calls'
      BY <1>1, <1>3
    <3> QED
      BY <2>1, <2>3, <3>1 DEF NumberedRequests
  <2> QED
    BY <2>2, <2>3, OnlySendAsks DEF NumberedRequests
<1> QED
  BY <1>4, <1>5 DEF Numbered

(* Calls that have not returned, as INSTANCE maps them.                    *)
Underway == {call[k].n : k \in {j \in Client : call[j].step # "none"}}

(* Every step is one of RemoteCalls.                                       *)
LEMMA CallsStep ==
  ASSUME Types, Numbered, PutAnsweredOkWasDone', [Next]_vars
  PROVE  [Calls!Next]_(Calls!vars)
<1>1. ASSUME UNCHANGED <<call, answered, calls>> PROVE [Calls!Next]_(Calls!vars)
  <2>1. CASE executed' = executed
    BY <1>1, <2>1 DEF Calls!vars
  <2>2. ASSUME NEW c \in Conn, Dispatch(c) PROVE Calls!Next
    <3> DEFINE n == busy[c].call
    <3>1. busy[c] # NoRequest /\ busy[c] \in Asked(c)
      BY <2>2 DEF Dispatch, NoRequest, Asked
    <3>2. n \in 1 .. calls
      BY <3>1 DEF Numbered, NumberedRequests
    <3>3. executed' = executed \cup {n}
      BY <2>2 DEF Dispatch
    <3>4. Calls!Do(n)
      BY <1>1, <3>3 DEF Calls!Do
    <3> QED
      BY <3>2, <3>4 DEF Calls!Next
  <2> QED
    BY <2>1, <2>2, OnlyDispatch
<1>2. ASSUME NEW k \in Client, NEW a \in Action, BeginCall(k, a)
      PROVE  Calls!Next
  <2> DEFINE new == [NoCall EXCEPT !.step = "connect", !.n = calls + 1, !.action = a]
  <2>1. new.n = calls + 1 /\ new.step # "none"
    BY DEF NoCall
  <2>2. call' = [call EXCEPT ![k] = new] /\ call[k] = NoCall
        /\ calls' = calls + 1 /\ UNCHANGED <<executed, answered>>
    BY <1>2 DEF BeginCall, serverVars
  <2> HIDE DEF new
  <2>3. call'[k] = new /\ \A j \in Client : j # k => call'[j] = call[j]
    BY <2>2 DEF Types, ClientTypes
  <2>4. Underway' = Underway \cup {calls + 1}
    BY <2>1, <2>2, <2>3, NoCallType DEF Underway
  <2> QED
    BY <2>2, <2>4 DEF Underway, Calls!Begin, Calls!Next
<1>3. ASSUME NEW k \in Client, GoesOn(k), UNCHANGED <<calls, executed>>
      PROVE  UNCHANGED (Calls!vars)
  <2>1. \A j \in Client : (call'[j].step # "none" <=> call[j].step # "none")
                          /\ call'[j].n = call[j].n
    BY <1>3 DEF GoesOn
  <2>2. Underway' = Underway
    BY <2>1 DEF Underway
  <2> QED
    BY <1>3, <2>2 DEF GoesOn, Underway, Calls!vars
<1>4. ASSUME NEW k \in Client, Returns(k), UNCHANGED <<calls, executed>>
      PROVE  Calls!Next
  <2> DEFINE n == call[k].n
  <2>1. n \in Underway
    BY <1>4 DEF Returns, Underway
  <2>2. \A j \in Client : j # k /\ call[j].step # "none" => call[j].n # n
    BY <1>4 DEF Returns, Numbered
  <2>3. Underway' = Underway \ {n}
    BY <1>4, <2>2 DEF Returns, Underway
  <2>4. CASE answered' = answered
    BY <1>4, <2>1, <2>3, <2>4 DEF Underway, Calls!Return, Calls!Next
  <2>5. CASE answered' = answered \cup {n}
    <3>1. n \in executed
      BY <1>4, <2>5 DEF PutAnsweredOkWasDone
    <3> QED
      BY <1>4, <2>1, <2>3, <2>5, <3>1 DEF Underway, Calls!Succeed, Calls!Next
  <2> QED
    BY <1>4, <2>4, <2>5 DEF Returns
<1> QED
  BY <1>1, <1>2, <1>3, <1>4, CallMoves DEF OneCall

(* Whatever times out, is sent again, lost or answered late: for any       *)
(* number of clients, connections, retries and faults, a call returns once *)
(* at most, says it was done only if it was, and nothing is executed that  *)
(* nobody called.                                                          *)
THEOREM ImplementsCalls == Spec => KeepsCalls
<1>1. Init => Calls!Init /\ Numbered
  <2> SUFFICES ASSUME Init PROVE Calls!Init /\ Numbered
    OBVIOUS
  <2>1. \A k \in Client : call[k].step = "none"
    BY NoCallType DEF Init
  <2>2. Calls!Init
    BY <2>1 DEF Init, ServerInit, Calls!Init
  <2>3. \A c \in Conn : Asked(c) = {NoRequest}
    BY EmptyElements DEF Init, ServerInit, Asked
  <2> QED
    BY <2>1, <2>2, <2>3 DEF Numbered, NumberedCall, NumberedRequests
<1>2. Types /\ Numbered /\ PutAnsweredOkWasDone' /\ [Next]_vars
        => [Calls!Next]_(Calls!vars)
  BY CallsStep
<1> QED
  BY <1>1, <1>2, NumberedStep, TypesInvariant, OkWasDone, PTL
     DEF Spec, KeepsCalls, Calls!Spec
=============================================================================
