------------------------------ MODULE Requests ------------------------------
(***************************************************************************)
(* How requests reach the operations: cmd_serve of src/cli/server.rs, and  *)
(* crates/nomen-transport/src/http.rs, mcp.rs and cvm.rs over              *)
(* crates/nomen-api/src/dispatch.rs, here in front of the group            *)
(* operations. (SocketServer has the frames of the socket.)                *)
(*                                                                         *)
(* HTTP requests and socket connections are tasks of the runtime. The CVM  *)
(* loop takes one message at a time, of an allowed client within its rate. *)
(* Without HTTP, serve runs the stdio loop, which refuses all but          *)
(* identity.auth until that succeeded; it shares its task with the CVM     *)
(* loop, and reads standard input with a blocking call.                    *)
(***************************************************************************)
EXTENDS Groups, Sequences

CONSTANTS
  Client,       \* pubkeys CVM messages come from
  Allowed,      \* allowed_npubs, each in one of two forms; empty for all
  MaxPerWindow, \* rate_limit
  Window,       \* the window of the limiter (60 s)
  WordSize,     \* 2^64: the limiter subtracts two u64 in a release build
  Input,        \* what requests ask for (bound)
  CvmInput,     \* what CVM messages ask for (bound)
  Ping,         \* a message that reaches no operation
  First,        \* members of the groups as an earlier run left them (bound)
  MaxLoad,      \* bound: CVM messages and requests, a request counting twice
  MaxTime,      \* bound: the clock
  MaxFault      \* bound: kills and clocks set back

(* The forms a key can be written in.                                      *)
Form == {"hex", "npub"}

ASSUME RequestsAssumption ==
  /\ Allowed \subseteq [key : Client, form : Form] /\ Input \subseteq Args
  /\ CvmInput \subseteq Input \cup {Ping}
  /\ MaxPerWindow \in Nat /\ Window \in Nat \ {0}
  /\ First \subseteq Npub
  /\ MaxLoad \in Nat /\ MaxTime \in Nat /\ MaxFault \in Nat
  /\ WordSize \in Nat /\ WordSize >= MaxTime + Window

VARIABLES
  limit,    \* RateLimiter: requests and start of the window, by client
  stdio,    \* whether serve runs the stdio loop
  session,  \* whether the stdio session is authenticated
  now,      \* the clock
  served,   \* history: when the limiter let messages of a client pass
  earlier,  \* history: served, before the last restart
  setBack,  \* history: the clock was set back
  load, faults

frontVars == <<stdio, limit, session, now, served, earlier, setBack, load,
               faults>>
vars == <<groupVars, frontVars>>

NoWindow == [count |-> 0, since |-> MaxTime + 1]
Init ==
  /\ GroupsInit(First)
  /\ limit = [k \in Client |-> NoWindow]
  /\ stdio \in BOOLEAN /\ session = FALSE /\ now = 0
  /\ served = [k \in Client |-> <<>>] /\ earlier = served
  /\ setBack = FALSE
  /\ load = 0 /\ faults = 0

Issue == load + 2 <= MaxLoad /\ load' = load + 2

(* Calls under way are told apart by a number.                             *)
Start(via, args) ==
  LET free == {i \in 1 .. MaxLoad : \A c \in calls : c.id # i}
  IN  Begin(CHOOSE i \in free : TRUE, via, args)
-----------------------------------------------------------------------------
(* api_dispatch, with an event that authenticates the request; or a frame  *)
(* on an authenticated connection.                                         *)
TaskRequest(args) ==
  /\ Issue /\ Start("task", args)
  /\ UNCHANGED <<table, events, todo, gap, member, stdio, limit, session, now,
                 served, earlier, setBack, faults>>

Running(via) == {c \in calls : c.via = via}

Reading == stdio /\ Running("mcp") = {}

(* McpServer::handle_identity_auth, with a key that parses.                *)
McpAuth ==
  /\ Reading /\ ~session
  /\ session' = TRUE
  /\ UNCHANGED <<groupVars, stdio, limit, now, served, earlier, setBack, load, faults>>

(* serve_stdio_arc, handle_tool_call                                       *)
McpRequest(args) ==
  /\ Reading /\ session
  /\ Issue /\ Start("mcp", args)
  /\ UNCHANGED <<table, events, todo, gap, member, stdio, limit, session, now,
                 served, earlier, setBack, faults>>

(* Mutant: a runtime of one thread.                                        *)
AnySuspended(c) == Reading

(* The task of both loops is in read, and polls neither.                   *)
Suspended(c) == c.via = "cvm" /\ Reading
-----------------------------------------------------------------------------
(***************************************************************************)
(* The CVM loop.                                                           *)
(***************************************************************************)
CvmReceive ==
  /\ Running("cvm") = {} /\ ~Reading
  /\ load < MaxLoad /\ load' = load + 1

(* The key of a message comes in hex, and is compared with what is written *)
(* in allowed_npubs as it is written there.                                *)
Known(k) == Allowed = {} \/ [key |-> k, form |-> "hex"] \in Allowed

CvmUnauthorized(k) ==
  /\ CvmReceive /\ ~Known(k)
  /\ UNCHANGED <<groupVars, stdio, limit, session, now, served, earlier, setBack,
                 faults>>

(* now - entry.1 of a u64                                                  *)
Elapsed(since) == (now + WordSize - since) % WordSize

Fresh == [count |-> 0, since |-> now]

(* Mutant: the window starts over, but not its time.                       *)
StaleStart(k) ==
  IF limit[k] = NoWindow THEN Fresh
  ELSE IF Elapsed(limit[k].since) >= Window
       THEN [limit[k] EXCEPT !.count = 0] ELSE limit[k]

(* Mutant: the entry of whichever client.                                  *)
SharedWindow(k) ==
  LET one == CHOOSE j \in Client : limit[j] # NoWindow IN
  IF \A j \in Client : limit[j] = NoWindow \/ Elapsed(limit[j].since) >= Window
  THEN Fresh ELSE limit[one]

(* RateLimiter::check, the entry before it is counted.                     *)
Entry(k) ==
  IF limit[k] = NoWindow \/ Elapsed(limit[k].since) >= Window
  THEN Fresh ELSE limit[k]

(* Mutant: one more than the rate.                                         *)
RefusedLate(k) == Known(k) /\ Entry(k).count > MaxPerWindow

Refused(k) == Known(k) /\ Entry(k).count >= MaxPerWindow

CvmLimited(k) ==
  /\ CvmReceive /\ Refused(k)
  /\ limit' = [limit EXCEPT ![k] = Entry(k)]
  /\ UNCHANGED <<groupVars, stdio, session, now, served, earlier, setBack, faults>>

(* handle_message: a method of its own, or an action to dispatch.          *)
CvmServe(k, what) ==
  /\ CvmReceive /\ Known(k) /\ ~Refused(k)
  /\ limit' = [limit EXCEPT ![k] = [Entry(k) EXCEPT !.count = @ + 1]]
  /\ served' = [served EXCEPT ![k] = Append(@, now)]
  /\ IF what = Ping THEN UNCHANGED calls ELSE Start("cvm", what)
  /\ UNCHANGED <<table, events, todo, gap, member, stdio, session, now, earlier,
                 setBack, faults>>

CvmStep ==
  \E k \in Client :
    \/ CvmUnauthorized(k) \/ CvmLimited(k)
    \/ \E what \in CvmInput : CvmServe(k, what)
-----------------------------------------------------------------------------
Tick ==
  /\ now < MaxTime /\ now' = now + 1
  /\ UNCHANGED <<groupVars, stdio, limit, session, served, earlier, setBack,
                 load, faults>>

Fault == faults < MaxFault /\ faults' = faults + 1

ClockSetBack ==
  /\ Fault /\ now > 0 /\ now' = now - 1 /\ setBack' = TRUE
  /\ UNCHANGED <<groupVars, stdio, limit, session, served, earlier, load>>

(* The server is killed and started again, and the limiter begins anew.    *)
Kill ==
  /\ Fault /\ GroupsKilled
  /\ limit' = [k \in Client |-> NoWindow]
  /\ session' = FALSE
  /\ earlier' = served /\ served' = [k \in Client |-> <<>>]
  /\ UNCHANGED <<stdio, now, setBack, load>>

Remote(args) ==
  /\ args.op = "group.create" /\ Issue /\ RemoteGroup(args.group, args.who)
  /\ UNCHANGED <<stdio, limit, session, now, served, earlier, setBack, faults>>

Operations ==
  /\ \E c \in calls : ~Suspended(c) /\ CallStep(c)
  /\ UNCHANGED frontVars

Next ==
  \/ \E a \in Input : TaskRequest(a) \/ McpRequest(a) \/ Remote(a)
  \/ McpAuth \/ CvmStep \/ Tick \/ ClockSetBack \/ Kill
  \/ Operations
  \/ SyncFetch /\ UNCHANGED frontVars
  \/ (\E e \in todo : SyncStep(e)) /\ UNCHANGED frontVars

Spec == Init /\ [][Next]_vars

(* The runtime polls what can go on; syncs are repeated and run to their   *)
(* end.                                                                    *)
LiveSpec ==
  /\ Spec
  /\ WF_vars(Operations)
  /\ WF_vars(SyncFetch /\ UNCHANGED frontVars)
  /\ WF_vars((\E e \in todo : SyncStep(e)) /\ UNCHANGED frontVars)
-----------------------------------------------------------------------------
TypeOK ==
  /\ table \in [Group -> [Npub -> Nat] \cup {NoGroup}]
  /\ events \in [Group -> (SUBSET Npub) \cup {NoGroup}]
  /\ calls \subseteq [id : 1 .. MaxLoad, via : {"task", "mcp", "cvm"},
                      args : Args,
                      step : {"check", "create", "publish", "write"}]
  /\ todo \subseteq [group : Group, who : SUBSET Npub]
  /\ gap \subseteq Group /\ member \in [Group -> SUBSET Npub]
  /\ limit \in [Client -> [count : 0 .. MaxPerWindow, since : Nat]]
  /\ {stdio, session, setBack} \subseteq BOOLEAN
  /\ now \in 0 .. MaxTime
  /\ {served, earlier} \subseteq [Client -> Seq(0 .. MaxTime)]
  /\ load \in 0 .. MaxLoad /\ faults \in 0 .. MaxFault

(* A group has the members that the calls which took effect leave it with: *)
(* two additions of a member at once leave it in the array twice, but one  *)
(* removal still removes it, whatever other calls and a sync write between *)
(* the two queries of each.                                                *)
MembersFollowCalls ==
  \A g \in Group : table[g] # NoGroup =>
    member[g] = {n \in Npub : table[g][n] > 0}

(* A window of the limiter begins with a message and is not sliding: a     *)
(* client may be served the rest of one window and the whole of the next   *)
(* at once, but always less than twice its rate within the length of a     *)
(* window, as long as the clock is not set back; and less than three times *)
(* its rate if the server was started again in between.                    *)
BelowTwiceTheRate ==
  ~setBack => \A k \in Client :
    /\ \A i, j \in DOMAIN served[k] :
         i <= j /\ served[k][j] < served[k][i] + Window
           => j - i + 1 < 2 * MaxPerWindow
    /\ \A i \in DOMAIN earlier[k], j \in DOMAIN served[k] :
         served[k][j] < earlier[k][i] + Window
           => (Len(earlier[k]) - i + 1) + j < 3 * MaxPerWindow

(* A client is refused for its own requests only: it has been served its   *)
(* rate within the last window, also if the clock was set back and the     *)
(* difference of the times wraps around.                                   *)
RefusedForItsOwn ==
  \A k \in Client : Refused(k) =>
    Cardinality({i \in DOMAIN served[k] : served[k][i] + Window > now})
      >= MaxPerWindow

(* A group the relay has an event of comes back when a sync that had       *)
(* deleted it was killed before it created it again.                       *)
GroupComesBack ==
  \A g \in Group :
    table[g] = NoGroup /\ events[g] # NoGroup ~> table[g] # NoGroup

(* Every call ends, whatever runs beside it; but a call of a CVM client    *)
(* may be left where it is for as long as the stdio loop waits for a line. *)
UnderWay(i) == \E c \in calls : c.id = i /\ ~(c.via = "cvm" /\ stdio)

CallsEnd == \A i \in 1 .. MaxLoad : UnderWay(i) ~> ~UnderWay(i)

(* server.rs:192 "CVM + stdio MCP: run both concurrently": a CVM call ends *)
(* whether or not a line arrives on standard input.                        *)
CvmCallEnds == Running("cvm") # {} ~> Running("cvm") = {}
=============================================================================
