--------------------------- MODULE RequestsProofs ---------------------------
(***************************************************************************)
(* What holds of Requests for all groups, members, clients, rates and      *)
(* clocks, whatever is asked for and however often the server is killed.   *)
(***************************************************************************)
EXTENDS Requests, FiniteSetTheorems, TLAPS

-----------------------------------------------------------------------------
(***************************************************************************)
(* Groups.                                                                 *)
(***************************************************************************)

(* The types of the group part of the state.                               *)
GroupTypes ==
  /\ table \in [Group -> [Npub -> Nat] \cup {NoGroup}]
  /\ events \in [Group -> (SUBSET Npub) \cup {NoGroup}]
  /\ \A c \in calls : c.args \in Args
  /\ todo \subseteq [group : Group, who : SUBSET Npub]
  /\ member \in [Group -> SUBSET Npub]

GInv == GroupTypes /\ MembersFollowCalls

(* A row of the group table, when there is one, lists some members.        *)
LEMMA RowType ==
  ASSUME NEW S \in SUBSET Npub
  PROVE  Row(S) \in [Npub -> Nat] /\ \A n \in Npub : Row(S)[n] > 0 <=> n \in S
  BY DEF Row

(* The groups an earlier run left, with no call and no sync under way.     *)
LEMMA InitialGroups == Init => GInv
<1> SUFFICES ASSUME Init PROVE GInv
  OBVIOUS
<1>1. First \subseteq Npub
  BY RequestsAssumption
<1>2. Row(First) \in [Npub -> Nat] /\ \A n \in Npub : Row(First)[n] > 0 <=> n \in First
  BY <1>1, RowType
<1>3. GroupTypes
  BY <1>1, <1>2 DEF Init, GroupsInit, GroupTypes
<1>4. MembersFollowCalls
  BY <1>1, <1>2 DEF Init, GroupsInit, MembersFollowCalls
<1> QED
  BY <1>3, <1>4 DEF GInv

(* A call that begins asks for something.                                  *)
LEMMA BeginKeeps ==
  ASSUME GInv, NEW id, NEW via, NEW args \in Args, Begin(id, via, args),
         UNCHANGED <<table, events, todo, gap, member>>
  PROVE  GInv'
<1>1. \A c \in calls' : c.args \in Args
  BY DEF GInv, GroupTypes, Begin
<1> QED
  BY <1>1 DEF GInv, GroupTypes, MembersFollowCalls

(* What a call asks for never changes while it goes on.                    *)
LEMMA StepKeepsArgs ==
  ASSUME GInv, NEW c \in calls, NEW s, GoOn(c, s) \/ End(c)
  PROVE  \A d \in calls' : d.args \in Args
<1>1. [c EXCEPT !.step = s].args = c.args
  OBVIOUS
<1> QED
  BY <1>1 DEF GInv, GroupTypes, GoOn, End

(* An operation keeps the types and the memberships: every write of the    *)
(* array changes who is in it the way its operation says.                  *)
LEMMA CallKeeps ==
  ASSUME GInv, NEW c \in calls, CallStep(c)
  PROVE  GInv'
<1> DEFINE g == c.args.group
<1>1. g \in Group /\ c.args.who \subseteq Npub
  BY DEF GInv, GroupTypes, Args
<1>2. \A d \in calls' : d.args \in Args
  BY StepKeepsArgs DEF CallStep, CreateCheck, CreateRow, CreatePublish,
     AddCheck, AddPush, RemoveCheck, RemoveWrite, GoOn, End
<1>3. todo' = todo
  BY DEF CallStep, CreateCheck, CreateRow, CreatePublish, AddCheck, AddPush,
     RemoveCheck, RemoveWrite
<1>4. ASSUME UNCHANGED <<table, member>>,
             \/ UNCHANGED events
             \/ events' = [events EXCEPT ![g] = c.args.who]
      PROVE  GInv'
  BY <1>1, <1>2, <1>3, <1>4 DEF GInv, GroupTypes, MembersFollowCalls
<1>5. ASSUME NEW m \in [Npub -> Nat], NEW S \in SUBSET Npub,
             \A n \in Npub : m[n] > 0 <=> n \in S,
             table' = [table EXCEPT ![g] = m],
             member' = [member EXCEPT ![g] = S], UNCHANGED events
      PROVE  GInv'
  <2>1. GroupTypes'
    BY <1>1, <1>2, <1>3, <1>5 DEF GInv, GroupTypes
  <2>2. MembersFollowCalls'
    BY <1>1, <1>5 DEF GInv, GroupTypes, MembersFollowCalls
  <2> QED
    BY <2>1, <2>2 DEF GInv
<1>6. table[g] # NoGroup =>
        /\ table[g] \in [Npub -> Nat] /\ member[g] \in SUBSET Npub
        /\ \A n \in Npub : table[g][n] > 0 <=> n \in member[g]
  BY <1>1 DEF GInv, GroupTypes, MembersFollowCalls
<1>7. CASE CreateRow(c)
  <2>1. Row(c.args.who) \in [Npub -> Nat]
        /\ \A n \in Npub : Row(c.args.who)[n] > 0 <=> n \in c.args.who
    BY <1>1, RowType
  <2> QED
    BY <1>1, <1>4, <1>5, <1>7, <2>1 DEF CreateRow
<1>8. CASE AddPush(c)
  <2> DEFINE m == [n \in Npub |-> IF n \in c.args.who THEN table[g][n] + 1
                                  ELSE table[g][n]]
  <2>1. CASE table[g] = NoGroup
    BY <1>4, <1>8, <2>1 DEF AddPush
  <2>2. CASE table[g] # NoGroup
    <3>1. m \in [Npub -> Nat]
          /\ \A n \in Npub : m[n] > 0 <=> n \in member[g] \cup c.args.who
      BY <1>6, <2>2
    <3>2. member[g] \cup c.args.who \in SUBSET Npub
      BY <1>1, <1>6, <2>2
    <3>3. /\ table' = [table EXCEPT ![g] = m] /\ UNCHANGED events
          /\ member' = [member EXCEPT ![g] = member[g] \cup c.args.who]
      BY <1>1, <1>8, <2>2 DEF AddPush, GInv, GroupTypes
    <3> HIDE DEF m
    <3> QED
      BY <1>5, <3>1, <3>2, <3>3
  <2> QED
    BY <2>1, <2>2
<1>9. CASE RemoveWrite(c)
  <2> DEFINE m == Without(table[g], c.args.who)
  <2>1. CASE table[g] = NoGroup
    BY <1>4, <1>9, <2>1 DEF RemoveWrite
  <2>2. CASE table[g] # NoGroup
    <3>1. m \in [Npub -> Nat]
          /\ \A n \in Npub : m[n] > 0 <=> n \in member[g] \ c.args.who
      BY <1>6, <2>2 DEF Without
    <3>2. member[g] \ c.args.who \in SUBSET Npub
      BY <1>6, <2>2
    <3>3. /\ table' = [table EXCEPT ![g] = m] /\ UNCHANGED events
          /\ member' = [member EXCEPT ![g] = member[g] \ c.args.who]
      BY <1>1, <1>9, <2>2 DEF RemoveWrite, GInv, GroupTypes
    <3> HIDE DEF m
    <3> QED
      BY <1>5, <3>1, <3>2, <3>3
  <2> QED
    BY <2>1, <2>2
<1>10. CASE CreateCheck(c) \/ CreatePublish(c) \/ AddCheck(c) \/ RemoveCheck(c)
  BY <1>4, <1>10 DEF CreateCheck, CreatePublish, AddCheck, RemoveCheck
<1> QED
  BY <1>7, <1>8, <1>9, <1>10 DEF CallStep

(* So does a sync, which takes a group out and puts one in.                *)
LEMMA SyncKeeps ==
  ASSUME GInv, SyncFetch \/ \E e \in todo : SyncStep(e)
  PROVE  GInv'
<1>1. CASE SyncFetch
  <2>1. todo' \subseteq [group : Group, who : SUBSET Npub]
    BY <1>1 DEF SyncFetch, Fetched, GInv, GroupTypes
  <2> QED
    BY <1>1, <2>1 DEF SyncFetch, GInv, GroupTypes, MembersFollowCalls
<1>2. ASSUME NEW e \in todo, SyncDelete(e) PROVE GInv'
  <2>1. e.group \in Group
    BY DEF GInv, GroupTypes
  <2> QED
    BY <1>2, <2>1 DEF SyncDelete, GInv, GroupTypes, MembersFollowCalls
<1>3. ASSUME NEW e \in todo, SyncCreate(e) PROVE GInv'
  <2>1. e.group \in Group /\ e.who \in SUBSET Npub
    BY DEF GInv, GroupTypes
  <2>2. Row(e.who) \in [Npub -> Nat]
        /\ \A n \in Npub : Row(e.who)[n] > 0 <=> n \in e.who
    BY <2>1, RowType
  <2>3. GroupTypes'
    BY <1>3, <2>1, <2>2 DEF SyncCreate, GInv, GroupTypes
  <2>4. MembersFollowCalls'
    BY <1>3, <2>1, <2>2 DEF SyncCreate, GInv, GroupTypes, MembersFollowCalls
  <2> QED
    BY <2>3, <2>4 DEF GInv
<1> QED
  BY <1>1, <1>2, <1>3 DEF SyncStep

(* Every step of the server keeps the group part as it should be.          *)
LEMMA GroupStep == GInv /\ [Next]_vars => GInv'
<1> SUFFICES ASSUME GInv, [Next]_vars PROVE GInv'
  OBVIOUS
<1>1. Input \subseteq Args /\ CvmInput \subseteq Input \cup {Ping}
  BY RequestsAssumption
<1>2. ASSUME UNCHANGED groupVars PROVE GInv'
  BY <1>2 DEF groupVars, GInv, GroupTypes, MembersFollowCalls
<1>3. ASSUME NEW a \in Input, TaskRequest(a) \/ McpRequest(a) PROVE GInv'
  BY <1>1, <1>3, BeginKeeps DEF TaskRequest, McpRequest, Start
<1>4. ASSUME NEW a \in Input, Remote(a) PROVE GInv'
  <2>1. a.group \in Group /\ a.who \in SUBSET Npub
    BY <1>1 DEF Args
  <2> QED
    BY <1>4, <2>1 DEF Remote, RemoteGroup, GInv, GroupTypes, MembersFollowCalls
<1>5. CASE CvmStep
  <2>1. ASSUME NEW k \in Client, NEW w \in CvmInput, CvmServe(k, w) PROVE GInv'
    <3>1. CASE w = Ping
      BY <1>2, <2>1, <3>1 DEF CvmServe, groupVars
    <3>2. CASE w # Ping
      BY <1>1, <2>1, <3>2, BeginKeeps DEF CvmServe, Start
    <3> QED
      BY <3>1, <3>2
  <2> QED
    BY <1>2, <1>5, <2>1 DEF CvmStep, CvmUnauthorized, CvmLimited, groupVars
<1>6. CASE Operations
  BY <1>6, CallKeeps DEF Operations
<1>7. CASE Kill
  BY <1>7 DEF Kill, GroupsKilled, GInv, GroupTypes, MembersFollowCalls
<1>8. CASE SyncFetch \/ \E e \in todo : SyncStep(e)
  BY <1>8, SyncKeeps
<1>9. CASE UNCHANGED vars \/ McpAuth \/ Tick \/ ClockSetBack
  BY <1>2, <1>9 DEF vars, McpAuth, Tick, ClockSetBack, groupVars
<1> QED
  BY <1>3, <1>4, <1>5, <1>6, <1>7, <1>8, <1>9 DEF Next

(* For every number of calls, syncs and kills, whatever falls between the  *)
(* two queries of an operation or of a sync, a group has exactly the       *)
(* members the operations that took effect leave it with.                  *)
THEOREM Memberships == Spec => []MembersFollowCalls
<1>1. Spec => []GInv
  BY InitialGroups, GroupStep, PTL DEF Spec
<1>2. GInv => MembersFollowCalls
  BY DEF GInv
<1> QED
  BY <1>1, <1>2, PTL
-----------------------------------------------------------------------------
(***************************************************************************)
(* The rate limiter.                                                       *)
(***************************************************************************)

(* With u64 arithmetic, the time since a start that lies ahead is long.    *)
LEMMA ElapsedIs ==
  ASSUME now \in 0 .. MaxTime, NEW s \in 0 .. MaxTime
  PROVE  /\ s <= now => Elapsed(s) = now - s
         /\ now < s => Elapsed(s) >= Window
<1>1. /\ MaxTime \in Nat /\ Window \in Nat /\ Window > 0
      /\ WordSize \in Nat /\ WordSize >= MaxTime + Window
  BY RequestsAssumption
<1>2. CASE s <= now
  <2>1. now - s \in Nat /\ now - s < WordSize
        /\ now + WordSize - s = (now - s) + WordSize
    BY <1>1, <1>2
  <2>2. \A a, w \in Nat : a < w => (a + w) % w = a
    OBVIOUS
  <2> QED
    BY <1>1, <1>2, <2>1, <2>2 DEF Elapsed
<1>3. CASE now < s
  <2>1. now + WordSize - s \in Nat /\ now + WordSize - s < WordSize
        /\ now + WordSize - s >= Window
    BY <1>1, <1>3
  <2>2. \A a, w \in Nat : a < w => a % w = a
    OBVIOUS
  <2> QED
    BY <1>1, <1>3, <2>1, <2>2 DEF Elapsed
<1> QED
  BY <1>2, <1>3

(* What an entry with count c and start s says of the times q of the n     *)
(* messages served: the last c are not older than the window.              *)
Recent(q, n, c, s) == \A i \in 1 .. n : i > n - c => q[i] >= s

Counted(k) ==
  LET n == Len(served[k])  c == limit[k].count  s == limit[k].since IN
  /\ c <= n /\ c <= MaxPerWindow
  /\ limit[k] = NoWindow => n = 0
  /\ limit[k] # NoWindow => s \in 0 .. MaxTime
  /\ Recent(served[k], n, c, s)

(* While the clock t only goes on: the times are in order, the window began *)
(* with the first message counted in it, and of the messages before that   *)
(* are within its length of it, the first of their own window is none. So  *)
(* they are less than twice the rate M within the length W of a window.    *)
Sorted(q, n, c, s, t, W, M) ==
  /\ \A i \in 1 .. n : q[i] <= t
  /\ \A i, j \in 1 .. n : i <= j => q[i] <= q[j]
  /\ \A i \in 1 .. n : i = n - c + 1 => q[i] = s
  /\ \A i \in 1 .. n : i <= n - c /\ q[i] + W > s => n - c - i + 2 <= M
  /\ \A i, j \in 1 .. n : i <= j /\ q[j] < q[i] + W => j - i + 1 < 2 * M

Ordered(k) ==
  LET n == Len(served[k])  c == limit[k].count  s == limit[k].since IN
  /\ limit[k] # NoWindow => s <= now
  /\ limit[k] # NoWindow /\ c = 0 => MaxPerWindow = 0
  /\ c = 0 => n = 0
  /\ Sorted(served[k], n, c, s, now, Window, MaxPerWindow)

(* A message that begins a window: those within its length before it are  *)
(* in the window before, and do not begin it.                             *)
LEMMA NewWindow ==
  ASSUME NEW n \in Nat, NEW c \in Nat, NEW s \in Nat, NEW t \in Nat,
         NEW W \in Nat, NEW M \in Nat, NEW q, NEW r,
         \A i \in 1 .. n : q[i] \in Nat /\ r[i] = q[i], r[n + 1] = t,
         M > 0, W > 0, c <= n, c <= M, c = 0 => n = 0, n > 0 => s + W <= t,
         Sorted(q, n, c, s, t, W, M)
  PROVE  Sorted(r, n + 1, 1, t, t, W, M)
<1>1. ASSUME NEW i \in 1 .. n, q[i] + W > t PROVE n - i + 2 <= M
  <2>1. c # 0 /\ s + W <= t
    OBVIOUS
  <2>2. n - c + 1 \in 1 .. n
    BY <2>1
  <2>3. q[n - c + 1] = s
    BY <2>2 DEF Sorted
  <2>4. i <= n - c + 1 => q[i] <= s
    BY <2>2, <2>3 DEF Sorted
  <2>5. q[i] \in Nat
    OBVIOUS
  <2>6. i > n - c + 1
    BY <1>1, <2>1, <2>4, <2>5
  <2> QED
    BY <2>6
<1>2. ASSUME NEW i \in 1 .. n + 1, NEW j \in 1 .. n + 1, i <= j,
             r[j] < r[i] + W
      PROVE  j - i + 1 < 2 * M
  <2>1. CASE j <= n
    <3>1. i \in 1 .. n /\ j \in 1 .. n
      BY <1>2, <2>1
    <3>2. q[j] < q[i] + W
      BY <1>2, <3>1
    <3> QED
      BY <1>2, <3>1, <3>2 DEF Sorted
  <2>2. CASE j = n + 1 /\ i = n + 1
    BY <2>2
  <2>3. CASE j = n + 1 /\ i <= n
    <3>1. i \in 1 .. n /\ q[i] + W > t
      BY <1>2, <2>3
    <3>2. n - i + 2 <= M
      BY <1>1, <3>1
    <3> QED
      BY <2>3, <3>1, <3>2
  <2> QED
    BY <2>1, <2>2, <2>3
<1>3. \A i \in 1 .. n + 1 : r[i] <= t
  BY DEF Sorted
<1>4. ASSUME NEW i \in 1 .. n + 1, NEW j \in 1 .. n + 1, i <= j
      PROVE  r[i] <= r[j]
  <2>1. CASE j <= n
    <3>1. i \in 1 .. n /\ j \in 1 .. n
      BY <1>4, <2>1
    <3> QED
      BY <1>4, <3>1 DEF Sorted
  <2>2. CASE j = n + 1
    BY <1>3, <2>2
  <2> QED
    BY <2>1, <2>2
<1>5. \A i \in 1 .. n + 1 : i <= (n + 1) - 1 /\ r[i] + W > t
        => (n + 1) - 1 - i + 2 <= M
  BY <1>1
<1> QED
  BY <1>2, <1>3, <1>4, <1>5 DEF Sorted

(* A message in the window that is open.                                   *)
LEMMA SameWindow ==
  ASSUME NEW n \in Nat, NEW c \in Nat, NEW s \in Nat, NEW t \in Nat,
         NEW W \in Nat, NEW M \in Nat, NEW q, NEW r,
         \A i \in 1 .. n : q[i] \in Nat /\ r[i] = q[i], r[n + 1] = t,
         c > 0, c < M, c <= n, s <= t,
         Sorted(q, n, c, s, t, W, M)
  PROVE  Sorted(r, n + 1, c + 1, s, t, W, M)
<1>1. ASSUME NEW i \in 1 .. n, i <= n - c, q[i] + W > s
      PROVE  n - c - i + 2 <= M
  BY <1>1 DEF Sorted
<1>2. ASSUME NEW i \in 1 .. n + 1, NEW j \in 1 .. n + 1, i <= j,
             r[j] < r[i] + W
      PROVE  j - i + 1 < 2 * M
  <2>1. CASE j <= n
    <3>1. i \in 1 .. n /\ j \in 1 .. n
      BY <1>2, <2>1
    <3>2. q[j] < q[i] + W
      BY <1>2, <3>1
    <3> QED
      BY <1>2, <3>1, <3>2 DEF Sorted
  <2>2. CASE j = n + 1 /\ i > n - c
    BY <2>2
  <2>3. CASE j = n + 1 /\ i <= n - c
    <3>1. i \in 1 .. n /\ q[i] + W > s
      BY <1>2, <2>3
    <3>2. n - c - i + 2 <= M
      BY <1>1, <2>3, <3>1
    <3> QED
      BY <2>3, <3>1, <3>2
  <2> QED
    BY <2>1, <2>2, <2>3
<1>3. \A i \in 1 .. n + 1 : r[i] <= t
  BY DEF Sorted
<1>4. ASSUME NEW i \in 1 .. n + 1, NEW j \in 1 .. n + 1, i <= j
      PROVE  r[i] <= r[j]
  <2>1. CASE j <= n
    <3>1. i \in 1 .. n /\ j \in 1 .. n
      BY <1>4, <2>1
    <3> QED
      BY <1>4, <3>1 DEF Sorted
  <2>2. CASE j = n + 1
    BY <1>3, <2>2
  <2> QED
    BY <2>1, <2>2
<1>5. \A i \in 1 .. n + 1 : i <= (n + 1) - (c + 1) /\ r[i] + W > s
        => (n + 1) - (c + 1) - i + 2 <= M
  <2> SUFFICES ASSUME NEW i \in 1 .. n + 1, i <= (n + 1) - (c + 1), r[i] + W > s
               PROVE  (n + 1) - (c + 1) - i + 2 <= M
    OBVIOUS
  <2>1. i \in 1 .. n /\ i <= n - c /\ q[i] + W > s
    OBVIOUS
  <2> QED
    BY <1>1, <2>1
<1>6. \A i \in 1 .. n + 1 : i = (n + 1) - (c + 1) + 1 => r[i] = s
  <2>1. \A i \in 1 .. n : i = n - c + 1 => q[i] = s
    BY DEF Sorted
  <2> QED
    BY <2>1
<1> QED
  BY <1>2, <1>3, <1>4, <1>5, <1>6 DEF Sorted

(* The types of the limiter, the clock and the history.                    *)
LimitTypes ==
  /\ now \in 0 .. MaxTime /\ setBack \in BOOLEAN
  /\ limit \in [Client -> [count : Nat, since : Nat]]
  /\ served \in [Client -> Seq(0 .. MaxTime)]

(* The invariant of the limiter.                                           *)
LInv ==
  /\ LimitTypes
  /\ \A k \in Client : Counted(k) /\ (~setBack => Ordered(k))

(* What the arithmetic needs of the constants.                             *)
LEMMA Bounds == MaxPerWindow \in Nat /\ Window \in Nat \ {0} /\ MaxTime \in Nat
  BY RequestsAssumption

(* The elements of a sequence over a set are of the set.                   *)
LEMMA ElementsOf ==
  ASSUME NEW S, NEW q \in Seq(S), NEW i \in 1 .. Len(q)
  PROVE  q[i] \in S
  OBVIOUS

(* No client has sent anything.                                            *)
LEMMA InitialLimits == Init => LInv
<1> SUFFICES ASSUME Init PROVE LInv
  OBVIOUS
<1>1. LimitTypes
  <2>1. NoWindow \in [count : Nat, since : Nat]
    BY Bounds DEF NoWindow
  <2>2. <<>> \in Seq(0 .. MaxTime)
    OBVIOUS
  <2>3. limit \in [Client -> [count : Nat, since : Nat]]
    BY <2>1 DEF Init
  <2>4. served \in [Client -> Seq(0 .. MaxTime)]
    BY <2>2 DEF Init
  <2>5. now \in 0 .. MaxTime
    <3>1. now = 0
      BY DEF Init
    <3> QED
      BY <3>1, Bounds
  <2>6. setBack \in BOOLEAN
    BY DEF Init
  <2> QED
    BY <2>3, <2>4, <2>5, <2>6 DEF LimitTypes
<1>2. ASSUME NEW k \in Client PROVE Counted(k) /\ Ordered(k)
  BY Bounds DEF Init, Counted, Ordered, Recent, Sorted, NoWindow
<1> QED
  BY <1>1, <1>2 DEF LInv

(* The entry that check() begins with.                                     *)
LEMMA EntryIs ==
  ASSUME LInv, NEW k \in Client
  PROVE  \/ Entry(k) = Fresh /\ (limit[k] = NoWindow \/ setBack
                                 \/ limit[k].since + Window <= now)
         \/ /\ Entry(k) = limit[k] /\ limit[k] # NoWindow
            /\ limit[k].since <= now /\ now < limit[k].since + Window
<1>1. limit[k] # NoWindow => limit[k].since \in 0 .. MaxTime
  BY DEF LInv, Counted
<1>2. now \in 0 .. MaxTime /\ limit[k].since \in Nat /\ MaxTime \in Nat
      /\ Window \in Nat
  BY Bounds DEF LInv, LimitTypes
<1>3. ~setBack /\ limit[k] # NoWindow => limit[k].since <= now
  BY DEF LInv, Ordered, LimitTypes
<1>4. CASE limit[k] = NoWindow
  BY <1>4 DEF Entry
<1>5. CASE limit[k] # NoWindow
  <2> DEFINE s == limit[k].since
  <2>1. /\ s <= now => Elapsed(s) = now - s
        /\ now < s => Elapsed(s) >= Window
    BY <1>1, <1>2, <1>5, ElapsedIs
  <2>2. CASE Elapsed(s) >= Window
    BY <1>2, <1>3, <1>5, <2>1, <2>2 DEF Entry
  <2>3. CASE ~(Elapsed(s) >= Window)
    BY <1>2, <1>5, <2>1, <2>3 DEF Entry
  <2> QED
    BY <2>2, <2>3
<1> QED
  BY <1>4, <1>5

(* A message that is served, with the entry it is counted in.              *)
LEMMA ServeKeeps ==
  ASSUME LInv, NEW k \in Client, ~(Entry(k).count >= MaxPerWindow),
         limit' = [limit EXCEPT ![k] = [Entry(k) EXCEPT !.count = @ + 1]],
         served' = [served EXCEPT ![k] = Append(served[k], now)],
         UNCHANGED <<now, setBack>>
  PROVE  LInv'
<1> DEFINE n == Len(served[k])  c == limit[k].count  s == limit[k].since
           e == Entry(k)
<1>1. /\ now \in 0 .. MaxTime /\ served[k] \in Seq(0 .. MaxTime)
      /\ limit[k] \in [count : Nat, since : Nat]
      /\ n \in Nat /\ c \in Nat /\ s \in Nat /\ now \in Nat
      /\ MaxPerWindow \in Nat /\ Window \in Nat \ {0} /\ MaxTime \in Nat
  BY Bounds DEF LInv, LimitTypes
<1>2. e \in [count : Nat, since : Nat]
  BY <1>1, EntryIs DEF Fresh
<1>3. /\ limit'[k] = [count |-> e.count + 1, since |-> e.since]
      /\ limit'[k].count = e.count + 1 /\ limit'[k].since = e.since
      /\ limit'[k] \in [count : Nat, since : Nat]
      /\ served'[k] = Append(served[k], now)
      /\ \A j \in Client \ {k} : limit'[j] = limit[j] /\ served'[j] = served[j]
  <2>1. [e EXCEPT !.count = @ + 1] = [count |-> e.count + 1, since |-> e.since]
    BY <1>2
  <2> QED
    BY <1>2, <2>1 DEF LInv, LimitTypes
<1>4. /\ Len(served'[k]) = n + 1
      /\ \A i \in 1 .. n : served'[k][i] = served[k][i]
      /\ served'[k][n + 1] = now
      /\ \A i \in 1 .. n : served[k][i] \in 0 .. MaxTime
  BY <1>1, <1>3
<1>5. LimitTypes'
  <2>1. Append(served[k], now) \in Seq(0 .. MaxTime)
    BY <1>1
  <2>2. limit' \in [Client -> [count : Nat, since : Nat]]
    BY <1>3 DEF LInv, LimitTypes
  <2> QED
    BY <2>1, <2>2 DEF LInv, LimitTypes
<1>6. ASSUME NEW j \in Client \ {k} PROVE Counted(j)' /\ (~setBack' => Ordered(j)')
  BY <1>3, <1>6 DEF LInv, Counted, Ordered
<1>7. limit'[k] # NoWindow /\ e.since \in 0 .. MaxTime
  <2>1. e.since \in 0 .. MaxTime
    BY <1>1, EntryIs DEF Fresh, LInv, Counted
  <2> QED
    BY <1>1, <1>3, <2>1 DEF NoWindow
<1>8. /\ c <= n /\ c <= MaxPerWindow /\ (limit[k] = NoWindow => n = 0)
      /\ Recent(served[k], n, c, s)
  BY DEF LInv, Counted
<1>9. \A i \in 1 .. n : served[k][i] \in Nat
  BY <1>4
<1>10. ~setBack => /\ Sorted(served[k], n, c, s, now, Window, MaxPerWindow)
                   /\ c = 0 => n = 0
                   /\ limit[k] # NoWindow /\ c = 0 => MaxPerWindow = 0
  BY DEF LInv, Ordered
<1>11. CASE /\ e = Fresh
            /\ limit[k] = NoWindow \/ setBack \/ s + Window <= now
  <2>1. e.count = 0 /\ e.since = now /\ MaxPerWindow > 0
    BY <1>1, <1>2, <1>11 DEF Fresh
  <2>2. Recent(served'[k], n + 1, 1, now)
    BY <1>1, <1>4 DEF Recent
  <2>3. Counted(k)'
    <3>1. 1 <= n + 1 /\ 1 <= MaxPerWindow
      BY <1>1, <2>1
    <3> QED
      BY <1>1, <1>3, <1>4, <1>7, <2>1, <2>2, <3>1 DEF Counted
  <2>4. ASSUME ~setBack PROVE Ordered(k)'
    <3>1. n > 0 => s + Window <= now
      BY <1>1, <1>8, <1>11, <2>4
    <3>2. Sorted(served'[k], n + 1, 1, now, now, Window, MaxPerWindow)
      <4> DEFINE q == served[k]  r == served'[k]
      <4>1. /\ \A i \in 1 .. n : q[i] \in Nat /\ r[i] = q[i]
            /\ r[n + 1] = now
        BY <1>4, <1>9
      <4>2. Sorted(q, n, c, s, now, Window, MaxPerWindow)
        BY <1>10, <2>4
      <4>3. /\ MaxPerWindow > 0 /\ Window > 0 /\ c <= n /\ c <= MaxPerWindow
            /\ (c = 0 => n = 0) /\ (n > 0 => s + Window <= now)
        BY <1>1, <1>8, <1>10, <2>1, <2>4, <3>1
      <4>4. /\ n \in Nat /\ c \in Nat /\ s \in Nat /\ now \in Nat
            /\ Window \in Nat /\ MaxPerWindow \in Nat
        BY <1>1
      <4> HIDE DEF n, c, s, q, r
      <4>5. Sorted(r, n + 1, 1, now, now, Window, MaxPerWindow)
        BY <4>1, <4>2, <4>3, <4>4, NewWindow
      <4> QED
        BY <4>5 DEF r
    <3> QED
      BY <1>1, <1>3, <1>4, <2>1, <3>2 DEF Ordered
  <2> QED
    BY <1>5, <1>6, <2>3, <2>4 DEF LInv
<1>12. CASE /\ e = limit[k] /\ limit[k] # NoWindow
            /\ s <= now /\ now < s + Window
  <2>1. e.count = c /\ e.since = s /\ c < MaxPerWindow
    BY <1>1, <1>12
  <2>2. Recent(served'[k], n + 1, c + 1, s)
    <3> SUFFICES ASSUME NEW i \in 1 .. n + 1, i > (n + 1) - (c + 1)
                 PROVE  served'[k][i] >= s
      BY DEF Recent
    <3>1. CASE i = n + 1
      BY <1>4, <1>12, <3>1
    <3>2. CASE i # n + 1
      <4> HIDE DEF n, c, s
      <4>1. i \in 1 .. n /\ i > n - c
        BY <1>1, <3>2
      <4> QED
        BY <1>4, <1>8, <4>1 DEF Recent
    <3> QED
      BY <3>1, <3>2
  <2>3. Counted(k)'
    <3>1. c + 1 <= n + 1 /\ c + 1 <= MaxPerWindow
      <4> HIDE DEF n, c
      <4> QED
        BY <1>1, <1>8, <2>1
    <3> QED
      BY <1>1, <1>3, <1>4, <1>7, <2>1, <2>2, <3>1 DEF Counted
  <2>4. ASSUME ~setBack PROVE Ordered(k)'
    <3>1. c > 0
      BY <1>1, <1>10, <1>12, <2>1, <2>4
    <3>2. Sorted(served'[k], n + 1, c + 1, s, now, Window, MaxPerWindow)
      <4> DEFINE q == served[k]  r == served'[k]
      <4>1. /\ \A i \in 1 .. n : q[i] \in Nat /\ r[i] = q[i]
            /\ r[n + 1] = now
        BY <1>4, <1>9
      <4>2. Sorted(q, n, c, s, now, Window, MaxPerWindow)
        BY <1>10, <2>4
      <4>3. c > 0 /\ c < MaxPerWindow /\ c <= n /\ s <= now
        BY <1>1, <1>8, <1>10, <1>12, <2>1, <2>4, <3>1
      <4>4. /\ n \in Nat /\ c \in Nat /\ s \in Nat /\ now \in Nat
            /\ Window \in Nat /\ MaxPerWindow \in Nat
        BY <1>1
      <4> HIDE DEF n, c, s, q, r
      <4>5. Sorted(r, n + 1, c + 1, s, now, Window, MaxPerWindow)
        BY <4>1, <4>2, <4>3, <4>4, SameWindow
      <4> QED
        BY <4>5 DEF r
    <3>3. c + 1 # 0
      BY <1>1
    <3> QED
      BY <1>3, <1>4, <1>12, <2>1, <3>2, <3>3 DEF Ordered
  <2> QED
    BY <1>5, <1>6, <2>3, <2>4 DEF LInv
<1> QED
  BY <1>11, <1>12, EntryIs

(* A message that is refused: its entry is stored all the same.            *)
LEMMA RefuseKeeps ==
  ASSUME LInv, NEW k \in Client, Entry(k).count >= MaxPerWindow,
         limit' = [limit EXCEPT ![k] = Entry(k)],
         UNCHANGED <<now, setBack, served>>
  PROVE  LInv'
<1>1. /\ now \in 0 .. MaxTime /\ limit[k] \in [count : Nat, since : Nat]
      /\ now \in Nat /\ MaxPerWindow \in Nat /\ MaxTime \in Nat
      /\ Len(served[k]) \in Nat /\ limit[k].count \in Nat
  BY Bounds DEF LInv, LimitTypes
<1>2. CASE Entry(k) = limit[k]
  BY <1>2 DEF LInv, LimitTypes, Counted, Ordered
<1>3. CASE Entry(k) = Fresh
  <2>1. MaxPerWindow = 0 /\ limit[k].count = 0
    BY <1>1, <1>3 DEF Fresh, LInv, Counted
  <2>2. /\ limit'[k] = Fresh /\ Fresh # NoWindow /\ Fresh.count = 0
        /\ Fresh.since = now /\ Fresh \in [count : Nat, since : Nat]
        /\ \A j \in Client \ {k} : limit'[j] = limit[j]
    BY <1>1, <1>3 DEF Fresh, NoWindow, LInv, LimitTypes
  <2>3. LimitTypes'
    BY <1>1, <1>3, <2>2 DEF LInv, LimitTypes
  <2>4. ASSUME NEW j \in Client \ {k} PROVE Counted(j)' /\ (~setBack' => Ordered(j)')
    BY <2>2, <2>4 DEF LInv, Counted, Ordered
  <2>5. Counted(k)'
    BY <1>1, <2>1, <2>2 DEF Counted, Recent
  <2>6. ASSUME ~setBack PROVE Ordered(k)'
    <3>1. Ordered(k)
      BY <2>6 DEF LInv
    <3>2. Len(served[k]) = 0
      BY <2>1, <3>1 DEF Ordered
    <3> QED
      BY <1>1, <2>1, <2>2, <3>2 DEF Ordered, Sorted
  <2> QED
    BY <2>3, <2>4, <2>5, <2>6 DEF LInv
<1> QED
  BY <1>2, <1>3, EntryIs

(* Every step of the server keeps the limiter's invariant.                 *)
LEMMA LimitStep == LInv /\ [Next]_vars => LInv'
<1> SUFFICES ASSUME LInv, [Next]_vars PROVE LInv'
  OBVIOUS
<1>1. ASSUME UNCHANGED <<now, setBack, limit, served>> PROVE LInv'
  BY <1>1 DEF LInv, LimitTypes, Counted, Ordered
<1>2. CASE CvmStep
  <2>1. ASSUME NEW k \in Client, CvmLimited(k) PROVE LInv'
    BY <2>1, RefuseKeeps DEF CvmLimited, Refused
  <2>2. ASSUME NEW k \in Client, NEW w \in CvmInput, CvmServe(k, w) PROVE LInv'
    BY <2>2, ServeKeeps DEF CvmServe, Refused
  <2> QED
    BY <1>1, <1>2, <2>1, <2>2 DEF CvmStep, CvmUnauthorized
<1>3. CASE Tick
  <2>1. now' \in 0 .. MaxTime /\ now \in Nat /\ now' = now + 1
    BY <1>3, Bounds DEF Tick, LInv, LimitTypes
  <2>2. LimitTypes'
    BY <1>3, <2>1 DEF Tick, LInv, LimitTypes
  <2>3. ASSUME NEW k \in Client PROVE Counted(k)'
    BY <1>3 DEF Tick, LInv, Counted
  <2>4. ASSUME NEW k \in Client, ~setBack' PROVE Ordered(k)'
    <3>1. Ordered(k) /\ UNCHANGED <<limit, served>>
      BY <1>3, <2>4 DEF Tick, LInv
    <3>2. limit[k].since \in Nat /\ \A i \in 1 .. Len(served[k]) : served[k][i] \in Nat
      <4>1. limit[k] \in [count : Nat, since : Nat] /\ served[k] \in Seq(0 .. MaxTime)
        BY DEF LInv, LimitTypes
      <4>2. \A i \in 1 .. Len(served[k]) : served[k][i] \in 0 .. MaxTime
        BY <4>1, ElementsOf
      <4> QED
        BY <4>1, <4>2, Bounds
    <3>3. \A i \in 1 .. Len(served[k]) : served[k][i] <= now'
      BY <2>1, <3>1, <3>2 DEF Ordered, Sorted
    <3>4. limit[k] # NoWindow => limit[k].since <= now'
      BY <2>1, <3>1, <3>2 DEF Ordered
    <3> QED
      BY <3>1, <3>3, <3>4 DEF Ordered, Sorted, NoWindow
  <2> QED
    BY <2>2, <2>3, <2>4 DEF LInv
<1>4. CASE ClockSetBack
  <2>1. now' \in 0 .. MaxTime
    BY <1>4, Bounds DEF ClockSetBack, LInv, LimitTypes
  <2> QED
    BY <1>4, <2>1 DEF ClockSetBack, LInv, LimitTypes, Counted
<1>5. CASE Kill
  <2>1. limit' = [k \in Client |-> NoWindow] /\ served' = [k \in Client |-> <<>>]
        /\ UNCHANGED <<now, setBack>>
    BY <1>5 DEF Kill
  <2>2. LimitTypes'
    <3>1. NoWindow \in [count : Nat, since : Nat]
      BY Bounds DEF NoWindow
    <3>2. <<>> \in Seq(0 .. MaxTime)
      OBVIOUS
    <3> QED
      BY <2>1, <3>1, <3>2 DEF LInv, LimitTypes
  <2>3. ASSUME NEW k \in Client PROVE Counted(k)' /\ Ordered(k)'
    BY <2>1, <2>3, Bounds DEF Counted, Ordered, Recent, Sorted, NoWindow
  <2> QED
    BY <2>2, <2>3 DEF LInv
<1>6. CASE \E a \in Input : TaskRequest(a) \/ McpRequest(a) \/ Remote(a)
  BY <1>1, <1>6 DEF TaskRequest, McpRequest, Remote
<1>7. CASE McpAuth \/ Operations \/ UNCHANGED vars
  BY <1>1, <1>7 DEF McpAuth, Operations, vars, frontVars
<1>8. CASE \/ SyncFetch /\ UNCHANGED frontVars
           \/ (\E e \in todo : SyncStep(e)) /\ UNCHANGED frontVars
  BY <1>1, <1>8 DEF frontVars
<1> QED
  BY <1>2, <1>3, <1>4, <1>5, <1>6, <1>7, <1>8 DEF Next

(* The limiter's invariant holds in every state.                           *)
LEMMA LimitInvariant == Spec => []LInv
  BY InitialLimits, LimitStep, PTL DEF Spec

(***************************************************************************)
(* Across a restart.                                                       *)
(***************************************************************************)

(* The first window of a run: those served within its length of the first  *)
(* message q[1] are at most M, and a later window begins after it.         *)
FirstWindow(q, n, c, s, W, M) ==
  /\ n > c => q[1] + W <= s
  /\ \A j \in 1 .. n : q[j] < q[1] + W => j <= M

(* The times of the run before: in order, none after those of this run,    *)
(* and less than twice the rate within the length of a window.             *)
Before(e, m, q, n, t, W, M) ==
  /\ \A i \in 1 .. m : e[i] <= t
  /\ \A i \in 1 .. m, j \in 1 .. n : e[i] <= q[j]
  /\ \A i, j \in 1 .. m : i <= j => e[i] <= e[j]
  /\ \A i, j \in 1 .. m : i <= j /\ e[j] < e[i] + W => j - i + 1 < 2 * M

Across(k) ==
  /\ FirstWindow(served[k], Len(served[k]), limit[k].count, limit[k].since,
                 Window, MaxPerWindow)
  /\ Before(earlier[k], Len(earlier[k]), served[k], Len(served[k]), now,
            Window, MaxPerWindow)

EInv ==
  /\ earlier \in [Client -> Seq(0 .. MaxTime)]
  /\ ~setBack => \A k \in Client : Across(k)

(* A message that begins a window is the first of all, or after the first  *)
(* window.                                                                 *)
LEMMA FirstNew ==
  ASSUME NEW n \in Nat, NEW c \in Nat, NEW s \in Nat, NEW t \in Nat,
         NEW W \in Nat, NEW M \in Nat, NEW q, NEW r,
         \A i \in 1 .. n : q[i] \in Nat /\ r[i] = q[i], r[n + 1] = t,
         M > 0, c <= n, n > 0 => s + W <= t,
         Sorted(q, n, c, s, t, W, M), FirstWindow(q, n, c, s, W, M)
  PROVE  FirstWindow(r, n + 1, 1, t, W, M)
<1>1. CASE n = 0
  BY <1>1 DEF FirstWindow
<1>2. CASE n > 0
  <2>1. 1 \in 1 .. n /\ q[1] \in Nat /\ r[1] = q[1]
    BY <1>2
  <2>2. q[1] + W <= t
    <3>1. CASE n > c
      BY <1>2, <2>1, <3>1 DEF FirstWindow
    <3>2. CASE n = c
      BY <1>2, <2>1, <3>2 DEF Sorted
    <3> QED
      BY <3>1, <3>2
  <2> QED
    BY <2>1, <2>2 DEF FirstWindow
<1> QED
  BY <1>1, <1>2

(* A message in the window that is open, which is the first or begins      *)
(* after the first.                                                        *)
LEMMA FirstSame ==
  ASSUME NEW n \in Nat, NEW c \in Nat, NEW s \in Nat, NEW t \in Nat,
         NEW W \in Nat, NEW M \in Nat, NEW q, NEW r,
         \A i \in 1 .. n : q[i] \in Nat /\ r[i] = q[i], r[n + 1] = t,
         c < M, c <= n, s <= t, n > 0, FirstWindow(q, n, c, s, W, M)
  PROVE  FirstWindow(r, n + 1, c + 1, s, W, M)
<1>1. 1 \in 1 .. n /\ q[1] \in Nat /\ r[1] = q[1]
  OBVIOUS
<1>2. CASE n > c
  BY <1>1, <1>2 DEF FirstWindow
<1>3. CASE n = c
  BY <1>1, <1>3 DEF FirstWindow
<1> QED
  BY <1>2, <1>3

(* One message more of this run is not before those of the run before.     *)
LEMMA BeforeMore ==
  ASSUME NEW n \in Nat, NEW m \in Nat, NEW t \in Nat, NEW W \in Nat,
         NEW M \in Nat, NEW e, NEW q, NEW r,
         \A i \in 1 .. n : r[i] = q[i], r[n + 1] = t,
         Before(e, m, q, n, t, W, M)
  PROVE  Before(e, m, r, n + 1, t, W, M)
<1>1. ASSUME NEW i \in 1 .. m, NEW j \in 1 .. n + 1 PROVE e[i] <= r[j]
  <2>1. CASE j \in 1 .. n
    BY <2>1 DEF Before
  <2>2. CASE j = n + 1
    BY <2>2 DEF Before
  <2> QED
    BY <2>1, <2>2
<1> QED
  BY <1>1 DEF Before

(* A message that is served.                                               *)
LEMMA ServeAcross ==
  ASSUME LInv, EInv, NEW k \in Client, ~(Entry(k).count >= MaxPerWindow),
         limit' = [limit EXCEPT ![k] = [Entry(k) EXCEPT !.count = @ + 1]],
         served' = [served EXCEPT ![k] = Append(served[k], now)],
         UNCHANGED <<now, setBack, earlier>>
  PROVE  EInv'
<1>1. CASE setBack
  BY <1>1 DEF EInv
<1>2. CASE ~setBack
  <2>1. PICK n, c, s, q, m, e :
          /\ n = Len(served[k]) /\ c = limit[k].count /\ s = limit[k].since
          /\ q = served[k] /\ m = Len(earlier[k]) /\ e = earlier[k]
    OBVIOUS
  <2>2. PICK r, x : r = Append(q, now) /\ x = Entry(k)
    OBVIOUS
  <2>3. /\ n \in Nat /\ c \in Nat /\ s \in Nat /\ now \in Nat /\ m \in Nat
        /\ MaxPerWindow \in Nat /\ Window \in Nat /\ q \in Seq(0 .. MaxTime)
        /\ x \in [count : Nat, since : Nat]
    <3>1. /\ limit[k] \in [count : Nat, since : Nat] /\ now \in Nat
          /\ served[k] \in Seq(0 .. MaxTime) /\ earlier[k] \in Seq(0 .. MaxTime)
      BY Bounds DEF LInv, LimitTypes, EInv
    <3>2. Entry(k) \in [count : Nat, since : Nat]
      BY <3>1, EntryIs DEF Fresh
    <3> QED
      BY <2>1, <2>2, <3>1, <3>2, Bounds
  <2>4. /\ Len(r) = n + 1 /\ r[n + 1] = now
        /\ \A i \in 1 .. n : q[i] \in Nat /\ r[i] = q[i]
    <3>1. \A i \in 1 .. n : q[i] \in 0 .. MaxTime
      BY <2>1, <2>3, ElementsOf
    <3>2. /\ Len(r) = n + 1 /\ r[n + 1] = now
          /\ \A i \in 1 .. n : r[i] = q[i]
      <4>1. n = Len(q) /\ q \in Seq(0 .. MaxTime) /\ now \in 0 .. MaxTime
        BY <2>1, <2>3 DEF LInv, LimitTypes
      <4> QED
        BY <2>2, <4>1
    <3> QED
      BY <3>1, <3>2, Bounds
  <2>5. /\ served'[k] = r /\ limit'[k].count = x.count + 1
        /\ limit'[k].since = x.since
        /\ \A j \in Client \ {k} : limit'[j] = limit[j] /\ served'[j] = served[j]
    <3>1. [x EXCEPT !.count = @ + 1] = [count |-> x.count + 1, since |-> x.since]
      BY <2>3
    <3> QED
      BY <2>1, <2>2, <3>1 DEF LInv, LimitTypes
  <2>6. /\ Sorted(q, n, c, s, now, Window, MaxPerWindow)
        /\ c <= n /\ (c = 0 => n = 0) /\ (limit[k] = NoWindow => n = 0)
        /\ limit[k] # NoWindow /\ c = 0 => MaxPerWindow = 0
    BY <1>2, <2>1 DEF LInv, Counted, Ordered
  <2>7. /\ FirstWindow(q, n, c, s, Window, MaxPerWindow)
        /\ Before(e, m, q, n, now, Window, MaxPerWindow)
    BY <1>2, <2>1 DEF EInv, Across
  <2>8. FirstWindow(r, n + 1, x.count + 1, x.since, Window, MaxPerWindow)
    <3>1. CASE /\ x = Fresh
               /\ limit[k] = NoWindow \/ setBack \/ s + Window <= now
      <4>1. x.count + 1 = 1 /\ x.since = now /\ MaxPerWindow > 0
        BY <2>2, <2>3, <3>1 DEF Fresh
      <4>2. n > 0 => s + Window <= now
        BY <1>2, <2>3, <2>6, <3>1
      <4>3. FirstWindow(r, n + 1, 1, now, Window, MaxPerWindow)
        BY <2>3, <2>4, <2>6, <2>7, <4>1, <4>2, FirstNew
      <4> QED
        BY <4>1, <4>3
    <3>2. CASE /\ x = limit[k] /\ limit[k] # NoWindow
               /\ s <= now /\ now < s + Window
      <4>1. x.count = c /\ x.since = s /\ c < MaxPerWindow
        BY <2>1, <2>2, <2>3, <3>2
      <4>2. n > 0
        BY <2>3, <2>6, <3>2, <4>1
      <4>3. FirstWindow(r, n + 1, c + 1, s, Window, MaxPerWindow)
        BY <2>3, <2>4, <2>6, <2>7, <3>2, <4>1, <4>2, FirstSame
      <4> QED
        BY <4>1, <4>3
    <3> QED
      BY <2>1, <2>2, <3>1, <3>2, EntryIs
  <2>9. Before(e, m, r, n + 1, now, Window, MaxPerWindow)
    BY <2>3, <2>4, <2>7, BeforeMore
  <2>10. Across(k)'
    BY <2>1, <2>4, <2>5, <2>8, <2>9 DEF Across
  <2>11. ASSUME NEW j \in Client \ {k} PROVE Across(j)'
    BY <1>2, <2>5, <2>11 DEF EInv, Across
  <2> QED
    BY <2>10, <2>11 DEF EInv
<1> QED
  BY <1>1, <1>2

(* A message that is refused.                                              *)
LEMMA RefuseAcross ==
  ASSUME LInv, EInv, NEW k \in Client, Entry(k).count >= MaxPerWindow,
         limit' = [limit EXCEPT ![k] = Entry(k)],
         UNCHANGED <<now, setBack, served, earlier>>
  PROVE  EInv'
<1>1. CASE setBack
  BY <1>1 DEF EInv
<1>2. CASE Entry(k) = limit[k]
  BY <1>2 DEF EInv, Across, LInv, LimitTypes
<1>3. CASE ~setBack /\ Entry(k) = Fresh
  <2>1. \A j \in Client \ {k} : limit'[j] = limit[j]
    BY DEF LInv, LimitTypes
  <2>2. limit'[k] = Fresh /\ Fresh.count = 0
    BY <1>3 DEF LInv, LimitTypes, Fresh
  <2>3. MaxPerWindow = 0 /\ limit[k].count = 0
    BY <1>3, Bounds DEF Fresh, LInv, LimitTypes, Counted
  <2>4. Len(served[k]) = 0
    BY <1>3, <2>3 DEF LInv, Ordered
  <2>5. Across(k)'
    BY <1>3, <2>2, <2>4 DEF EInv, Across, FirstWindow
  <2>6. ASSUME NEW j \in Client \ {k} PROVE Across(j)'
    BY <1>3, <2>1, <2>6 DEF EInv, Across
  <2> QED
    BY <2>5, <2>6 DEF EInv
<1> QED
  BY <1>1, <1>2, <1>3, EntryIs

(* Every step of the server keeps what is said across a restart.           *)
LEMMA AcrossStep == LInv /\ EInv /\ [Next]_vars => EInv'
<1> SUFFICES ASSUME LInv, EInv, [Next]_vars PROVE EInv'
  OBVIOUS
<1>1. ASSUME UNCHANGED <<now, setBack, limit, served, earlier>> PROVE EInv'
  BY <1>1 DEF EInv, Across
<1>2. CASE CvmStep
  <2>1. ASSUME NEW k \in Client, CvmLimited(k) PROVE EInv'
    BY <2>1, RefuseAcross DEF CvmLimited, Refused
  <2>2. ASSUME NEW k \in Client, NEW w \in CvmInput, CvmServe(k, w) PROVE EInv'
    BY <2>2, ServeAcross DEF CvmServe, Refused
  <2> QED
    BY <1>1, <1>2, <2>1, <2>2 DEF CvmStep, CvmUnauthorized
<1>3. CASE Tick
  <2>1. now \in Nat /\ now' = now + 1 /\ UNCHANGED <<limit, served, earlier, setBack>>
    BY <1>3, Bounds DEF Tick, LInv, LimitTypes
  <2>2. ASSUME NEW k \in Client, ~setBack PROVE Across(k)'
    <3>1. Across(k) /\ earlier[k] \in Seq(0 .. MaxTime)
      BY <2>2 DEF EInv
    <3>2. \A i \in 1 .. Len(earlier[k]) : earlier[k][i] \in 0 .. MaxTime
      BY <3>1, ElementsOf
    <3>3. \A i \in 1 .. Len(earlier[k]) : earlier[k][i] <= now'
      BY <2>1, <3>1, <3>2, Bounds DEF Across, Before
    <3> QED
      BY <2>1, <3>1, <3>3 DEF Across, Before
  <2> QED
    BY <2>1, <2>2 DEF EInv
<1>4. CASE ClockSetBack
  BY <1>4 DEF ClockSetBack, EInv
<1>5. CASE Kill
  <2>1. /\ limit' = [k \in Client |-> NoWindow]
        /\ served' = [k \in Client |-> <<>>] /\ earlier' = served
        /\ UNCHANGED <<now, setBack>>
    BY <1>5 DEF Kill
  <2>2. earlier' \in [Client -> Seq(0 .. MaxTime)]
    BY <2>1 DEF LInv, LimitTypes
  <2>3. ASSUME NEW k \in Client, ~setBack PROVE Across(k)'
    <3>1. Len(served'[k]) = 0 /\ limit'[k].count = 0 /\ earlier'[k] = served[k]
      BY <2>1 DEF NoWindow
    <3>2. Sorted(served[k], Len(served[k]), limit[k].count, limit[k].since, now,
                 Window, MaxPerWindow)
      BY <2>3 DEF LInv, Ordered
    <3> QED
      BY <2>1, <3>1, <3>2 DEF Across, FirstWindow, Before, Sorted
  <2> QED
    BY <2>1, <2>2, <2>3 DEF EInv
<1>6. CASE \E a \in Input : TaskRequest(a) \/ McpRequest(a) \/ Remote(a)
  BY <1>1, <1>6 DEF TaskRequest, McpRequest, Remote
<1>7. CASE McpAuth \/ Operations \/ UNCHANGED vars
  BY <1>1, <1>7 DEF McpAuth, Operations, vars, frontVars
<1>8. CASE \/ SyncFetch /\ UNCHANGED frontVars
           \/ (\E e \in todo : SyncStep(e)) /\ UNCHANGED frontVars
  BY <1>1, <1>8 DEF frontVars
<1> QED
  BY <1>2, <1>3, <1>4, <1>5, <1>6, <1>7, <1>8 DEF Next

(* Nothing has been served, in this run or before.                         *)
LEMMA InitialAcross == Init => EInv
<1> SUFFICES ASSUME Init PROVE EInv
  OBVIOUS
<1>1. \A k \in Client : served[k] = <<>> /\ earlier[k] = <<>> /\ limit[k].count = 0
  BY DEF Init, NoWindow
<1>2. <<>> \in Seq(0 .. MaxTime) /\ Len(<<>>) = 0
  OBVIOUS
<1>3. earlier \in [Client -> Seq(0 .. MaxTime)]
  BY <1>2 DEF Init
<1>4. ASSUME NEW k \in Client PROVE Across(k)
  BY <1>1, <1>2 DEF Across, FirstWindow, Before
<1> QED
  BY <1>3, <1>4 DEF EInv

(* It holds in every state.                                                *)
LEMMA AcrossInvariant == Spec => []EInv
<1>1. Init => LInv /\ EInv
  BY InitialLimits, InitialAcross
<1>2. LInv /\ EInv /\ [Next]_vars => (LInv /\ EInv)'
  BY LimitStep, AcrossStep
<1> QED
  BY <1>1, <1>2, PTL DEF Spec

(* A client is served less than twice its rate within the length of a      *)
(* window, and less than three times if the server was started again in    *)
(* between, for every rate and window, unless the clock is set back.       *)
THEOREM NotTwiceTheRate == Spec => []BelowTwiceTheRate
<1>1. LInv /\ EInv => BelowTwiceTheRate
  <2> SUFFICES ASSUME LInv, EInv, ~setBack, NEW k \in Client
               PROVE  /\ \A i, j \in DOMAIN served[k] :
                           i <= j /\ served[k][j] < served[k][i] + Window
                             => j - i + 1 < 2 * MaxPerWindow
                      /\ \A i \in DOMAIN earlier[k], j \in DOMAIN served[k] :
                           served[k][j] < earlier[k][i] + Window
                             => (Len(earlier[k]) - i + 1) + j < 3 * MaxPerWindow
    BY DEF BelowTwiceTheRate
  <2>1. PICK n, q, m, e :
          n = Len(served[k]) /\ q = served[k] /\ m = Len(earlier[k]) /\ e = earlier[k]
    OBVIOUS
  <2>2. /\ n \in Nat /\ m \in Nat /\ DOMAIN q = 1 .. n /\ DOMAIN e = 1 .. m
        /\ q \in Seq(0 .. MaxTime) /\ e \in Seq(0 .. MaxTime)
    BY <2>1 DEF LInv, LimitTypes, EInv
  <2>3. /\ \A i \in 1 .. n : q[i] \in Nat
        /\ \A i \in 1 .. m : e[i] \in Nat
    BY <2>1, <2>2, ElementsOf, Bounds
  <2>4. PICK c, s : Sorted(q, n, c, s, now, Window, MaxPerWindow)
    BY <2>1 DEF LInv, Ordered
  <2>5. Before(e, m, q, n, now, Window, MaxPerWindow)
    BY <2>1 DEF EInv, Across
  <2>6. \A j \in 1 .. n : q[j] < q[1] + Window => j <= MaxPerWindow
    BY <2>1 DEF EInv, Across, FirstWindow
  <2>7. ASSUME NEW i \in 1 .. m, NEW j \in 1 .. n, q[j] < e[i] + Window
        PROVE  (m - i + 1) + j < 3 * MaxPerWindow
    <3>1. 1 \in 1 .. n /\ m \in 1 .. m
      BY <2>2
    <3>2. e[i] <= q[1] /\ e[m] <= q[j]
      BY <3>1, <2>5 DEF Before
    <3>3. q[j] < q[1] + Window /\ e[m] < e[i] + Window
      BY <2>3, <2>7, <3>1, <3>2, Bounds
    <3>4. j <= MaxPerWindow
      BY <2>6, <3>3
    <3>5. m - i + 1 < 2 * MaxPerWindow
      BY <2>5, <3>1, <3>3 DEF Before
    <3> QED
      BY <2>2, <3>4, <3>5, Bounds
  <2> QED
    BY <2>1, <2>2, <2>4, <2>7 DEF Sorted
<1> QED
  BY <1>1, LimitInvariant, AcrossInvariant, PTL

(* A client that is refused has been served its rate within the length of  *)
(* a window, the clock set back or not: a difference of times that wraps   *)
(* around begins a new window, it never extends one.                       *)
THEOREM RefusedOwn == Spec => []RefusedForItsOwn
<1>1. LInv => RefusedForItsOwn
  <2> SUFFICES ASSUME LInv, NEW k \in Client, Entry(k).count >= MaxPerWindow
               PROVE  Cardinality({i \in DOMAIN served[k] :
                                     served[k][i] + Window > now})
                        >= MaxPerWindow
    BY DEF RefusedForItsOwn, Refused
  <2> DEFINE n == Len(served[k])  c == limit[k].count  s == limit[k].since
             S == {i \in 1 .. n : served[k][i] + Window > now}
  <2>1. /\ n \in Nat /\ c \in Nat /\ s \in Nat /\ now \in Nat
        /\ MaxPerWindow \in Nat /\ Window \in Nat /\ c <= n
        /\ c <= MaxPerWindow /\ Recent(served[k], n, c, s)
        /\ DOMAIN served[k] = 1 .. n
        /\ \A i \in 1 .. n : served[k][i] \in Nat
    BY Bounds DEF LInv, LimitTypes, Counted
  <2> HIDE DEF n
  <2>2. IsFiniteSet(S) /\ Cardinality(S) \in Nat
    <3>1. IsFiniteSet(1 .. n)
      BY <2>1, FS_Interval
    <3>2. S \in SUBSET (1 .. n)
      OBVIOUS
    <3> HIDE DEF S
    <3> QED
      BY <3>1, <3>2, FS_Subset, FS_CardinalityType
  <2>3. CASE Entry(k) = Fresh
    <3>1. MaxPerWindow = 0
      BY <2>1, <2>3 DEF Fresh
    <3> QED
      BY <2>1, <2>2, <3>1
  <2>4. CASE Entry(k) = limit[k] /\ s <= now /\ now < s + Window
    <3>1. c = MaxPerWindow
      BY <2>1, <2>4
    <3> HIDE DEF c, s
    <3>2. (n - c + 1) .. n \in SUBSET S
      <4> SUFFICES ASSUME NEW i \in (n - c + 1) .. n PROVE i \in S
        OBVIOUS
      <4>1. i \in 1 .. n /\ i > n - c
        BY <2>1
      <4>2. served[k][i] >= s /\ served[k][i] \in Nat
        BY <2>1, <4>1 DEF Recent
      <4> QED
        BY <2>1, <2>4, <4>1, <4>2
    <3>3. Cardinality((n - c + 1) .. n) = c
      BY <2>1, FS_Interval
    <3>4. Cardinality((n - c + 1) .. n) <= Cardinality(S)
      BY <2>2, <3>2, FS_Subset
    <3> QED
      BY <2>1, <2>2, <3>1, <3>3, <3>4
  <2> QED
    BY <2>3, <2>4, EntryIs
<1> QED
  BY <1>1, LimitInvariant, PTL
-----------------------------------------------------------------------------
(***************************************************************************)
(* Calls.                                                                  *)
(***************************************************************************)

Call == [id : 1 .. MaxLoad, via : {"task", "mcp", "cvm"}, args : Args,
         step : {"check", "create", "publish", "write"}]

(* Every call under way has brought its load with it, so that there is a   *)
(* number left for the next one.                                           *)
Few == IsFiniteSet(calls) /\ Cardinality(calls) <= load

CInv ==
  /\ calls \subseteq Call /\ Few
  /\ gap \subseteq Group /\ {stdio, session} \subseteq BOOLEAN
  /\ load \in 0 .. MaxLoad /\ faults \in 0 .. MaxFault

(* One element more makes a set larger by one at most.                     *)
LEMMA OneMore ==
  ASSUME NEW S, IsFiniteSet(S), NEW x, NEW n \in Nat, NEW m \in Nat,
         Cardinality(S) + 1 <= n, n <= m
  PROVE  IsFiniteSet(S \cup {x}) /\ Cardinality(S \cup {x}) <= m
<1>1. Cardinality(S) \in Nat
  BY FS_CardinalityType
<1>2. /\ IsFiniteSet(S \cup {x})
      /\ Cardinality(S \cup {x}) = IF x \in S THEN Cardinality(S)
                                    ELSE Cardinality(S) + 1
  BY FS_AddElement
<1> QED
  BY <1>1, <1>2

(* While the load is below its bound, a number is free.                    *)
LEMMA FreeId ==
  ASSUME calls \subseteq Call, Few, load \in Nat, load < MaxLoad
  PROVE  \E i \in 1 .. MaxLoad : \A c \in calls : c.id # i
<1> SUFFICES ASSUME \A i \in 1 .. MaxLoad : \E c \in calls : c.id = i
             PROVE  FALSE
  OBVIOUS
<1> DEFINE f == [i \in 1 .. MaxLoad |-> CHOOSE c \in calls : c.id = i]
<1>1. MaxLoad \in Nat
  BY RequestsAssumption
<1>2. \A i \in 1 .. MaxLoad : f[i] \in calls /\ f[i].id = i
  OBVIOUS
<1>3. f \in [1 .. MaxLoad -> calls]
  BY <1>2
<1>4. \A i, j \in 1 .. MaxLoad : f[i] = f[j] => i = j
  BY <1>2
<1>5. IsFiniteSet(1 .. MaxLoad) /\ Cardinality(1 .. MaxLoad) = MaxLoad
  BY <1>1, FS_Interval
<1>6. IsFiniteSet(calls) /\ Cardinality(calls) < Cardinality(1 .. MaxLoad)
  BY <1>1, <1>5, FS_CardinalityType DEF Few
<1> DEFINE S == 1 .. MaxLoad
<1>7. /\ f \in [S -> calls] /\ IsFiniteSet(S) /\ IsFiniteSet(calls)
      /\ Cardinality(calls) < Cardinality(S)
  BY <1>3, <1>5, <1>6
<1>8. \A i, j \in S : f[i] = f[j] => i = j
  BY <1>4
<1> HIDE DEF f, S
<1>9. \E i, j \in S : i # j /\ f[i] = f[j]
  BY ONLY <1>7, FS_PigeonHole
<1> QED
  BY <1>8, <1>9

(* A call that begins with the load it brings.                             *)
LEMMA StartKeeps ==
  ASSUME CInv, NEW n \in {1, 2}, load + n <= MaxLoad, load' = load + n,
         NEW via \in {"task", "mcp", "cvm"}, NEW args \in Args,
         Start(via, args), UNCHANGED <<gap, stdio, session, faults>>
  PROVE  CInv'
<1> DEFINE free == {i \in 1 .. MaxLoad : \A c \in calls : c.id # i}
           id == CHOOSE i \in free : TRUE
<1>1. load \in Nat /\ MaxLoad \in Nat /\ n \in Nat /\ n > 0
  BY RequestsAssumption DEF CInv
<1>2. free # {}
  BY <1>1, FreeId DEF CInv
<1>3. id \in 1 .. MaxLoad
  BY <1>2
<1>4. PICK c : c = [id |-> id, via |-> via, args |-> args, step |-> "check"]
  OBVIOUS
<1>5. c \in Call /\ calls' = calls \cup {c}
  BY <1>3, <1>4 DEF Call, Start, Begin
<1>6. IsFiniteSet(calls) /\ Cardinality(calls) \in Nat /\ Cardinality(calls) <= load
  BY FS_CardinalityType DEF CInv, Few
<1>7. Few'
  <2>1. /\ load + n \in Nat /\ Cardinality(calls) + 1 <= load + n
        /\ load + n <= load + n
    BY <1>1, <1>6
  <2>2. IsFiniteSet(calls') /\ Cardinality(calls') <= load + n
    BY <1>5, <1>6, <2>1, OneMore
  <2> QED
    BY <2>2 DEF Few
<1> QED
  BY <1>1, <1>5, <1>7 DEF CInv

(* The queries of a call go on as its operation says, and end with it.     *)
LEMMA GoOnKeeps ==
  ASSUME CInv, NEW c \in calls,
         \/ End(c)
         \/ \E s \in {"create", "publish", "write"} : GoOn(c, s),
         UNCHANGED <<gap, frontVars>>
  PROVE  CInv'
<1>1. c \in Call /\ UNCHANGED <<gap, stdio, session, load, faults>>
  BY DEF CInv, frontVars
<1>2. IsFiniteSet(calls) /\ Cardinality(calls) \in Nat /\ load \in Nat
      /\ Cardinality(calls) <= load
  BY FS_CardinalityType DEF CInv, Few
<1>3. IsFiniteSet(calls \ {c}) /\ Cardinality(calls \ {c}) = Cardinality(calls) - 1
  BY <1>2, FS_RemoveElement
<1>4. CASE End(c)
  <2>1. calls' = calls \ {c}
    BY <1>4 DEF End
  <2>2. Few'
    BY <1>1, <1>2, <1>3, <2>1 DEF Few
  <2> QED
    BY <1>1, <2>1, <2>2 DEF CInv
<1>5. ASSUME NEW s \in {"create", "publish", "write"}, GoOn(c, s) PROVE CInv'
  <2>1. PICK d : d = [c EXCEPT !.step = s]
    OBVIOUS
  <2>2. d \in Call
    BY <1>1, <2>1 DEF Call
  <2>3. calls' = (calls \ {c}) \cup {d}
    BY <1>5, <2>1 DEF GoOn
  <2>4. PICK R : R = calls \ {c}
    OBVIOUS
  <2>5. IsFiniteSet(R) /\ Cardinality(R) = Cardinality(calls) - 1
    BY <1>3, <2>4
  <2>6. Cardinality(R) + 1 <= load /\ load <= load
    BY <1>2, <2>5
  <2>7. IsFiniteSet(R \cup {d}) /\ Cardinality(R \cup {d}) <= load
    BY <1>2, <2>5, <2>6, OneMore
  <2>8. Few'
    BY <1>1, <2>3, <2>4, <2>7 DEF Few
  <2> QED
    BY <1>1, <2>2, <2>3, <2>8 DEF CInv
<1> QED
  BY <1>4, <1>5

(* Every step of the server keeps the calls as they should be.             *)
LEMMA CallsStep == GInv /\ CInv /\ [Next]_vars => CInv'
<1> SUFFICES ASSUME GInv, CInv, [Next]_vars PROVE CInv'
  OBVIOUS
<1>1. /\ Input \subseteq Args /\ CvmInput \subseteq Input \cup {Ping}
      /\ MaxLoad \in Nat /\ MaxFault \in Nat
  BY RequestsAssumption
<1>2. load \in Nat /\ faults \in Nat
  BY <1>1 DEF CInv
<1>3. ASSUME UNCHANGED <<calls, gap, stdio, session, load, faults>> PROVE CInv'
  BY <1>3 DEF CInv, Few
<1>4. ASSUME UNCHANGED <<calls, gap, stdio, session, faults>>,
             load' \in load .. MaxLoad
      PROVE  CInv'
  <2>1. Cardinality(calls) \in Nat
    BY FS_CardinalityType DEF CInv, Few
  <2>2. Few'
    BY <1>2, <1>4, <2>1 DEF CInv, Few
  <2> QED
    BY <1>2, <1>4, <2>2 DEF CInv
<1>5. ASSUME NEW a \in Input, TaskRequest(a) PROVE CInv'
  BY <1>1, <1>5, StartKeeps DEF TaskRequest, Issue
<1>6. ASSUME NEW a \in Input, McpRequest(a) PROVE CInv'
  BY <1>1, <1>6, StartKeeps DEF McpRequest, Issue
<1>7. ASSUME NEW a \in Input, Remote(a) PROVE CInv'
  BY <1>1, <1>2, <1>4, <1>7 DEF Remote, Issue, RemoteGroup
<1>8. CASE McpAuth
  BY <1>8 DEF McpAuth, groupVars, CInv, Few
<1>9. CASE CvmStep
  <2>1. ASSUME NEW k \in Client, CvmUnauthorized(k) \/ CvmLimited(k) PROVE CInv'
    BY <1>1, <1>2, <1>4, <2>1
       DEF CvmUnauthorized, CvmLimited, CvmReceive, groupVars
  <2>2. ASSUME NEW k \in Client, NEW w \in CvmInput, CvmServe(k, w) PROVE CInv'
    <3>1. CASE w = Ping
      BY <1>1, <1>2, <1>4, <2>2, <3>1 DEF CvmServe, CvmReceive
    <3>2. CASE w # Ping
      <4>1. w \in Args /\ Start("cvm", w) /\ UNCHANGED <<gap, stdio, session, faults>>
        BY <1>1, <2>2, <3>2 DEF CvmServe
      <4>2. load + 1 <= MaxLoad /\ load' = load + 1
        BY <1>1, <1>2, <2>2 DEF CvmServe, CvmReceive
      <4> QED
        BY <4>1, <4>2, StartKeeps
    <3> QED
      BY <3>1, <3>2
  <2> QED
    BY <1>9, <2>1, <2>2 DEF CvmStep
<1>10. CASE Tick
  BY <1>3, <1>10 DEF Tick, groupVars
<1>11. CASE ClockSetBack
  <2>1. faults' \in 0 .. MaxFault
    BY <1>1, <1>2, <1>11 DEF ClockSetBack, Fault
  <2> QED
    BY <1>11, <2>1 DEF ClockSetBack, groupVars, CInv, Few
<1>12. CASE Kill
  <2>1. faults' \in 0 .. MaxFault /\ calls' = {} /\ gap' = {}
        /\ session' = FALSE /\ UNCHANGED <<stdio, load>>
    BY <1>1, <1>2, <1>12 DEF Kill, Fault, GroupsKilled
  <2>2. Few'
    BY <1>2, <2>1, FS_EmptySet DEF Few
  <2> QED
    BY <2>1, <2>2 DEF CInv
<1>13. CASE Operations
  <2>1. PICK c \in calls : CallStep(c) /\ UNCHANGED frontVars
    BY <1>13 DEF Operations
  <2>2. gap' = gap
    BY <2>1 DEF CallStep, CreateCheck, CreateRow, CreatePublish, AddCheck,
       AddPush, RemoveCheck, RemoveWrite
  <2>3. End(c) \/ \E s \in {"create", "publish", "write"} : GoOn(c, s)
    BY <2>1 DEF CallStep, CreateCheck, CreateRow, CreatePublish, AddCheck,
       AddPush, RemoveCheck, RemoveWrite
  <2> QED
    BY <2>1, <2>2, <2>3, GoOnKeeps
<1>14. CASE SyncFetch /\ UNCHANGED frontVars
  BY <1>3, <1>14 DEF SyncFetch, frontVars
<1>15. ASSUME NEW e \in todo, SyncStep(e), UNCHANGED frontVars
       PROVE  CInv'
  <2>1. e.group \in Group
    BY DEF GInv, GroupTypes
  <2>2. gap' \subseteq Group /\ calls' = calls
    BY <1>15, <2>1 DEF SyncStep, SyncDelete, SyncCreate
  <2> QED
    BY <1>15, <2>2 DEF frontVars, CInv, Few
<1> QED
  BY <1>3, <1>5, <1>6, <1>7, <1>8, <1>9, <1>10, <1>11, <1>12, <1>13, <1>14,
     <1>15 DEF Next, vars, groupVars, frontVars
(* No call is under way at first.                                          *)
LEMMA InitialCalls == Init => CInv
<1>1. IsFiniteSet({}) /\ Cardinality({}) = 0
  BY FS_EmptySet
<1>2. MaxLoad \in Nat /\ MaxFault \in Nat
  BY RequestsAssumption
<1> SUFFICES ASSUME Init PROVE CInv
  OBVIOUS
<1>3. calls = {} /\ gap = {} /\ load = 0 /\ faults = 0 /\ {stdio, session} \subseteq BOOLEAN
  BY DEF Init, GroupsInit
<1> QED
  BY <1>1, <1>2, <1>3 DEF CInv, Few

(* The group, limiter and call parts keep their types, and the number of a *)
(* call is always one of those the bound on the load allows: a number is   *)
(* only given to a call when the load leaves one free.                     *)
THEOREM TypesHold == Spec => []TypeOK
<1>1. Spec => [](GInv /\ CInv /\ LInv)
  <2>1. Init => GInv /\ CInv /\ LInv
    BY InitialGroups, InitialCalls, InitialLimits
  <2>2. GInv /\ CInv /\ LInv /\ [Next]_vars => (GInv /\ CInv /\ LInv)'
    BY GroupStep, CallsStep, LimitStep
  <2> QED
    BY <2>1, <2>2, PTL DEF Spec
<1>2. GInv /\ CInv /\ LInv /\ EInv => TypeOK
  <2> SUFFICES ASSUME GInv, CInv, LInv, EInv PROVE TypeOK
    OBVIOUS
  <2>1. \A k \in Client : limit[k] \in [count : 0 .. MaxPerWindow, since : Nat]
    BY Bounds DEF LInv, LimitTypes, Counted
  <2>2. limit \in [Client -> [count : 0 .. MaxPerWindow, since : Nat]]
    BY <2>1 DEF LInv, LimitTypes
  <2> QED
    BY <2>2 DEF GInv, GroupTypes, CInv, Call, LInv, LimitTypes, EInv, TypeOK
<1> QED
  BY <1>1, <1>2, AcrossInvariant, PTL
=============================================================================
