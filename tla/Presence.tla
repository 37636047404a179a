------------------------------ MODULE Presence ------------------------------
(***************************************************************************)
(* Who counts as online: the heartbeats of the connections, the scanner    *)
(* that takes away the users who have ceased to answer, and the            *)
(* presence_change events both send to the contacts of a user              *)
(* (internal/service/heartbeat.go over internal/repository/connection.go). *)
(*                                                                         *)
(* A user has a key in Redis that holds the time of the last heartbeat.    *)
(* Each call of Redis is a step, so that heartbeats and the scanner        *)
(* interleave between any two of them; the keys outlive the process.       *)
(*                                                                         *)
(* Time is discrete, its unit is delta (5 s).  A key is represented by its *)
(* age, which stops to grow once it is older than every threshold.  The    *)
(* calls of a heartbeat and of a scan are assumed to take less than a      *)
(* unit: no time passes while one is in progress.  A client that has been  *)
(* cut off is assumed not to connect again within the same unit.           *)
(*                                                                         *)
(* The operators named Bug... are mistaken versions of the operator that   *)
(* follows them, used by no action.                                        *)
(***************************************************************************)
EXTENDS Naturals

CONSTANTS
  Users,          \* the users
  NoUser,         \* no user
  Sessions,       \* the WebSocket connections
  Contacts,       \* Contacts[u]: who shares a private chat with u
  Scanner,        \* the goroutine of offlineScanner
  Interval,       \* hs.interval = pongWait, in units of time
  Delta,          \* hs.delta
  ScanInterval    \* hs.offlineScannerInterval

ASSUME PresenceAssumption ==
  /\ Contacts \in [Users -> SUBSET Users]
  /\ \A u, v \in Users : v \in Contacts[u] => u # v /\ u \in Contacts[v]
  /\ Scanner \notin Sessions /\ NoUser \notin Users
  /\ Interval \in Nat \ {0} /\ Delta \in Nat \ {0} /\ ScanInterval \in Nat \ {0}

VARIABLES
  up,         \* whether the process runs
  keys,       \* the users with a key user:online:u
  age,        \* age[u]: the time since the timestamp in the key, Old if there is no key
  conn,       \* conn[s]: whether connection s is closed, connecting or open
  user,       \* user[s]: the user of connection s, while it is not closed
  idle,       \* idle[s]: the time since the read deadline of s was moved, or whether
              \* some has passed since s was closed
  view,       \* view[s][u]: what the client of s was last told of u
  call,       \* call[p]: where the heartbeat of connection p, or the scanner, is
  list,       \* the users the scanner has found gone and not yet removed
  timer       \* the time since the last tick of the scanner's ticker

vars == <<up, keys, age, conn, user, idle, view, call, list, timer>>

Threshold == Interval + 2 * Delta
Old == Threshold + 1

Callers == Sessions \union {Scanner}

\* The locals of a heartbeat or of the scanner: the user it is about, whether he is
\* announced as online, the contacts still to be looked up and those to be told
NoCall == [step |-> "none", user |-> NoUser, online |-> FALSE, ask |-> {}, tell |-> {}]

Call == [step : {"none", "set", "ask", "tell"}, user : Users \union {NoUser},
         online : BOOLEAN, ask : SUBSET Users, tell : SUBSET Users]

Busy(p) == call[p].step # "none"
Continue(p, locals) == call' = [call EXCEPT ![p] = locals]
Done(p) == Continue(p, NoCall)

Connected(u) == \E s \in Sessions : user[s] = u /\ conn[s] = "open"

\* IsUserOnline
IsUserOnline(u) == u \in keys /\ age[u] <= Threshold

-----------------------------------------------------------------------------
(* Heartbeats *)

BugIntervalForgotten(u) == age[u] > Delta

\* An error of GetOnlineStatus leaves the zero time, which is long ago
WasOffline(u) == age[u] > Interval + Delta

\* HandleHeartbeat, up to GetOnlineStatus
Heartbeat(s, u) ==
  /\ ~Busy(s)
  /\ Continue(s, [NoCall EXCEPT !.step = "set", !.user = u, !.online = WasOffline(u)])
  /\ UNCHANGED <<up, keys, age, list, timer>>

\* HandleConn: the first heartbeat comes before Subscribe
Connect(s, u) ==
  /\ up
  /\ conn[s] = "closed"
  /\ idle[s] > 0
  /\ Heartbeat(s, u)
  /\ conn' = [conn EXCEPT ![s] = "connecting"]
  /\ user' = [user EXCEPT ![s] = u]
  /\ UNCHANGED <<idle, view>>

BugDeadlineOnly(s) ==
  /\ conn[s] = "open"
  /\ idle[s] > 0
  /\ idle' = [idle EXCEPT ![s] = 0]
  /\ UNCHANGED <<up, keys, age, conn, user, view, call, list, timer>>

\* The pong handler; a pong answers a ping, and pings are a period apart
Pong(s) ==
  /\ conn[s] = "open"
  /\ idle[s] > 0
  /\ Heartbeat(s, user[s])
  /\ idle' = [idle EXCEPT ![s] = 0]
  /\ UNCHANGED <<conn, user, view>>

BugSetIfOffline(s) ==
  LET u == call[s].user IN
  /\ call[s].step = "set"
  /\ IF call[s].online
     THEN /\ keys' = keys \union {u}
          /\ age' = [age EXCEPT ![u] = 0]
          /\ Continue(s, [call[s] EXCEPT !.step = "ask", !.ask = Contacts[u]])
     ELSE Done(s) /\ UNCHANGED <<keys, age>>
  /\ UNCHANGED <<up, conn, user, idle, view, list, timer>>

\* UpdateOnlineStatus, then the contacts are looked up if the user was offline
SetStamp(s) ==
  LET u == call[s].user IN
  /\ call[s].step = "set"
  /\ keys' = keys \union {u}
  /\ age' = [age EXCEPT ![u] = 0]
  /\ IF call[s].online
     THEN Continue(s, [call[s] EXCEPT !.step = "ask", !.ask = Contacts[u]])
     ELSE Done(s)
  /\ UNCHANGED <<up, conn, user, idle, view, list, timer>>

\* HandleConn after the first heartbeat: the client listens from now on
Subscribe(s) ==
  /\ conn[s] = "connecting"
  /\ ~Busy(s)
  /\ conn' = [conn EXCEPT ![s] = "open"]
  /\ idle' = [idle EXCEPT ![s] = 0]
  /\ UNCHANGED <<up, keys, age, user, view, call, list, timer>>

\* The client is gone, or its read deadline has passed; the key stays
Close(s) ==
  /\ conn[s] = "open"
  /\ ~Busy(s)
  /\ conn' = [conn EXCEPT ![s] = "closed"]
  /\ user' = [user EXCEPT ![s] = NoUser]
  /\ idle' = [idle EXCEPT ![s] = 0]
  /\ view' = [view EXCEPT ![s] = [u \in Users |-> "unknown"]]
  /\ UNCHANGED <<up, keys, age, call, list, timer>>

-----------------------------------------------------------------------------
(* notifyPresenceChange *)

BugPongExpected(v) == v \in keys /\ age[v] < Interval
Interested(v) == v \in keys /\ age[v] < Threshold

\* getInterestedUsers: one turn of the loop over the contacts, in any order
Ask(p, v) ==
  LET c == call[p] IN
  /\ c.step = "ask"
  /\ v \in c.ask
  /\ Continue(p, [c EXCEPT !.ask = @ \ {v},
                           !.tell = IF Interested(v) THEN @ \union {v} ELSE @])
  /\ UNCHANGED <<up, keys, age, conn, user, idle, view, list, timer>>

Asked(p) ==
  /\ call[p].step = "ask"
  /\ call[p].ask = {}
  /\ IF call[p].tell = {} THEN Done(p)
     ELSE Continue(p, [call[p] EXCEPT !.step = "tell"])
  /\ UNCHANGED <<up, keys, age, conn, user, idle, view, list, timer>>

\* Produce on the channel of v: every connection of v that has subscribed gets it
Tell(p, v) ==
  LET c == call[p] IN
  /\ c.step = "tell"
  /\ v \in c.tell
  /\ view' = [s \in Sessions |->
                IF user[s] = v /\ conn[s] = "open"
                THEN [view[s] EXCEPT ![c.user] = IF c.online THEN "online" ELSE "offline"]
                ELSE view[s]]
  /\ IF c.tell = {v} THEN Done(p)
     ELSE Continue(p, [c EXCEPT !.tell = @ \ {v}])
  /\ UNCHANGED <<up, keys, age, conn, user, idle, list, timer>>

-----------------------------------------------------------------------------
(* The scanner *)

TooOld(u) == age[u] > Threshold

\* GetAllOnlineUsers: one step, as what it reads of a user depends on the heartbeats of
\* that user alone; each timestamp is used later as it was read here
ScanRead ==
  /\ up
  /\ timer = ScanInterval
  /\ list' = {u \in keys : TooOld(u)}
  /\ timer' = 0
  /\ UNCHANGED <<up, keys, age, conn, user, idle, view, call>>

BugKeyKept(u) ==
  /\ u \in list
  /\ ~Busy(Scanner)
  /\ list' = list \ {u}
  /\ Continue(Scanner, [NoCall EXCEPT !.step = "ask", !.user = u, !.ask = Contacts[u]])
  /\ UNCHANGED <<up, keys, age, conn, user, idle, view, timer>>

BugSilent(u) ==
  /\ u \in list
  /\ ~Busy(Scanner)
  /\ list' = list \ {u}
  /\ keys' = keys \ {u}
  /\ age' = [age EXCEPT ![u] = Old]
  /\ UNCHANGED <<up, conn, user, idle, view, call, timer>>

\* DeleteOnlineStatus, whatever the key holds by now
ScanDelete(u) ==
  /\ u \in list
  /\ ~Busy(Scanner)
  /\ list' = list \ {u}
  /\ keys' = keys \ {u}
  /\ age' = [age EXCEPT ![u] = Old]
  /\ Continue(Scanner, [NoCall EXCEPT !.step = "ask", !.user = u, !.ask = Contacts[u]])
  /\ UNCHANGED <<up, conn, user, idle, view, timer>>

-----------------------------------------------------------------------------
(* Time and the process *)

InProgress ==
  \/ \E p \in Callers : Busy(p)
  \/ \E s \in Sessions : conn[s] = "connecting"
  \/ list # {}

BugNoDeadline ==
  /\ ~InProgress
  /\ timer < ScanInterval
  /\ age' = [u \in Users |-> IF age[u] = Old THEN Old ELSE age[u] + 1]
  /\ idle' = [s \in Sessions |-> IF conn[s] = "open" THEN idle[s] + 1 ELSE 1]
  /\ timer' = IF up THEN timer + 1 ELSE 0
  /\ UNCHANGED <<up, keys, conn, user, view, call, list>>

\* Time does not pass the read deadline of a connection, nor a tick of the scanner
Tick ==
  /\ ~InProgress
  /\ timer < ScanInterval
  /\ \A s \in Sessions : conn[s] = "open" => idle[s] < Interval
  /\ age' = [u \in Users |-> IF age[u] = Old THEN Old ELSE age[u] + 1]
  /\ idle' = [s \in Sessions |-> IF conn[s] = "open" THEN idle[s] + 1 ELSE 1]
  /\ timer' = IF up THEN timer + 1 ELSE 0
  /\ UNCHANGED <<up, keys, conn, user, view, call, list>>

\* The process stops anywhere
Crash ==
  /\ up
  /\ up' = FALSE
  /\ conn' = [s \in Sessions |-> "closed"]
  /\ user' = [s \in Sessions |-> NoUser]
  /\ idle' = [s \in Sessions |-> 0]
  /\ view' = [s \in Sessions |-> [u \in Users |-> "unknown"]]
  /\ call' = [p \in Callers |-> NoCall]
  /\ list' = {}
  /\ timer' = 0
  /\ UNCHANGED <<keys, age>>

Restart ==
  /\ ~up
  /\ up' = TRUE
  /\ UNCHANGED <<keys, age, conn, user, idle, view, call, list, timer>>

\* Redis drops a key after three days: only a key no scanner has looked at
Expire(u) ==
  /\ ~up
  /\ u \in keys
  /\ age[u] = Old
  /\ keys' = keys \ {u}
  /\ UNCHANGED <<up, age, conn, user, idle, view, call, list, timer>>

-----------------------------------------------------------------------------
Init ==
  /\ up = TRUE
  /\ keys = {}
  /\ age = [u \in Users |-> Old]
  /\ conn = [s \in Sessions |-> "closed"]
  /\ user = [s \in Sessions |-> NoUser]
  /\ idle = [s \in Sessions |-> 1]
  /\ view = [s \in Sessions |-> [u \in Users |-> "unknown"]]
  /\ call = [p \in Callers |-> NoCall]
  /\ list = {}
  /\ timer = 0

Notify(p) == Asked(p) \/ \E v \in Users : Ask(p, v) \/ Tell(p, v)

\* What a connection does by itself, and the scanner
Work(s) == SetStamp(s) \/ Subscribe(s) \/ Notify(s)
Scan == ScanRead \/ Notify(Scanner) \/ \E u \in Users : ScanDelete(u)

Next ==
  \/ \E s \in Sessions : (\E u \in Users : Connect(s, u)) \/ Pong(s) \/ Close(s) \/ Work(s)
  \/ Scan
  \/ Tick
  \/ Crash
  \/ Restart
  \/ \E u \in Users : Expire(u)

Spec == Init /\ [][Next]_vars

\* At its deadline a connection either has got a pong or is closed
Deadline(s) == conn[s] = "open" /\ idle[s] = Interval /\ (Pong(s) \/ Close(s))

\* Calls that have begun come to an end and a deadline fires.  Time passes although
\* clients come and go and the process is restarted: only finitely much happens in a unit
FairSpec ==
  /\ Spec
  /\ \A s \in Sessions : WF_vars(Work(s) \/ Deadline(s))
  /\ WF_vars(Scan)
  /\ SF_vars(Tick)
-----------------------------------------------------------------------------
(* Invariants *)

\* Every variable keeps its type; what belongs to a closed connection, a missing
\* key or a stopped process is at rest.
TypeInv ==
  /\ up \in BOOLEAN
  /\ keys \subseteq Users
  /\ age \in [Users -> 0..Old]
  /\ \A u \in Users \ keys : age[u] = Old
  /\ conn \in [Sessions -> {"closed", "connecting", "open"}]
  /\ user \in [Sessions -> Users \union {NoUser}]
  /\ \A s \in Sessions : user[s] = NoUser <=> conn[s] = "closed"
  /\ idle \in [Sessions -> 0..Interval]
  /\ view \in [Sessions -> [Users -> {"unknown", "online", "offline"}]]
  /\ call \in [Callers -> Call]
  /\ list \subseteq Users
  /\ timer \in 0..ScanInterval
  /\ ~up => InProgress = FALSE

-----------------------------------------------------------------------------
(* Action properties *)

\* The scanner never takes for gone a user who is connected when it reads the keys,
\* although it looks at the age of the key alone: between two pongs the key does not
\* get older than the threshold.
ConnectedNotListed == [][\A u \in list' \ list : ~Connected(u)]_vars

\* A user who has a key and a connection is not announced as online again, neither
\* by a pong nor by a second connection: a gap longer than interval + delta is one
\* in which nobody was connected.
AnnouncedAfterGap ==
  [][\A s \in Sessions, u \in keys :
        /\ ~Busy(s) /\ call'[s].step = "set"
        /\ call'[s].user = u /\ call'[s].online
        => ~Connected(u)]_vars

-----------------------------------------------------------------------------
(* Liveness *)

\* A connected user counts as online again, even if the scanner has removed the key
\* a heartbeat had just written: at the latest with the next pong.
ConnectedIsOnline ==
  \A u \in Users : Connected(u) ~> IsUserOnline(u) \/ ~Connected(u)

\* The key of a user who is gone is removed, also if the process that wrote it has
\* stopped meanwhile, unless he comes back or the process stops again.
GoneIsForgotten ==
  \A u \in Users :
    up /\ u \in keys ~> ~up \/ u \notin keys \/ \E s \in Sessions : user[s] = u

\* Connection s is open, its user is v
Listens(s, v) == conn[s] = "open" /\ user[s] = v

\* Nobody is shown as online for ever: when a user goes away, each client of a contact
\* that was told he is online is told that he is not, unless either of them comes or
\* goes meanwhile.  It takes the key of the user and that of the contact: the scanner
\* removes a key a heartbeat has just written if it had read the old one.
GoneIsTold ==
  \A s \in Sessions, v \in Users : \A u \in Contacts[v] :
    Listens(s, v) /\ view[s][u] = "online" /\ u \in keys
    ~> \/ view[s][u] # "online"
       \/ Connected(u)
       \/ v \notin keys \/ ~Listens(s, v)

\* Whoever is online when a contact is announced, online or offline, gets the event,
\* on each connection that has subscribed and stays.
ChangeIsTold ==
  \A s \in Sessions, v \in Users, b \in BOOLEAN : \A u \in Contacts[v] :
    /\ Listens(s, v)
    /\ \E p \in Callers : /\ call[p].step = "ask" /\ v \in call[p].ask
                          /\ call[p].user = u /\ call[p].online = b
    ~> \/ view[s][u] = IF b THEN "online" ELSE "offline"
       \/ v \notin keys \/ ~Listens(s, v)
=============================================================================
