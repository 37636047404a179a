--------------------------- MODULE PresenceProofs ---------------------------
(***************************************************************************)
(* Proofs about Presence, for any users, connections and contacts and any  *)
(* interval, delta and scanner interval: a user who is connected is        *)
(* neither found gone by the scanner nor announced as online again.        *)
(***************************************************************************)
EXTENDS Presence, TLAPS

\* A heartbeat is for the user of its connection, which waits for it
CallsAgree ==
  \A s \in Sessions : Busy(s) => call[s].user = user[s] /\ conn[s] # "closed"

\* The process that has stopped has no connections
DownIsClosed == ~up => \A s \in Sessions : conn[s] = "closed"

\* The key of a user is not older than the time since one of his connections has
\* moved its deadline, except for the pong that has moved it and not yet set the key;
\* a connection that is being made has set it in this unit of time
KeyFresh ==
  \A s \in Sessions : user[s] \in keys =>
    /\ conn[s] = "open" => \/ age[user[s]] <= idle[s]
                           \/ call[s].step = "set" /\ age[user[s]] <= Interval
    /\ conn[s] = "connecting" /\ call[s].step # "set" => age[user[s]] = 0

\* The inductive invariant.
PresenceInv == TypeInv /\ CallsAgree /\ DownIsClosed /\ KeyFresh

\* What the constants give.
LEMMA Constants ==
  /\ Interval \in Nat /\ Interval > 0 /\ Delta \in Nat /\ Delta > 0
  /\ ScanInterval \in Nat /\ ScanInterval > 0
  /\ Threshold \in Nat /\ Old \in Nat /\ Interval + Delta < Threshold /\ Old = Threshold + 1
  /\ NoUser \notin Users /\ Scanner \notin Sessions
  /\ \A u \in Users : Contacts[u] \subseteq Users
  BY PresenceAssumption DEF Threshold, Old

\* It holds at the start.
LEMMA PresenceInit == Init => PresenceInv
  <1> SUFFICES ASSUME Init PROVE PresenceInv
    OBVIOUS
  <1>1. NoCall \in Call /\ NoCall.step = "none"
    BY DEF NoCall, Call
  <1>2. \A p \in Callers : ~Busy(p)
    BY <1>1 DEF Init, Busy
  <1>3. InProgress = FALSE
    BY <1>2 DEF Init, InProgress
  <1>4. TypeInv
    BY <1>1, <1>3, Constants DEF Init, TypeInv
  <1>5. CallsAgree /\ DownIsClosed /\ KeyFresh
    BY <1>2, Constants DEF Init, CallsAgree, DownIsClosed, KeyFresh, Callers
  <1> QED  BY <1>4, <1>5 DEF PresenceInv

-----------------------------------------------------------------------------
(* The types *)

\* The part of the types that is not about the process that has stopped.
Typed ==
  /\ up \in BOOLEAN
  /\ keys \subseteq Users
  /\ age \in [Users -> 0..Old]
  /\ \A u \in Users \ keys : age[u] = Old
  /\ conn \in [Sessions -> {"closed", "connecting", "open"}]
  /\ user \in [Sessions -> Users \union {NoUser}]
  /\ \A s \in Sessions : user[s] = NoUser <=> conn[s] = "closed"
  /\ idle \in [Sessions -> 0..Interval]
  /\ view \in [Sessions -> [Users -> {"unknown", "online", "offline"}]]
  /\ call \in [Callers -> Call]
  /\ list \subseteq Users
  /\ timer \in 0..ScanInterval

\* Each kind of call keeps its locals.
LEMMA CallKept ==
  ASSUME call \in [Callers -> Call], NEW p \in Callers, NEW l \in Call, Continue(p, l)
  PROVE  /\ call' \in [Callers -> Call]
         /\ call'[p] = l
         /\ \A x \in Callers : x # p => call'[x] = call[x]
  BY DEF Continue

\* A turn of the loop over the contacts leaves the locals of a call.
LEMMA AskedOne ==
  ASSUME NEW c \in Call, NEW v, NEW t \in SUBSET Users
  PROVE  [c EXCEPT !.ask = @ \ {v}, !.tell = t] \in Call
  BY DEF Call

\* Every step keeps the types.
LEMMA TypedStep == Typed /\ CallsAgree /\ [Next]_vars => Typed'
  <1> SUFFICES ASSUME Typed, CallsAgree, [Next]_vars PROVE Typed'
    OBVIOUS
  <1> USE DEF Typed
  <1>0. Sessions \subseteq Callers /\ Scanner \in Callers /\ NoCall \in Call
    BY DEF Callers, NoCall, Call
  <1>1. ASSUME NEW s \in Sessions, NEW u \in Users, Heartbeat(s, u)
        PROVE  call' \in [Callers -> Call]
    <2> DEFINE b == WasOffline(u)
    <2>1. b \in BOOLEAN
      BY DEF WasOffline
    <2> HIDE DEF b
    <2>2. [NoCall EXCEPT !.step = "set", !.user = u, !.online = b] \in Call
      BY <2>1 DEF NoCall, Call
    <2>3. Continue(s, [NoCall EXCEPT !.step = "set", !.user = u, !.online = b])
      BY <1>1 DEF Heartbeat, b
    <2> QED  BY <1>0, <2>2, <2>3, CallKept
  <1>2. ASSUME NEW s \in Sessions, NEW u \in Users, Connect(s, u)
        PROVE  Typed'
    <2>1. call' \in [Callers -> Call]
      BY <1>1, <1>2 DEF Connect
    <2> QED  BY <1>2, <2>1, Constants DEF Connect, Heartbeat
  <1>3. ASSUME NEW s \in Sessions, Pong(s)
        PROVE  Typed'
    <2>1. user[s] \in Users
      BY <1>3 DEF Pong
    <2>2. call' \in [Callers -> Call]
      BY <1>1, <1>3, <2>1 DEF Pong
    <2> QED  BY <1>3, <2>2, Constants DEF Pong, Heartbeat
  <1>4. ASSUME NEW s \in Sessions, Close(s)
        PROVE  Typed'
    <2>1. view' \in [Sessions -> [Users -> {"unknown", "online", "offline"}]]
      BY <1>4 DEF Close
    <2>2. idle' \in [Sessions -> 0..Interval]
      BY <1>4, Constants DEF Close
    <2>3. /\ conn' \in [Sessions -> {"closed", "connecting", "open"}]
          /\ user' \in [Sessions -> Users \union {NoUser}]
          /\ \A x \in Sessions : user'[x] = NoUser <=> conn'[x] = "closed"
      BY <1>4 DEF Close
    <2> QED  BY <1>4, <2>1, <2>2, <2>3 DEF Close
  <1>15. ASSUME NEW s \in Sessions, Subscribe(s)
         PROVE  Typed'
    BY <1>15, Constants DEF Subscribe
  <1>5. ASSUME NEW s \in Sessions, SetStamp(s)
        PROVE  Typed'
    <2>1. call[s].user \in Users /\ call[s] \in Call
      BY <1>0, <1>5 DEF SetStamp, CallsAgree, Busy
    <2>2. [call[s] EXCEPT !.step = "ask", !.ask = Contacts[call[s].user]] \in Call
      BY <2>1, Constants DEF Call
    <2>3. call' \in [Callers -> Call]
      BY <1>0, <1>5, <2>2, CallKept DEF SetStamp, Done
    <2> QED  BY <1>5, <2>1, <2>3, Constants DEF SetStamp
  <1>6. ASSUME NEW p \in Callers, NEW v \in Users, Ask(p, v)
        PROVE  Typed'
    <2>0. call[p] \in Call
      OBVIOUS
    <2>1. \A t \in SUBSET Users : [call[p] EXCEPT !.ask = @ \ {v}, !.tell = t] \in Call
      BY <2>0, AskedOne
    <2>2. \E t \in SUBSET Users : Continue(p, [call[p] EXCEPT !.ask = @ \ {v}, !.tell = t])
      <3> DEFINE t == IF Interested(v) THEN call[p].tell \union {v} ELSE call[p].tell
      <3>0. call[p].tell \in SUBSET Users
        BY DEF Call
      <3>1. t \in SUBSET Users
        BY <3>0
      <3>2. Continue(p, [call[p] EXCEPT !.ask = @ \ {v}, !.tell = t])
        BY <1>6 DEF Ask
      <3> QED  BY <3>1, <3>2
    <2>3. call' \in [Callers -> Call]
      BY <2>1, <2>2, CallKept
    <2> QED  BY <1>6, <2>3 DEF Ask
  <1>7. ASSUME NEW p \in Callers, Asked(p)
        PROVE  Typed'
    <2>1. [call[p] EXCEPT !.step = "tell"] \in Call
      BY ZenonT(60) DEF Call
    <2>2. call' \in [Callers -> Call]
      BY <1>0, <1>7, <2>1, CallKept DEF Asked, Done
    <2> QED  BY <1>7, <2>2 DEF Asked
  <1>8. ASSUME NEW p \in Callers, NEW v \in Users, Tell(p, v)
        PROVE  Typed'
    <2>1. [call[p] EXCEPT !.tell = @ \ {v}] \in Call
      BY ZenonT(60) DEF Call
    <2>2. call' \in [Callers -> Call]
      BY <1>0, <1>8, <2>1, CallKept DEF Tell, Done
    <2>3. view' \in [Sessions -> [Users -> {"unknown", "online", "offline"}]]
      BY <1>8 DEF Tell
    <2> QED  BY <1>8, <2>2, <2>3 DEF Tell
  <1>9. CASE ScanRead
    BY <1>9, Constants DEF ScanRead
  <1>10. ASSUME NEW u \in Users, ScanDelete(u)
         PROVE  Typed'
    <2>1. [NoCall EXCEPT !.step = "ask", !.user = u, !.ask = Contacts[u]] \in Call
      BY Constants DEF NoCall, Call
    <2>2. call' \in [Callers -> Call]
      BY <1>0, <1>10, <2>1, CallKept DEF ScanDelete
    <2> QED  BY <1>10, <2>2, Constants DEF ScanDelete
  <1>11. CASE Tick
    <2>1. age' \in [Users -> 0..Old] /\ \A u \in Users \ keys : age'[u] = Old
      <3>1. age' = [u \in Users |-> IF age[u] = Old THEN Old ELSE age[u] + 1]
        BY <1>11 DEF Tick
      <3>2. \A u \in Users : age[u] \in 0..Old
        OBVIOUS
      <3>0. Old \in Nat
        BY Constants
      <3>3. \A n \in 0..Old : (IF n = Old THEN Old ELSE n + 1) \in 0..Old
        BY <3>0
      <3> QED  BY <3>1, <3>2, <3>3
    <2>2. idle' \in [Sessions -> 0..Interval]
      BY <1>11, Constants DEF Tick
    <2>3. timer' \in 0..ScanInterval
      BY <1>11, Constants DEF Tick
    <2> QED  BY <1>11, <2>1, <2>2, <2>3 DEF Tick
  <1>12. CASE Crash
    <2>1. view' \in [Sessions -> [Users -> {"unknown", "online", "offline"}]]
      BY <1>12 DEF Crash
    <2>2. call' \in [Callers -> Call]
      BY <1>0, <1>12 DEF Crash
    <2>3. idle' \in [Sessions -> 0..Interval] /\ timer' \in 0..ScanInterval
      BY <1>12, Constants DEF Crash
    <2>4. /\ conn' \in [Sessions -> {"closed", "connecting", "open"}]
          /\ user' \in [Sessions -> Users \union {NoUser}]
          /\ \A x \in Sessions : user'[x] = NoUser <=> conn'[x] = "closed"
      BY <1>12 DEF Crash
    <2> QED  BY <1>12, <2>1, <2>2, <2>3, <2>4 DEF Crash
  <1>13. CASE Restart \/ \E u \in Users : Expire(u)
    BY <1>13 DEF Restart, Expire
  <1>14. CASE UNCHANGED vars
    BY <1>14 DEF vars
  <1> QED
    BY <1>0, <1>2, <1>3, <1>4, <1>5, <1>6, <1>7, <1>8, <1>9, <1>10, <1>11, <1>12, <1>13, <1>14,
       <1>15
    DEF Next, Work, Notify, Scan

-----------------------------------------------------------------------------
(* What a step does to the calls *)

\* A heartbeat begins on its own connection, which has none in progress.
LEMMA HeartbeatBegins ==
  ASSUME Typed, NEW s \in Sessions, NEW u \in Users, Heartbeat(s, u)
  PROVE  /\ call[s].step = "none"
         /\ call'[s].step = "set" /\ call'[s].user = u
         /\ call'[s].online = WasOffline(u)
         /\ \A x \in Callers : x # s => call'[x] = call[x]
  <1> DEFINE l == [NoCall EXCEPT !.step = "set", !.user = u, !.online = WasOffline(u)]
  <1>1. l.step = "set" /\ l.user = u /\ l.online = WasOffline(u)
    BY DEF NoCall
  <1> HIDE DEF l
  <1>2. call' = [call EXCEPT ![s] = l] /\ call[s].step = "none"
    BY DEF Heartbeat, Continue, Busy, l
  <1>3. call \in [Callers -> Call] /\ s \in Callers
    BY DEF Typed, Callers
  <1> QED  BY <1>1, <1>2, <1>3

\* The lookups and the events of a call neither begin a heartbeat nor change whose it is.
LEMMA NotifyKeeps ==
  ASSUME Typed, NEW p \in Callers, Notify(p)
  PROVE  /\ call[p].step \in {"ask", "tell"}
         /\ call'[p].step \in {"ask", "tell", "none"}
         /\ call'[p].step # "none" => call'[p].user = call[p].user
         /\ \A x \in Callers : x # p => call'[x] = call[x]
  <1>1. call \in [Callers -> Call] /\ call[p] \in Call /\ NoCall.step = "none"
    BY DEF Typed, NoCall
  <1>2. CASE Asked(p)
    BY <1>1, <1>2 DEF Asked, Continue, Done, Call
  <1>3. ASSUME NEW v \in Users, Ask(p, v)
        PROVE  /\ call[p].step = "ask" /\ call'[p].step = "ask"
               /\ call'[p].user = call[p].user
               /\ \A x \in Callers : x # p => call'[x] = call[x]
    <2>1. PICK t : Continue(p, [call[p] EXCEPT !.ask = @ \ {v}, !.tell = t])
      BY <1>3 DEF Ask
    <2> QED  BY <1>1, <1>3, <2>1 DEF Ask, Continue, Call
  <1>4. ASSUME NEW v \in Users, Tell(p, v)
        PROVE  /\ call[p].step = "tell" /\ call'[p].step \in {"tell", "none"}
               /\ call'[p].step # "none" => call'[p].user = call[p].user
               /\ \A x \in Callers : x # p => call'[x] = call[x]
    BY <1>1, <1>4 DEF Tell, Continue, Done, Call
  <1> QED  BY <1>2, <1>3, <1>4 DEF Notify

\* The lookups and the events of a call leave the keys and the connections alone.
LEMMA NotifyLeaves ==
  ASSUME NEW p, Notify(p)
  PROVE  UNCHANGED <<up, keys, age, conn, user, idle, list, timer>>
  BY DEF Notify, Asked, Ask, Tell

-----------------------------------------------------------------------------
(* The process that has stopped *)

\* Without the process nothing is in progress and nothing begins.
LEMMA DownStep ==
  TypeInv /\ DownIsClosed /\ [Next]_vars => (DownIsClosed /\ (~up => InProgress = FALSE))'
  <1> SUFFICES ASSUME TypeInv, DownIsClosed, [Next]_vars, ~up'
               PROVE  (\A s \in Sessions : conn'[s] = "closed") /\ (InProgress = FALSE)'
    BY DEF DownIsClosed
  <1>0. Sessions \subseteq Callers /\ Scanner \in Callers
    BY DEF Callers
  <1>1. CASE Crash
    BY <1>1 DEF Crash, InProgress, Busy, NoCall
  <1>2. CASE up /\ ~Crash
    <2>1. UNCHANGED up
      <3>1. ASSUME NEW s \in Sessions,
                   (\E u \in Users : Connect(s, u)) \/ Pong(s) \/ Close(s) \/ Work(s)
            PROVE  UNCHANGED up
        BY <3>1, NotifyLeaves DEF Connect, Pong, Close, Work, Heartbeat, SetStamp, Subscribe
      <3>2. CASE Scan \/ Tick \/ Restart \/ (\E u \in Users : Expire(u)) \/ UNCHANGED vars
        BY <1>2, <3>2, NotifyLeaves DEF Scan, ScanRead, ScanDelete, Tick, Restart, Expire, vars
      <3> QED  BY <1>2, <3>1, <3>2 DEF Next
    <2> QED  BY <1>2, <2>1
  <1>3. CASE ~up
    <2>1. /\ \A p \in Callers : call[p].step = "none"
          /\ \A s \in Sessions : conn[s] = "closed"
          /\ list = {}
      BY <1>3 DEF TypeInv, InProgress, Busy, DownIsClosed
    <2>2. UNCHANGED <<conn, call, list>>
      <3>1. \A s \in Sessions : /\ \A u \in Users : ~Connect(s, u)
                                /\ ~Pong(s) /\ ~Close(s) /\ ~SetStamp(s) /\ ~Subscribe(s)
        BY <1>0, <1>3, <2>1 DEF Connect, Pong, Close, SetStamp, Subscribe
      <3>2. \A p \in Callers : ~Notify(p)
        BY <2>1 DEF Notify, Asked, Ask, Tell
      <3>3. ~Scan
        BY <1>0, <1>3, <2>1, <3>2 DEF Scan, ScanRead, ScanDelete
      <3>4. CASE Tick \/ Crash \/ Restart \/ (\E u \in Users : Expire(u)) \/ UNCHANGED vars
        BY <1>3, <3>4 DEF Tick, Crash, Restart, Expire, vars
      <3> QED  BY <1>0, <3>1, <3>2, <3>3, <3>4 DEF Next, Work
    <2>3. InProgress' = FALSE
      BY <2>1, <2>2 DEF InProgress, Busy
    <2> QED  BY <2>1, <2>2, <2>3
  <1> QED  BY <1>1, <1>2, <1>3

-----------------------------------------------------------------------------
(* Heartbeats *)

\* A heartbeat stays with its connection.
LEMMA CallsAgreeStep == Typed /\ CallsAgree /\ [Next]_vars => CallsAgree'
  <1> SUFFICES ASSUME Typed, CallsAgree, [Next]_vars, NEW x \in Sessions, call'[x].step # "none"
               PROVE  call'[x].user = user'[x] /\ conn'[x] # "closed"
    BY DEF CallsAgree, Busy
  <1>0. /\ Sessions \subseteq Callers /\ Scanner \in Callers /\ Scanner \notin Sessions
        /\ NoCall.step = "none"
    BY Constants DEF Callers, NoCall
  <1>t. /\ conn \in [Sessions -> {"closed", "connecting", "open"}]
        /\ user \in [Sessions -> Users \union {NoUser}]
        /\ \A s \in Sessions : user[s] = NoUser <=> conn[s] = "closed"
        /\ call \in [Callers -> Call]
    BY DEF Typed
  <1>i. call[x].step # "none" => call[x].user = user[x] /\ conn[x] # "closed"
    BY DEF CallsAgree, Busy
  <1>1. ASSUME NEW s \in Sessions, NEW u \in Users, Connect(s, u)
        PROVE  call'[x].user = user'[x] /\ conn'[x] # "closed"
    <2>1. Heartbeat(s, u)
      BY <1>1 DEF Connect
    <2> QED  BY <1>0, <1>t, <1>i, <1>1, <2>1, HeartbeatBegins DEF Connect
  <1>2. ASSUME NEW s \in Sessions, Pong(s)
        PROVE  call'[x].user = user'[x] /\ conn'[x] # "closed"
    <2>1. Heartbeat(s, user[s]) /\ user[s] \in Users
      BY <1>t, <1>2 DEF Pong
    <2> QED  BY <1>0, <1>t, <1>i, <1>2, <2>1, HeartbeatBegins DEF Pong
  <1>3. ASSUME NEW s \in Sessions, Close(s) \/ Subscribe(s) \/ SetStamp(s)
        PROVE  call'[x].user = user'[x] /\ conn'[x] # "closed"
    <2>1. CASE Close(s)
      BY <1>t, <1>i, <2>1 DEF Close, Busy
    <2>2. CASE Subscribe(s)
      BY <1>t, <1>i, <2>2 DEF Subscribe
    <2>3. CASE SetStamp(s)
      <3>1. call'[s].step # "none" => call'[s].user = call[s].user /\ call[s].step # "none"
        BY <1>0, <1>t, <2>3, ZenonT(60) DEF SetStamp, Continue, Done, Call
      <3>2. x # s => call'[x] = call[x]
        BY <1>0, <1>t, <2>3 DEF SetStamp, Continue, Done
      <3> QED  BY <1>i, <2>3, <3>1, <3>2 DEF SetStamp
    <2> QED  BY <1>3, <2>1, <2>2, <2>3
  <1>4. ASSUME NEW p \in Callers, Notify(p)
        PROVE  call'[x].user = user'[x] /\ conn'[x] # "closed"
    BY <1>0, <1>i, <1>4, NotifyKeeps, NotifyLeaves
  <1>5. ASSUME NEW u \in Users, ScanDelete(u)
        PROVE  call'[x].user = user'[x] /\ conn'[x] # "closed"
    <2>1. call'[x] = call[x]
      BY <1>0, <1>t, <1>5 DEF ScanDelete, Continue
    <2> QED  BY <1>i, <1>5, <2>1 DEF ScanDelete
  <1>6. CASE Crash
    BY <1>0, <1>6 DEF Crash
  <1>7. CASE ScanRead \/ Tick \/ Restart \/ (\E u \in Users : Expire(u)) \/ UNCHANGED vars
    BY <1>i, <1>7 DEF ScanRead, Tick, Restart, Expire, vars
  <1> QED
    BY <1>0, <1>1, <1>2, <1>3, <1>4, <1>5, <1>6, <1>7 DEF Next, Work, Scan

\* The key of a connected user stays fresh.
LEMMA KeyFreshStep == Typed /\ CallsAgree /\ KeyFresh /\ [Next]_vars => KeyFresh'
  <1> DEFINE Fresh(x) ==
        user[x] \in keys =>
          /\ conn[x] = "open" => \/ age[user[x]] <= idle[x]
                                 \/ call[x].step = "set" /\ age[user[x]] <= Interval
          /\ conn[x] = "connecting" /\ call[x].step # "set" => age[user[x]] = 0
  <1> SUFFICES ASSUME Typed, CallsAgree, KeyFresh, [Next]_vars, NEW x \in Sessions
               PROVE  Fresh(x)'
    BY DEF KeyFresh
  <1>0. /\ Sessions \subseteq Callers /\ Scanner \in Callers /\ Scanner \notin Sessions
        /\ NoCall.step = "none" /\ NoUser \notin Users /\ Interval \in Nat /\ Old \in Nat
    BY Constants DEF Callers, NoCall
  <1>t. /\ conn \in [Sessions -> {"closed", "connecting", "open"}]
        /\ user \in [Sessions -> Users \union {NoUser}]
        /\ \A s \in Sessions : user[s] = NoUser <=> conn[s] = "closed"
        /\ call \in [Callers -> Call]
        /\ keys \subseteq Users
        /\ age \in [Users -> 0..Old]
        /\ idle \in [Sessions -> 0..Interval]
    BY DEF Typed
  <1>i. Fresh(x)
    BY DEF KeyFresh
  <1>1. ASSUME NEW s \in Sessions, NEW u \in Users, Connect(s, u)
        PROVE  Fresh(x)'
    <2>1. Heartbeat(s, u)
      BY <1>1 DEF Connect
    <2>2. UNCHANGED <<keys, age, idle>>
      BY <1>1 DEF Connect, Heartbeat
    <2> QED  BY <1>0, <1>t, <1>i, <1>1, <2>1, <2>2, HeartbeatBegins DEF Connect
  <1>2. ASSUME NEW s \in Sessions, Pong(s)
        PROVE  Fresh(x)'
    <2>1. Heartbeat(s, user[s]) /\ user[s] \in Users
      BY <1>t, <1>2 DEF Pong
    <2>2. UNCHANGED <<keys, age>>
      BY <1>2 DEF Pong, Heartbeat
    <2>3. call[s].step = "none" /\ call'[s].step = "set" /\ (x # s => call'[x] = call[x])
      BY <1>0, <2>1, HeartbeatBegins
    <2> QED  BY <1>0, <1>t, <1>i, <1>2, <2>2, <2>3 DEF Pong
  <1>3. ASSUME NEW s \in Sessions, Close(s)
        PROVE  Fresh(x)'
    BY <1>0, <1>t, <1>i, <1>3 DEF Close
  <1>4. ASSUME NEW s \in Sessions, Subscribe(s)
        PROVE  Fresh(x)'
    BY <1>0, <1>t, <1>i, <1>4 DEF Subscribe, Busy
  <1>5. ASSUME NEW s \in Sessions, SetStamp(s)
        PROVE  Fresh(x)'
    <2>1. /\ call[s].user = user[s] /\ user[s] \in Users
          /\ keys' = keys \union {user[s]}
          /\ age' = [age EXCEPT ![user[s]] = 0]
          /\ UNCHANGED <<conn, user, idle>>
      BY <1>t, <1>5 DEF SetStamp, CallsAgree, Busy
    <2>2. x # s => call'[x] = call[x]
      BY <1>0, <1>t, <1>5 DEF SetStamp, Continue, Done
    <2> QED  BY <1>0, <1>t, <1>i, <2>1, <2>2
  <1>6. ASSUME NEW p \in Callers, Notify(p)
        PROVE  Fresh(x)'
    <2>1. call'[x].step = "set" <=> call[x].step = "set"
      BY <1>0, <1>6, NotifyKeeps
    <2> QED  BY <1>i, <1>6, <2>1, NotifyLeaves
  <1>7. ASSUME NEW u \in Users, ScanDelete(u)
        PROVE  Fresh(x)'
    <2>1. call'[x] = call[x]
      BY <1>0, <1>t, <1>7 DEF ScanDelete, Continue
    <2> QED  BY <1>t, <1>i, <1>7, <2>1 DEF ScanDelete
  <1>8. CASE Tick
    <2>1. conn[x] # "connecting" /\ call[x].step = "none"
      BY <1>0, <1>8 DEF Tick, InProgress, Busy
    <2>2. /\ user[x] \in Users => age'[user[x]] <= age[user[x]] + 1
          /\ conn[x] = "open" => idle'[x] = idle[x] + 1
          /\ UNCHANGED <<conn, user, keys>>
      BY <1>0, <1>t, <1>8 DEF Tick
    <2>3. user[x] \in Users => age[user[x]] \in Nat /\ age'[user[x]] \in Nat
      BY <1>0, <1>t, <1>8 DEF Tick
    <2> QED  BY <1>0, <1>t, <1>i, <2>1, <2>2, <2>3
  <1>9. CASE Crash
    BY <1>9 DEF Crash
  <1>10. CASE ScanRead \/ Restart \/ (\E u \in Users : Expire(u)) \/ UNCHANGED vars
    BY <1>i, <1>10 DEF ScanRead, Restart, Expire, vars
  <1> QED
    BY <1>0, <1>1, <1>2, <1>3, <1>4, <1>5, <1>6, <1>7, <1>8, <1>9, <1>10 DEF Next, Work, Scan

-----------------------------------------------------------------------------
\* The invariant is inductive ...
LEMMA PresenceStep == PresenceInv /\ [Next]_vars => PresenceInv'
  <1> SUFFICES ASSUME PresenceInv, [Next]_vars PROVE PresenceInv'
    OBVIOUS
  <1>1. Typed /\ TypeInv /\ CallsAgree /\ DownIsClosed /\ KeyFresh
    BY DEF PresenceInv, TypeInv, Typed
  <1>2. Typed' /\ CallsAgree' /\ KeyFresh'
    BY <1>1, TypedStep, CallsAgreeStep, KeyFreshStep
  <1>3. (DownIsClosed /\ (~up => InProgress = FALSE))'
    BY <1>1, DownStep
  <1>4. TypeInv'
    BY <1>2, <1>3 DEF Typed, TypeInv
  <1> QED  BY <1>2, <1>3, <1>4 DEF PresenceInv

\* ... so that it always holds: between two heartbeats of a connection the key of its user
\* gets no older than the deadline of the connection, in whatever order the calls of the
\* heartbeats and of the scanner reach Redis.
THEOREM PresenceInvCorrect == Spec => []PresenceInv
  <1>1. Init => PresenceInv
    BY PresenceInit
  <1>2. PresenceInv /\ [Next]_vars => PresenceInv'
    BY PresenceStep
  <1> QED  BY <1>1, <1>2, PTL DEF Spec

\* Every variable keeps its type, and without the process nothing is in progress.
THEOREM TypeInvCorrect == Spec => []TypeInv
  <1>1. PresenceInv => TypeInv
    BY DEF PresenceInv
  <1> QED  BY <1>1, PresenceInvCorrect, PTL

\* The age of the key of a connected user: interval at the most.
LEMMA ConnectedIsRecent ==
  ASSUME PresenceInv, NEW u \in keys, Connected(u)
  PROVE  age[u] <= Interval /\ age[u] \in Nat
  <1>1. PICK s \in Sessions : user[s] = u /\ conn[s] = "open"
    BY DEF Connected
  <1>2. \/ age[u] <= idle[s]
        \/ age[u] <= Interval
    BY <1>1 DEF PresenceInv, KeyFresh
  <1>3. idle[s] \in 0..Interval /\ age[u] \in 0..Old
    BY DEF PresenceInv, TypeInv
  <1> QED  BY <1>2, <1>3, Constants

\* The scanner never takes for gone a user who is connected when it reads the keys: only
\* GetAllOnlineUsers adds to its list, and it adds keys older than the threshold.
THEOREM ConnectedNotListedCorrect == Spec => ConnectedNotListed
  <1>1. ASSUME PresenceInv, [Next]_vars, NEW u \in list' \ list
        PROVE  ~Connected(u)
    <2>1. ScanRead
      <3>1. ASSUME NEW s \in Sessions,
                   (\E v \in Users : Connect(s, v)) \/ Pong(s) \/ Close(s) \/ Work(s)
            PROVE  list' = list
        BY <3>1, NotifyLeaves DEF Connect, Pong, Close, Work, Heartbeat, SetStamp, Subscribe
      <3>2. ASSUME \/ Notify(Scanner) \/ \E v \in Users : ScanDelete(v)
                   \/ Tick \/ Crash \/ Restart \/ (\E v \in Users : Expire(v)) \/ UNCHANGED vars
            PROVE  list' \subseteq list
        BY <3>2, NotifyLeaves DEF ScanDelete, Tick, Crash, Restart, Expire, vars
      <3> QED  BY <1>1, <3>1, <3>2 DEF Next, Scan
    <2>2. u \in keys /\ age[u] > Threshold
      BY <1>1, <2>1 DEF ScanRead, TooOld
    <2> QED  BY <1>1, <2>2, ConnectedIsRecent, Constants
  <1>2. PresenceInv /\ [Next]_vars => [\A u \in list' \ list : ~Connected(u)]_vars
    BY <1>1
  <1> QED  BY <1>2, PresenceInvCorrect, PTL DEF Spec, ConnectedNotListed

\* A user who has a key and a connection is not announced as online again: only a heartbeat
\* that finds the key older than interval + delta announces him.
THEOREM AnnouncedAfterGapCorrect == Spec => AnnouncedAfterGap
  <1> DEFINE Announced(s, u) == /\ ~Busy(s) /\ call'[s].step = "set"
                                /\ call'[s].user = u /\ call'[s].online
  <1>1. ASSUME PresenceInv, [Next]_vars, NEW s \in Sessions, NEW u \in keys, Announced(s, u)
        PROVE  ~Connected(u)
    <2>0. /\ Typed /\ s \in Callers /\ Scanner \in Callers /\ s # Scanner
          /\ call[s].step = "none" /\ call'[s].step = "set" /\ call'[s].user = u
          /\ call \in [Callers -> Call] /\ NoCall.step = "none"
      BY <1>1, Constants DEF PresenceInv, TypeInv, Typed, Callers, Busy, NoCall
    <2>1. PICK v \in Users : Heartbeat(s, v)
      <3>1. ASSUME NEW x \in Sessions, NEW v \in Users, Connect(x, v)
            PROVE  Heartbeat(s, v)
        <4>1. Heartbeat(x, v)
          BY <3>1 DEF Connect
        <4> QED  BY <2>0, <4>1, HeartbeatBegins
      <3>2. ASSUME NEW x \in Sessions, Pong(x)
            PROVE  user[s] \in Users /\ Heartbeat(s, user[s])
        <4>1. Heartbeat(x, user[x]) /\ user[x] \in Users
          BY <2>0, <3>2 DEF Pong, Typed
        <4> QED  BY <2>0, <4>1, HeartbeatBegins
      <3>3. ASSUME NEW x \in Sessions, Close(x) \/ Subscribe(x) \/ SetStamp(x)
            PROVE  FALSE
        <4>1. CASE Close(x) \/ Subscribe(x)
          BY <2>0, <4>1 DEF Close, Subscribe
        <4>2. CASE SetStamp(x)
          <5>1. x # s /\ x \in Callers
            BY <2>0, <4>2 DEF SetStamp, Callers
          <5>2. call'[s] = call[s]
            BY <2>0, <4>2, <5>1 DEF SetStamp, Continue, Done
          <5> QED  BY <2>0, <5>2
        <4> QED  BY <3>3, <4>1, <4>2
      <3>4. ASSUME NEW p \in Callers, Notify(p)
            PROVE  FALSE
        BY <2>0, <3>4, NotifyKeeps
      <3>5. ASSUME NEW v \in Users, ScanDelete(v)
            PROVE  FALSE
        BY <2>0, <3>5 DEF ScanDelete, Continue
      <3>6. CASE Crash
        BY <2>0, <3>6 DEF Crash
      <3>7. CASE ScanRead \/ Tick \/ Restart \/ (\E v \in Users : Expire(v)) \/ UNCHANGED vars
        BY <2>0, <3>7 DEF ScanRead, Tick, Restart, Expire, vars
      <3> QED
        BY <1>1, <2>0, <3>1, <3>2, <3>3, <3>4, <3>5, <3>6, <3>7 DEF Next, Work, Scan, Callers
    <2>2. v = u /\ WasOffline(u)
      BY <1>1, <2>0, <2>1, HeartbeatBegins
    <2> QED  BY <1>1, <2>2, ConnectedIsRecent, Constants DEF WasOffline
  <1>2. PresenceInv /\ [Next]_vars
        => [\A s \in Sessions, u \in keys : Announced(s, u) => ~Connected(u)]_vars
    BY <1>1
  <1> QED  BY <1>2, PresenceInvCorrect, PTL DEF Spec, AnnouncedAfterGap
=============================================================================
