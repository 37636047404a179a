----------------------------- MODULE Connection -----------------------------
(***************************************************************************)
(* The life of the WebSocket connections inside the process: the handler   *)
(* HandleConn with its read loop and its write loop                        *)
(* (internal/service/message.go), the hub that lists the clients           *)
(* (internal/service/hub.go, client.go) and the subscription to the Redis  *)
(* channel of the user (internal/repository/connection.go).                *)
(*                                                                         *)
(* HandleConn, the two loops and the hub are goroutines; each of their     *)
(* steps is an action.  A loop that ends with an error cancels the context *)
(* of the errgroup, which the other loop looks at when it gets there; the  *)
(* connection is torn down when both have ended.                           *)
(*                                                                         *)
(* There is no clock.  A ping is due when a period has passed since the    *)
(* read deadline was moved (pingPeriod is nine tenths of pongWait); from   *)
(* then on the deadline may pass, until a pong moves it.  Pongs answer     *)
(* pings.  The channel of a subscription does not drop events: go-redis    *)
(* waits for a place in it longer (60 s) than a write may take (writeWait, *)
(* 10 s).  What a frame does is in MessageService, what a heartbeat does   *)
(* in Presence.                                                            *)
(*                                                                         *)
(* The operators named Bug... are mistaken versions of the operator that   *)
(* follows them, used by no action.                                        *)
(***************************************************************************)
EXTENDS Naturals, Sequences

CONSTANTS
  Users,      \* the users
  Sessions,   \* the WebSocket connections; each is used once
  NoSession,  \* no entry in the map of the hub
  UserOf,     \* UserOf[s]: the user the token of connection s belongs to
  MaxEvents   \* bound on the events published for a connection

ASSUME ConnectionAssumption ==
  /\ UserOf \in [Sessions -> Users]
  /\ NoSession \notin Sessions
  /\ MaxEvents \in Nat

VARIABLES
  main,       \* main[s]: where HandleConn is
  reader,     \* reader[s]: where the read loop is
  writer,     \* writer[s]: where the write loop is
  cancelled,  \* the connections whose errgroup context is cancelled
  clients,    \* clients[u]: the entry of the hub for user u
  subscribed, \* the connections with a subscription
  queue,      \* queue[s]: the events in client.outboard, while the write loop runs
  got,        \* got[s]: the events the client of s has received, while it is there
              \* and the write loop runs
  count,      \* count[s]: how many events were published for s since it subscribed,
              \* while the write loop runs; it numbers them
  here,       \* the connections whose client is there
  due,        \* the connections with a ping due since the deadline was moved
  pinged      \* the connections with a ping the client has not answered

connVars == <<main, reader, writer, cancelled, clients, subscribed, queue, got, count,
              here, due, pinged>>

MainSteps == {"none", "register", "subscribe", "wait", "unregister",
              "close", "unsubscribe", "done"}
ReaderSteps == {"none", "select", "reading", "ended"}
WriterSteps == {"none", "select", "ended"}

Go(s, from, to) == main[s] = from /\ main' = [main EXCEPT ![s] = to]
Read(s, from, to) == reader[s] = from /\ reader' = [reader EXCEPT ![s] = to]
Write(s, to) == writer[s] = "select" /\ writer' = [writer EXCEPT ![s] = to]

Cancel(s) == cancelled' = cancelled \union {s}

\* The write loop ends.  What is left in client.outboard, or comes yet, nobody reads
EndWrite(s) ==
  /\ Write(s, "ended")
  /\ queue' = [queue EXCEPT ![s] = <<>>]
  /\ got' = [got EXCEPT ![s] = <<>>]
  /\ count' = [count EXCEPT ![s] = 0]

-----------------------------------------------------------------------------
(* HandleConn *)

\* handleWS: the upgrade of the request
Accept(s) ==
  /\ Go(s, "none", "register")
  /\ here' = here \union {s}
  /\ UNCHANGED <<reader, writer, cancelled, clients, subscribed, queue, got, count,
                 due, pinged>>

\* NewClient hands the client to the hub, which keeps the last one of each user; the
\* first heartbeat follows
Register(s) ==
  /\ Go(s, "register", "subscribe")
  /\ clients' = [clients EXCEPT ![UserOf[s]] = s]
  /\ UNCHANGED <<reader, writer, cancelled, subscribed, queue, got, count, here, due,
                 pinged>>

\* Subscribe, then both loops are started and the deadline is set
Subscribe(s) ==
  /\ Go(s, "subscribe", "wait")
  /\ subscribed' = subscribed \union {s}
  /\ reader' = [reader EXCEPT ![s] = "select"]
  /\ writer' = [writer EXCEPT ![s] = "select"]
  /\ UNCHANGED <<cancelled, clients, queue, got, count, here, due, pinged>>

\* g.Wait returns
Waited(s) ==
  /\ reader[s] = "ended" /\ writer[s] = "ended"
  /\ Go(s, "wait", "unregister")
  /\ due' = due \ {s}
  /\ pinged' = pinged \ {s}
  /\ UNCHANGED <<reader, writer, cancelled, clients, subscribed, queue, got, count,
                 here>>

BugNotUnregistered(s) ==
  /\ Go(s, "unregister", "close")
  /\ UNCHANGED <<reader, writer, cancelled, clients, subscribed, queue, got, count,
                 here, due, pinged>>

\* The deferred function hands the client to the hub, which drops whichever client
\* of the user it has
Unregister(s) ==
  /\ Go(s, "unregister", "close")
  /\ clients' = [clients EXCEPT ![UserOf[s]] = NoSession]
  /\ UNCHANGED <<reader, writer, cancelled, subscribed, queue, got, count, here, due,
                 pinged>>

BugNotClosed(s) ==
  /\ Go(s, "close", "unsubscribe")
  /\ UNCHANGED <<reader, writer, cancelled, clients, subscribed, queue, got, count,
                 here, due, pinged>>

CloseConn(s) ==
  /\ Go(s, "close", "unsubscribe")
  /\ here' = here \ {s}
  /\ UNCHANGED <<reader, writer, cancelled, clients, subscribed, queue, got, count,
                 due, pinged>>

Unsubscribe(s) ==
  /\ Go(s, "unsubscribe", "done")
  /\ subscribed' = subscribed \ {s}
  /\ UNCHANGED <<reader, writer, cancelled, clients, queue, got, count, here, due,
                 pinged>>

-----------------------------------------------------------------------------
(* The read loop *)

\* The select at the top of the loop: ctx.Done, or on to ReadJSON
ReadSelect(s) ==
  /\ Read(s, "select", IF s \in cancelled THEN "ended" ELSE "reading")
  /\ UNCHANGED <<main, writer, cancelled, clients, subscribed, queue, got, count, here,
                 due, pinged>>

\* The frame is handled, then the loop starts again
Frame(s) ==
  /\ s \in here
  /\ Read(s, "reading", "select")
  /\ UNCHANGED <<main, writer, cancelled, clients, subscribed, queue, got, count, here,
                 due, pinged>>

\* ReadJSON calls the pong handler, which moves the deadline and does a heartbeat;
\* it does not return, the context is not looked at
Pong(s) ==
  /\ s \in here /\ s \in pinged
  /\ Read(s, "reading", "reading")
  /\ due' = due \ {s}
  /\ pinged' = pinged \ {s}
  /\ UNCHANGED <<main, writer, cancelled, clients, subscribed, queue, got, count,
                 here>>

\* ReadJSON fails because the client has closed the connection ...
ReadFails(s) ==
  /\ s \notin here
  /\ Read(s, "reading", "ended")
  /\ Cancel(s)
  /\ UNCHANGED <<main, writer, clients, subscribed, queue, got, count, here, due,
                 pinged>>

BugNilReturned(s) ==
  /\ s \in due
  /\ Read(s, "reading", "ended")
  /\ UNCHANGED <<main, writer, cancelled, clients, subscribed, queue, got, count, here,
                 due, pinged>>

\* ... or because the deadline has passed
Timeout(s) ==
  /\ s \in due
  /\ Read(s, "reading", "ended")
  /\ Cancel(s)
  /\ UNCHANGED <<main, writer, clients, subscribed, queue, got, count, here, due,
                 pinged>>

-----------------------------------------------------------------------------
(* The write loop: a select, then the write of what it has chosen *)

WriteCancelled(s) ==
  /\ s \in cancelled
  /\ EndWrite(s)
  /\ UNCHANGED <<main, reader, cancelled, clients, subscribed, here, due, pinged>>

Ping(s) ==
  /\ s \in due \ pinged
  /\ Write(s, "select")
  /\ pinged' = pinged \union {s}
  /\ UNCHANGED <<main, reader, cancelled, clients, subscribed, queue, got, count, here,
                 due>>

BugSentTwice(s) ==
  /\ queue[s] # <<>>
  /\ Write(s, "select")
  /\ queue' \in {queue, [queue EXCEPT ![s] = Tail(@)]}
  /\ got' = IF s \in here THEN [got EXCEPT ![s] = Append(@, Head(queue[s]))] ELSE got
  /\ UNCHANGED <<main, reader, cancelled, clients, subscribed, count, here, due,
                 pinged>>

BugSkipped(s) ==
  /\ queue[s] # <<>>
  /\ Write(s, "select")
  /\ queue' = [queue EXCEPT ![s] = Tail(@)]
  /\ UNCHANGED <<main, reader, cancelled, clients, subscribed, got, count, here, due,
                 pinged>>

\* A write to a client that is gone may go unnoticed
Send(s) ==
  /\ queue[s] # <<>>
  /\ Write(s, "select")
  /\ queue' = [queue EXCEPT ![s] = Tail(@)]
  /\ got' = IF s \in here THEN [got EXCEPT ![s] = Append(@, Head(queue[s]))] ELSE got
  /\ UNCHANGED <<main, reader, cancelled, clients, subscribed, count, here, due,
                 pinged>>

\* The network or writeWait makes the write of a ping or of an event fail
WriteFails(s) ==
  /\ s \in due \ pinged \/ queue[s] # <<>>
  /\ EndWrite(s)
  /\ Cancel(s)
  /\ UNCHANGED <<main, reader, clients, subscribed, here, due, pinged>>

-----------------------------------------------------------------------------
(* The clients, Redis and time *)

\* The client is gone, perhaps without a word
Leave(s) ==
  /\ s \in here
  /\ here' = here \ {s} /\ got' = [got EXCEPT ![s] = <<>>]
  /\ UNCHANGED <<main, reader, writer, cancelled, clients, subscribed, queue, count,
                 due, pinged>>

\* Produce on the channel of user u, from anywhere: each subscription gets the event
\* (one whose write loop has ended, too, see EndWrite)
Publish(u) ==
  LET listening == {s \in subscribed : writer[s] = "select" /\ UserOf[s] = u} IN
  /\ listening # {} /\ \A s \in listening : count[s] < MaxEvents
  /\ count' = [s \in Sessions |-> IF s \in listening THEN count[s] + 1 ELSE count[s]]
  /\ queue' = [s \in Sessions |->
                 IF s \in listening THEN Append(queue[s], count'[s]) ELSE queue[s]]
  /\ UNCHANGED <<main, reader, writer, cancelled, clients, subscribed, got, here,
                 due, pinged>>

Lapse(s) ==
  /\ main[s] = "wait"
  /\ s \notin due
  /\ due' = due \union {s}
  /\ UNCHANGED <<main, reader, writer, cancelled, clients, subscribed, queue, got,
                 count, here, pinged>>

-----------------------------------------------------------------------------
ConnInit ==
  /\ main = [s \in Sessions |-> "none"]
  /\ reader = [s \in Sessions |-> "none"]
  /\ writer = [s \in Sessions |-> "none"]
  /\ cancelled = {}
  /\ clients = [u \in Users |-> NoSession]
  /\ subscribed = {}
  /\ queue = [s \in Sessions |-> <<>>]
  /\ got = [s \in Sessions |-> <<>>]
  /\ count = [s \in Sessions |-> 0]
  /\ here = {}
  /\ due = {}
  /\ pinged = {}

\* The process ends: nothing of any connection is left
AllGone ==
  /\ main' = [s \in Sessions |-> "none"]
  /\ reader' = [s \in Sessions |-> "none"]
  /\ writer' = [s \in Sessions |-> "none"]
  /\ cancelled' = {} /\ subscribed' = {} /\ here' = {} /\ due' = {} /\ pinged' = {}
  /\ clients' = [u \in Users |-> NoSession]
  /\ queue' = [s \in Sessions |-> <<>>]
  /\ got' = [s \in Sessions |-> <<>>]
  /\ count' = [s \in Sessions |-> 0]

HandleConn(s) == Subscribe(s) \/ Waited(s) \/ CloseConn(s) \/ Unsubscribe(s)
WithHub(s) == Register(s) \/ Unregister(s)
ReadLoop(s) == ReadSelect(s) \/ Timeout(s)
WriteLoop(s) == WriteCancelled(s) \/ Send(s) \/ WriteFails(s)
Client(s) == Frame(s) \/ Pong(s) \/ ReadFails(s) \/ Leave(s)

\* What happens to a connection once it is accepted
ConnStep(s) ==
  HandleConn(s) \/ ReadLoop(s) \/ WriteLoop(s) \/ Ping(s) \/ Client(s) \/ Lapse(s)

-----------------------------------------------------------------------------
(* Invariants *)

ConnTypeOK ==
  /\ main \in [Sessions -> MainSteps]
  /\ reader \in [Sessions -> ReaderSteps]
  /\ writer \in [Sessions -> WriterSteps]
  /\ cancelled \subseteq Sessions /\ subscribed \subseteq Sessions
  /\ here \subseteq Sessions /\ due \subseteq Sessions /\ pinged \subseteq Sessions
  /\ clients \in [Users -> Sessions \union {NoSession}]
  /\ count \in [Sessions -> 0..MaxEvents]
  /\ \A s \in Sessions : /\ queue[s] \in Seq(1..MaxEvents)
                         /\ got[s] \in Seq(1..MaxEvents)

\* What is there only in some part of the life of a connection: its client until the
\* connection is closed, an overdue ping while both loops are waited for, a waiting event
\* while the write loop runs
Resting ==
  /\ \A s \in Sessions : /\ s \in here => main[s] \notin {"none", "unsubscribe", "done"}
                         /\ s \in due => main[s] = "wait"
                         /\ queue[s] # <<>> => s \in subscribed /\ writer[s] = "select"
  /\ pinged \subseteq due

\* Nothing of a connection is left when its handler returns, however it came to
\* that and whoever else is connected as the same user: its goroutines have ended,
\* the hub does not list it, Redis does not deliver to it.
NothingLeft ==
  /\ \A s \in Sessions : main[s] \in {"none", "done"} =>
        /\ reader[s] \in {"none", "ended"} /\ writer[s] \in {"none", "ended"}
        /\ s \notin subscribed
        /\ \A u \in Users : clients[u] # s
  /\ \A u \in Users : clients[u] # NoSession => UserOf[clients[u]] = u

\* While its client is there and its write loop runs, a connection passes on every
\* event since its subscription, once and in the order they were published: what it
\* has sent, and after that what waits, are just the events published since then.
NoGap ==
  \A s \in Sessions : s \in subscribed \cap here /\ writer[s] = "select" =>
    got[s] \o queue[s] = [i \in 1..count[s] |-> i]
=============================================================================
