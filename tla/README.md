# The messenger service in TLA+

TLA+ modules, TLC configurations and TLAPS proofs for the chat back end of this
repository (Go, PostgreSQL, Redis, WebSocket). Everything is translated from the
source; where a document and the source differ, the model follows the source and
the difference is listed under *Disagreements*.

## 1. The system

| Component | State it keeps | Operations | Modelled by |
|---|---|---|---|
| Chat store: the schema in `migrations/20260213_chats_refactor.sql` and `repository/message.go` | tables `chats`, `chat_members`, `messages`, `message_status`, two sequences, open transactions and their row locks | NewMessage, GetOrCreatePrivateChat, NewGroupChat, DeleteGroupChat, NewGroupChatMember, DeleteGroupMember, ChangeGroupChatMemberRole, SetReadAtStatus, SetDeliveredAtStatus, reads | `ChatStore` |
| Real-time messages: `service/message.go`, `service/dto.go` | one read loop per WebSocket connection, the locals of its handler | send_message (to a chat, or to a user not met before), message_read, message_delivered, fan-out | `MessageService` |
| Groups: `service/groups.go`, `server/handlers.go` | the locals of the HTTP requests in progress | create and delete a group, add and remove a member, change a role; three GETs | `GroupService` |
| Presence: `service/heartbeat.go`, `repository/connection.go` | Redis: the time of the last heartbeat per user; a ticker; the loops over contacts in progress | heartbeat on connect and pong, scanner, IsUserOnline, presence_change to the contacts | `Presence` |
| Connections: `service/hub.go`, `service/client.go`, `HandleConn` and the two loops of `service/message.go` | the hub's map, a channel of events and two goroutines per connection, a Redis subscription, a read deadline | connect, subscribe, frames, ping and pong, close | `Connection` |
| History: `PaginateMessages` (repository, service, handler) | none (reads); the cursor is the client's | pages of 20 below a cursor on the id | `History` |
| Process: `cmd/app`, `server/server.go`, `config`, clients | where main and Run are | migrate, serve, migrate down, shut down | `Server` (without configuration) |
| Authentication, error and JSON shapes, web client | none | | not modelled |

How they interact. An HTTP handler and a read loop are goroutines that call the
repository directly; the database is the only state they share. After a commit
the handler publishes an event for each user concerned on that user's Redis
channel, if presence says the user is online. The connection of that user is
subscribed to the channel and its write loop passes the event to the client.
Presence publishes on the same channels, and is fed by the pongs the read loops
get.
Nothing is queued for users who are offline and no call is retried.

What is hard in it.

* Transactions of different goroutines interleave under READ COMMITTED. What
  they may rely on comes from side effects: the foreign key locks the row of the
  chat, a trigger updates that row after each message, and two methods read the
  members *outside* the transaction they have open.
* Checking and acting are separate statements (roles, private chats).
* Committing and telling are separate steps, and each of the two reads the
  members for itself: status rows and fan-out may go to different people.
* A call may fail at any point; whatever is open has to be given back, and
  clients that were told something must have been told the truth.
* Events of concurrent requests are published in any order.
* Presence compares clocks with three different thresholds; online, subscribed
  and registered are three different things that change at different moments. The
  scanner acts on what it read before other heartbeats wrote.
* A connection is three goroutines and a hub; an end of one has to reach the
  others, whatever they are blocked in.
* Ids become visible out of order, pages go by id, and a client puts together its
  history from pages and events.
* The keys of presence outlive the process that wrote them; the tables do not
  outlive the signal to end.

What makes each component correct.

* Store: foreign keys, ids that denote one thing for ever, status rows that agree
  with the membership at the moment of the commit, membership that changes only
  together with a message that says so.
* Messages: the service uses the store as it is meant to be used, leaves no
  transaction open, never reports what is not stored, keeps the order of an
  author, confirms to the author first, reaches every addressee who is there.
* Groups: only an admin acts on members, private chats stay, every member event
  says what a stored message says, chat lists of clients follow the membership.
* Presence: who is connected counts as online, who is gone is forgotten, the
  contacts hear of both.
* Connections: nothing of a connection outlives it, both loops end when one does,
  events arrive in order and without a gap, every accepted connection is served.
* History: pages and events together miss nothing.

The list of hazards, each with its line, is in `PROJECT.json`.

## 2. Modules

    ChatStore   <-  ChatStoreLog      <-  ChatStoreLogProofs   the store implements ChatLog
                <-  ChatStoreProofs   <-  the proofs of the modules below that extend ChatStore
                <-  MessageService    <-  MessageServiceProofs
                                      <-  History   <-  HistoryProofs
                <-  GroupService      <-  GroupServiceProofs
                <-  Messenger         <-  MessengerProofs
    Connection  <-  Server            <-  ServerProofs
    Presence                          <-  PresenceProofs

(an arrow is EXTENDS; `Messenger` has instances of `MessageService` and
`GroupService`, `MessengerProofs` of their proofs; each run has an MC module in front of what it checks:
`MCChatStore`, `MCMessageService`, `MCGroupService`, `MCMessenger`, `MCHistory`,
`MCServer`, `MCPresence`.)

`MessageService` and `GroupService` EXTEND the store, so that its variables are
shared and each handler step that calls the repository is a conjunction of a
store action and a change of the handler's own locals. That the conjunctions use
the store correctly is not assumed: `StoreSpec`, the store for any callers with
any arguments, is a property of both services (here the refinement mapping is
the identity on the store's variables).

### ChatStore

| Code | Model |
|---|---|
| rows of the four tables | `chats`, `members`, `messages`, `status` (functions; a row that is absent is `NoChat`, `"NONE"`, `NoMessage`) |
| `BIGSERIAL` sequences | `nextChat`, `nextMsg`; a rollback does not set them back |
| `tx, err := BeginTx` ... `defer tx.Rollback` ... `Commit` | `tx[w]` for worker `w`, `NoTx` when none is open |
| `NewMessage`, `NewGroupChatMember`, `DeleteGroupMember` | `...Insert` / `...Delete`, then `SelectMembers`, then `...Commit` |
| `GetOrCreatePrivateChat` | `PrivateChats` when the SELECT finds a row, else `PrivateChatMissing` then `PrivateChatCreate` or `PrivateChatWithSelf` |
| `DeleteGroupChat` with ON DELETE CASCADE | `DeleteGroupChat`, one statement |
| `trigger_update_chat_timestamp` (updates the chat after each message) | `tx[w].held`; `SelectMembers` waits while another transaction has the row of the chat (`ChatHeld`) |

A transaction that posts is three steps: the insert, with the locks and the id it
takes; the trigger's UPDATE with the SELECT of the members that follows it; and the
status rows with the commit. Between any two of them other transactions move. The
insert takes a KEY SHARE lock on the row of the chat, which lets others post but not
delete the chat (`ChatLocked`). The trigger's UPDATE excludes other updates of the
row (`ChatHeld`): from there to the commit no other transaction that posts to the
same chat gets past its own insert, and since nobody joins or leaves without
posting, the members read (`tx[w].to`) are still the members at the commit. That is
`HoldersApart`, and `AddressedAtCommit` is what follows from it; without the trigger
it fails (`BugNoTrigger`). The order in which two posters get the row is left open:
either commits first, so ids become visible out of order.

`NewGroupChatMember` and `DeleteGroupMember` call `GetAllChatMembers`, which uses
the pool, while `NewMessage` uses its transaction. The pool sees neither the row
just inserted nor the deletion: `Addressees` is the committed membership in each
case.

`StoreNext` lets every worker call anything with any arguments, so that what
holds for it holds for any service built on it. `SetDeliveredAtStatus` is defined
but is never a step, since its statement cannot be prepared (disagreement 1).

### MessageService

`sess[s]` is the place of connection `s` in `handleSendMessage`,
`handleSendMarkAsRead` or `handleSendMarkAsDelivered` with the locals that live across
a call; the frame arriving is `Receive...`, every repository call and every
publish is a step. `inbox[u]` is what was published on the channel of `u` while
`u` listened. The HTTP handlers are present as `GroupCall`: any repository call
they make, at any time. `HandlerFails` is the error return of any call, with the
deferred rollback.

### GroupService

`job[w]` is the place of an HTTP request with its locals; `Receive...` is the
request with its role check, the following actions are the calls in the order of
the code. `listed[u]` is what the client of `u` takes to be its chat list from
INVITED_TO_CHAT, DELETED_FROM_CHAT and the answers to its own requests; `told` is
who was told what of which member message. The type of a removal is an argument of the
request, as in the code: it does not depend on who removes whom. Only a client that
leaves by its own request knows that it has left. The read loops are present as
`SessionCall`. The ids of users are numbers, like those of chats, because one
call passes one for the other.

`HandlerStep` and `SessionStep` are all the steps of one handler and of one
connection; `Messenger` is built from them.

### ChatLog and ChatStoreLog

`ChatLog` is what the store promises: chats with members and one log. Each thing
that happens to a chat is one step and has its entry, addressed to the members of
that moment, under an id used once. There are no transactions, roles or tables.
`ChatStoreLog` is the refinement mapping: a chat is alive if it has a row, an
entry is a message with the set of users who have a status row for it, and the id
of a message is spent once no open transaction holds it. `ImplementsLog` says that
under this mapping every behaviour of the store is one of the log; every
transaction takes effect in its commit, and the steps before it (except that a
chat id is taken) are invisible. The one thing the store does that one would not
have written down at first is `LeaveMissed`: a member who is being added while
another request removes him stays, although the log says that he left.

### Messenger

The two services as INSTANCEs over one store, connections and HTTP handlers as its
workers. Each service alone was checked against an environment that may make any
call its partner makes (`GroupCall`, `SessionCall`); `ImplementsMessageService` and
`ImplementsGroupService` say that the partner really makes no other, so that what
the runs and proofs show of each service holds for the two together.

### Presence

| Code | Model |
|---|---|
| key `user:online:u` with a timestamp | `u \in keys`, `age[u]` in units of delta, counted up to `Old` (older than every threshold) |
| `HandleHeartbeat` | `Heartbeat` (GET and wasOffline), `SetStamp`, then `Ask` per contact and `Tell` per interested contact |
| `checkOfflineUsers` | `ScanRead`, then for each user found `ScanDelete`, `Ask`, `Tell` |
| ticker, read deadline | `timer`, `idle[s]`; `Tick` may not pass them |
| `IsUserOnline`, `getInterestedUsers`, the scanner | `IsUserOnline` (<=), `Interested` (<), `TooOld` (>) |
| a client's idea of its contacts | `view[s]` |

Heartbeats of several connections of a user and the scanner interleave between any
two calls of Redis. `Crash` and `Restart` keep the keys. The unit of 5 s makes
pongWait 2, delta 1, the period of the scanner 3, the thresholds 3 and 4.

### Connection and Server

`main[s]`, `reader[s]`, `writer[s]` are the places of HandleConn and its loops,
`cancelled` the errgroup contexts that are cancelled, `clients` the hub's map. The
hub's channels are unbuffered, so `Register` and `Unregister` are steps of the hub
and the handler together. A read loop in ReadJSON does not look at the context;
it leaves on a frame, an error or the deadline. There is no clock: a ping is `due`
when a ping period has passed since the deadline was moved, from then on the
deadline may pass. `queue[s]` and `got[s]` hold the events that wait in the channel
of a subscription and those its client has got. `count[s]`, a history variable, is
how many were published since the subscription and gives each its number. When the
write loop ends nobody reads the channel any more, so what is left in it, and what
is still published until the subscription is closed, is forgotten (`EndWrite`).

`Server` puts the phases of main and Run around the connections: which goroutines
run in which phase (`HubRuns`, `Listening`), and `Exit`, which takes everything
away.

### History

A client beside `MessageService`: it opens a chat (from there on events count),
then asks for page after page below the cursor it was given. `Paginate` is a whole
request: SELECT with LIMIT (PageSize + 1 for 21), the flag, the cursor. A page with
a membership message fails (`Scans`): the content of these rows is NULL and
domain.Message has a plain string for it.

### Operators named `Bug...`

Each is a mistaken version of the operator that follows it (a lock not taken, an
id read too late, a missing rollback, a loop left early). No action uses them.
Put in the place of the operator they precede, each makes TLC report the property
it was written for, which shows that the property is able to fail;
`PROJECT.json` pairs them under `mutants`.

## 3. Runs

Properties that hold:

| Run (cfg) | Bounds | Distinct states | What it shows |
|---|---|---|---|
| store (`ChatStore`) | 2 users, 2 workers, 2 chats, 2 messages; users and workers symmetric | 216,269 | foreign keys (`Integrity`), `JoinerNotAddressed`, the inductive `TxInv`; `IdsNeverReused`, `AddressedAtCommit`, `MembershipPosted` for every step; the refinement `ImplementsLog` |
| messages (`MessageService`) | 2 connections and an HTTP worker, 2 users, 1 chat, 2 messages, 2 frames, failures | 447,141 | `NothingLeftOpen`, `EventsAreStored`, `SenderOrder`, and that every step is a step of `StoreSpec` |
| delivery (`MessageServiceLive`) | 1 connection, an HTTP worker, 3 users, no failures, fair | 122,060 | `SentIsDelivered` while others join, leave and delete the chat |
| groups (`GroupService`) | 2 handlers and a connection, 2 users, 2 chats, 2 messages, 3 requests, failures | 387,926 | `NothingLeftOpen`, `NoAdminInPrivate`, `ToldIsStored`, `PrivateChatPermanent` |
| member_events (`GroupServiceLive`) | 2 handlers, 3 users, 1 chat, 2 messages, 3 requests, no failures, fair | 20,703 | `MemberChangeIsTold` |
| messenger (`Messenger`) | 1 connection and 1 handler, 2 users, 2 chats, 3 messages, 1 frame, 4 requests, no failures | 254,815 | `ImplementsMessageService`, `ImplementsGroupService`; `ChatListFollows` as long as requests do not overlap |
| history (`History`) | the messages run without failures, and a reader; pages of 1 | 779,980 | `HistoryComplete`, `MoreIsThere`, `NothingMissed` |
| presence (`Presence`) | 2 users who are contacts, 2 connections of any of them, unit 5 s, fair | 45,357 | `ConnectedNotListed`, `AnnouncedAfterGap` for every step; `ConnectedIsOnline`, `GoneIsForgotten`, `GoneIsTold`, `ChangeIsTold` |
| connection (`Server`) | 2 connections of one user, 2 events for each, fair | 100,591 | `NothingLeft`, `NoGap`; `AcceptedIsServed`, `LoopsEndTogether`, `EventArrives` |

Why these bounds are enough to be worth running. Every conflict in the store is
between two transactions over one chat, so two workers meet all of them; a second
chat is there so that one can be deleted or private while the other is used, two
messages so that ids can be spent, reordered and compared. Two users are a joiner
and a bystander, or an admin and a member; the fan-outs of `delivery` and
`member_events` have a third so that the loop takes several turns: in
`member_events` the creator adds a second and then a third user, the third join
is told to two, and requests overlap. In `messages` two frames let the two
connections overlap, or one of them send twice; in `groups` a request each for
creating, adding and removing. `MaxChats`, `MaxMsgs`, `MaxFrames` and
`MaxRequests` only end the run: no guard of the code depends on them, and the
proofs of section 5 hold for all of their values. `UserOf` is injective in the
runs; `SenderOrder` claims nothing otherwise.

In `messenger` one connection and one handler are enough to ask whether each makes
only the calls the other expects, since that is a question about single steps; two
chats and three messages let a private chat, a group and its member messages be
there together. In `history` two messages and pages of one are the boundary: a full
page with and without an extra row, an empty page, a message that commits below a
cursor already passed; with three messages and three frames and no HTTP worker the
three invariants hold as well (186,858 states). In `presence` the bound of the
clock is in the code: no key gets older than `Old` matters. Two connections are
two users who watch each other, or one user who connects twice. In `connection`
two connections of one user share the entry of the hub and the channel of events;
with two events one may wait while another is written, so that one that is passed
over, repeated or overtaken shows.

Deadlock is checked in `store`, `messages`, `delivery`, `groups`, `history` and
`presence`: a role change, a read mark, a rollback or the clock is
always possible there, so a state in which nothing could happen would be a mistake
of the model. `connection` ends with the process, `messenger`, `member_events` and
the runs that look for a violation end when the bounds on frames and requests are reached, having
no worker in the background; they turn it off.

Statements the code does not keep (each of these runs ends with a
counterexample): `private_pairs`, `roles`, `overlapping_lists`; see section 6.

## 4. Fairness

`FairSpec` of both services has weak fairness for `Handle(s)`, the next step of
a handler that has begun. A goroutine is scheduled, PostgreSQL and Redis answer
(the calls have contexts or the server's own timeouts), and a handler waiting for
a row lock gets it when the other transaction ends, which is the second conjunct
in `MessageService`: the transaction of an HTTP worker goes on. Nothing forces a
client to send a frame or a request, and no fairness is assumed for a step that
begins something. Within `Handle` nothing chooses between success and failure;
the liveness properties are stated for `~Faults`, because a failed call is never
retried and they are plainly false with failures.

`Presence!FairSpec`: calls that have begun end, a deadline fires (by a pong or by
the end of the connection), the scanner's goroutine runs: weak fairness. Time
needs strong fairness: `Tick` is disabled whenever a client connects or the
process restarts, and without it infinitely many of these might happen in one
unit. Nothing makes a client connect or answer, and nothing makes the process
start again.

`Server!FairSpec`: weak fairness of main, of the hub with each connection, of
HandleConn, of either loop and of time (`Lapse`). Not for pings: once a read
deadline can pass, it is the deadline that ends a connection whose ping was never
sent. Not for frames and pongs, which are the client's. A select with several ready
cases chooses at random; that an event is not passed over for ever is the fairness
of `WriteLoop`.

The liveness properties of the services carry the escape the code has: the fan-out reads the
members anew, so a user who left, or whose chat was deleted, before that need not
be told.

## 5. Proofs

`ChatStoreProofs` proves the store for every set of users and workers and every
bound (assumption `StoreAssumption`: NoUser is not a user, the bounds are natural
numbers).

* `StoreInv == TypeOK /\ Integrity /\ JoinerNotAddressed /\ TxInv` is inductive.
  None of the first three is inductive by itself. That a commit keeps the foreign
  keys needs that the chat of an open transaction still exists, hence
  `PostersHold`, which depends on `ChatLocked`. That it overwrites no message needs
  that no other transaction has its id (`IdsApart`) and that ids in use are below
  the sequence (`IdsAhead`). That a joiner is not among the addressees needs that
  the row being inserted is not there at the commit (`RowsPending`), whatever
  other transactions did meanwhile (`RowsApart`). The conjuncts are proved
  preserved action by action, `CommitPost` and `Post` once for their callers.
* `IdsNeverReused`, `AddressedAtCommit` and `MembershipPosted` follow from the
  invariant, step by step. For the second, `HoldersApart` has to survive the
  commits, joins and leaves of others: each of them that would change what a holder
  has read would have to hold the same row.

`ChatStoreLogProofs` proves `ImplementsLog`, the refinement, from the same invariant.
What the mapping shows of the store has names there (`Alive`, `Seen`, `Belongs`,
`Entries`, `Spent`), and there is a lemma for each kind of step:

* the first step of a transaction shows nothing (`PostUnseen`): the id it takes is
  below the sequence from then on, and not spent because the transaction holds it;
* the commit enters the message and spends its id (`CommitEnters`), for which
  `IdsApart` and `RowsPending` are needed: no other transaction has the id, and the
  addressees are the members the log knows. A rollback only spends the id;
* a creation opens a chat whose id was never seen, a deletion takes the chat, its
  members and its messages at once. Roles and read marks show nothing.

`GroupServiceProofs` proves about `GroupService`, with the same generality plus
`HandlerAssumption`:

* `GroupInv`, that is `StoreInv` and `JobsSound` (which names, for every place of
  a handler, the transaction it has open and the arguments it holds), is
  inductive. From it `ImplementsStore` (`Spec => StoreSpec`) and
  `NothingLeftOpenCorrect`. The results of `ChatStoreProofs` thereby hold of the
  service.
* `NoAdminInPrivate` is inductive relative to `GroupInv`, and
  `PrivateChatPermanent` follows: roles are only given by requests whose chat is
  not private, and a chat that was not private when the role was checked cannot
  have become private since, because ids are not reused.

* `ToldIsStored` needs to know what a handler past its commit holds: `JobsTell` says
  that its message is *settled*, and that the member it is about is not among those
  still to be told. `Settled(m, c, u, t)`, defined in `ChatStoreProofs`, is the notion
  all the proofs about telling rest on: message m has been committed with this
  chat, author and type, no transaction has its id, and if it is not there any more
  the chat is not there either. `SettledStays` proves once that it is for ever,
  `CommitSettles` that a commit brings it about.
* `ChatListFollows` is proved for any users, chats, connections and requests under
  `OneAtATime`, that there is one handler. Without it the statement is false
  (`overlapping_lists`). `ListInv` strengthens it to hold in the middle of a request:
  the lists follow the membership (`Follows`) except for the one client about to be
  told, and what it is about to be told is still so. The handler that has deleted a
  row knows whether it was there (`hit`), and with nobody else changing members that
  stays right. That a silent removal is excepted, and only until the member is added
  again, needs that what a handler is about to say of him comes after all that has
  been said (`Newest`).

`MessageServiceProofs` has `RtInv`: `StoreInv`, what the place of a handler says of
its locals and its transaction (`SessionsSound`), that the events in the inboxes and
the messages the handlers are about to tell of are settled (`InboxSound`,
`TellersSound`) and, if users have one connection each, `OrderKept`. From it follow
`CallsStore` (`Spec => StoreSpec`), `TypeInv`, `NothingLeftOpen`, `EventsAreStored`
and `SenderOrder`. `SenderOrder` is about
the inboxes alone and is not inductive: `OrderKept` adds that the id a handler has
taken, and later the message it tells of, is ahead of everything of its user in
each inbox it has still to write to. It is taken from the sequence after all these
were committed, and one handler works at one frame at a time.

`MessengerProofs` proves the two refinements `ImplementsMessageService` and
`ImplementsGroupService`. Its invariant is only that of the two services together:
each step of a connection is a step of `MessageService` by definition, and one that
`GroupService` allows its environment because, by `RtInv`, its arguments are users,
chats and messages; likewise the handlers by `GroupInv` (`ConnectionCalls`,
`HandlerCalls`). The services and their proofs enter by INSTANCE; that the copies of
the store and of the services are the same is `SameNames`. `BothHold` then states the
invariants of both services of the system with both, `CallsStoreCorrect` those of the
store, and `ChatListFollows` (one handler, any number of connections) follows from the
theorem about `GroupService`.

`HistoryProofs` proves the three invariants of `History` for any page size and any
number of messages, under any interleaving with the service.

* `NewestIs` and `PageIs` are the lemmas about LIMIT: a page is all that is below the
  cursor if the extra row is missing; otherwise everything below the cursor is in
  the page or below the new cursor, and something is.
* `ReadDown` generalises `HistoryComplete` to the middle of the reading: what was
  visible at the first request and still is has been got or lies below the cursor.
  It is kept by the service's steps because a settled message that is visible after
  a step was visible before (`SettledWasSeen`): nothing old appears. `MoreIsThere`
  needs in addition that the message left below the cursor is settled.
* `NothingMissed` only speaks of states where all handlers rest. `NoneMissed` says
  of every state that a message that concerns the reader was there before, has been
  told since, or a handler is on its way to tell him (`Waits`). The step that is not
  obvious is the second reading of the members: `AddressedStay`, an invariant of the
  store proved for this, says that whoever has a status row is a member or has left
  with a message saying so, which `NeverLeft` excludes.

`PresenceProofs` proves `ConnectedNotListed` and `AnnouncedAfterGap` for any interval,
delta, scanner interval, contacts and connections. The invariant is `KeyFresh`: the
key of a user is no older than the time since one of his open connections moved its
deadline, or that connection has just moved it and is about to set the key, which
then is at most an interval old. With `Interval + Delta < Threshold` both follow. That
`KeyFresh` is inductive needs that heartbeats belong to a connection that is there
(`CallsAgree`), and that none is while the process is down (`DownIsClosed`).

`ServerProofs` proves `TypeInv`, `NothingLeft` and `NoGap` for any users, connections
and number of events. `Stages` ties the loops, the subscription and the buffers to
the place of HandleConn, `HubAgrees` says whom the hub may list and when, `Resting`
(a part of `TypeInv`) that no client, overdue ping or waiting event outlives its
connection. `Numbered` says of each position, in what was sent and in what waits,
which event is there, and that together they are as many as were published since
the subscription; `NoGap` states that of the concatenation. It is about the time
until the write loop ends or the client has gone; so is `Gapless`.

What is not proved:

* Every liveness property (`SentIsDelivered`, `MemberChangeIsTold`, those of the runs
  `presence` and `connection`) stays with TLC: reasoning about fairness and ENABLED is
  out of the reach of the prover used.
* The three statements of section 6 that fail have counterexamples and no theorems.

Every safety property that a passing run checks has a theorem. The assumptions are
those the modules name (`StoreAssumption`, `SessionAssumption`,
`HandlerAssumption`, `MessengerAssumption`, `ReaderAssumption`,
`PresenceAssumption`, `ConnectionAssumption`), which TLC evaluates for each run, and
`OneAtATime` where it is stated.

## 6. Disagreements between the code and what is written about it

1. The UPDATE of `SetDeliveredAtStatus` (repository/message.go:551) names `$2` and
   `$3` and gets two arguments. PostgreSQL refuses it, so no status ever becomes
   DELIVERED, and `SetReadAtStatus`, which asks for DELIVERED, never finds a row.
   The comment at service/message.go:433 promises a confirmation that is never
   sent. Without a run: the statement is no step of the model
   (`SetDeliveredAtStatusPrepares`), and a property saying so would only repeat this.
2. service/groups.go:22 passes (user, chat) where the repository expects (chat,
   author): `DeleteGroupChatArgs`. Without a run of its own; `HandleDeleteGroupChat`
   is the call as it is made, so that all runs of the group service include it.
3. `roles`: the role of the caller is read in one statement and used in another,
   so a role may be changed by someone who is no longer an admin (groups.go:182
   and 197; DeleteGroupMember has the same gap).
4. `private_pairs`: two users who write to each other for the first time at the
   same moment get two private chats (repository/message.go:364).
5. `overlapping_lists`: INVITED_TO_CHAT and DELETED_FROM_CHAT of two overlapping
   requests may be published in the order opposite to the commits (groups.go:53).
   In the counterexample one request adds a user and another kicks him: the join
   commits, the kick commits and is published, then the invitation is published,
   and the client lists a group its user is not in. groups.go:42 calls the event
   "necessary for the client to react to a change in the chat list".
6. groups.go:110 says "if type not is kicked member type it means that client
   already know about changes" and sends no DELETED_FROM_CHAT for left_member. The
   type comes from the body of the request (handlers.go:147-158) whoever is
   removed: an admin who removes another member with left_member leaves the chat in
   that member's list, one request at a time. Without a run of its own;
   `ReceiveDeleteMember` leaves the type free, and `ChatListFollows` excepts just
   this case (`LastSaysLeft`), so that it says the list is wrong in no other.

## 7. What the model takes for granted

* The tables are external: users exist and are not deleted (another service owns
  them), PostgreSQL implements READ COMMITTED and its row locks.
* The pool has a connection for every worker. `NewGroupChatMember` and
  `DeleteGroupMember` need two at a time.
* A request whose client hangs up has its context cancelled; that is a rollback,
  which `Rollback` and `HandlerFails` allow at any time when failures are on, and
  which the workers in the background may always do.
* Inputs. A removal carries either of the two types its JSON and the repository
  name (server/dto.go:15, repository/message.go:268), in any combination with who
  removes whom; a role is one of the two of domain/models.go:46. The code checks
  neither, and other words are not modelled (one that is no chat_event_type makes
  the INSERT fail). Clients send complete frames and ids they could know.
* A group that is deleted stays in the lists of its members, since nobody is told;
  `ChatListFollows` speaks of groups that exist. A client that is removed in silence
  (disagreement 6) is not said to know.
* Sending requires no membership in the code, so none is required here. Leaving
  a group requires the role ADMIN in the code, so it does here.
* `Reachable` stands for presence and subscription: these users are online all
  the time, the others may or may not get an event. `ConnectedIsOnline` and `NoGap`
  are what `Presence` and `Connection` contribute to it; that a user who connects
  counts as online before he is subscribed, and may be taken for offline between a
  scan and the next pong, is why `Reachable` is not simply "connected".
* Presence: the calls of one heartbeat or scan take less than a unit of 5 s
  together; a client that has been cut off does not come back within the same
  unit; the contacts of a user do not change and are symmetric (they are the other
  members of his private chats); single Redis calls do not fail.
* A heartbeat and the scanner that meet in the same unit may announce a user in
  either order, and what is announced last may be wrong until he is announced the
  next time. The properties of `Presence` say that everybody concerned gets what is
  announced; `GoneIsTold` therefore asks for the key, which the scanner might have
  removed early.
* Connections: pongs answer pings. The pong handler (service/message.go:36) takes an
  unsolicited pong as well, and a client that sent these for ever would keep a read
  loop from its deadline: `LoopsEndTogether` rests on this assumption. go-redis does not drop an event, because it
  waits for a place in its channel longer (60 s) than a write may take (10 s); a
  panic in a loop ends the process (it is not a goroutine net/http recovers).
* After the signal: HTTP requests still in progress are not followed. Their calls
  fail because the tables are gone, which for the services is one of `Faults`.

## 8. Not modelled, and what is left to do

Not modelled: configuration, authentication and JWT, error codes and JSON, the web
client, the content of messages and of chats, names and timestamps. The handlers
for edit and delete of messages, `GetAllUndeliveredMessages` and the two listing
GETs have no effect that another part could see.

Left to do, in this order:

1. An abstract specification of the message service, as `ChatLog` is one of the store:
   what a user is told, against the log; and the refinement from `MessageService`.
2. Presence with failing calls of Redis, and with contacts that change.
3. History in the messenger, with several readers and with the requests of the
   handlers in their order.
4. The failing variants: `RoleChangedByAdmin` and `OnePrivateChatPerPair` as theorems
   of the services with one handler or connection.
