--------------------------- MODULE MessageService ---------------------------
(***************************************************************************)
(* The real-time side of the messenger: the read loop of every WebSocket   *)
(* connection handles the frames of its client one at a time               *)
(* (internal/service/message.go).  A handler writes the store, then tells  *)
(* the clients: an event for a user is published on the Redis channel of   *)
(* that user, if the user counts as online, and is never sent again.       *)
(*                                                                         *)
(* Each call of the repository and each published event is a step, so that *)
(* the handlers of different connections interleave between any two of     *)
(* them.  The other workers are the HTTP handlers: they may call anything  *)
(* of the repository that GroupService calls, at any time.                 *)
(*                                                                         *)
(* The operators named Bug... are mistaken versions of the operator that   *)
(* follows them, used by no action (see ChatStore).                        *)
(***************************************************************************)
EXTENDS ChatStore, Sequences, Functions

CONSTANTS
  Sessions,   \* the WebSocket connections; each is a worker
  UserOf,     \* UserOf[s]: the user the token of connection s belongs to
  Reachable,  \* the users who are online and subscribed all the time
  Faults,     \* whether a call of the database or of Redis may fail
  MaxFrames   \* bound on the frames the clients send

ASSUME SessionAssumption ==
  /\ Sessions \subseteq Workers
  /\ UserOf \in [Sessions -> Users]
  /\ Reachable \subseteq Users
  /\ Faults \in BOOLEAN
  /\ MaxFrames \in Nat

VARIABLES
  sess,       \* sess[s]: where the handler of connection s is, with its locals
  inbox,      \* inbox[u]: the events published on the channel message:u while u listens
  frames      \* the number of frames handled

vars == <<storeVars, sess, inbox, frames>>

\* new_message, message_read and message_delivered go to the members of the chat
FanoutTypes == {"new_message", "message_read", "message_delivered"}
Steps == {"idle", "private", "newChat", "insert", "commit", "confirm", "members", "fanout"}

\* The locals of a handler: the chat, the user a new chat is with, the id of the
\* message (of a mark: the one the client named), the type of the event to fan out
\* and the members still to be told
IdleSession == [step |-> "idle", chat |-> 0, peer |-> NoUser, msg |-> 0,
                type |-> "new_message", todo |-> {}]

Session == [step : Steps, chat : ChatIds \union {0}, peer : Users \union {NoUser},
            msg : MsgIds \union {0}, type : FanoutTypes, todo : SUBSET Users]

Event == [type : FanoutTypes \union {"new_chat", "message_confirmed"},
          chat : ChatIds, msg : MsgIds \union {0}, from : Users]

At(s, step) == sess[s].step = step

\* Connection s goes on with these locals, or is done with the frame
Continue(s, locals) == sess' = [sess EXCEPT ![s] = locals]
Done(s) == Continue(s, IdleSession)

\* handleProduce: a user who is not online, or whose connection is gone, misses the
\* event; so does everybody if Redis fails (the error is only logged)
Produce(u, type, c, m, from) ==
  \/ inbox' = [inbox EXCEPT ![u] =
                 Append(@, [type |-> type, chat |-> c, msg |-> m, from |-> from])]
  \/ /\ u \notin Reachable \/ Faults
     /\ inbox' = inbox

-----------------------------------------------------------------------------
(* Frames of the client *)

Receive(s) ==
  /\ At(s, "idle")
  /\ frames < MaxFrames
  /\ frames' = frames + 1
  /\ UNCHANGED inbox

\* send_message with a chat_id: a chat the client knows of, perhaps deleted since
ReceiveSend(s, c) ==
  /\ Receive(s)
  /\ c < nextChat
  /\ Continue(s, [IdleSession EXCEPT !.step = "insert", !.chat = c])
  /\ UNCHANGED storeVars

\* send_message with a temp_chat_id and a to_user_id: the chat is looked up
ReceiveSendPrivate(s, v) ==
  /\ Receive(s)
  /\ \/ \E c \in PrivateChats(UserOf[s], v) :
          /\ Continue(s, [IdleSession EXCEPT !.step = "newChat", !.chat = c, !.peer = v])
          /\ UNCHANGED storeVars
     \/ /\ PrivateChatMissing(s, UserOf[s], v)
        /\ Continue(s, [IdleSession EXCEPT !.step = "private", !.peer = v])

\* message_read, up to the message upTo
ReceiveRead(s, c, upTo) ==
  /\ Receive(s)
  /\ c < nextChat /\ upTo < nextMsg
  /\ SetReadAtStatus(upTo, c, UserOf[s])
  /\ Continue(s, [IdleSession EXCEPT !.step = "members", !.chat = c, !.msg = upTo,
                                     !.type = "message_read"])

\* message_delivered: the handler returns when the UPDATE fails
ReceiveDelivered(s, c, m) ==
  /\ Receive(s)
  /\ c < nextChat /\ m < nextMsg
  /\ IF SetDeliveredAtStatusPrepares
     THEN /\ SetDeliveredAtStatus(m, UserOf[s])
          /\ Continue(s, [IdleSession EXCEPT !.step = "members", !.chat = c, !.msg = m,
                                             !.type = "message_delivered"])
     ELSE UNCHANGED <<storeVars, sess>>

-----------------------------------------------------------------------------
(* The rest of handleSendMessage *)

CreateChat(s) ==
  /\ At(s, "private")
  /\ \/ /\ PrivateChatCreate(s)
        /\ Continue(s, [sess[s] EXCEPT !.step = "newChat", !.chat = nextChat])
     \/ /\ PrivateChatWithSelf(s)
        /\ Done(s)
  /\ UNCHANGED <<inbox, frames>>

ProduceNewChat(s) ==
  /\ At(s, "newChat")
  /\ Produce(sess[s].peer, "new_chat", sess[s].chat, 0, UserOf[s])
  /\ Continue(s, [sess[s] EXCEPT !.step = "insert"])
  /\ UNCHANGED <<storeVars, frames>>

InsertMessage(s) ==
  /\ At(s, "insert")
  /\ NewMessageInsert(s, sess[s].chat, UserOf[s])
  /\ Continue(s, [sess[s] EXCEPT !.step = "commit"])
  /\ UNCHANGED <<inbox, frames>>

\* The trigger of the INSERT gets the row of the chat, the members are read
SelectForMessage(s) ==
  /\ At(s, "commit")
  /\ SelectMembers(s)
  /\ UNCHANGED <<sess, inbox, frames>>

BugNextIdTaken(s) ==
  /\ At(s, "commit")
  /\ NewMessageCommit(s)
  /\ Continue(s, [sess[s] EXCEPT !.step = "confirm", !.msg = nextMsg])
  /\ UNCHANGED <<inbox, frames>>

BugNoStatusRows(s) ==
  /\ At(s, "commit") /\ tx[s].held
  /\ messages' = [messages EXCEPT ![tx[s].msg] =
                    [chat |-> tx[s].chat, from |-> tx[s].user, type |-> tx[s].type]]
  /\ tx' = [tx EXCEPT ![s] = NoTx]
  /\ Continue(s, [sess[s] EXCEPT !.step = "confirm", !.msg = tx[s].msg])
  /\ UNCHANGED <<chats, members, status, nextChat, nextMsg, inbox, frames>>

CommitMessage(s) ==
  /\ At(s, "commit")
  /\ NewMessageCommit(s)
  /\ Continue(s, [sess[s] EXCEPT !.step = "confirm", !.msg = tx[s].msg])
  /\ UNCHANGED <<inbox, frames>>

ProduceConfirmed(s) ==
  /\ At(s, "confirm")
  /\ Produce(UserOf[s], "message_confirmed", sess[s].chat, sess[s].msg, UserOf[s])
  /\ Continue(s, [sess[s] EXCEPT !.step = "members"])
  /\ UNCHANGED <<storeVars, frames>>

BugNoFanout(s) ==
  /\ At(s, "members")
  /\ Done(s)
  /\ UNCHANGED <<storeVars, inbox, frames>>

\* GetAllChatMembers: the author of a message is not told of it, but a mark is
\* reported to the one who set it as well
ReadMembers(s) ==
  LET others == IF sess[s].type = "new_message" THEN {UserOf[s]} ELSE {}
      todo   == MembersOf(sess[s].chat) \ others
  IN  /\ At(s, "members")
      /\ IF todo = {} THEN Done(s)
         ELSE Continue(s, [sess[s] EXCEPT !.step = "fanout", !.todo = todo])
      /\ UNCHANGED <<storeVars, inbox, frames>>

BugToldAgain(s, v) ==
  LET l == sess[s] IN
  /\ At(s, "fanout")
  /\ v \in l.todo
  /\ Produce(v, l.type, l.chat, l.msg, UserOf[s])
  /\ \/ Done(s)
     \/ Continue(s, l)
  /\ UNCHANGED <<storeVars, frames>>

BugFirstOnly(s, v) ==
  LET l == sess[s] IN
  /\ At(s, "fanout")
  /\ v \in l.todo
  /\ Produce(v, l.type, l.chat, l.msg, UserOf[s])
  /\ Done(s)
  /\ UNCHANGED <<storeVars, frames>>

\* One turn of the loop over the members, which come in any order
Fanout(s, v) ==
  LET l == sess[s] IN
  /\ At(s, "fanout")
  /\ v \in l.todo
  /\ Produce(v, l.type, l.chat, l.msg, UserOf[s])
  /\ IF l.todo = {v} THEN Done(s)
     ELSE Continue(s, [l EXCEPT !.todo = @ \ {v}])
  /\ UNCHANGED <<storeVars, frames>>

BugNoRollback(s) ==
  /\ sess[s].step \in {"private", "insert", "commit", "members"}
  /\ Faults \/ (At(s, "insert") /\ ~Exists(sess[s].chat))
  /\ Done(s)
  /\ UNCHANGED <<storeVars, inbox, frames>>

\* A call of the database fails (the foreign key fails when the chat is gone): the
\* handler logs the error and returns, the transaction is rolled back
HandlerFails(s) ==
  /\ sess[s].step \in {"private", "insert", "commit", "members"}
  /\ Faults \/ (At(s, "insert") /\ ~Exists(sess[s].chat))
  /\ \/ Rollback(s)
     \/ ~InTx(s) /\ UNCHANGED storeVars
  /\ Done(s)
  /\ UNCHANGED <<inbox, frames>>

-----------------------------------------------------------------------------
(* The HTTP handlers, seen from here: calls of the repository *)

GroupCall(w) ==
  /\ \/ \E u \in Users :
          \/ NewGroupChat(w, u)
          \/ \E c \in ChatIds :
                \/ NewGroupChatMemberInsert(w, c, u)
                \/ \E t \in LeaveTypes : DeleteGroupMemberDelete(w, c, u, t)
                \/ DeleteGroupChat(w, c, u)
                \/ \E r \in Roles : ~InTx(w) /\ ChangeGroupChatMemberRole(c, u, r)
     \/ SelectMembers(w)
     \/ NewGroupChatMemberCommit(w)
     \/ DeleteGroupMemberCommit(w)
     \/ Rollback(w)
  /\ UNCHANGED <<sess, inbox, frames>>

-----------------------------------------------------------------------------
Init ==
  /\ StoreInit
  /\ sess = [s \in Sessions |-> IdleSession]
  /\ inbox = [u \in Users |-> <<>>]
  /\ frames = 0

\* What a connection does without its client
Handle(s) ==
  \/ CreateChat(s)
  \/ ProduceNewChat(s)
  \/ InsertMessage(s)
  \/ SelectForMessage(s)
  \/ CommitMessage(s)
  \/ ProduceConfirmed(s)
  \/ ReadMembers(s)
  \/ \E v \in Users : Fanout(s, v)
  \/ HandlerFails(s)

SessionStep(s) ==
  \/ \E c \in ChatIds : ReceiveSend(s, c)
  \/ \E v \in Users : ReceiveSendPrivate(s, v)
  \/ \E c \in ChatIds, m \in MsgIds : ReceiveRead(s, c, m) \/ ReceiveDelivered(s, c, m)
  \/ Handle(s)

Next ==
  \/ \E s \in Sessions : SessionStep(s)
  \/ \E w \in Workers \ Sessions : GroupCall(w)

Spec == Init /\ [][Next]_vars

\* A handler that has begun goes on: its goroutine is scheduled, the database and
\* Redis answer.  Nothing makes a client or the HTTP handlers act
FairSpec == Spec /\ \A s \in Sessions : WF_vars(Handle(s))
                 /\ \A w \in Workers \ Sessions : WF_vars(InTx(w) /\ GroupCall(w))
-----------------------------------------------------------------------------
(* Invariants *)

\* Every variable keeps its type.
TypeInv ==
  /\ TypeOK
  /\ sess \in [Sessions -> Session]
  /\ \A u \in Users : inbox[u] \in Seq(Event)
  /\ frames \in 0..MaxFrames

\* A handler has a transaction open exactly while it is inside the repository, and
\* it is its own: whichever call fails, no lock on a chat outlives the handler
\* (the deferred Rollback of NewMessage and GetOrCreatePrivateChat).
NothingLeftOpen ==
  \A s \in Sessions :
    /\ tx[s].op \in {"none", "private", "message"}
    /\ tx[s].op = "private" <=> At(s, "private")
    /\ tx[s].op = "message" <=> At(s, "commit")
    /\ At(s, "commit") => tx[s].chat = sess[s].chat /\ tx[s].user = UserOf[s]

\* What the store says of message m, now or before its chat was deleted
Stored(m, c, from) ==
  /\ m < nextMsg
  /\ \/ messages[m] = [chat |-> c, from |-> from, type |-> "new_message"]
     \/ messages[m] = NoMessage /\ ~Exists(c)

\* Nobody is told of a message, and nobody's message is confirmed, unless it is
\* stored in that chat and under that author; it can only disappear with the chat.
EventsAreStored ==
  \A u \in Users : \A e \in Range(inbox[u]) :
    e.type \in {"new_message", "message_confirmed"} => Stored(e.msg, e.chat, e.from)

\* A user with one connection is heard in order, and once: at every client the ids
\* of the messages of one author only grow, although the messages of different
\* authors may arrive against the order of their ids.
SenderOrder ==
  IsInjective(UserOf) =>
    \A u \in Users : \A i, j \in DOMAIN inbox[u] :
      /\ i < j
      /\ inbox[u][i].type = "new_message" /\ inbox[u][j].type = "new_message"
      /\ inbox[u][i].from = inbox[u][j].from
      => inbox[u][i].msg < inbox[u][j].msg

\* Message m is addressed to user u, who is still a member of the chat
Addressed(m, u) ==
  /\ messages[m].from # u
  /\ status[m][u] # "NONE"
  /\ u \in MembersOf(messages[m].chat)

-----------------------------------------------------------------------------
(* Liveness *)

\* When no call fails, a message that has been committed is told to every reachable
\* user it is addressed to, unless he leaves the chat or the chat is deleted before
\* the fan-out reaches him (the status rows and the fan-out read the members twice).
SentIsDelivered ==
  ~Faults =>
    \A s \in Sessions, m \in MsgIds, u \in Reachable :
      At(s, "confirm") /\ sess[s].msg = m /\ Addressed(m, u)
      ~> \/ \E e \in Range(inbox[u]) : e.type = "new_message" /\ e.msg = m
         \/ ~Addressed(m, u)

-----------------------------------------------------------------------------
(* Statements of the repository that the code does not keep *)

\* Two users have one private chat: it is created when they first meet.
OnePrivateChatPerPair ==
  \A u, v \in Users : \A c, d \in PrivateChats(u, v) : c = d
=============================================================================
