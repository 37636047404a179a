------------------------------ MODULE ChatStore ------------------------------
(***************************************************************************)
(* The PostgreSQL side of the messenger: the tables chats, chat_members,   *)
(* messages and message_status, and the repository methods that write      *)
(* them (internal/repository/message.go over the schema of the migration). *)
(*                                                                         *)
(* A worker is a goroutine that calls the repository: the read loop of a   *)
(* WebSocket connection or the handler of an HTTP request.  It has at most *)
(* one transaction open.  The isolation level is READ COMMITTED: what a    *)
(* transaction writes is invisible to the others until it commits, each of *)
(* its statements sees what is committed when the statement starts.        *)
(*                                                                         *)
(* A transaction that inserts a message is three steps.  In the first it   *)
(* writes the membership row (if it writes one), takes the message id from *)
(* the sequence and, through the foreign key, a KEY SHARE lock on the row  *)
(* of the chat: others may hold one too, but the chat cannot be deleted.   *)
(* In the second the AFTER INSERT trigger has the row of the chat updated, *)
(* which only one transaction can have done at a time, and the members are *)
(* read.  In the third the status rows are written and all is committed.   *)
(*                                                                         *)
(* The operators named Bug... are the code with a plausible mistake in it. *)
(* No action uses them: put in the place of the operator they precede,     *)
(* each violates a property, which shows that the property can fail.       *)
(***************************************************************************)
EXTENDS Naturals

CONSTANTS
  Users,      \* the rows of the table users, which another service writes
  NoUser,     \* the NULL of chats.author_id and messages.from_user_id
  Workers,    \* the goroutines that call the repository
  MaxChats,   \* bound on the ids the sequence of chats hands out
  MaxMsgs     \* bound on the ids the sequence of messages hands out

ASSUME StoreAssumption ==
  /\ NoUser \notin Users
  /\ MaxChats \in Nat
  /\ MaxMsgs \in Nat

VARIABLES
  chats,      \* chats[c]: the row of chat c, or NoChat
  members,    \* members[c][u]: the role in the row (c, u) of chat_members, or "NONE"
  messages,   \* messages[m]: the row of message m, or NoMessage
  status,     \* status[m][u]: the column status of the row (m, u), or "NONE"
  nextChat,   \* the next value of the sequence of chats.id
  nextMsg,    \* the next value of the sequence of messages.id
  tx          \* tx[w]: what the open transaction of worker w has done, or NoTx

storeVars == <<chats, members, messages, status, nextChat, nextMsg, tx>>

ChatIds == 1..MaxChats
MsgIds == 1..MaxMsgs

ChatTypes == {"PRIVATE", "GROUP"}
Roles == {"MEMBER", "ADMIN"}
LeaveTypes == {"left_member", "kicked_member"}
EventTypes == {"new_message", "new_member"} \union LeaveTypes
Statuses == {"SENT", "DELIVERED", "READ"}

NoChat == [type |-> "NONE", author |-> NoUser]
NoMessage == [chat |-> 0, from |-> NoUser, type |-> "NONE"]

ChatRow == [type : ChatTypes \union {"NONE"}, author : Users \union {NoUser}]
MessageRow == [chat : ChatIds \union {0},
               from : Users \union {NoUser},
               type : EventTypes \union {"NONE"}]

(***************************************************************************)
(* The record of an open transaction: what it does ("op"), the chat it     *)
(* has locked, the user of the membership row or the author of the         *)
(* message, the other user of a private chat, the id and the type of the   *)
(* message it inserted, whether its DELETE found a row, whether the        *)
(* trigger's UPDATE holds the row of the chat, and the members it read     *)
(* then: those it writes a status row for.                                 *)
(***************************************************************************)
NoTx == [op |-> "none", chat |-> 0, user |-> NoUser, peer |-> NoUser,
         msg |-> 0, type |-> "NONE", hit |-> FALSE, held |-> FALSE, to |-> {}]

Tx == [op   : {"none", "message", "join", "leave", "private"},
       chat : ChatIds \union {0},
       user : Users \union {NoUser},
       peer : Users \union {NoUser},
       msg  : MsgIds \union {0},
       type : EventTypes \union {"NONE"},
       hit  : BOOLEAN,
       held : BOOLEAN,
       to   : SUBSET Users]

-----------------------------------------------------------------------------
(* What a statement sees *)

Exists(c) == chats[c].type # "NONE"

\* getAllChatMembersWithExecutor: the ids of the committed members of c
MembersOf(c) == {u \in Users : members[c][u] # "NONE"}

\* The SELECT of GetOrCreatePrivateChat; it may find more than one
PrivateChats(u, v) ==
  {c \in ChatIds : /\ chats[c].type = "PRIVATE"
                   /\ {u, v} \subseteq MembersOf(c)
                   /\ u # v}

InTx(w) == tx[w].op # "none"

\* The open transactions that inserted a message: they hold a lock on its chat
Posting(w) == tx[w].op \in {"message", "join", "leave"}
BugNeverLocked(c) == FALSE
ChatLocked(c) == \E w \in Workers : Posting(w) /\ tx[w].chat = c

\* An open transaction has updated the row of c: the trigger of another one waits
BugNoTrigger(c) == FALSE
ChatHeld(c) == \E w \in Workers : tx[w].held /\ tx[w].chat = c

\* An uncommitted DELETE of the row (c, u), and an uncommitted INSERT of it
RowDeleting(c, u) == \E w \in Workers : /\ tx[w].op = "leave" /\ tx[w].hit
                                        /\ tx[w].chat = c /\ tx[w].user = u
BugNeverInserting(c, u) == FALSE
RowInserting(c, u) == \E w \in Workers : /\ tx[w].op = "join"
                                         /\ tx[w].chat = c /\ tx[w].user = u

-----------------------------------------------------------------------------
(* Messages *)

\* The part of a transaction that inserts the message: the id is taken from the
\* sequence, which no rollback gives back
Post(w, op, c, u, t, hit) ==
  /\ ~InTx(w)
  /\ Exists(c)
  /\ nextMsg \in MsgIds
  /\ tx' = [tx EXCEPT ![w] = [op |-> op, chat |-> c, user |-> u, peer |-> NoUser,
                              msg |-> nextMsg, type |-> t, hit |-> hit,
                              held |-> FALSE, to |-> {}]]
  /\ nextMsg' = nextMsg + 1
  /\ UNCHANGED <<chats, members, messages, status, nextChat>>

\* The members the SELECT of transaction x returns: of the row x itself has inserted
\* or deleted it sees the committed version, because NewGroupChatMember and
\* DeleteGroupMember read through another connection
BugOwnRowSeen(x) ==
  (MembersOf(x.chat) \union IF x.op = "join" THEN {x.user} ELSE {})
    \ IF x.op = "leave" THEN {x.user} ELSE {}
Addressees(x) == MembersOf(x.chat)

\* The trigger updates the row of the chat when no other transaction has, and the
\* members are read
SelectMembers(w) ==
  /\ Posting(w) /\ ~tx[w].held
  /\ ~ChatHeld(tx[w].chat)
  /\ tx' = [tx EXCEPT ![w].held = TRUE, ![w].to = Addressees(tx[w])]
  /\ UNCHANGED <<chats, members, messages, status, nextChat, nextMsg>>

\* The message becomes visible with one status row for each addressee
CommitPost(w) ==
  LET x == tx[w] IN
  /\ x.held
  /\ messages' = [messages EXCEPT ![x.msg] =
                    [chat |-> x.chat, from |-> x.user, type |-> x.type]]
  /\ status' = [status EXCEPT ![x.msg] =
                  [u \in Users |-> IF u \in x.to THEN "SENT" ELSE "NONE"]]
  /\ tx' = [tx EXCEPT ![w] = NoTx]
  /\ UNCHANGED <<chats, nextChat, nextMsg>>

NewMessageInsert(w, c, u) == Post(w, "message", c, u, "new_message", FALSE)

NewMessageCommit(w) ==
  /\ tx[w].op = "message"
  /\ CommitPost(w)
  /\ UNCHANGED members

\* UPDATE ... WHERE ms.status = 'DELIVERED'
SetReadAtStatus(upTo, c, u) ==
  /\ status' = [m \in MsgIds |-> [v \in Users |->
                  IF /\ messages[m].chat = c /\ m <= upTo
                     /\ v = u /\ status[m][v] = "DELIVERED"
                  THEN "READ" ELSE status[m][v]]]
  /\ UNCHANGED <<chats, members, messages, nextChat, nextMsg, tx>>

(***************************************************************************)
(* The server can prepare a statement only if the parameters it names are  *)
(* exactly $1 .. $n for the n arguments passed: it cannot tell the type of *)
(* a parameter no expression names, and refuses missing arguments.         *)
(***************************************************************************)
Prepares(parameters, args) == parameters = 1..args

\* The UPDATE of SetDeliveredAtStatus names $2 and $3; messageID and userID are passed
SetDeliveredAtStatusPrepares == Prepares({2, 3}, 2)

SetDeliveredAtStatus(m, u) ==
  /\ SetDeliveredAtStatusPrepares
  /\ status' = [status EXCEPT ![m][u] = IF @ = "NONE" THEN @ ELSE "DELIVERED"]
  /\ UNCHANGED <<chats, members, messages, nextChat, nextMsg, tx>>

-----------------------------------------------------------------------------
(* Chats *)

\* GetOrCreatePrivateChat, when its SELECT returns no row
PrivateChatMissing(w, u, v) ==
  /\ ~InTx(w)
  /\ PrivateChats(u, v) = {}
  /\ tx' = [tx EXCEPT ![w] = [NoTx EXCEPT !.op = "private", !.user = u, !.peer = v]]
  /\ UNCHANGED <<chats, members, messages, status, nextChat, nextMsg>>

\* ... then the chat and its two members are inserted and committed
PrivateChatCreate(w) ==
  LET x == tx[w] IN
  /\ x.op = "private"
  /\ x.user # x.peer
  /\ nextChat \in ChatIds
  /\ chats' = [chats EXCEPT ![nextChat] = [type |-> "PRIVATE", author |-> NoUser]]
  /\ members' = [members EXCEPT ![nextChat] =
                   [u \in Users |-> IF u \in {x.user, x.peer} THEN "MEMBER" ELSE "NONE"]]
  /\ nextChat' = nextChat + 1
  /\ tx' = [tx EXCEPT ![w] = NoTx]
  /\ UNCHANGED <<messages, status, nextMsg>>

\* ... unless both are the same user: the second row violates the primary key and
\* the transaction is rolled back, the id of the chat is spent
PrivateChatWithSelf(w) ==
  /\ tx[w].op = "private"
  /\ tx[w].user = tx[w].peer
  /\ nextChat \in ChatIds
  /\ nextChat' = nextChat + 1
  /\ tx' = [tx EXCEPT ![w] = NoTx]
  /\ UNCHANGED <<chats, members, messages, status, nextMsg>>

NewGroupChat(w, u) ==
  /\ ~InTx(w)
  /\ nextChat \in ChatIds
  /\ chats' = [chats EXCEPT ![nextChat] = [type |-> "GROUP", author |-> u]]
  /\ members' = [members EXCEPT ![nextChat] =
                   [v \in Users |-> IF v = u THEN "ADMIN" ELSE "NONE"]]
  /\ nextChat' = nextChat + 1
  /\ UNCHANGED <<messages, status, nextMsg, tx>>

\* ON DELETE CASCADE takes the members, the messages and their status rows along.
\* The DELETE waits for the transactions that hold a lock on the chat
DeleteGroupChat(w, c, a) ==
  /\ ~InTx(w)
  /\ Exists(c)
  /\ chats[c].author = a
  /\ ~ChatLocked(c)
  /\ chats' = [chats EXCEPT ![c] = NoChat]
  /\ members' = [members EXCEPT ![c] = [u \in Users |-> "NONE"]]
  /\ messages' = [m \in MsgIds |->
                    IF messages[m].chat = c THEN NoMessage ELSE messages[m]]
  /\ status' = [m \in MsgIds |->
                  IF messages[m].chat = c THEN [u \in Users |-> "NONE"] ELSE status[m]]
  /\ UNCHANGED <<nextChat, nextMsg, tx>>

-----------------------------------------------------------------------------
(* Members of a group *)

BugJoinPostsPlain(w, c, u) ==
  /\ members[c][u] = "NONE"
  /\ ~RowInserting(c, u)
  /\ Post(w, "join", c, u, "new_message", FALSE)

\* The INSERT of the row fails if the row is there, and waits for a transaction
\* that has inserted or deleted it
NewGroupChatMemberInsert(w, c, u) ==
  /\ members[c][u] = "NONE"
  /\ ~RowInserting(c, u)
  /\ Post(w, "join", c, u, "new_member", FALSE)

NewGroupChatMemberCommit(w) ==
  LET x == tx[w] IN
  /\ x.op = "join"
  /\ members' = [members EXCEPT ![x.chat][x.user] = "MEMBER"]
  /\ CommitPost(w)

BugArgumentsSwapped(w, c, u, t) ==
  /\ ~RowDeleting(c, u)
  /\ Post(w, "leave", c, t, u, members[c][u] # "NONE")

BugDeletesAtOnce(w, c, u, t) ==
  /\ ~InTx(w) /\ ~RowDeleting(c, u)
  /\ Exists(c) /\ nextMsg \in MsgIds
  /\ members' = [members EXCEPT ![c][u] = "NONE"]
  /\ tx' = [tx EXCEPT ![w] = [NoTx EXCEPT !.op = "leave", !.chat = c, !.user = u,
                                           !.msg = nextMsg, !.type = t]]
  /\ nextMsg' = nextMsg + 1
  /\ UNCHANGED <<chats, messages, status, nextChat>>

\* The DELETE waits for a transaction that deletes the same row; it may find none
\* (one being inserted is not visible), and the message is inserted all the same
DeleteGroupMemberDelete(w, c, u, t) ==
  /\ ~RowDeleting(c, u)
  /\ Post(w, "leave", c, u, t, members[c][u] # "NONE")

DeleteGroupMemberCommit(w) ==
  LET x == tx[w] IN
  /\ x.op = "leave"
  /\ members' = IF x.hit THEN [members EXCEPT ![x.chat][x.user] = "NONE"] ELSE members
  /\ CommitPost(w)

\* The UPDATE waits for a transaction that deletes the row; no row, no effect
ChangeGroupChatMemberRole(c, u, r) ==
  /\ ~RowDeleting(c, u)
  /\ members' = [members EXCEPT ![c][u] = IF @ = "NONE" THEN @ ELSE r]
  /\ UNCHANGED <<chats, messages, status, nextChat, nextMsg, tx>>

BugIdGivenBack(w) ==
  /\ InTx(w)
  /\ tx' = [tx EXCEPT ![w] = NoTx]
  /\ nextMsg' = IF Posting(w) THEN tx[w].msg ELSE nextMsg
  /\ UNCHANGED <<chats, members, messages, status, nextChat>>

\* An error of a statement or a cancelled context: the deferred Rollback
Rollback(w) ==
  /\ InTx(w)
  /\ tx' = [tx EXCEPT ![w] = NoTx]
  /\ UNCHANGED <<chats, members, messages, status, nextChat, nextMsg>>

-----------------------------------------------------------------------------
StoreInit ==
  /\ chats = [c \in ChatIds |-> NoChat]
  /\ members = [c \in ChatIds |-> [u \in Users |-> "NONE"]]
  /\ messages = [m \in MsgIds |-> NoMessage]
  /\ status = [m \in MsgIds |-> [u \in Users |-> "NONE"]]
  /\ nextChat = 1
  /\ nextMsg = 1
  /\ tx = [w \in Workers |-> NoTx]

\* Every caller of the repository: any worker, any arguments
StoreNext ==
  \/ \E w \in Workers, c \in ChatIds, u \in Users :
        \/ NewMessageInsert(w, c, u)
        \/ NewGroupChatMemberInsert(w, c, u)
        \/ \E t \in LeaveTypes : DeleteGroupMemberDelete(w, c, u, t)
        \/ DeleteGroupChat(w, c, u)
  \/ \E w \in Workers, u \in Users :
        \/ NewGroupChat(w, u)
        \/ \E v \in Users : PrivateChatMissing(w, u, v)
  \/ \E w \in Workers :
        \/ SelectMembers(w)
        \/ NewMessageCommit(w)
        \/ NewGroupChatMemberCommit(w)
        \/ DeleteGroupMemberCommit(w)
        \/ PrivateChatCreate(w)
        \/ PrivateChatWithSelf(w)
        \/ Rollback(w)
  \/ \E c \in ChatIds, u \in Users :
        \/ \E r \in Roles : ChangeGroupChatMemberRole(c, u, r)
        \/ \E m \in MsgIds : SetReadAtStatus(m, c, u)

StoreSpec == StoreInit /\ [][StoreNext]_storeVars
-----------------------------------------------------------------------------
(* Invariants *)

\* Every variable keeps its type.
TypeOK ==
  /\ chats \in [ChatIds -> ChatRow]
  /\ members \in [ChatIds -> [Users -> Roles \union {"NONE"}]]
  /\ messages \in [MsgIds -> MessageRow]
  /\ status \in [MsgIds -> [Users -> Statuses \union {"NONE"}]]
  /\ nextChat \in 1..(MaxChats + 1)
  /\ nextMsg \in 1..(MaxMsgs + 1)
  /\ tx \in [Workers -> Tx]

\* The foreign keys: a membership row, a message and a status row never outlive
\* the row they refer to, although a chat may be deleted while others post to it.
Integrity ==
  /\ \A c \in ChatIds, u \in Users : members[c][u] # "NONE" => Exists(c)
  /\ \A m \in MsgIds : messages[m].type # "NONE" =>
        /\ messages[m].from \in Users
        /\ messages[m].chat \in ChatIds /\ Exists(messages[m].chat)
  /\ \A m \in MsgIds, u \in Users : status[m][u] # "NONE" => messages[m].type # "NONE"

\* The message that announces a new member is addressed to the others only: the
\* new member has no status row for it, whoever joins, is removed or re-added
\* meanwhile (NewGroupChatMember reads the members outside its transaction).
JoinerNotAddressed ==
  \A m \in MsgIds :
    messages[m].type = "new_member" => status[m][messages[m].from] = "NONE"

\* A transaction that posts has a chat that exists, because it locks it, and an id
\* that no visible message has
PostersHold ==
  \A w \in Workers : Posting(w) =>
    /\ tx[w].chat \in ChatIds /\ Exists(tx[w].chat)
    /\ tx[w].user \in Users
    /\ tx[w].msg \in MsgIds /\ tx[w].msg < nextMsg
    /\ messages[tx[w].msg].type = "NONE"

\* ... and no other transaction has that id
IdsApart ==
  \A w, x \in Workers : Posting(w) /\ Posting(x) /\ tx[w].msg = tx[x].msg => w = x

TypesAgree ==
  \A w \in Workers :
    /\ tx[w].op = "message" => tx[w].type = "new_message"
    /\ tx[w].op = "join" => tx[w].type = "new_member"
    /\ tx[w].op = "leave" => tx[w].type \in LeaveTypes
    /\ tx[w].op = "private" => {tx[w].user, tx[w].peer} \subseteq Users

\* A row that is being inserted is not there, a row that is being deleted is
RowsPending ==
  /\ \A w \in Workers : tx[w].op = "join" => members[tx[w].chat][tx[w].user] = "NONE"
  /\ \A w \in Workers :
        tx[w].op = "leave" /\ tx[w].hit => members[tx[w].chat][tx[w].user] # "NONE"

\* No two transactions insert, and no two delete, the same row
RowsApart ==
  \A w, x \in Workers :
    /\ tx[w].chat = tx[x].chat /\ tx[w].user = tx[x].user
    /\ \/ tx[w].op = "join" /\ tx[x].op = "join"
       \/ tx[w].op = "leave" /\ tx[x].op = "leave" /\ tx[w].hit /\ tx[x].hit
    => w = x

\* Of the transactions that post to a chat one at a time has its row, and what that
\* one has read as the members is what they are when it commits
HoldersApart ==
  /\ \A w \in Workers : tx[w].held => Posting(w) /\ tx[w].to = MembersOf(tx[w].chat)
  /\ \A w, x \in Workers :
        tx[w].held /\ tx[x].held /\ tx[w].chat = tx[x].chat => w = x

\* The sequences are ahead of the ids in use
IdsAhead ==
  /\ \A c \in ChatIds : c >= nextChat => chats[c].type = "NONE"
  /\ \A m \in MsgIds : m >= nextMsg => messages[m].type = "NONE"

\* What the locks and the sequences guarantee the open transactions, whatever the
\* others commit meanwhile: the strengthening that makes the invariants inductive.
TxInv ==
  /\ PostersHold /\ IdsApart /\ TypesAgree /\ RowsPending /\ RowsApart
  /\ HoldersApart /\ IdsAhead

StoreInv == TypeOK /\ Integrity /\ JoinerNotAddressed /\ TxInv

-----------------------------------------------------------------------------
(* Action properties *)

Committed(m) == messages[m].type = "NONE" /\ messages'[m].type # "NONE"

\* The ids of messages that were taken from the sequence and are not in a transaction
Spent == {m \in MsgIds : m < nextMsg /\ ~\E w \in Workers : Posting(w) /\ tx[w].msg = m}

\* The id of a message is for ever.  Once the transaction that took it has ended it
\* names the message that was committed under it or none, and after that message is
\* gone with its chat, or if it was rolled back, it never names another one, whatever
\* transactions overlap.
KeepsIds ==
  \A m \in MsgIds :
    /\ m \in Spent => m \in Spent' /\ messages'[m] \in {messages[m], NoMessage}
    /\ messages'[m].type # "NONE" => m \in Spent'

IdsNeverReused == [][KeepsIds]_storeVars

\* A message becomes visible together with its status rows, one for each user who
\* is a member just before the commit, although they were read before others had a
\* chance to join or leave: without the trigger they could have in between.
Addresses ==
  \A m \in MsgIds : Committed(m) =>
    \A u \in Users : status'[m][u] # "NONE" <=> u \in MembersOf(messages'[m].chat)

AddressedAtCommit == [][Addresses]_storeVars

\* While a chat lives, nobody joins or leaves it without the message that says so
\* becoming visible in the same step.
PostsChange ==
  \A c \in ChatIds, u \in Users :
    /\ Exists(c) /\ Exists(c)'
    /\ ~(members[c][u] = "NONE" <=> members'[c][u] = "NONE")
    => \E m \in MsgIds :
          /\ Committed(m)
          /\ messages'[m].chat = c /\ messages'[m].from = u
          /\ messages'[m].type \in
               IF members[c][u] = "NONE" THEN {"new_member"} ELSE LeaveTypes

MembershipPosted == [][PostsChange]_storeVars
=============================================================================
