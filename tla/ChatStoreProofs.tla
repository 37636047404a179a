--------------------------- MODULE ChatStoreProofs ---------------------------
(***************************************************************************)
(* Proofs about ChatStore, for any sets of users and workers and any       *)
(* number of chats and messages.                                           *)
(***************************************************************************)
EXTENDS ChatStore, TLAPS

\* What the types are built of
USE DEF ChatIds, MsgIds, Addressees

\* The record of no transaction is a transaction record.
LEMMA NoTxType == NoTx \in Tx
  BY DEF NoTx, Tx

\* The types hold at the start.
LEMMA TypeInit == ASSUME StoreInit PROVE TypeOK
  BY StoreAssumption, NoTxType
  DEF StoreInit, TypeOK, NoChat, NoMessage, ChatRow, MessageRow

\* The first step of a transaction that posts gives the variables their types.
LEMMA PostType ==
  ASSUME TypeOK, NEW w \in Workers, NEW op \in {"message", "join", "leave"},
         NEW c \in ChatIds, NEW u \in Users, NEW t \in EventTypes, NEW hit \in BOOLEAN,
         Post(w, op, c, u, t, hit)
  PROVE  TypeOK'
  <1>1. [op |-> op, chat |-> c, user |-> u, peer |-> NoUser,
         msg |-> nextMsg, type |-> t, hit |-> hit, held |-> FALSE, to |-> {}] \in Tx
    BY DEF Post, TypeOK, Tx
  <1>2. tx' \in [Workers -> Tx]
    BY <1>1 DEF Post, TypeOK
  <1>3. nextMsg' \in 1..(MaxMsgs + 1)
    BY StoreAssumption DEF Post, TypeOK
  <1> QED  BY <1>2, <1>3 DEF Post, TypeOK

\* So does the commit of a message, whatever becomes of the membership row.
LEMMA CommitType ==
  ASSUME TypeOK, NEW w \in Workers, CommitPost(w)
  PROVE  /\ messages' \in [MsgIds -> MessageRow]
         /\ status' \in [MsgIds -> [Users -> Statuses \union {"NONE"}]]
         /\ tx' \in [Workers -> Tx]
  <1> DEFINE x == tx[w]
  <1>1. x \in Tx
    BY DEF TypeOK
  <1>2. [chat |-> x.chat, from |-> x.user, type |-> x.type] \in MessageRow
    BY <1>1 DEF Tx, MessageRow
  <1>3. [u \in Users |-> IF u \in x.to THEN "SENT" ELSE "NONE"]
          \in [Users -> Statuses \union {"NONE"}]
    BY DEF Statuses
  <1>4. messages' = [messages EXCEPT ![x.msg] =
                       [chat |-> x.chat, from |-> x.user, type |-> x.type]]
    BY DEF CommitPost
  <1>5. status' = [status EXCEPT ![x.msg] =
                     [u \in Users |-> IF u \in x.to THEN "SENT" ELSE "NONE"]]
    BY DEF CommitPost
  <1>6. messages' \in [MsgIds -> MessageRow]
    BY <1>2, <1>4 DEF TypeOK
  <1>7. status' \in [MsgIds -> [Users -> Statuses \union {"NONE"}]]
    BY <1>3, <1>5 DEF TypeOK
  <1>8. tx' \in [Workers -> Tx]
    BY NoTxType DEF CommitPost, TypeOK
  <1> QED  BY <1>6, <1>7, <1>8

\* What reading the members changes of the record of a transaction
LEMMA HeldRecord ==
  ASSUME NEW x \in Tx, NEW S \in SUBSET Users,
         NEW y, y = [x EXCEPT !.held = TRUE, !.to = S]
  PROVE  /\ y \in Tx
         /\ y.op = x.op /\ y.chat = x.chat /\ y.user = x.user /\ y.peer = x.peer
         /\ y.msg = x.msg /\ y.type = x.type /\ y.hit = x.hit
         /\ y.held = TRUE /\ y.to = S
  <1>1. /\ y.op = x.op /\ y.chat = x.chat /\ y.user = x.user /\ y.peer = x.peer
        /\ y.msg = x.msg /\ y.type = x.type /\ y.hit = x.hit
        /\ y.held = TRUE /\ y.to = S
    BY DEF Tx
  <1>2. y = [op |-> x.op, chat |-> x.chat, user |-> x.user, peer |-> x.peer, msg |-> x.msg,
             type |-> x.type, hit |-> x.hit, held |-> TRUE, to |-> S]
    BY DEF Tx
  <1>3. y \in Tx
    BY <1>2 DEF Tx
  <1> QED  BY <1>1, <1>3

\* The members that were read are users.
LEMMA SelectType == ASSUME TypeOK, NEW w \in Workers, SelectMembers(w) PROVE TypeOK'
  <1>1. MembersOf(tx[w].chat) \in SUBSET Users /\ tx[w] \in Tx
    BY DEF MembersOf, TypeOK
  <1>2. [tx[w] EXCEPT !.held = TRUE, !.to = MembersOf(tx[w].chat)] \in Tx
    BY <1>1, HeldRecord
  <1>3. tx' = [tx EXCEPT ![w] = [tx[w] EXCEPT !.held = TRUE, !.to = MembersOf(tx[w].chat)]]
    BY DEF SelectMembers, TypeOK
  <1>4. tx' \in [Workers -> Tx]
    BY <1>2, <1>3 DEF TypeOK
  <1> QED  BY <1>4 DEF SelectMembers, TypeOK

\* Every variable keeps its type in every step.
LEMMA TypeStep == TypeOK /\ [StoreNext]_storeVars => TypeOK'
  <1> SUFFICES ASSUME TypeOK, [StoreNext]_storeVars PROVE TypeOK'
    OBVIOUS
  <1> USE StoreAssumption
  <1>1. ASSUME NEW w \in Workers, NEW c \in ChatIds, NEW u \in Users, NewMessageInsert(w, c, u)
        PROVE  TypeOK'
    <2>1. "new_message" \in EventTypes
      BY DEF EventTypes
    <2> QED  BY <1>1, <2>1, PostType DEF NewMessageInsert
  <1>2. ASSUME NEW w \in Workers, NEW c \in ChatIds, NEW u \in Users,
               NewGroupChatMemberInsert(w, c, u)
        PROVE  TypeOK'
    <2>1. "new_member" \in EventTypes
      BY DEF EventTypes
    <2> QED  BY <1>2, <2>1, PostType DEF NewGroupChatMemberInsert
  <1>3. ASSUME NEW w \in Workers, NEW c \in ChatIds, NEW u \in Users, NEW t \in LeaveTypes,
               DeleteGroupMemberDelete(w, c, u, t)
        PROVE  TypeOK'
    <2>1. t \in EventTypes
      BY DEF EventTypes
    <2>2. (members[c][u] # "NONE") \in BOOLEAN
      OBVIOUS
    <2> QED  BY <1>3, <2>1, <2>2, PostType DEF DeleteGroupMemberDelete
  <1>4. ASSUME NEW w \in Workers, NEW c \in ChatIds, NEW u \in Users, DeleteGroupChat(w, c, u)
        PROVE  TypeOK'
    BY <1>4 DEF DeleteGroupChat, TypeOK, NoChat, NoMessage, ChatRow, MessageRow
  <1>5. ASSUME NEW w \in Workers, NEW u \in Users, NewGroupChat(w, u)
        PROVE  TypeOK'
    BY <1>5 DEF NewGroupChat, TypeOK, ChatRow, ChatTypes, Roles
  <1>6. ASSUME NEW w \in Workers, NEW u \in Users, NEW v \in Users, PrivateChatMissing(w, u, v)
        PROVE  TypeOK'
    <2>1. [NoTx EXCEPT !.op = "private", !.user = u, !.peer = v] \in Tx
      BY NoTxType DEF Tx
    <2> QED  BY <1>6, <2>1 DEF PrivateChatMissing, TypeOK
  <1>7. ASSUME NEW w \in Workers, NewMessageCommit(w)
        PROVE  TypeOK'
    BY <1>7, CommitType DEF NewMessageCommit, CommitPost, TypeOK
  <1>8. ASSUME NEW w \in Workers, NewGroupChatMemberCommit(w)
        PROVE  TypeOK'
    <2>1. members' \in [ChatIds -> [Users -> Roles \union {"NONE"}]]
      BY <1>8 DEF NewGroupChatMemberCommit, TypeOK, Roles
    <2> QED  BY <1>8, <2>1, CommitType DEF NewGroupChatMemberCommit, CommitPost, TypeOK
  <1>9. ASSUME NEW w \in Workers, DeleteGroupMemberCommit(w)
        PROVE  TypeOK'
    <2>1. members' \in [ChatIds -> [Users -> Roles \union {"NONE"}]]
      BY <1>9 DEF DeleteGroupMemberCommit, TypeOK
    <2> QED  BY <1>9, <2>1, CommitType DEF DeleteGroupMemberCommit, CommitPost, TypeOK
  <1>10. ASSUME NEW w \in Workers, PrivateChatCreate(w)
         PROVE  TypeOK'
    BY <1>10, NoTxType DEF PrivateChatCreate, TypeOK, ChatRow, ChatTypes, Roles
  <1>11. ASSUME NEW w \in Workers, PrivateChatWithSelf(w)
         PROVE  TypeOK'
    BY <1>11, NoTxType DEF PrivateChatWithSelf, TypeOK
  <1>12. ASSUME NEW w \in Workers, Rollback(w)
         PROVE  TypeOK'
    BY <1>12, NoTxType DEF Rollback, TypeOK
  <1>13. ASSUME NEW c \in ChatIds, NEW u \in Users, NEW r \in Roles,
                ChangeGroupChatMemberRole(c, u, r)
         PROVE  TypeOK'
    BY <1>13 DEF ChangeGroupChatMemberRole, TypeOK
  <1>14. ASSUME NEW c \in ChatIds, NEW u \in Users, NEW m \in MsgIds, SetReadAtStatus(m, c, u)
         PROVE  TypeOK'
    BY <1>14 DEF SetReadAtStatus, TypeOK, Statuses
  <1>15. CASE UNCHANGED storeVars
    BY <1>15 DEF storeVars, TypeOK
  <1> QED
    BY <1>1, <1>2, <1>3, <1>4, <1>5, <1>6, <1>7, <1>8, <1>9, <1>10, <1>11, <1>12, <1>13,
       <1>14, <1>15, SelectType DEF StoreNext

\* Every variable keeps its type.
THEOREM TypeCorrect == StoreSpec => []TypeOK
  BY TypeInit, TypeStep, PTL DEF StoreSpec

-----------------------------------------------------------------------------
(* The open transactions *)

\* A transaction that starts to post keeps the invariant, if the row it writes is as
\* the guards of the two methods on members ask
LEMMA PostKeeps ==
  ASSUME TypeOK, TxInv,
         NEW w \in Workers, NEW op \in {"message", "join", "leave"}, NEW c \in ChatIds,
         NEW u \in Users, NEW t \in EventTypes, NEW hit \in BOOLEAN,
         Post(w, op, c, u, t, hit),
         op = "message" => t = "new_message",
         op = "join" => t = "new_member" /\ members[c][u] = "NONE" /\ ~RowInserting(c, u),
         op = "leave" => t \in LeaveTypes /\ (hit => members[c][u] # "NONE")
                         /\ ~RowDeleting(c, u)
  PROVE  TxInv'
  <1>0. /\ tx'[w].op = op /\ tx'[w].chat = c /\ tx'[w].user = u /\ tx'[w].msg = nextMsg
        /\ tx'[w].type = t /\ tx'[w].hit = hit /\ tx'[w].held = FALSE
        /\ \A x \in Workers : x # w => tx'[x] = tx[x]
    BY DEF Post, TypeOK
  <1>1. /\ UNCHANGED <<chats, members, messages, status, nextChat>>
        /\ nextMsg \in MsgIds /\ nextMsg' = nextMsg + 1 /\ Exists(c)
    BY DEF Post
  <1>2. PostersHold'
    <2> SUFFICES ASSUME NEW x \in Workers, Posting(x)'
                 PROVE  /\ tx'[x].chat \in ChatIds /\ Exists(tx[x].chat)'
                        /\ tx'[x].user \in Users
                        /\ tx'[x].msg \in MsgIds /\ tx'[x].msg < nextMsg'
                        /\ messages'[tx'[x].msg].type = "NONE"
      BY DEF PostersHold
    <2>1. CASE x = w
      BY <1>0, <1>1, <2>1 DEF TxInv, IdsAhead, Exists
    <2>2. CASE x # w
      BY <1>0, <1>1, <2>2 DEF TxInv, PostersHold, Posting, Exists
    <2> QED  BY <2>1, <2>2
  <1>3. IdsApart'
    BY <1>0, <1>1 DEF TxInv, PostersHold, IdsApart, Posting
  <1>4. TypesAgree'
    BY <1>0, <1>1 DEF TxInv, TypesAgree
  <1>5. RowsPending'
    BY <1>0, <1>1 DEF TxInv, RowsPending
  <1>6. RowsApart'
    BY <1>0, <1>1 DEF TxInv, RowsApart, RowInserting, RowDeleting
  <1>7. IdsAhead'
    BY <1>1 DEF TxInv, IdsAhead
  <1>8. HoldersApart'
    BY <1>0, <1>1 DEF TxInv, HoldersApart, Posting, MembersOf
  <1> QED  BY <1>2, <1>3, <1>4, <1>5, <1>6, <1>7, <1>8 DEF TxInv

\* A step after which chat c has the members it had
MembersStay(c) == \A u \in Users : members'[c][u] = "NONE" <=> members[c][u] = "NONE"

\* A step that starts no transaction, and perhaps ends one, keeps the invariant if it
\* spares the chats, the ids and the rows of the transactions that stay open
LEMMA EndKeeps ==
  ASSUME TypeOK, TxInv,
         \A x \in Workers : tx'[x] = tx[x] \/ tx'[x] = NoTx,
         nextMsg' = nextMsg, nextChat' \in Nat, nextChat' >= nextChat,
         \A x \in Workers : Posting(x) /\ tx'[x] = tx[x] =>
           /\ chats'[tx[x].chat].type # "NONE"
           /\ messages'[tx[x].msg].type = "NONE",
         \A x \in Workers : tx'[x] = tx[x] =>
           /\ tx[x].op = "join" => members'[tx[x].chat][tx[x].user] = "NONE"
           /\ tx[x].op = "leave" /\ tx[x].hit => members'[tx[x].chat][tx[x].user] # "NONE",
         \A x \in Workers : tx'[x] = tx[x] /\ tx[x].held => MembersStay(tx[x].chat),
         \A c \in ChatIds : c >= nextChat' => chats'[c].type = "NONE",
         \A m \in MsgIds : m >= nextMsg => messages'[m].type = "NONE"
  PROVE  TxInv'
  <1>1. \A x \in Workers : tx'[x].op # "none" \/ tx'[x].held => tx'[x] = tx[x]
    BY DEF NoTx
  <1>2. PostersHold'
    <2> SUFFICES ASSUME NEW x \in Workers, Posting(x)'
                 PROVE  /\ tx'[x].chat \in ChatIds /\ chats'[tx'[x].chat].type # "NONE"
                        /\ tx'[x].user \in Users
                        /\ tx'[x].msg \in MsgIds /\ tx'[x].msg < nextMsg'
                        /\ messages'[tx'[x].msg].type = "NONE"
      BY DEF PostersHold, Exists
    <2>1. tx'[x] = tx[x] /\ Posting(x)
      BY <1>1 DEF Posting
    <2> QED  BY <2>1 DEF TxInv, PostersHold
  <1>3. IdsApart'
    BY <1>1 DEF TxInv, IdsApart, Posting
  <1>4. TypesAgree'
    BY <1>1 DEF TxInv, TypesAgree
  <1>5. RowsPending'
    BY <1>1 DEF TxInv, RowsPending
  <1>6. RowsApart'
    BY <1>1 DEF TxInv, RowsApart
  <1>7. IdsAhead'
    BY DEF TxInv, IdsAhead
  <1>8. HoldersApart'
    <2>1. \A x \in Workers : tx'[x].held =>
            tx'[x] = tx[x] /\ Posting(x)' /\ MembersOf(tx[x].chat)' = tx[x].to
      BY <1>1 DEF TxInv, HoldersApart, MembersStay, MembersOf, Posting
    <2>2. \A x, y \in Workers : tx'[x].held /\ tx'[y].held /\ tx'[x].chat = tx'[y].chat => x = y
      BY <2>1 DEF TxInv, HoldersApart
    <2>3. \A x \in Workers : tx'[x].held =>
            Posting(x)' /\ tx'[x].to = {u \in Users : members'[tx'[x].chat][u] # "NONE"}
      BY <2>1 DEF MembersOf
    <2> QED  BY <2>2, <2>3 DEF HoldersApart, MembersOf
  <1> QED  BY <1>2, <1>3, <1>4, <1>5, <1>6, <1>7, <1>8 DEF TxInv

\* The commit of a message spares the other transactions that post
LEMMA CommitSpares ==
  ASSUME TypeOK, TxInv, NEW w \in Workers, Posting(w), CommitPost(w)
  PROVE  /\ \A x \in Workers : tx'[x] = tx[x] \/ tx'[x] = NoTx
         /\ \A x \in Workers : Posting(x) /\ tx'[x] = tx[x] => x # w
         /\ \A x \in Workers : tx[x].held /\ tx'[x] = tx[x] => tx[x].chat # tx[w].chat
         /\ nextMsg' = nextMsg /\ nextChat' \in Nat /\ nextChat' >= nextChat
         /\ \A x \in Workers : Posting(x) /\ tx'[x] = tx[x] =>
               /\ chats'[tx[x].chat].type # "NONE"
               /\ messages'[tx[x].msg].type = "NONE"
         /\ \A c \in ChatIds : c >= nextChat' => chats'[c].type = "NONE"
         /\ \A m \in MsgIds : m >= nextMsg => messages'[m].type = "NONE"
  <1>1. /\ tx'[w] = NoTx /\ tx'[w].op = "none"
        /\ \A x \in Workers : x # w => tx'[x] = tx[x]
    BY DEF CommitPost, NoTx, TypeOK
  <1>2. UNCHANGED <<chats, nextChat, nextMsg>> /\ nextChat \in Nat
    BY DEF CommitPost, TypeOK
  <1>3. \A m \in MsgIds : m # tx[w].msg => messages'[m] = messages[m]
    BY DEF CommitPost, TypeOK
  <1>4. \A x \in Workers : Posting(x) /\ tx'[x] = tx[x] => x # w
    BY <1>1 DEF Posting
  <1>5. \A x \in Workers : Posting(x) /\ x # w =>
          /\ chats[tx[x].chat].type # "NONE"
          /\ tx[x].msg # tx[w].msg
          /\ tx[x].msg \in MsgIds /\ messages[tx[x].msg].type = "NONE"
    BY DEF TxInv, PostersHold, IdsApart, Exists
  <1>6. \A m \in MsgIds : m >= nextMsg => m # tx[w].msg /\ messages[m].type = "NONE"
    BY DEF TxInv, PostersHold, IdsAhead, TypeOK
  <1>7. \A x \in Workers : tx[x].held /\ tx'[x] = tx[x] => tx[x].chat # tx[w].chat
    BY <1>4 DEF CommitPost, TxInv, HoldersApart
  <1> QED  BY <1>1, <1>2, <1>3, <1>4, <1>5, <1>6, <1>7 DEF TxInv, IdsAhead

\* The members are read by the only transaction that holds the chat.
LEMMA SelectKeeps ==
  ASSUME TypeOK, TxInv, NEW w \in Workers, SelectMembers(w)
  PROVE  TxInv'
  <1>1. /\ \A x \in Workers : x # w => tx'[x] = tx[x]
        /\ tx'[w] = [tx[w] EXCEPT !.held = TRUE, !.to = MembersOf(tx[w].chat)]
        /\ UNCHANGED <<chats, members, messages, status, nextChat, nextMsg>>
    BY DEF SelectMembers, TypeOK
  <1>0. tx[w] \in Tx /\ MembersOf(tx[w].chat) \in SUBSET Users
    BY DEF TypeOK, MembersOf
  <1>2. \A x \in Workers : /\ tx'[x].op = tx[x].op /\ tx'[x].chat = tx[x].chat
                           /\ tx'[x].user = tx[x].user /\ tx'[x].peer = tx[x].peer
                           /\ tx'[x].msg = tx[x].msg /\ tx'[x].type = tx[x].type
                           /\ tx'[x].hit = tx[x].hit
    <2> DEFINE S == MembersOf(tx[w].chat)
    <2>1. tx[w] \in Tx /\ S \in SUBSET Users /\ tx'[w] = [tx[w] EXCEPT !.held = TRUE, !.to = S]
      BY <1>0, <1>1
    <2> HIDE DEF S
    <2>2. /\ tx'[w].op = tx[w].op /\ tx'[w].chat = tx[w].chat
          /\ tx'[w].user = tx[w].user /\ tx'[w].peer = tx[w].peer
          /\ tx'[w].msg = tx[w].msg /\ tx'[w].type = tx[w].type
          /\ tx'[w].hit = tx[w].hit
      BY <2>1 DEF Tx
    <2> QED  BY <1>1, <2>2
  <1>3. PostersHold' /\ IdsApart'
    BY <1>1, <1>2 DEF TxInv, PostersHold, IdsApart, Posting, Exists
  <1>4. TypesAgree' /\ RowsPending'
    BY <1>1, <1>2 DEF TxInv, TypesAgree, RowsPending
  <1>5. RowsApart' /\ IdsAhead'
    BY <1>1, <1>2 DEF TxInv, RowsApart, IdsAhead
  <1>6. HoldersApart'
    <2>1. \A x \in Workers : tx[x].held => tx[x].chat # tx[w].chat
      BY DEF SelectMembers, ChatHeld
    <2>2. tx'[w].held /\ tx'[w].to = MembersOf(tx[w].chat) /\ Posting(w)
      <3> DEFINE S == MembersOf(tx[w].chat)
      <3>1. tx[w] \in Tx /\ S \in SUBSET Users /\ tx'[w] = [tx[w] EXCEPT !.held = TRUE, !.to = S]
        BY <1>0, <1>1
      <3> HIDE DEF S
      <3>2. tx'[w].held = TRUE /\ tx'[w].to = S
        BY <3>1 DEF Tx
      <3>3. Posting(w)
        BY DEF SelectMembers
      <3> QED  BY <3>2, <3>3 DEF S
    <2>3. ASSUME NEW x \in Workers, tx'[x].held
          PROVE  Posting(x)' /\ tx'[x].to = MembersOf(tx[x].chat)
      <3>1. CASE x = w
        BY <1>2, <2>2, <3>1 DEF Posting
      <3>2. CASE x # w
        BY <1>1, <2>3, <3>2 DEF TxInv, HoldersApart, Posting
      <3> QED  BY <3>1, <3>2
    <2>5. \A x \in Workers : tx'[x].held =>
            Posting(x)' /\ tx'[x].to = {u \in Users : members'[tx'[x].chat][u] # "NONE"}
      BY <1>1, <1>2, <2>3 DEF MembersOf
    <2>4. \A x, y \in Workers : tx'[x].held /\ tx'[y].held /\ tx'[x].chat = tx'[y].chat => x = y
      BY <1>1, <1>2, <2>1 DEF TxInv, HoldersApart
    <2> QED  BY <2>4, <2>5 DEF HoldersApart, MembersOf
  <1> QED  BY <1>3, <1>4, <1>5, <1>6 DEF TxInv

\* With no transaction open there is nothing to guarantee.
LEMMA TxInit == ASSUME StoreInit PROVE TxInv
  BY DEF StoreInit, TxInv, PostersHold, IdsApart, TypesAgree, RowsPending, RowsApart,
         HoldersApart, IdsAhead, Posting, NoTx, NoChat, NoMessage

\* Every step keeps what locks and sequences guarantee: PostKeeps for the steps that
\* open a transaction that posts, EndKeeps for the others.
LEMMA TxStep == TypeOK /\ TxInv /\ [StoreNext]_storeVars => TxInv'
  <1> SUFFICES ASSUME TypeOK, TxInv, [StoreNext]_storeVars PROVE TxInv'
    OBVIOUS
  <1>1. ASSUME NEW w \in Workers, NEW c \in ChatIds, NEW u \in Users, NewMessageInsert(w, c, u)
        PROVE  TxInv'
    <2>1. "new_message" \in EventTypes
      BY DEF EventTypes
    <2> QED  BY <1>1, <2>1, PostKeeps DEF NewMessageInsert
  <1>2. ASSUME NEW w \in Workers, NEW c \in ChatIds, NEW u \in Users,
               NewGroupChatMemberInsert(w, c, u)
        PROVE  TxInv'
    <2>1. "new_member" \in EventTypes
      BY DEF EventTypes
    <2> QED  BY <1>2, <2>1, PostKeeps DEF NewGroupChatMemberInsert
  <1>3. ASSUME NEW w \in Workers, NEW c \in ChatIds, NEW u \in Users, NEW t \in LeaveTypes,
               DeleteGroupMemberDelete(w, c, u, t)
        PROVE  TxInv'
    <2>1. t \in EventTypes
      BY DEF EventTypes
    <2> DEFINE hit == members[c][u] # "NONE"
    <2>2. hit \in BOOLEAN /\ (hit => members[c][u] # "NONE")
      OBVIOUS
    <2>3. Post(w, "leave", c, u, t, hit) /\ ~RowDeleting(c, u)
      BY <1>3 DEF DeleteGroupMemberDelete
    <2> HIDE DEF hit
    <2> QED  BY <2>1, <2>2, <2>3, PostKeeps
  <1>4. ASSUME NEW w \in Workers, NEW c \in ChatIds, NEW u \in Users, DeleteGroupChat(w, c, u)
        PROVE  TxInv'
    <2>1. \A x \in Workers : Posting(x) => tx[x].chat # c
      BY <1>4 DEF DeleteGroupChat, ChatLocked
    <2>2. /\ UNCHANGED <<nextChat, nextMsg, tx>>
          /\ \A d \in ChatIds : d # c => chats'[d] = chats[d] /\ members'[d] = members[d]
          /\ chats'[c].type = "NONE"
          /\ \A m \in MsgIds : messages'[m] \in {messages[m], NoMessage}
      BY <1>4 DEF DeleteGroupChat, TypeOK, NoChat
    <2>3. \A m \in MsgIds : messages[m].type = "NONE" => messages'[m].type = "NONE"
      BY <2>2 DEF NoMessage
    <2>4. \A x \in Workers : Posting(x) =>
            /\ tx[x].chat \in ChatIds /\ tx[x].chat # c /\ chats'[tx[x].chat].type # "NONE"
            /\ messages'[tx[x].msg].type = "NONE"
      BY <2>1, <2>2, <2>3 DEF TxInv, PostersHold, Exists
    <2>5. \A x \in Workers :
            /\ tx[x].op = "join" => members'[tx[x].chat][tx[x].user] = "NONE"
            /\ tx[x].op = "leave" /\ tx[x].hit => members'[tx[x].chat][tx[x].user] # "NONE"
      BY <2>2, <2>4 DEF TxInv, RowsPending, Posting
    <2>8. \A x \in Workers : tx[x].held => MembersStay(tx[x].chat)
      BY <2>2, <2>4 DEF TxInv, HoldersApart, MembersStay
    <2>6. nextChat' \in Nat /\ nextChat' >= nextChat
      BY <2>2 DEF TypeOK
    <2>7. /\ \A d \in ChatIds : d >= nextChat' => chats'[d].type = "NONE"
          /\ \A m \in MsgIds : m >= nextMsg => messages'[m].type = "NONE"
      BY <2>2, <2>3 DEF TxInv, IdsAhead
    <2> QED  BY <2>2, <2>4, <2>5, <2>6, <2>7, <2>8, EndKeeps
  <1>5. ASSUME NEW w \in Workers, NEW u \in Users, NewGroupChat(w, u)
        PROVE  TxInv'
    <2>1. /\ UNCHANGED <<messages, nextMsg, tx>>
          /\ nextChat \in ChatIds /\ nextChat' = nextChat + 1
          /\ \A d \in ChatIds : d # nextChat => chats'[d] = chats[d] /\ members'[d] = members[d]
      BY <1>5 DEF NewGroupChat, TypeOK
    <2>2. chats[nextChat].type = "NONE"
      BY <2>1 DEF TxInv, IdsAhead
    <2>3. \A x \in Workers : Posting(x) =>
            /\ tx[x].chat \in ChatIds /\ tx[x].chat # nextChat
            /\ chats[tx[x].chat].type # "NONE" /\ messages'[tx[x].msg].type = "NONE"
      BY <2>1, <2>2 DEF TxInv, PostersHold, Exists
    <2>4. \A x \in Workers :
            /\ tx[x].op = "join" => members'[tx[x].chat][tx[x].user] = "NONE"
            /\ tx[x].op = "leave" /\ tx[x].hit => members'[tx[x].chat][tx[x].user] # "NONE"
      BY <2>1, <2>3 DEF TxInv, RowsPending, Posting
    <2>5. /\ \A d \in ChatIds : d >= nextChat' => chats'[d].type = "NONE"
          /\ \A m \in MsgIds : m >= nextMsg => messages'[m].type = "NONE"
      BY <2>1 DEF TxInv, IdsAhead
    <2>6. \A x \in Workers : tx[x].held => MembersStay(tx[x].chat)
      BY <2>1, <2>3 DEF TxInv, HoldersApart, MembersStay
    <2> QED  BY <2>1, <2>3, <2>4, <2>5, <2>6, EndKeeps
  <1>6. ASSUME NEW w \in Workers, NEW u \in Users, NEW v \in Users, PrivateChatMissing(w, u, v)
        PROVE  TxInv'
    <2>1. /\ UNCHANGED <<chats, members, messages, nextChat, nextMsg>>
          /\ tx'[w].op = "private" /\ tx'[w].user = u /\ tx'[w].peer = v
          /\ tx'[w].held = FALSE
          /\ \A x \in Workers : x # w => tx'[x] = tx[x]
      BY <1>6 DEF PrivateChatMissing, TypeOK, NoTx
    <2>2. PostersHold'
      BY <2>1 DEF TxInv, PostersHold, Posting, Exists
    <2>3. IdsApart' /\ TypesAgree'
      BY <2>1 DEF TxInv, IdsApart, TypesAgree, Posting
    <2>4. RowsPending' /\ RowsApart' /\ IdsAhead'
      BY <2>1 DEF TxInv, RowsPending, RowsApart, IdsAhead
    <2>5. HoldersApart'
      BY <2>1 DEF TxInv, HoldersApart, Posting, MembersOf
    <2> QED  BY <2>2, <2>3, <2>4, <2>5 DEF TxInv
  <1>7. ASSUME NEW w \in Workers, NewMessageCommit(w)
        PROVE  TxInv'
    <2>1. Posting(w) /\ CommitPost(w) /\ UNCHANGED members
      BY <1>7 DEF NewMessageCommit, Posting
    <2>2. \A x \in Workers :
            /\ tx[x].op = "join" => members'[tx[x].chat][tx[x].user] = "NONE"
            /\ tx[x].op = "leave" /\ tx[x].hit => members'[tx[x].chat][tx[x].user] # "NONE"
      BY <2>1 DEF TxInv, RowsPending
    <2>3. \A x \in Workers : MembersStay(tx[x].chat)
      BY <2>1 DEF MembersStay
    <2> QED  BY <2>1, <2>2, <2>3, CommitSpares, EndKeeps
  <1>8. ASSUME NEW w \in Workers, NewGroupChatMemberCommit(w)
        PROVE  TxInv'
    <2>1. Posting(w) /\ CommitPost(w)
      BY <1>8 DEF NewGroupChatMemberCommit, Posting
    <2>2. \A c \in ChatIds, u \in Users :
            members'[c][u] = IF c = tx[w].chat /\ u = tx[w].user THEN "MEMBER" ELSE members[c][u]
      BY <1>8 DEF NewGroupChatMemberCommit, TypeOK
    <2>3. \A x \in Workers : tx'[x] = tx[x] /\ Posting(x) =>
            x # w /\ tx[x].chat \in ChatIds /\ tx[x].user \in Users
      BY <2>1, CommitSpares DEF TxInv, PostersHold
    <2>4. \A x \in Workers : tx'[x] = tx[x] =>
            /\ tx[x].op = "join" => members'[tx[x].chat][tx[x].user] = "NONE"
            /\ tx[x].op = "leave" /\ tx[x].hit => members'[tx[x].chat][tx[x].user] # "NONE"
      BY <1>8, <2>2, <2>3 DEF NewGroupChatMemberCommit, TxInv, RowsPending, RowsApart, Posting
    <2>5. \A x \in Workers : tx'[x] = tx[x] /\ tx[x].held => MembersStay(tx[x].chat)
      BY <2>1, <2>2, <2>3, CommitSpares DEF TxInv, HoldersApart, MembersStay
    <2> QED  BY <2>1, <2>4, <2>5, CommitSpares, EndKeeps
  <1>9. ASSUME NEW w \in Workers, DeleteGroupMemberCommit(w)
        PROVE  TxInv'
    <2>1. Posting(w) /\ CommitPost(w)
      BY <1>9 DEF DeleteGroupMemberCommit, Posting
    <2>2. \A c \in ChatIds, u \in Users :
            members'[c][u] = IF tx[w].hit /\ c = tx[w].chat /\ u = tx[w].user
                             THEN "NONE" ELSE members[c][u]
      BY <1>9 DEF DeleteGroupMemberCommit, TypeOK
    <2>3. \A x \in Workers : tx'[x] = tx[x] /\ Posting(x) =>
            x # w /\ tx[x].chat \in ChatIds /\ tx[x].user \in Users
      BY <2>1, CommitSpares DEF TxInv, PostersHold
    <2>4. \A x \in Workers : tx'[x] = tx[x] =>
            /\ tx[x].op = "join" => members'[tx[x].chat][tx[x].user] = "NONE"
            /\ tx[x].op = "leave" /\ tx[x].hit => members'[tx[x].chat][tx[x].user] # "NONE"
      BY <1>9, <2>2, <2>3 DEF DeleteGroupMemberCommit, TxInv, RowsPending, RowsApart, Posting
    <2>5. \A x \in Workers : tx'[x] = tx[x] /\ tx[x].held => MembersStay(tx[x].chat)
      BY <2>1, <2>2, <2>3, CommitSpares DEF TxInv, HoldersApart, MembersStay
    <2> QED  BY <2>1, <2>4, <2>5, CommitSpares, EndKeeps
  <1>10. ASSUME NEW w \in Workers, PrivateChatCreate(w)
         PROVE  TxInv'
    <2>1. /\ UNCHANGED <<messages, nextMsg>>
          /\ \A x \in Workers : tx'[x] = tx[x] \/ tx'[x] = NoTx
          /\ nextChat \in ChatIds /\ nextChat' = nextChat + 1
          /\ \A d \in ChatIds : d # nextChat => chats'[d] = chats[d] /\ members'[d] = members[d]
      BY <1>10 DEF PrivateChatCreate, TypeOK, NoTx
    <2>2. chats[nextChat].type = "NONE"
      BY <2>1 DEF TxInv, IdsAhead
    <2>3. \A x \in Workers : Posting(x) =>
            /\ tx[x].chat \in ChatIds /\ tx[x].chat # nextChat
            /\ chats[tx[x].chat].type # "NONE" /\ messages'[tx[x].msg].type = "NONE"
      BY <2>1, <2>2 DEF TxInv, PostersHold, Exists
    <2>4. \A x \in Workers :
            /\ tx[x].op = "join" => members'[tx[x].chat][tx[x].user] = "NONE"
            /\ tx[x].op = "leave" /\ tx[x].hit => members'[tx[x].chat][tx[x].user] # "NONE"
      BY <2>1, <2>3 DEF TxInv, RowsPending, Posting
    <2>5. /\ \A d \in ChatIds : d >= nextChat' => chats'[d].type = "NONE"
          /\ \A m \in MsgIds : m >= nextMsg => messages'[m].type = "NONE"
      BY <2>1 DEF TxInv, IdsAhead
    <2>6. \A x \in Workers : tx[x].held => MembersStay(tx[x].chat)
      BY <2>1, <2>3 DEF TxInv, HoldersApart, MembersStay
    <2> QED  BY <2>1, <2>3, <2>4, <2>5, <2>6, EndKeeps
  <1>11. ASSUME NEW w \in Workers, PrivateChatWithSelf(w) \/ Rollback(w)
         PROVE  TxInv'
    <2>1. /\ UNCHANGED <<chats, members, messages, nextMsg>>
          /\ \A x \in Workers : tx'[x] = tx[x] \/ tx'[x] = NoTx
          /\ nextChat \in Nat /\ nextChat' \in {nextChat, nextChat + 1}
      BY <1>11 DEF PrivateChatWithSelf, Rollback, TypeOK
    <2>2. \A x \in Workers : Posting(x) =>
            chats'[tx[x].chat].type # "NONE" /\ messages'[tx[x].msg].type = "NONE"
      BY <2>1 DEF TxInv, PostersHold, Exists
    <2>3. \A x \in Workers :
            /\ tx[x].op = "join" => members'[tx[x].chat][tx[x].user] = "NONE"
            /\ tx[x].op = "leave" /\ tx[x].hit => members'[tx[x].chat][tx[x].user] # "NONE"
      BY <2>1 DEF TxInv, RowsPending
    <2>4. /\ \A d \in ChatIds : d >= nextChat' => chats'[d].type = "NONE"
          /\ \A m \in MsgIds : m >= nextMsg => messages'[m].type = "NONE"
      BY <2>1 DEF TxInv, IdsAhead
    <2>5. \A x \in Workers : MembersStay(tx[x].chat)
      BY <2>1 DEF MembersStay
    <2> QED  BY <2>1, <2>2, <2>3, <2>4, <2>5, EndKeeps
  <1>13. ASSUME NEW c \in ChatIds, NEW u \in Users, NEW r \in Roles,
                ChangeGroupChatMemberRole(c, u, r)
         PROVE  TxInv'
    <2>1. UNCHANGED <<chats, messages, nextChat, nextMsg, tx>>
      BY <1>13 DEF ChangeGroupChatMemberRole
    <2>2. \A d \in ChatIds, v \in Users : members'[d][v] = "NONE" <=> members[d][v] = "NONE"
      BY <1>13 DEF ChangeGroupChatMemberRole, TypeOK, Roles
    <2>3. \A x \in Workers : Posting(x) => tx[x].chat \in ChatIds /\ tx[x].user \in Users
      BY DEF TxInv, PostersHold
    <2>4. RowsPending'
      BY <2>1, <2>2, <2>3 DEF TxInv, RowsPending, Posting
    <2>5. HoldersApart'
      BY <2>1, <2>2, <2>3 DEF TxInv, HoldersApart, Posting, MembersOf
    <2> QED
      BY <2>1, <2>4, <2>5 DEF TxInv, PostersHold, IdsApart, TypesAgree, RowsApart, IdsAhead,
                              Posting, Exists
  <1>14. CASE UNCHANGED <<chats, members, messages, nextChat, nextMsg, tx>>
    BY <1>14 DEF TxInv, PostersHold, IdsApart, TypesAgree, RowsPending, RowsApart,
                 HoldersApart, IdsAhead, Posting, MembersOf, Exists
  <1>15. ASSUME NEW c \in ChatIds, NEW u \in Users, NEW m \in MsgIds, SetReadAtStatus(m, c, u)
         PROVE  TxInv'
    BY <1>14, <1>15 DEF SetReadAtStatus
  <1>16. CASE UNCHANGED storeVars
    BY <1>14, <1>16 DEF storeVars
  <1> QED
    BY <1>1, <1>2, <1>3, <1>4, <1>5, <1>6, <1>7, <1>8, <1>9, <1>10, <1>11, <1>13, <1>15, <1>16,
       SelectKeeps
    DEF StoreNext

\* The locks on the chats and on the rows, and the sequences, keep the open
\* transactions apart, whatever the others commit meanwhile.
THEOREM TxCorrect == StoreSpec => []TxInv
  BY TypeInit, TypeStep, TxInit, TxStep, PTL DEF StoreSpec

-----------------------------------------------------------------------------
(* What is visible *)

\* The effect of the commit of a message on every row
Shows(w) ==
  /\ tx[w].chat \in ChatIds /\ Exists(tx[w].chat) /\ tx[w].user \in Users
  /\ tx[w].msg \in MsgIds /\ messages[tx[w].msg].type = "NONE" /\ tx[w].msg < nextMsg
  /\ tx[w].type \in EventTypes /\ tx[w].type # "NONE"
  /\ UNCHANGED <<chats, nextChat, nextMsg>>
  /\ messages'[tx[w].msg] = [chat |-> tx[w].chat, from |-> tx[w].user, type |-> tx[w].type]
  /\ \A u \in Users : status'[tx[w].msg][u] =
        IF members[tx[w].chat][u] # "NONE" THEN "SENT" ELSE "NONE"
  /\ \A m \in MsgIds : m # tx[w].msg =>
        messages'[m] = messages[m] /\ status'[m] = status[m]

\* A commit writes one message and its status rows.
LEMMA CommitEffect ==
  ASSUME TypeOK, TxInv, NEW w \in Workers, Posting(w), CommitPost(w)
  PROVE  Shows(w)
  <1>1. /\ tx[w].chat \in ChatIds /\ Exists(tx[w].chat) /\ tx[w].user \in Users
        /\ tx[w].msg \in MsgIds /\ messages[tx[w].msg].type = "NONE"
        /\ tx[w].msg < nextMsg
    BY DEF TxInv, PostersHold
  <1>2. tx[w].type \in EventTypes /\ tx[w].type # "NONE"
    BY DEF TxInv, TypesAgree, Posting, EventTypes, LeaveTypes
  <1>3. UNCHANGED <<chats, nextChat, nextMsg>>
    BY DEF CommitPost
  <1>4. /\ messages'[tx[w].msg] =
              [chat |-> tx[w].chat, from |-> tx[w].user, type |-> tx[w].type]
        /\ \A m \in MsgIds : m # tx[w].msg => messages'[m] = messages[m]
    BY <1>1 DEF CommitPost, TypeOK
  <1>5. /\ \A u \in Users : status'[tx[w].msg][u] =
              IF members[tx[w].chat][u] # "NONE" THEN "SENT" ELSE "NONE"
        /\ \A m \in MsgIds : m # tx[w].msg => status'[m] = status[m]
    <2>1. \A u \in Users : u \in tx[w].to <=> members[tx[w].chat][u] # "NONE"
      BY DEF CommitPost, TxInv, HoldersApart, MembersOf
    <2> QED  BY <1>1, <2>1 DEF CommitPost, TypeOK
  <1> QED  BY <1>1, <1>2, <1>3, <1>4, <1>5 DEF Shows

\* The commit of a message keeps the references, if nobody joins a chat but its own
LEMMA CommitIntegrity ==
  ASSUME TypeOK, TxInv, Integrity, NEW w \in Workers, Posting(w), CommitPost(w),
         \A c \in ChatIds, u \in Users :
           members'[c][u] # "NONE" => members[c][u] # "NONE" \/ c = tx[w].chat
  PROVE  Integrity'
  <1>0. Shows(w)
    BY CommitEffect
  <1>1. \A c \in ChatIds, u \in Users : members'[c][u] # "NONE" => chats'[c].type # "NONE"
    BY <1>0 DEF Shows, Integrity, Exists
  <1>2. \A m \in MsgIds : messages'[m].type # "NONE" =>
          /\ messages'[m].from \in Users
          /\ messages'[m].chat \in ChatIds /\ chats'[messages'[m].chat].type # "NONE"
    BY <1>0 DEF Shows, Integrity, Exists
  <1>3. \A m \in MsgIds, u \in Users : status'[m][u] # "NONE" => messages'[m].type # "NONE"
    BY <1>0 DEF Shows, Integrity
  <1> QED  BY <1>1, <1>2, <1>3 DEF Integrity, Exists

\* Every step keeps the references: the chats that are posted to are locked.
LEMMA IntegrityStep == TypeOK /\ TxInv /\ Integrity /\ [StoreNext]_storeVars => Integrity'
  <1> SUFFICES ASSUME TypeOK, TxInv, Integrity, [StoreNext]_storeVars PROVE Integrity'
    OBVIOUS
  <1>1. CASE UNCHANGED <<chats, members, messages, status>>
    BY <1>1 DEF Integrity, Exists
  <1>2. ASSUME NEW w \in Workers, NEW c \in ChatIds, NEW u \in Users,
               \/ NewMessageInsert(w, c, u)
               \/ NewGroupChatMemberInsert(w, c, u)
               \/ \E t \in LeaveTypes : DeleteGroupMemberDelete(w, c, u, t)
        PROVE  Integrity'
    BY <1>1, <1>2
    DEF NewMessageInsert, NewGroupChatMemberInsert, DeleteGroupMemberDelete, Post
  <1>3. ASSUME NEW w \in Workers, NEW c \in ChatIds, NEW u \in Users, DeleteGroupChat(w, c, u)
        PROVE  Integrity'
    <2>1. \A d \in ChatIds : /\ d # c => chats'[d] = chats[d] /\ members'[d] = members[d]
                             /\ \A v \in Users : members'[c][v] = "NONE"
      BY <1>3 DEF DeleteGroupChat, TypeOK
    <2>2. \A m \in MsgIds :
            IF messages[m].chat = c
            THEN messages'[m].type = "NONE" /\ \A v \in Users : status'[m][v] = "NONE"
            ELSE messages'[m] = messages[m] /\ status'[m] = status[m]
      BY <1>3 DEF DeleteGroupChat, TypeOK, NoMessage
    <2> QED  BY <2>1, <2>2 DEF Integrity, Exists
  <1>4. ASSUME NEW w \in Workers, NEW u \in Users, NewGroupChat(w, u)
        PROVE  Integrity'
    <2>1. /\ UNCHANGED <<messages, status>>
          /\ nextChat \in ChatIds /\ chats'[nextChat].type = "GROUP"
          /\ \A d \in ChatIds : d # nextChat => chats'[d] = chats[d] /\ members'[d] = members[d]
      BY <1>4 DEF NewGroupChat, TypeOK
    <2> QED  BY <2>1 DEF Integrity, Exists
  <1>5. ASSUME NEW w \in Workers, PrivateChatCreate(w)
        PROVE  Integrity'
    <2>1. /\ UNCHANGED <<messages, status>>
          /\ nextChat \in ChatIds /\ chats'[nextChat].type = "PRIVATE"
          /\ \A d \in ChatIds : d # nextChat => chats'[d] = chats[d] /\ members'[d] = members[d]
      BY <1>5 DEF PrivateChatCreate, TypeOK
    <2> QED  BY <2>1 DEF Integrity, Exists
  <1>6. ASSUME NEW w \in Workers,
               \/ \E u, v \in Users : PrivateChatMissing(w, u, v)
               \/ PrivateChatWithSelf(w)
               \/ Rollback(w)
               \/ SelectMembers(w)
        PROVE  Integrity'
    <2>1. UNCHANGED <<chats, members, messages, status>>
      BY <1>6 DEF PrivateChatMissing, PrivateChatWithSelf, Rollback, SelectMembers
    <2> QED  BY <1>1, <2>1
  <1>7. ASSUME NEW w \in Workers, NewMessageCommit(w)
        PROVE  Integrity'
    <2>1. Posting(w) /\ CommitPost(w) /\ UNCHANGED members
      BY <1>7 DEF NewMessageCommit, Posting
    <2> QED  BY <2>1, CommitIntegrity
  <1>8. ASSUME NEW w \in Workers, NewGroupChatMemberCommit(w)
        PROVE  Integrity'
    <2>1. Posting(w) /\ CommitPost(w)
      BY <1>8 DEF NewGroupChatMemberCommit, Posting
    <2>2. \A c \in ChatIds : c # tx[w].chat => members'[c] = members[c]
      BY <1>8 DEF NewGroupChatMemberCommit, TypeOK
    <2> QED  BY <2>1, <2>2, CommitIntegrity
  <1>9. ASSUME NEW w \in Workers, DeleteGroupMemberCommit(w)
        PROVE  Integrity'
    <2>1. Posting(w) /\ CommitPost(w)
      BY <1>9 DEF DeleteGroupMemberCommit, Posting
    <2>2. \A c \in ChatIds : c # tx[w].chat => members'[c] = members[c]
      BY <1>9 DEF DeleteGroupMemberCommit, TypeOK
    <2> QED  BY <2>1, <2>2, CommitIntegrity
  <1>10. ASSUME NEW c \in ChatIds, NEW u \in Users, NEW r \in Roles,
                ChangeGroupChatMemberRole(c, u, r)
         PROVE  Integrity'
    <2>1. UNCHANGED <<chats, messages, status>>
      BY <1>10 DEF ChangeGroupChatMemberRole
    <2>2. \A d \in ChatIds, v \in Users : members'[d][v] # "NONE" => members[d][v] # "NONE"
      BY <1>10 DEF ChangeGroupChatMemberRole, TypeOK
    <2> QED  BY <2>1, <2>2 DEF Integrity, Exists
  <1>11. ASSUME NEW c \in ChatIds, NEW u \in Users, NEW m \in MsgIds, SetReadAtStatus(m, c, u)
         PROVE  Integrity'
    <2>1. UNCHANGED <<chats, members, messages>>
      BY <1>11 DEF SetReadAtStatus
    <2>2. \A n \in MsgIds, v \in Users : status'[n][v] # "NONE" => status[n][v] # "NONE"
      BY <1>11 DEF SetReadAtStatus
    <2> QED  BY <2>1, <2>2 DEF Integrity, Exists
  <1>12. CASE UNCHANGED storeVars
    BY <1>1, <1>12 DEF storeVars
  <1> QED
    BY <1>2, <1>3, <1>4, <1>5, <1>6, <1>7, <1>8, <1>9, <1>10, <1>11, <1>12 DEF StoreNext

\* The one status row that JoinerNotAddressed forbids
LEMMA JoinerStep ==
  TypeOK /\ TxInv /\ Integrity /\ JoinerNotAddressed /\ [StoreNext]_storeVars
    => JoinerNotAddressed'
  <1> SUFFICES ASSUME TypeOK, TxInv, Integrity, JoinerNotAddressed, [StoreNext]_storeVars,
                      NEW m \in MsgIds, messages'[m].type = "new_member"
               PROVE  status'[m][messages'[m].from] = "NONE"
    BY DEF JoinerNotAddressed
  <1>0. messages[m].type = "new_member" => status[m][messages[m].from] = "NONE"
    BY DEF JoinerNotAddressed
  <1>1. CASE messages'[m] = messages[m] /\ status'[m] = status[m]
    BY <1>0, <1>1
  <1>2. ASSUME NEW w \in Workers, Posting(w), CommitPost(w),
               tx[w].op = "join" => members[tx[w].chat][tx[w].user] = "NONE"
        PROVE  status'[m][messages'[m].from] = "NONE"
    <2>1. Shows(w)
      BY <1>2, CommitEffect
    <2>2. CASE m = tx[w].msg
      <3>1. tx[w].op = "join"
        BY <1>2, <2>1, <2>2 DEF Shows, TxInv, TypesAgree, Posting, LeaveTypes
      <3> QED  BY <1>2, <2>1, <2>2, <3>1 DEF Shows
    <2>3. CASE m # tx[w].msg
      BY <1>1, <2>1, <2>3 DEF Shows
    <2> QED  BY <2>2, <2>3
  <1>3. ASSUME NEW w \in Workers,
               NewMessageCommit(w) \/ NewGroupChatMemberCommit(w) \/ DeleteGroupMemberCommit(w)
        PROVE  status'[m][messages'[m].from] = "NONE"
    <2>1. Posting(w) /\ CommitPost(w)
      BY <1>3
      DEF NewMessageCommit, NewGroupChatMemberCommit, DeleteGroupMemberCommit, Posting
    <2>2. tx[w].op = "join" => members[tx[w].chat][tx[w].user] = "NONE"
      BY DEF TxInv, RowsPending
    <2> QED  BY <1>2, <2>1, <2>2
  <1>4. ASSUME NEW w \in Workers, NEW c \in ChatIds, NEW u \in Users,
               \/ NewMessageInsert(w, c, u)
               \/ NewGroupChatMemberInsert(w, c, u)
               \/ \E t \in LeaveTypes : DeleteGroupMemberDelete(w, c, u, t)
        PROVE  status'[m][messages'[m].from] = "NONE"
    BY <1>1, <1>4
    DEF NewMessageInsert, NewGroupChatMemberInsert, DeleteGroupMemberDelete, Post
  <1>5. ASSUME NEW w \in Workers, NEW c \in ChatIds, NEW u \in Users, DeleteGroupChat(w, c, u)
        PROVE  status'[m][messages'[m].from] = "NONE"
    <2>1. \/ messages'[m] = messages[m] /\ status'[m] = status[m]
          \/ messages'[m].type = "NONE"
      BY <1>5 DEF DeleteGroupChat, NoMessage
    <2> QED  BY <1>1, <2>1
  <1>6. ASSUME NEW w \in Workers,
               \/ \E u \in Users : NewGroupChat(w, u)
               \/ \E u, v \in Users : PrivateChatMissing(w, u, v)
               \/ PrivateChatCreate(w)
               \/ PrivateChatWithSelf(w)
               \/ Rollback(w)
               \/ SelectMembers(w)
        PROVE  status'[m][messages'[m].from] = "NONE"
    <2>1. UNCHANGED <<messages, status>>
      BY <1>6
      DEF NewGroupChat, PrivateChatMissing, PrivateChatCreate, PrivateChatWithSelf, Rollback,
          SelectMembers
    <2> QED  BY <1>1, <2>1
  <1>7. ASSUME NEW c \in ChatIds, NEW u \in Users, NEW r \in Roles,
               ChangeGroupChatMemberRole(c, u, r)
        PROVE  status'[m][messages'[m].from] = "NONE"
    BY <1>1, <1>7 DEF ChangeGroupChatMemberRole
  <1>8. ASSUME NEW c \in ChatIds, NEW u \in Users, NEW n \in MsgIds, SetReadAtStatus(n, c, u)
        PROVE  status'[m][messages'[m].from] = "NONE"
    <2>1. messages'[m] = messages[m]
      BY <1>8 DEF SetReadAtStatus
    <2>2. status[m][messages[m].from] = "NONE"
      BY <1>0, <2>1
    <2>3. messages[m].from \in Users
      BY <2>1 DEF Integrity
    <2>4. status'[m][messages[m].from] = "NONE"
      BY <1>8, <2>2, <2>3 DEF SetReadAtStatus
    <2> QED  BY <2>1, <2>4
  <1>9. CASE UNCHANGED storeVars
    BY <1>1, <1>9 DEF storeVars
  <1> QED
    BY <1>3, <1>4, <1>5, <1>6, <1>7, <1>8, <1>9 DEF StoreNext

-----------------------------------------------------------------------------
(* The theorems *)

\* The inductive invariant holds at the start ...
LEMMA StoreInvInit == StoreInit => StoreInv
  BY TypeInit, TxInit
  DEF StoreInit, StoreInv, Integrity, JoinerNotAddressed, NoChat, NoMessage, Exists

\* ... and every step keeps it.
LEMMA StoreInvStep == StoreInv /\ [StoreNext]_storeVars => StoreInv'
  BY TypeStep, TxStep, IntegrityStep, JoinerStep DEF StoreInv

\* The inductive invariant of the store.
THEOREM StoreInvCorrect == StoreSpec => []StoreInv
  BY StoreInvInit, StoreInvStep, PTL DEF StoreSpec

\* No row outlives the row it refers to.
THEOREM IntegrityCorrect == StoreSpec => []Integrity
  BY StoreInvCorrect, PTL DEF StoreInv

\* Nobody is addressed by the message that announces him.
THEOREM JoinerNotAddressedCorrect == StoreSpec => []JoinerNotAddressed
  BY StoreInvCorrect, PTL DEF StoreInv

-----------------------------------------------------------------------------
(* What a step may never do *)

\* The steps of the store, by what they do to the tables: a commit of a message, the
\* removal of a chat, the creation of one, and the steps that change neither the
\* messages nor who is a member
Commits(w) ==
  /\ Posting(w) /\ Shows(w)
  /\ \/ UNCHANGED members
     \/ /\ tx[w].op = "join" /\ members[tx[w].chat][tx[w].user] = "NONE"
        /\ members' = [members EXCEPT ![tx[w].chat][tx[w].user] = "MEMBER"]
     \/ /\ tx[w].op = "leave" /\ members[tx[w].chat][tx[w].user] # "NONE"
        /\ members' = [members EXCEPT ![tx[w].chat][tx[w].user] = "NONE"]

Removes(c) ==
  /\ ~Exists(c)'
  /\ \A d \in ChatIds : d # c => members'[d] = members[d]
  /\ \A m \in MsgIds : messages'[m] \in {messages[m], NoMessage}

Creates ==
  /\ nextChat \in ChatIds /\ ~Exists(nextChat)
  /\ \A d \in ChatIds : d # nextChat => members'[d] = members[d]
  /\ UNCHANGED <<messages, status>>

Spares ==
  /\ \A c \in ChatIds, u \in Users : members'[c][u] = "NONE" <=> members[c][u] = "NONE"
  /\ UNCHANGED messages

\* What a step can do to messages and members: commit a message, delete a chat, or
\* neither.
LEMMA StepKinds ==
  ASSUME StoreInv, [StoreNext]_storeVars
  PROVE  \/ \E w \in Workers : Commits(w)
         \/ \E c \in ChatIds : Removes(c)
         \/ Creates
         \/ Spares
  <1> USE DEF StoreInv
  <1>1. ASSUME NEW w \in Workers, NewMessageCommit(w)
        PROVE  Commits(w)
    <2>1. Posting(w) /\ CommitPost(w) /\ UNCHANGED members
      BY <1>1 DEF NewMessageCommit, Posting
    <2> QED  BY <2>1, CommitEffect DEF Commits
  <1>2. ASSUME NEW w \in Workers, NewGroupChatMemberCommit(w)
        PROVE  Commits(w)
    <2>1. Posting(w) /\ CommitPost(w)
      BY <1>2 DEF NewGroupChatMemberCommit, Posting
    <2>2. tx[w].op = "join" /\ members[tx[w].chat][tx[w].user] = "NONE"
      BY <1>2 DEF NewGroupChatMemberCommit, TxInv, RowsPending
    <2>3. members' = [members EXCEPT ![tx[w].chat][tx[w].user] = "MEMBER"]
      BY <1>2 DEF NewGroupChatMemberCommit
    <2> QED  BY <2>1, <2>2, <2>3, CommitEffect DEF Commits
  <1>3. ASSUME NEW w \in Workers, DeleteGroupMemberCommit(w)
        PROVE  Commits(w)
    <2>1. Posting(w) /\ CommitPost(w) /\ tx[w].op = "leave"
      BY <1>3 DEF DeleteGroupMemberCommit, Posting
    <2>2. tx[w].hit => members[tx[w].chat][tx[w].user] # "NONE"
      BY <2>1 DEF TxInv, RowsPending
    <2>3. IF tx[w].hit THEN members' = [members EXCEPT ![tx[w].chat][tx[w].user] = "NONE"]
          ELSE UNCHANGED members
      BY <1>3 DEF DeleteGroupMemberCommit
    <2> QED  BY <2>1, <2>2, <2>3, CommitEffect DEF Commits
  <1>4. ASSUME NEW w \in Workers, NEW c \in ChatIds, NEW u \in Users, DeleteGroupChat(w, c, u)
        PROVE  Removes(c)
    BY <1>4 DEF DeleteGroupChat, Removes, TypeOK, Exists, NoChat
  <1>5. ASSUME NEW w \in Workers,
               PrivateChatCreate(w) \/ \E u \in Users : NewGroupChat(w, u)
        PROVE  Creates
    <2>1. /\ nextChat \in ChatIds
          /\ \A d \in ChatIds : d # nextChat => members'[d] = members[d]
          /\ UNCHANGED <<messages, status>>
      BY <1>5 DEF PrivateChatCreate, NewGroupChat, TypeOK
    <2> QED  BY <2>1 DEF Creates, TxInv, IdsAhead, Exists
  <1>6. ASSUME NEW c \in ChatIds, NEW u \in Users, NEW r \in Roles,
               ChangeGroupChatMemberRole(c, u, r)
        PROVE  Spares
    BY <1>6 DEF ChangeGroupChatMemberRole, Spares, TypeOK, Roles
  <1>7. ASSUME UNCHANGED <<members, messages>>
        PROVE  Spares
    BY <1>7 DEF Spares
  <1>8. ASSUME NEW w \in Workers, NEW c \in ChatIds, NEW u \in Users,
               \/ NewMessageInsert(w, c, u)
               \/ NewGroupChatMemberInsert(w, c, u)
               \/ \E t \in LeaveTypes : DeleteGroupMemberDelete(w, c, u, t)
        PROVE  Spares
    <2>1. UNCHANGED <<members, messages>>
      BY <1>8
      DEF NewMessageInsert, NewGroupChatMemberInsert, DeleteGroupMemberDelete, Post
    <2> QED  BY <1>7, <2>1
  <1>9. ASSUME NEW w \in Workers,
               \/ \E u, v \in Users : PrivateChatMissing(w, u, v)
               \/ PrivateChatWithSelf(w)
               \/ Rollback(w)
               \/ SelectMembers(w)
        PROVE  Spares
    <2>1. UNCHANGED <<members, messages>>
      BY <1>9 DEF PrivateChatMissing, PrivateChatWithSelf, Rollback, SelectMembers
    <2> QED  BY <1>7, <2>1
  <1>10. ASSUME NEW c \in ChatIds, NEW u \in Users, NEW m \in MsgIds, SetReadAtStatus(m, c, u)
         PROVE  Spares
    <2>1. UNCHANGED <<members, messages>>
      BY <1>10 DEF SetReadAtStatus
    <2> QED  BY <1>7, <2>1
  <1>11. CASE UNCHANGED storeVars
    BY <1>7, <1>11 DEF storeVars
  <1> HIDE DEF StoreInv
  <1> QED
    BY <1>1, <1>2, <1>3, <1>4, <1>5, <1>6, <1>8, <1>9, <1>10, <1>11 DEF StoreNext

\* An id that was taken from the sequence and is in no transaction is never in one again.
LEMMA IdsStay ==
  ASSUME StoreInv, [StoreNext]_storeVars,
         NEW m \in MsgIds, m < nextMsg, \A w \in Workers : Posting(w) => tx[w].msg # m
  PROVE  /\ nextMsg' \in Nat /\ m < nextMsg'
         /\ \A w \in Workers : Posting(w)' => tx'[w].msg # m
  <1> DEFINE Apart == /\ nextMsg' \in Nat /\ m < nextMsg'
                      /\ \A w \in Workers : Posting(w)' => tx'[w].msg # m
  <1>0. TypeOK /\ nextMsg \in Nat
    BY StoreAssumption DEF StoreInv, TypeOK
  <1>1. ASSUME NEW w \in Workers, NEW op, NEW d, NEW v, NEW k, NEW hit, Post(w, op, d, v, k, hit)
        PROVE  Apart
    <2>1. nextMsg' = nextMsg + 1 /\ \A x \in Workers : tx'[x] = tx[x] \/ tx'[x].msg = nextMsg
      BY <1>0, <1>1 DEF Post, TypeOK
    <2> QED  BY <1>0, <2>1 DEF Posting
  <1>2. ASSUME NEW w \in Workers, SelectMembers(w)
        PROVE  Apart
    <2>1. /\ nextMsg' = nextMsg
          /\ \A x \in Workers : tx'[x].op = tx[x].op /\ tx'[x].msg = tx[x].msg
      BY <1>0, <1>2 DEF SelectMembers, TypeOK, Tx
    <2> QED  BY <1>0, <2>1 DEF Posting
  <1>3. ASSUME UNCHANGED nextMsg, NEW w \in Workers, tx' = [tx EXCEPT ![w] = NoTx]
        PROVE  Apart
    BY <1>0, <1>3 DEF Posting, NoTx, TypeOK
  <1>4. ASSUME NEW w \in Workers,
               \/ NewMessageCommit(w) \/ NewGroupChatMemberCommit(w) \/ DeleteGroupMemberCommit(w)
               \/ PrivateChatCreate(w) \/ PrivateChatWithSelf(w) \/ Rollback(w)
        PROVE  Apart
    BY <1>3, <1>4
    DEF NewMessageCommit, NewGroupChatMemberCommit, DeleteGroupMemberCommit, CommitPost,
        PrivateChatCreate, PrivateChatWithSelf, Rollback
  <1>5. ASSUME NEW w \in Workers, NEW u \in Users, NEW v \in Users, PrivateChatMissing(w, u, v)
        PROVE  Apart
    <2>1. nextMsg' = nextMsg /\ \A x \in Workers : tx'[x] = tx[x] \/ tx'[x].op = "private"
      BY <1>0, <1>5 DEF PrivateChatMissing, NoTx, TypeOK
    <2> QED  BY <1>0, <2>1 DEF Posting
  <1>6. CASE UNCHANGED <<nextMsg, tx>>
    BY <1>0, <1>6 DEF Posting
  <1>7. ASSUME NEW w \in Workers, NEW c \in ChatIds, NEW u \in Users,
               \/ NewMessageInsert(w, c, u) \/ NewGroupChatMemberInsert(w, c, u)
               \/ \E t \in LeaveTypes : DeleteGroupMemberDelete(w, c, u, t)
               \/ DeleteGroupChat(w, c, u)
        PROVE  Apart
    BY <1>1, <1>6, <1>7
    DEF NewMessageInsert, NewGroupChatMemberInsert, DeleteGroupMemberDelete, DeleteGroupChat
  <1>8. ASSUME \/ \E w \in Workers, u \in Users : NewGroupChat(w, u)
               \/ \E c \in ChatIds, u \in Users :
                     \/ \E r \in Roles : ChangeGroupChatMemberRole(c, u, r)
                     \/ \E n \in MsgIds : SetReadAtStatus(n, c, u)
               \/ UNCHANGED storeVars
        PROVE  Apart
    BY <1>6, <1>8 DEF NewGroupChat, ChangeGroupChatMemberRole, SetReadAtStatus, storeVars
  <1> HIDE DEF Apart
  <1>9. Apart
    BY <1>2, <1>4, <1>5, <1>7, <1>8 DEF StoreNext
  <1> QED  BY <1>9 DEF Apart

\* What is visible after a step, and what becomes of an id that is spent.
LEMMA IdsKept == ASSUME StoreInv, [StoreNext]_storeVars PROVE KeepsIds
  <1>1. StoreInv'
    BY StoreInvStep
  <1>2. ASSUME NEW m \in MsgIds, m \in Spent
        PROVE  m \in Spent' /\ messages'[m] \in {messages[m], NoMessage}
    <2>1. m < nextMsg /\ \A w \in Workers : Posting(w) => tx[w].msg # m
      BY <1>2 DEF Spent
    <2>2. m \in Spent'
      BY <2>1, IdsStay DEF Spent
    <2>3. ASSUME NEW w \in Workers, Commits(w) PROVE messages'[m] = messages[m]
      BY <2>1, <2>3 DEF Commits, Shows
    <2> QED  BY <2>2, <2>3, StepKinds DEF Removes, Creates, Spares
  <1>3. ASSUME NEW m \in MsgIds, messages'[m].type # "NONE"
        PROVE  m \in Spent'
    <2>1. \A w \in Workers : Posting(w)' => tx'[w].msg # m
      BY <1>1, <1>3 DEF StoreInv, TxInv, PostersHold
    <2>2. nextMsg' \in Nat /\ m < nextMsg'
      BY <1>1, <1>3, StoreAssumption DEF StoreInv, TypeOK, TxInv, IdsAhead
    <2> QED  BY <2>1, <2>2 DEF Spent
  <1> QED  BY <1>2, <1>3 DEF KeepsIds

\* The three action properties, of one step from a state that satisfies the invariant.
LEMMA StepProperties ==
  ASSUME StoreInv, [StoreNext]_storeVars
  PROVE  KeepsIds /\ Addresses /\ PostsChange
  <1>1. ASSUME NEW w \in Workers, Commits(w)
        PROVE  Addresses /\ PostsChange
    <2>2. Addresses
      BY <1>1 DEF Commits, Shows, Addresses, Committed, MembersOf
    <2>3. PostsChange
      <3> SUFFICES ASSUME NEW c \in ChatIds, NEW u \in Users,
                          ~(members[c][u] = "NONE" <=> members'[c][u] = "NONE")
                   PROVE  \E m \in MsgIds :
                            /\ Committed(m)
                            /\ messages'[m].chat = c /\ messages'[m].from = u
                            /\ messages'[m].type \in
                                 IF members[c][u] = "NONE" THEN {"new_member"} ELSE LeaveTypes
        BY DEF PostsChange
      <3> DEFINE others == \A d \in ChatIds, v \in Users :
                              d # tx[w].chat \/ v # tx[w].user => members'[d][v] = members[d][v]
      <3>0. others
        <4>1. members \in [ChatIds -> [Users -> Roles \union {"NONE"}]]
          BY DEF StoreInv, TypeOK
        <4>2. CASE UNCHANGED members
          BY <4>2
        <4>3. ASSUME NEW r, members' = [members EXCEPT ![tx[w].chat][tx[w].user] = r]
              PROVE  others
          BY <4>1, <4>3
        <4> QED  BY <1>1, <4>2, <4>3 DEF Commits
      <3>1. c = tx[w].chat /\ u = tx[w].user
        BY <3>0
      <3>2. Committed(tx[w].msg) /\ tx[w].msg \in MsgIds
        BY <1>1 DEF Commits, Shows, Committed
      <3>3. /\ messages'[tx[w].msg].chat = c /\ messages'[tx[w].msg].from = u
            /\ messages'[tx[w].msg].type = tx[w].type
        BY <1>1, <3>1 DEF Commits, Shows
      <3>4. tx[w].type \in IF members[c][u] = "NONE" THEN {"new_member"} ELSE LeaveTypes
        BY <1>1, <3>1 DEF Commits, StoreInv, TxInv, TypesAgree
      <3> QED  BY <3>2, <3>3, <3>4
    <2> QED  BY <2>2, <2>3
  <1>2. ASSUME NEW c \in ChatIds, Removes(c)
        PROVE  Addresses /\ PostsChange
    BY <1>2 DEF Removes, Addresses, PostsChange, Committed, NoMessage, Exists
  <1>3. CASE Creates
    BY <1>3, IdsKept DEF Creates, Addresses, PostsChange, Committed, Exists
  <1>4. CASE Spares
    BY <1>4, IdsKept DEF Spares, Addresses, PostsChange, Committed, Exists
  <1> QED  BY <1>1, <1>2, <1>3, <1>4, StepKinds, IdsKept

\* The id of a message is for ever: not even after the message is gone does it name
\* another one.
THEOREM IdsNeverReusedCorrect == StoreSpec => IdsNeverReused
  BY StoreInvCorrect, StepProperties, PTL DEF StoreSpec, IdsNeverReused

\* A message and its status rows for the members of the moment become visible at once.
THEOREM AddressedAtCommitCorrect == StoreSpec => AddressedAtCommit
  BY StoreInvCorrect, StepProperties, PTL DEF StoreSpec, AddressedAtCommit

\* Nobody joins or leaves a living chat in silence.
THEOREM MembershipPostedCorrect == StoreSpec => MembershipPosted
  BY StoreInvCorrect, StepProperties, PTL DEF StoreSpec, MembershipPosted

-----------------------------------------------------------------------------
(* What the services may say of a message *)

\* Message m has been committed, by u in chat c, and no transaction has its id any
\* more; if it is not there now, its chat is not either
Settled(m, c, u, t) ==
  /\ m \in MsgIds /\ m < nextMsg
  /\ c \in ChatIds /\ c < nextChat
  /\ \A w \in Workers : Posting(w) => tx[w].msg # m
  /\ \/ messages[m] = [chat |-> c, from |-> u, type |-> t]
     \/ messages[m] = NoMessage /\ ~Exists(c)

\* A message once settled stays so: its id is not given to another transaction, and
\* only the deletion of its chat takes it away.
LEMMA SettledStays ==
  ASSUME StoreInv, [StoreNext]_storeVars,
         NEW m, NEW c, NEW u, NEW t, Settled(m, c, u, t)
  PROVE  Settled(m, c, u, t)'
  <1>0. /\ TypeOK /\ nextChat \in Nat
        /\ m \in MsgIds /\ m < nextMsg /\ c \in ChatIds /\ c \in Nat /\ c < nextChat
    BY StoreAssumption DEF StoreInv, TypeOK, Settled
  <1> DEFINE Stays == /\ \/ messages'[m] = messages[m]
                         \/ messages'[m] = NoMessage /\ chats'[c].type = "NONE"
                      /\ chats[c].type = "NONE" => chats'[c].type = "NONE"
                      /\ nextChat' \in {nextChat, nextChat + 1}
  <1>1. ASSUME NEW w \in Workers, Posting(w), CommitPost(w)
        PROVE  Stays
    <2>1. Shows(w)
      BY <1>1, CommitEffect DEF StoreInv
    <2> QED  BY <1>0, <1>1, <2>1 DEF Settled, Shows
  <1>2. ASSUME NEW w \in Workers, NEW d \in ChatIds, NEW a, DeleteGroupChat(w, d, a)
        PROVE  Stays
    <2>1. \/ messages'[m] = messages[m]
          \/ messages'[m] = NoMessage /\ chats'[c].type = "NONE"
      BY <1>0, <1>2 DEF Settled, DeleteGroupChat, NoMessage, NoChat, TypeOK
    <2>2. chats[c].type = "NONE" => chats'[c].type = "NONE"
      BY <1>0, <1>2 DEF DeleteGroupChat, NoChat, TypeOK
    <2> QED  BY <1>2, <2>1, <2>2 DEF DeleteGroupChat
  <1>3. ASSUME NEW w \in Workers, PrivateChatCreate(w) \/ \E v \in Users : NewGroupChat(w, v)
        PROVE  Stays
    <2>1. nextChat' = nextChat + 1 /\ UNCHANGED messages
          /\ \E row : chats' = [chats EXCEPT ![nextChat] = row]
      BY <1>3 DEF NewGroupChat, PrivateChatCreate
    <2>2. chats'[c] = chats[c]
      BY <1>0, <2>1 DEF TypeOK
    <2> QED  BY <2>1, <2>2
  <1>4. ASSUME UNCHANGED <<chats, messages>>, nextChat' \in {nextChat, nextChat + 1}
        PROVE  Stays
    BY <1>4
  <1>5. ASSUME NEW w \in Workers, NEW d \in ChatIds, NEW v \in Users,
               \/ NewMessageInsert(w, d, v)
               \/ NewGroupChatMemberInsert(w, d, v)
               \/ \E k \in LeaveTypes : DeleteGroupMemberDelete(w, d, v, k)
        PROVE  Stays
    BY <1>4, <1>5 DEF NewMessageInsert, NewGroupChatMemberInsert, DeleteGroupMemberDelete, Post
  <1>6. ASSUME NEW w \in Workers,
               \/ PrivateChatWithSelf(w)
               \/ Rollback(w)
               \/ SelectMembers(w)
               \/ \E v, x \in Users : PrivateChatMissing(w, v, x)
        PROVE  Stays
    BY <1>4, <1>6 DEF PrivateChatWithSelf, Rollback, SelectMembers, PrivateChatMissing
  <1>7. ASSUME \/ \E d \in ChatIds, v \in Users :
                     \/ \E k \in Roles : ChangeGroupChatMemberRole(d, v, k)
                     \/ \E n \in MsgIds : SetReadAtStatus(n, d, v)
               \/ UNCHANGED storeVars
        PROVE  Stays
    BY <1>4, <1>7 DEF ChangeGroupChatMemberRole, SetReadAtStatus, storeVars
  <1>8. ASSUME NEW w \in Workers,
               NewMessageCommit(w) \/ NewGroupChatMemberCommit(w) \/ DeleteGroupMemberCommit(w)
        PROVE  Stays
    BY <1>1, <1>8
    DEF NewMessageCommit, NewGroupChatMemberCommit, DeleteGroupMemberCommit, Posting
  <1> HIDE DEF Stays
  <1>9. Stays
    BY <1>2, <1>3, <1>5, <1>6, <1>7, <1>8 DEF StoreNext
  <1>10. /\ nextMsg' \in Nat /\ m < nextMsg'
         /\ \A w \in Workers : Posting(w)' => tx'[w].msg # m
    BY <1>0, IdsStay DEF Settled
  <1>11. c < nextChat'
    BY <1>0, <1>9 DEF Stays
  <1>12. \/ messages'[m] = [chat |-> c, from |-> u, type |-> t]
         \/ messages'[m] = NoMessage /\ chats'[c].type = "NONE"
    BY <1>9 DEF Stays, Settled, Exists
  <1> QED  BY <1>0, <1>10, <1>11, <1>12 DEF Settled, Exists

\* A commit settles the message it makes visible.
LEMMA CommitSettles ==
  ASSUME StoreInv, NEW w \in Workers, Posting(w), CommitPost(w),
         NEW m, m = tx[w].msg, NEW c, c = tx[w].chat, NEW u, u = tx[w].user, NEW t, t = tx[w].type
  PROVE  Settled(m, c, u, t)'
  <1>0. Shows(w) /\ TypeOK /\ TxInv
    BY CommitEffect DEF StoreInv
  <1>1. m \in MsgIds /\ m < nextMsg' /\ messages'[m] = [chat |-> c, from |-> u, type |-> t]
    BY <1>0 DEF Shows
  <1>2. c \in ChatIds /\ c < nextChat'
    BY <1>0, StoreAssumption DEF Shows, TxInv, IdsAhead, Exists, TypeOK
  <1>3. \A x \in Workers : Posting(x)' => tx'[x].msg # m
    <2> SUFFICES ASSUME NEW x \in Workers, Posting(x)' PROVE tx'[x].msg # m
      OBVIOUS
    <2>1. x # w /\ tx'[x] = tx[x]
      BY <1>0 DEF CommitPost, Posting, NoTx, TypeOK
    <2> QED  BY <1>0, <2>1 DEF TxInv, IdsApart, Posting
  <1> QED  BY <1>1, <1>2, <1>3 DEF Settled
=============================================================================
