------------------------- MODULE ChatStoreLogProofs -------------------------
(***************************************************************************)
(* Proof that the chat store implements ChatLog, for any sets of users and *)
(* workers and any number of chats and messages.                           *)
(***************************************************************************)
EXTENDS ChatStoreLog, ChatStoreProofs

\* What the types are built of
USE DEF ChatIds, MsgIds

\* What the refinement mapping shows of the store
Alive == {c \in ChatIds : Exists(c)}
Seen == {c \in ChatIds : c < nextChat}
Belongs == [c \in ChatIds |-> MembersOf(c)]
Entries == [m \in MsgIds |-> Entry(m)]

logView == <<Alive, Seen, Belongs, Entries, Spent>>

-----------------------------------------------------------------------------
(* The ids that are spent *)

\* The id a transaction takes is not spent before the transaction ends.
LEMMA SpentTaken ==
  ASSUME TypeOK, NEW w \in Workers, Posting(w)', tx'[w].msg = nextMsg,
         \A x \in Workers : x # w => tx'[x] = tx[x],
         ~Posting(w), nextMsg' = nextMsg + 1
  PROVE  Spent' = Spent
  <1>1. nextMsg \in Nat
    BY DEF TypeOK
  <1>2. \A m \in MsgIds :
          (m < nextMsg' /\ ~\E x \in Workers : Posting(x)' /\ tx'[x].msg = m)
          <=> (m < nextMsg /\ ~\E x \in Workers : Posting(x) /\ tx[x].msg = m)
    <2> SUFFICES ASSUME NEW m \in MsgIds
                 PROVE  (m < nextMsg' /\ ~\E x \in Workers : Posting(x)' /\ tx'[x].msg = m)
                        <=> (m < nextMsg /\ ~\E x \in Workers : Posting(x) /\ tx[x].msg = m)
      OBVIOUS
    <2>1. CASE m = nextMsg
      BY <1>1, <2>1
    <2>2. CASE m # nextMsg
      <3>1. m < nextMsg' <=> m < nextMsg
        BY <1>1, <2>2
      <3>2. (\E x \in Workers : Posting(x)' /\ tx'[x].msg = m)
            <=> (\E x \in Workers : Posting(x) /\ tx[x].msg = m)
        BY <2>2 DEF Posting
      <3> QED  BY <3>1, <3>2
    <2> QED  BY <2>1, <2>2
  <1> QED  BY <1>2 DEF Spent

\* A step that neither starts nor ends a transaction that posts spends no id.
LEMMA SpentKept ==
  ASSUME nextMsg' = nextMsg,
         \A x \in Workers : Posting(x)' <=> Posting(x),
         \A x \in Workers : Posting(x) => tx'[x].msg = tx[x].msg
  PROVE  Spent' = Spent
  BY DEF Spent

\* The end of a transaction that posts, be it a commit or a rollback, spends its id.
LEMMA SpentGiven ==
  ASSUME TypeOK, TxInv, NEW w \in Workers, Posting(w), tx'[w] = NoTx,
         \A x \in Workers : x # w => tx'[x] = tx[x],
         nextMsg' = nextMsg
  PROVE  /\ tx[w].msg \in MsgIds \ Spent
         /\ Spent' = Spent \union {tx[w].msg}
  <1>1. tx[w].msg \in MsgIds /\ tx[w].msg < nextMsg
    BY DEF TxInv, PostersHold
  <1>2. ~Posting(w)'
    BY DEF Posting, NoTx
  <1>3. \A x \in Workers : Posting(x) /\ x # w => tx[x].msg # tx[w].msg
    BY DEF TxInv, IdsApart
  <1>4. \A m \in MsgIds :
          (\E x \in Workers : Posting(x) /\ tx[x].msg = m)
          <=> \/ m = tx[w].msg
              \/ \E x \in Workers : Posting(x)' /\ tx'[x].msg = m
    BY <1>2 DEF Posting
  <1>5. ~\E x \in Workers : Posting(x)' /\ tx'[x].msg = tx[w].msg
    BY <1>2, <1>3 DEF Posting
  <1> QED  BY <1>1, <1>4, <1>5 DEF Spent

-----------------------------------------------------------------------------
(* The steps, seen from the log *)

\* A step that leaves the tables alone, but for a role or a status that is there
LEMMA ViewKept ==
  ASSUME \A c \in ChatIds : chats'[c] = chats[c],
         \A c \in ChatIds, u \in Users : members'[c][u] = "NONE" <=> members[c][u] = "NONE",
         \A m \in MsgIds : messages'[m] = messages[m],
         \A m \in MsgIds, u \in Users : status'[m][u] = "NONE" <=> status[m][u] = "NONE",
         nextChat' = nextChat, Spent' = Spent
  PROVE  UNCHANGED logView
  <1>1. Alive' = Alive /\ Seen' = Seen
    BY DEF Alive, Seen, Exists
  <1>2. \A c \in ChatIds : MembersOf(c)' = MembersOf(c)
    BY DEF MembersOf
  <1>3. Belongs' = Belongs
    BY <1>2 DEF Belongs
  <1>4. \A m \in MsgIds : {u \in Users : status'[m][u] # "NONE"} = {u \in Users : status[m][u] # "NONE"}
    OBVIOUS
  <1>5. \A m \in MsgIds : Entry(m)' = Entry(m)
    BY <1>4 DEF Entry
  <1>6. Entries' = Entries
    BY <1>5 DEF Entries
  <1> QED  BY <1>1, <1>3, <1>6 DEF logView

\* The first step of a transaction that posts cannot be seen.
LEMMA PostUnseen ==
  ASSUME TypeOK, NEW w \in Workers, NEW op \in {"message", "join", "leave"},
         NEW c \in ChatIds, NEW u \in Users, NEW t, NEW hit,
         Post(w, op, c, u, t, hit)
  PROVE  UNCHANGED logView
  <1>1. /\ Posting(w)' /\ tx'[w].msg = nextMsg /\ ~Posting(w)
        /\ \A x \in Workers : x # w => tx'[x] = tx[x]
        /\ nextMsg' = nextMsg + 1
    BY DEF Post, TypeOK, Posting, InTx
  <1>2. Spent' = Spent
    BY <1>1, SpentTaken
  <1>3. UNCHANGED <<chats, members, messages, status, nextChat>>
    BY DEF Post
  <1> QED  BY <1>2, <1>3, ViewKept

\* Its commit enters the message, addressed to the members of that moment.
LEMMA CommitEnters ==
  ASSUME TypeOK, TxInv, NEW w \in Workers, Posting(w), CommitPost(w)
  PROVE  /\ tx[w].msg \in MsgIds \ Spent /\ tx[w].chat \in Alive /\ tx[w].user \in Users
         /\ Spent' = Spent \union {tx[w].msg}
         /\ Entries' = [Entries EXCEPT ![tx[w].msg] =
                          [chat |-> tx[w].chat, from |-> tx[w].user, type |-> tx[w].type,
                           to |-> Belongs[tx[w].chat]]]
         /\ Alive' = Alive /\ Seen' = Seen
  <1>1. Shows(w)
    BY CommitEffect
  <1>2. /\ tx'[w] = NoTx /\ nextMsg' = nextMsg
        /\ \A x \in Workers : x # w => tx'[x] = tx[x]
    BY DEF CommitPost, TypeOK
  <1>3. tx[w].msg \in MsgIds \ Spent /\ Spent' = Spent \union {tx[w].msg}
    BY <1>2, SpentGiven
  <1>4. Alive' = Alive /\ Seen' = Seen /\ tx[w].chat \in Alive /\ tx[w].user \in Users
    BY <1>1 DEF Shows, Alive, Seen, Exists
  <1>5. \A m \in MsgIds : m # tx[w].msg => Entry(m)' = Entry(m)
    BY <1>1, SMTT(60) DEF Shows, Entry
  <1>6. ASSUME NEW m \in MsgIds, m = tx[w].msg
        PROVE  Entry(m)' = [chat |-> tx[w].chat, from |-> tx[w].user, type |-> tx[w].type,
                            to |-> Belongs[tx[w].chat]]
    <2>1. {u \in Users : status'[m][u] # "NONE"} = MembersOf(tx[w].chat)
      BY <1>1, <1>6 DEF Shows, MembersOf
    <2>2. MembersOf(tx[w].chat) = Belongs[tx[w].chat]
      BY <1>1 DEF Shows, Belongs
    <2>3. messages'[m] = [chat |-> tx[w].chat, from |-> tx[w].user, type |-> tx[w].type]
      BY <1>1, <1>6 DEF Shows
    <2>4. Entry(m)' =
            [chat |-> messages'[m].chat, from |-> messages'[m].from,
             type |-> messages'[m].type,
             to |-> {u \in Users : status'[m][u] # "NONE"}]
      BY DEF Entry
    <2> QED  BY <2>1, <2>2, <2>3, <2>4
  <1>7. Entries' = [Entries EXCEPT ![tx[w].msg] =
                      [chat |-> tx[w].chat, from |-> tx[w].user, type |-> tx[w].type,
                       to |-> Belongs[tx[w].chat]]]
    BY <1>5, <1>6 DEF Entries
  <1> QED  BY <1>3, <1>4, <1>7

\* What a commit does to the members: nothing, or one of them comes or goes.
LEMMA CommitMembers ==
  ASSUME StoreInv, NEW w \in Workers,
         NewMessageCommit(w) \/ NewGroupChatMemberCommit(w) \/ DeleteGroupMemberCommit(w)
  PROVE  LET c == tx[w].chat
             u == tx[w].user
         IN  \/ /\ tx[w].type = "new_message"
                /\ Belongs' = Belongs
             \/ /\ tx[w].type = "new_member" /\ u \notin Belongs[c]
                /\ Belongs' = [Belongs EXCEPT ![c] = @ \union {u}]
             \/ /\ tx[w].type \in LeaveTypes
                /\ Belongs' = [Belongs EXCEPT ![c] = @ \ {u}]
             \/ /\ tx[w].type \in LeaveTypes
                /\ Belongs' = Belongs
  <1> DEFINE c == tx[w].chat
             u == tx[w].user
  <1>0. /\ Posting(w) /\ CommitPost(w)
        /\ members \in [ChatIds -> [Users -> Roles \union {"NONE"}]]
        /\ c \in ChatIds /\ u \in Users
    BY DEF NewMessageCommit, NewGroupChatMemberCommit, DeleteGroupMemberCommit, Posting,
           StoreInv, TypeOK, TxInv, PostersHold
  <1>1. CASE UNCHANGED members
    <2>1. Belongs' = Belongs
      BY <1>1 DEF Belongs, MembersOf
    <2>2. tx[w].type = "new_message" \/ tx[w].type \in LeaveTypes
      <3>1. CASE NewMessageCommit(w) \/ DeleteGroupMemberCommit(w)
        BY <3>1 DEF NewMessageCommit, DeleteGroupMemberCommit, StoreInv, TxInv, TypesAgree
      <3>2. CASE NewGroupChatMemberCommit(w)
        <4>1. members[c][u] = "NONE" /\ members'[c][u] = "MEMBER"
          BY <1>0, <3>2 DEF NewGroupChatMemberCommit, StoreInv, TxInv, RowsPending
        <4> QED  BY <1>1, <4>1
      <3> QED  BY <3>1, <3>2
    <2> QED  BY <2>1, <2>2
  <1>2. CASE NewGroupChatMemberCommit(w)
    <2>1. /\ tx[w].type = "new_member" /\ members[c][u] = "NONE"
          /\ members' = [members EXCEPT ![c][u] = "MEMBER"]
      BY <1>2 DEF NewGroupChatMemberCommit, StoreInv, TxInv, TypesAgree, RowsPending
    <2>2. /\ {v \in Users : members'[c][v] # "NONE"} = {v \in Users : members[c][v] # "NONE"} \union {u}
          /\ \A d \in ChatIds : d # c => members'[d] = members[d]
      BY <1>0, <2>1
    <2>3. Belongs' = [Belongs EXCEPT ![c] = @ \union {u}]
      BY <1>0, <2>2, ZenonT(60) DEF Belongs, MembersOf
    <2>4. u \notin Belongs[c]
      BY <1>0, <2>1 DEF Belongs, MembersOf
    <2> QED  BY <2>1, <2>3, <2>4
  <1>3. CASE DeleteGroupMemberCommit(w) /\ tx[w].hit
    <2>1. /\ tx[w].type \in LeaveTypes
          /\ members' = [members EXCEPT ![c][u] = "NONE"]
      BY <1>3 DEF DeleteGroupMemberCommit, StoreInv, TxInv, TypesAgree
    <2>2. /\ {v \in Users : members'[c][v] # "NONE"} = {v \in Users : members[c][v] # "NONE"} \ {u}
          /\ \A d \in ChatIds : d # c => members'[d] = members[d]
      BY <1>0, <2>1
    <2>3. Belongs' = [Belongs EXCEPT ![c] = @ \ {u}]
      BY <1>0, <2>2, ZenonT(60) DEF Belongs, MembersOf
    <2> QED  BY <2>1, <2>3
  <1> QED
    BY <1>1, <1>2, <1>3 DEF NewMessageCommit, DeleteGroupMemberCommit

\* A commit of a message is a step of the log.
LEMMA CommitIsLogStep ==
  ASSUME StoreInv, NEW w \in Workers,
         NewMessageCommit(w) \/ NewGroupChatMemberCommit(w) \/ DeleteGroupMemberCommit(w)
  PROVE  Log!LogNext
  <1> DEFINE m == tx[w].msg
             c == tx[w].chat
             u == tx[w].user
  <1>1. Posting(w) /\ CommitPost(w)
    BY DEF NewMessageCommit, NewGroupChatMemberCommit, DeleteGroupMemberCommit, Posting
  <1>2. /\ m \in MsgIds \ Spent /\ c \in Alive /\ u \in Users
        /\ Spent' = Spent \union {m}
        /\ Entries' = [Entries EXCEPT ![m] =
                         [chat |-> c, from |-> u, type |-> tx[w].type, to |-> Belongs[c]]]
        /\ Alive' = Alive /\ Seen' = Seen
    BY <1>1, CommitEnters DEF StoreInv
  <1>3. Log!Enter(m, c, u, tx[w].type)
    BY <1>2 DEF Log!Enter, Alive, Seen, Belongs, Entries
  <1>4. CASE tx[w].type = "new_message" /\ Belongs' = Belongs
    <2>1. Log!Post(m, c, u)
      BY <1>3, <1>4 DEF Log!Post, Belongs
    <2> QED  BY <1>2, <2>1 DEF Log!LogNext, Alive
  <1>5. CASE /\ tx[w].type = "new_member" /\ u \notin Belongs[c]
             /\ Belongs' = [Belongs EXCEPT ![c] = @ \union {u}]
    <2>1. Log!Join(m, c, u)
      BY <1>3, <1>5 DEF Log!Join, Belongs
    <2> QED  BY <1>2, <2>1 DEF Log!LogNext, Alive
  <1>6. CASE tx[w].type \in LeaveTypes /\ Belongs' = [Belongs EXCEPT ![c] = @ \ {u}]
    <2>1. Log!Leave(m, c, u, tx[w].type)
      BY <1>3, <1>6 DEF Log!Leave, Belongs
    <2> QED  BY <1>2, <1>6, <2>1 DEF Log!LogNext, Log!Leavings, LeaveTypes, Alive
  <1>7. CASE tx[w].type \in LeaveTypes /\ Belongs' = Belongs
    <2>1. Log!LeaveMissed(m, c, u, tx[w].type)
      BY <1>3, <1>7 DEF Log!LeaveMissed, Belongs
    <2> QED  BY <1>2, <1>7, <2>1 DEF Log!LogNext, Log!Leavings, LeaveTypes, Alive
  <1> QED  BY <1>4, <1>5, <1>6, <1>7, CommitMembers

\* So is a rollback that spends an id; of any other the log sees nothing.
LEMMA RollbackIsLogStep ==
  ASSUME StoreInv, NEW w \in Workers, Rollback(w)
  PROVE  Log!LogNext \/ UNCHANGED logView
  <1>1. /\ UNCHANGED <<chats, members, messages, status, nextChat, nextMsg>>
        /\ tx'[w] = NoTx /\ \A x \in Workers : x # w => tx'[x] = tx[x]
    BY DEF Rollback, StoreInv, TypeOK
  <1>2. CASE Posting(w)
    <2>1. tx[w].msg \in MsgIds \ Spent /\ Spent' = Spent \union {tx[w].msg}
      BY <1>1, <1>2, SpentGiven DEF StoreInv
    <2>2. /\ {c \in ChatIds : Exists(c)}' = {c \in ChatIds : Exists(c)}
          /\ {c \in ChatIds : c < nextChat}' = {c \in ChatIds : c < nextChat}
          /\ [c \in ChatIds |-> MembersOf(c)]' = [c \in ChatIds |-> MembersOf(c)]
          /\ [m \in MsgIds |-> Entry(m)]' = [m \in MsgIds |-> Entry(m)]
      BY <1>1 DEF Exists, MembersOf, Entry
    <2>3. Log!Waste(tx[w].msg)
      BY <2>1, <2>2 DEF Log!Waste
    <2> QED  BY <2>1, <2>3 DEF Log!LogNext
  <1>3. CASE ~Posting(w)
    <2>1. /\ \A x \in Workers : Posting(x)' <=> Posting(x)
          /\ \A x \in Workers : Posting(x) => tx'[x].msg = tx[x].msg
      BY <1>1, <1>3 DEF Posting, NoTx
    <2>2. Spent' = Spent
      BY <1>1, <2>1, SpentKept
    <2> QED  BY <1>1, <2>2, ViewKept
  <1> QED  BY <1>2, <1>3

\* The deletion of a chat takes its members and its entries away, and nothing else.
LEMMA DeletionIsLogStep ==
  ASSUME StoreInv, NEW w \in Workers, NEW c \in ChatIds, NEW a \in Users,
         DeleteGroupChat(w, c, a)
  PROVE  Log!LogNext
  <1>1. /\ Exists(c) /\ UNCHANGED <<nextChat, nextMsg, tx>>
        /\ chats' = [chats EXCEPT ![c] = NoChat]
        /\ members' = [members EXCEPT ![c] = [u \in Users |-> "NONE"]]
        /\ chats \in [ChatIds -> ChatRow] /\ DOMAIN members = ChatIds
    BY DEF DeleteGroupChat, StoreInv, TypeOK
  <1>2. Alive' = Alive \ {c}
    BY <1>1 DEF Alive, Exists, NoChat
  <1>3. Seen' = Seen /\ Spent' = Spent
    BY <1>1 DEF Seen, Spent, Posting
  <1>4. Belongs' = [Belongs EXCEPT ![c] = {}]
    BY <1>1 DEF Belongs, MembersOf
  <1>5. ASSUME NEW m \in MsgIds
        PROVE  Entry(m)' = IF Entries[m].chat = c THEN Log!NoEntry ELSE Entries[m]
    <2>1. /\ messages'[m] = IF messages[m].chat = c THEN NoMessage ELSE messages[m]
          /\ status'[m] = IF messages[m].chat = c THEN [u \in Users |-> "NONE"] ELSE status[m]
      BY DEF DeleteGroupChat
    <2>2. Entries[m] = Entry(m) /\ Entry(m).chat = messages[m].chat
      BY DEF Entries, Entry
    <2>3. CASE messages[m].chat = c
      <3>1. {u \in Users : status'[m][u] # "NONE"} = {}
        BY <2>1, <2>3
      <3>2. Entry(m)' = Log!NoEntry
        BY <2>1, <2>3, <3>1 DEF Entry, NoMessage, Log!NoEntry
      <3> QED  BY <2>2, <2>3, <3>2
    <2>4. CASE messages[m].chat # c
      <3>1. Entry(m)' = Entry(m)
        BY <2>1, <2>4 DEF Entry
      <3> QED  BY <2>2, <2>4, <3>1
    <2> QED  BY <2>3, <2>4
  <1>6. Entries' = [m \in MsgIds |-> IF Entries[m].chat = c THEN Log!NoEntry ELSE Entries[m]]
    BY <1>5 DEF Entries
  <1>7. Log!Delete(c)
    BY <1>2, <1>3, <1>4, <1>6 DEF Log!Delete, Alive, Seen, Belongs, Entries
  <1>8. c \in Alive
    BY <1>1 DEF Alive
  <1> QED  BY <1>7, <1>8 DEF Log!LogNext, Alive

\* A step that creates the next chat with members u and v opens it in the log.
LEMMA CreationOpens ==
  ASSUME StoreInv, nextChat \in ChatIds, nextChat' = nextChat + 1,
         NEW row \in ChatRow, row.type # "NONE", chats' = [chats EXCEPT ![nextChat] = row],
         NEW roles, members' = [members EXCEPT ![nextChat] = roles],
         NEW u \in Users, NEW v \in Users,
         \A x \in Users : roles[x] # "NONE" <=> x \in {u, v},
         UNCHANGED <<messages, status>>, Spent' = Spent
  PROVE  Log!LogNext
  <1>1. /\ chats \in [ChatIds -> ChatRow] /\ DOMAIN members = ChatIds
        /\ \A c \in ChatIds : c >= nextChat => chats[c].type = "NONE"
    BY DEF StoreInv, TypeOK, TxInv, IdsAhead
  <1>2. Alive' = Alive \union {nextChat}
    BY <1>1 DEF Alive, Exists
  <1>3. Seen' = Seen \union {nextChat} /\ nextChat \in ChatIds \ Seen
    BY DEF Seen
  <1>4. {x \in Users : roles[x] # "NONE"} = {u, v}
    OBVIOUS
  <1>5. Belongs' = [Belongs EXCEPT ![nextChat] = {u, v}]
    BY <1>1, <1>4 DEF Belongs, MembersOf
  <1>6. Entries' = Entries
    BY DEF Entries, Entry
  <1>7. Log!Open(nextChat, {u, v})
    BY <1>2, <1>3, <1>5, <1>6 DEF Log!Open, Alive, Seen, Belongs, Entries
  <1> QED  BY <1>3, <1>7 DEF Log!LogNext, Seen

\* A group begins with its author, a private chat with the two who meet.
LEMMA CreationIsLogStep ==
  ASSUME StoreInv, NEW w \in Workers,
         PrivateChatCreate(w) \/ \E u \in Users : NewGroupChat(w, u)
  PROVE  Log!LogNext
  <1>1. ASSUME NEW u \in Users, NewGroupChat(w, u)
        PROVE  Log!LogNext
    <2> DEFINE row == [type |-> "GROUP", author |-> u]
               roles == [x \in Users |-> IF x = u THEN "ADMIN" ELSE "NONE"]
    <2>1. row \in ChatRow /\ row.type # "NONE"
      BY DEF ChatRow, ChatTypes
    <2>2. \A x \in Users : roles[x] # "NONE" <=> x \in {u, u}
      OBVIOUS
    <2>3. /\ nextChat \in ChatIds /\ nextChat' = nextChat + 1
          /\ chats' = [chats EXCEPT ![nextChat] = row]
          /\ members' = [members EXCEPT ![nextChat] = roles]
          /\ UNCHANGED <<messages, status, nextMsg, tx>>
      BY <1>1 DEF NewGroupChat
    <2>4. Spent' = Spent
      BY <2>3 DEF Spent, Posting
    <2> HIDE DEF row, roles
    <2> QED  BY <2>1, <2>2, <2>3, <2>4, CreationOpens
  <1>2. CASE PrivateChatCreate(w)
    <2> DEFINE u == tx[w].user
               v == tx[w].peer
               row == [type |-> "PRIVATE", author |-> NoUser]
               roles == [x \in Users |-> IF x \in {u, v} THEN "MEMBER" ELSE "NONE"]
    <2>0. tx[w].op = "private" /\ u \in Users /\ v \in Users
      BY <1>2 DEF PrivateChatCreate, StoreInv, TxInv, TypesAgree
    <2>1. row \in ChatRow /\ row.type # "NONE"
      BY DEF ChatRow, ChatTypes
    <2>2. \A x \in Users : roles[x] # "NONE" <=> x \in {u, v}
      OBVIOUS
    <2>3. /\ nextChat \in ChatIds /\ nextChat' = nextChat + 1
          /\ chats' = [chats EXCEPT ![nextChat] = row]
          /\ members' = [members EXCEPT ![nextChat] = roles]
          /\ UNCHANGED <<messages, status, nextMsg>>
          /\ tx'[w] = NoTx /\ \A x \in Workers : x # w => tx'[x] = tx[x]
      BY <1>2 DEF PrivateChatCreate, StoreInv, TypeOK
    <2>4. Spent' = Spent
      <3>1. /\ \A x \in Workers : Posting(x)' <=> Posting(x)
            /\ \A x \in Workers : Posting(x) => tx'[x].msg = tx[x].msg
        BY <2>0, <2>3 DEF Posting, NoTx
      <3> QED  BY <2>3, <3>1, SpentKept
    <2> HIDE DEF row, roles, u, v
    <2> QED  BY <2>0, <2>1, <2>2, <2>3, <2>4, CreationOpens
  <1> QED  BY <1>1, <1>2

\* The chat of somebody with himself only spends an id.
LEMMA WithSelfIsLogStep ==
  ASSUME StoreInv, NEW w \in Workers, PrivateChatWithSelf(w)
  PROVE  Log!LogNext
  <1>1. /\ tx[w].op = "private" /\ nextChat \in ChatIds /\ nextChat' = nextChat + 1
        /\ UNCHANGED <<chats, members, messages, status, nextMsg>>
        /\ tx'[w] = NoTx /\ \A x \in Workers : x # w => tx'[x] = tx[x]
    BY DEF PrivateChatWithSelf, StoreInv, TypeOK
  <1>2. /\ \A x \in Workers : Posting(x)' <=> Posting(x)
        /\ \A x \in Workers : Posting(x) => tx'[x].msg = tx[x].msg
    BY <1>1 DEF Posting, NoTx
  <1>3. Spent' = Spent
    BY <1>1, <1>2, SpentKept
  <1>4. Seen' = Seen \union {nextChat} /\ nextChat \in ChatIds \ Seen
    BY <1>1 DEF Seen
  <1>5. Alive' = Alive /\ Belongs' = Belongs /\ Entries' = Entries
    BY <1>1 DEF Alive, Belongs, Entries, Exists, MembersOf, Entry
  <1>6. PICK c \in ChatIds \ Seen : Seen' = Seen \union {c}
    BY <1>4
  <1>7. Log!WasteChat(c)
    BY <1>3, <1>5, <1>6 DEF Log!WasteChat, Alive, Seen, Belongs, Entries
  <1> QED  BY <1>6, <1>7 DEF Log!LogNext, Seen

-----------------------------------------------------------------------------
(* The refinement *)

\* An empty store is an empty log.
LEMMA LogInitially == ASSUME StoreInit PROVE Log!LogInit
  <1>1. Alive = {} /\ Seen = {} /\ Belongs = [c \in ChatIds |-> {}]
    BY DEF StoreInit, Alive, Seen, Belongs, Exists, MembersOf, NoChat
  <1>2. Spent = {}
    BY DEF StoreInit, Spent
  <1>3. \A m \in MsgIds : Entry(m) = Log!NoEntry
    <2> SUFFICES ASSUME NEW m \in MsgIds PROVE Entry(m) = Log!NoEntry
      OBVIOUS
    <2>1. messages[m] = NoMessage /\ {u \in Users : status[m][u] # "NONE"} = {}
      BY DEF StoreInit
    <2> QED  BY <2>1 DEF Entry, NoMessage, Log!NoEntry
  <1>4. Entries = [m \in MsgIds |-> Log!NoEntry]
    BY <1>3 DEF Entries
  <1> QED  BY <1>1, <1>2, <1>4 DEF Log!LogInit, Alive, Seen, Belongs, Entries

\* Every step of the store is a step of the log, or the log does not see it.
LEMMA LogStep ==
  ASSUME StoreInv, [StoreNext]_storeVars
  PROVE  Log!LogNext \/ UNCHANGED logView
  <1>1. ASSUME NEW w \in Workers, NEW c \in ChatIds, NEW u \in Users,
               \/ NewMessageInsert(w, c, u)
               \/ NewGroupChatMemberInsert(w, c, u)
               \/ \E t \in LeaveTypes : DeleteGroupMemberDelete(w, c, u, t)
        PROVE  UNCHANGED logView
    BY <1>1, PostUnseen
    DEF NewMessageInsert, NewGroupChatMemberInsert, DeleteGroupMemberDelete, StoreInv
  <1>2. ASSUME NEW w \in Workers, NEW u \in Users, NEW v \in Users, PrivateChatMissing(w, u, v)
        PROVE  UNCHANGED logView
    <2>1. /\ UNCHANGED <<chats, members, messages, status, nextChat, nextMsg>>
          /\ ~InTx(w) /\ tx'[w].op = "private"
          /\ \A x \in Workers : x # w => tx'[x] = tx[x]
      BY <1>2 DEF PrivateChatMissing, StoreInv, TypeOK, NoTx
    <2>2. /\ \A x \in Workers : Posting(x)' <=> Posting(x)
          /\ \A x \in Workers : Posting(x) => tx'[x].msg = tx[x].msg
      BY <2>1 DEF Posting, InTx
    <2>3. Spent' = Spent
      BY <2>1, <2>2, SpentKept
    <2> QED  BY <2>1, <2>3, ViewKept
  <1>3. ASSUME NEW c \in ChatIds, NEW u \in Users, NEW r \in Roles,
               ChangeGroupChatMemberRole(c, u, r)
        PROVE  UNCHANGED logView
    <2>1. UNCHANGED <<chats, messages, status, nextChat, nextMsg, tx>>
      BY <1>3 DEF ChangeGroupChatMemberRole
    <2>2. \A d \in ChatIds, v \in Users : members'[d][v] = "NONE" <=> members[d][v] = "NONE"
      BY <1>3 DEF ChangeGroupChatMemberRole, StoreInv, TypeOK, Roles
    <2>3. Spent' = Spent
      BY <2>1 DEF Spent, Posting
    <2> QED  BY <2>1, <2>2, <2>3, ViewKept
  <1>4. ASSUME NEW c \in ChatIds, NEW u \in Users, NEW m \in MsgIds, SetReadAtStatus(m, c, u)
        PROVE  UNCHANGED logView
    <2>1. UNCHANGED <<chats, members, messages, nextChat, nextMsg, tx>>
      BY <1>4 DEF SetReadAtStatus
    <2>2. \A n \in MsgIds, v \in Users : status'[n][v] = "NONE" <=> status[n][v] = "NONE"
      BY <1>4 DEF SetReadAtStatus
    <2>3. Spent' = Spent
      BY <2>1 DEF Spent, Posting
    <2> QED  BY <2>1, <2>2, <2>3, ViewKept
  <1>6. ASSUME NEW w \in Workers, SelectMembers(w)
        PROVE  UNCHANGED logView
    <2>1. /\ UNCHANGED <<chats, members, messages, status, nextChat, nextMsg>>
          /\ \A x \in Workers : tx'[x].op = tx[x].op /\ tx'[x].msg = tx[x].msg
      BY <1>6 DEF SelectMembers, StoreInv, TypeOK, Tx
    <2>2. Spent' = Spent
      BY <2>1, SpentKept DEF Posting
    <2> QED  BY <2>1, <2>2, ViewKept
  <1>5. CASE UNCHANGED storeVars
    BY <1>5 DEF storeVars, logView, Alive, Seen, Belongs, Entries, Spent, Exists, MembersOf,
                Entry, Posting
  <1> QED
    BY <1>1, <1>2, <1>3, <1>4, <1>5, <1>6, CommitIsLogStep, RollbackIsLogStep, DeletionIsLogStep,
       CreationIsLogStep, WithSelfIsLogStep
    DEF StoreNext

\* The chat store implements the log: transactions are atomic, for any users, workers
\* and bounds.
THEOREM ImplementsLogCorrect == StoreSpec => ImplementsLog
  <1>1. StoreInit => Log!LogInit
    BY LogInitially
  <1>2. StoreInv /\ [StoreNext]_storeVars => [Log!LogNext]_(Log!logVars)
    <2>1. UNCHANGED logView => UNCHANGED Log!logVars
      BY DEF logView, Log!logVars, Alive, Seen, Belongs, Entries
    <2> QED  BY <2>1, LogStep
  <1> QED  BY <1>1, <1>2, StoreInvCorrect, PTL DEF StoreSpec, ImplementsLog, Log!LogSpec
=============================================================================
