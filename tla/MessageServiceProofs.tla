------------------------ MODULE MessageServiceProofs ------------------------
(***************************************************************************)
(* Proofs about MessageService, for any users, connections and workers and *)
(* any bounds: it calls the store as ChatStore allows, what the clients    *)
(* are told is stored, and each author is heard in order.                  *)
(***************************************************************************)
EXTENDS MessageService, ChatStoreProofs, SequenceTheorems

\* The places where the handler has a message of its own author to tell of
Telling(l) == l.step = "confirm" \/ (l.step \in {"members", "fanout"} /\ l.type = "new_message")

\* The locals of a handler and its transaction: the arguments it will pass to the
\* repository and to Redis are there, and the transaction is for them
Sound(s, l, t) ==
  /\ l \in Session
  /\ l.step \in {"newChat", "insert", "commit", "confirm", "members", "fanout"} => l.chat \in ChatIds
  /\ l.step \in {"private", "newChat"} => l.peer \in Users
  /\ l.step \in {"private", "newChat", "insert", "commit", "confirm"} => l.type = "new_message"
  /\ l.step \in {"confirm", "members", "fanout"} => l.msg \in MsgIds
  /\ t.op \in {"none", "private", "message"}
  /\ t.op = "private" <=> l.step = "private"
  /\ t.op = "message" <=> l.step = "commit"
  /\ l.step = "commit" => t.chat = l.chat /\ t.user = UserOf[s]

SessionsSound ==
  /\ sess \in [Sessions -> Session]
  /\ \A s \in Sessions : Sound(s, sess[s], tx[s])

-----------------------------------------------------------------------------
(* The calls of the store *)

\* The UPDATE of SetDeliveredAtStatus names $3 and has two arguments.
LEMMA DeliveredNeverPrepares == ~SetDeliveredAtStatusPrepares
  BY DEF SetDeliveredAtStatusPrepares, Prepares

\* Each step of the service is a step of the store or leaves the store alone.
LEMMA NextCallsStore == SessionsSound /\ [Next]_vars => [StoreNext]_storeVars
  <1> SUFFICES ASSUME SessionsSound, [Next]_vars PROVE [StoreNext]_storeVars
    OBVIOUS
  <1> USE SessionAssumption
  <1>0. \A s \in Sessions : s \in Workers /\ UserOf[s] \in Users /\ Sound(s, sess[s], tx[s])
    BY DEF SessionsSound
  <1>1. ASSUME NEW s \in Sessions, NEW v \in Users, ReceiveSendPrivate(s, v)
        PROVE  StoreNext \/ UNCHANGED storeVars
    BY <1>0, <1>1 DEF ReceiveSendPrivate, StoreNext
  <1>2. ASSUME NEW s \in Sessions, NEW c \in ChatIds, NEW m \in MsgIds, ReceiveRead(s, c, m)
        PROVE  StoreNext
    BY <1>0, <1>2 DEF ReceiveRead, StoreNext
  <1>3. ASSUME NEW s \in Sessions, CreateChat(s)
        PROVE  StoreNext
    BY <1>0, <1>3 DEF CreateChat, StoreNext
  <1>4. ASSUME NEW s \in Sessions, InsertMessage(s)
        PROVE  StoreNext
    BY <1>0, <1>4 DEF InsertMessage, At, Sound, StoreNext
  <1>5. ASSUME NEW s \in Sessions, CommitMessage(s)
        PROVE  StoreNext
    BY <1>0, <1>5 DEF CommitMessage, StoreNext
  <1>10. ASSUME NEW s \in Sessions, SelectForMessage(s)
         PROVE  StoreNext
    BY <1>0, <1>10 DEF SelectForMessage, StoreNext
  <1>6. ASSUME NEW s \in Sessions, HandlerFails(s)
        PROVE  StoreNext \/ UNCHANGED storeVars
    BY <1>0, <1>6 DEF HandlerFails, StoreNext
  <1>7. ASSUME NEW w \in Workers \ Sessions, GroupCall(w)
        PROVE  StoreNext
    BY <1>7 DEF GroupCall, StoreNext
  <1>8. ASSUME NEW s \in Sessions,
               \/ \E c \in ChatIds : ReceiveSend(s, c)
               \/ \E c \in ChatIds, m \in MsgIds : ReceiveDelivered(s, c, m)
               \/ ProduceNewChat(s)
               \/ ProduceConfirmed(s)
               \/ ReadMembers(s)
               \/ \E v \in Users : Fanout(s, v)
        PROVE  UNCHANGED storeVars
    BY <1>8, DeliveredNeverPrepares
    DEF ReceiveSend, ReceiveDelivered, ProduceNewChat, ProduceConfirmed, ReadMembers, Fanout
  <1>9. CASE UNCHANGED vars
    BY <1>9 DEF vars
  <1> QED
    BY <1>1, <1>2, <1>3, <1>4, <1>5, <1>6, <1>7, <1>8, <1>9, <1>10
    DEF Next, SessionStep, Handle

-----------------------------------------------------------------------------
(* The frames *)

\* A connection that is idle has no transaction open.
LEMMA IdleSound == \A s \in Sessions : Sound(s, IdleSession, NoTx)
  BY DEF Sound, IdleSession, NoTx, Session, Steps, FanoutTypes

\* A step of one connection keeps the others sound.
LEMMA OneSession ==
  ASSUME SessionsSound, NEW s \in Sessions, NEW l,
         sess' = [sess EXCEPT ![s] = l], Sound(s, l, tx'[s]),
         \A x \in Sessions : x # s => tx'[x] = tx[x]
  PROVE  SessionsSound'
  <1>1. \A x \in Sessions : sess'[x] = IF x = s THEN l ELSE sess[x]
    BY DEF SessionsSound
  <1>2. sess' \in [Sessions -> Session]
    BY DEF SessionsSound, Sound
  <1>3. ASSUME NEW x \in Sessions PROVE Sound(x, sess'[x], tx'[x])
    <2>1. CASE x = s
      BY <1>1, <2>1
    <2>2. CASE x # s
      BY <1>1, <2>2 DEF SessionsSound
    <2> QED  BY <2>1, <2>2
  <1>4. SessionsSound' <=> /\ sess' \in [Sessions -> Session]
                           /\ \A x \in Sessions : Sound(x, sess'[x], tx'[x])
    BY DEF SessionsSound, Sound
  <1> QED  BY <1>2, <1>3, <1>4

\* Every step keeps the place of each connection and its transaction in agreement.
LEMMA SessionsStep == TypeOK /\ TxInv /\ SessionsSound /\ [Next]_vars => SessionsSound'
  <1> SUFFICES ASSUME TypeOK, TxInv, SessionsSound, [Next]_vars PROVE SessionsSound'
    OBVIOUS
  <1> USE SessionAssumption
  <1>0. \A s \in Sessions : /\ s \in Workers /\ UserOf[s] \in Users
                            /\ sess[s] \in Session /\ Sound(s, sess[s], tx[s])
    BY DEF SessionsSound
  <1>1. ASSUME NEW s \in Sessions,
               \/ \E c \in ChatIds : ReceiveSend(s, c)
               \/ \E c \in ChatIds, m \in MsgIds : ReceiveRead(s, c, m) \/ ReceiveDelivered(s, c, m)
        PROVE  SessionsSound'
    <2>1. tx' = tx /\ tx[s].op = "none"
      BY <1>0, <1>1, DeliveredNeverPrepares
      DEF ReceiveSend, ReceiveRead, ReceiveDelivered, Receive, SetReadAtStatus, At, Sound, storeVars
    <2>2. ASSUME NEW c \in ChatIds, ReceiveSend(s, c)
          PROVE  SessionsSound'
      <3> DEFINE l == [IdleSession EXCEPT !.step = "insert", !.chat = c]
      <3>1. Sound(s, l, tx'[s])
        BY <2>1 DEF Sound, IdleSession, Session, Steps, FanoutTypes
      <3>2. sess' = [sess EXCEPT ![s] = l]
        BY <2>2 DEF ReceiveSend, Continue
      <3> QED  BY <2>1, <3>1, <3>2, OneSession
    <2>3. ASSUME NEW c \in ChatIds, NEW m \in MsgIds, ReceiveRead(s, c, m)
          PROVE  SessionsSound'
      <3> DEFINE l == [IdleSession EXCEPT !.step = "members", !.chat = c, !.msg = m,
                                          !.type = "message_read"]
      <3>1. Sound(s, l, tx'[s])
        BY <2>1 DEF Sound, IdleSession, Session, Steps, FanoutTypes
      <3>2. sess' = [sess EXCEPT ![s] = l]
        BY <2>3 DEF ReceiveRead, Continue
      <3> QED  BY <2>1, <3>1, <3>2, OneSession
    <2>4. ASSUME NEW c \in ChatIds, NEW m \in MsgIds, ReceiveDelivered(s, c, m)
          PROVE  SessionsSound'
      BY <2>1, <2>4, DeliveredNeverPrepares DEF ReceiveDelivered, SessionsSound, Sound
    <2> QED  BY <1>1, <2>2, <2>3, <2>4
  <1>2. ASSUME NEW s \in Sessions, NEW v \in Users, ReceiveSendPrivate(s, v)
        PROVE  SessionsSound'
    <2>1. tx[s].op = "none"
      BY <1>0, <1>2 DEF ReceiveSendPrivate, Receive, At, Sound
    <2>2. ASSUME NEW c \in ChatIds, UNCHANGED storeVars,
                 sess' = [sess EXCEPT ![s] = [IdleSession EXCEPT !.step = "newChat", !.chat = c,
                                                                 !.peer = v]]
          PROVE  SessionsSound'
      <3> DEFINE l == [IdleSession EXCEPT !.step = "newChat", !.chat = c, !.peer = v]
      <3>1. tx' = tx
        BY <2>2 DEF storeVars
      <3>2. Sound(s, l, tx'[s])
        BY <2>1, <3>1 DEF Sound, IdleSession, Session, Steps, FanoutTypes
      <3> QED  BY <2>2, <3>1, <3>2, OneSession
    <2>3. ASSUME PrivateChatMissing(s, UserOf[s], v),
                 sess' = [sess EXCEPT ![s] = [IdleSession EXCEPT !.step = "private", !.peer = v]]
          PROVE  SessionsSound'
      <3> DEFINE l == [IdleSession EXCEPT !.step = "private", !.peer = v]
      <3>1. tx'[s].op = "private" /\ \A x \in Workers : x # s => tx'[x] = tx[x]
        BY <1>0, <2>3 DEF PrivateChatMissing, NoTx, TypeOK
      <3>2. Sound(s, l, tx'[s])
        BY <3>1 DEF Sound, IdleSession, Session, Steps, FanoutTypes
      <3> HIDE DEF l
      <3>3. \A x \in Sessions : x # s => tx'[x] = tx[x]
        BY <3>1
      <3>4. sess' = [sess EXCEPT ![s] = l]
        BY <2>3 DEF l
      <3> QED  BY <3>2, <3>3, <3>4, OneSession
    <2> QED
      BY <1>2, <2>2, <2>3 DEF ReceiveSendPrivate, Continue, PrivateChats
  <1>3. ASSUME NEW s \in Sessions, CreateChat(s)
        PROVE  SessionsSound'
    <2>1. tx'[s] = NoTx /\ \A x \in Sessions : x # s => tx'[x] = tx[x]
      BY <1>0, <1>3 DEF CreateChat, PrivateChatCreate, PrivateChatWithSelf, TypeOK
    <2>2. CASE sess' = [sess EXCEPT ![s] = IdleSession]
      BY <2>1, <2>2, IdleSound, OneSession
    <2>3. CASE sess' # [sess EXCEPT ![s] = IdleSession]
      <3> DEFINE l == [sess[s] EXCEPT !.step = "newChat", !.chat = nextChat]
      <3>1. nextChat \in ChatIds /\ sess' = [sess EXCEPT ![s] = l]
        BY <1>3, <2>3 DEF CreateChat, PrivateChatCreate, Continue, Done
      <3>2. sess[s].step = "private" /\ sess[s] \in Session
        BY <1>0, <1>3 DEF CreateChat, At
      <3>3. tx'[s].op = "none"
        BY <2>1 DEF NoTx
      <3>4. l \in Session /\ l.step = "newChat" /\ l.chat \in ChatIds
            /\ l.peer = sess[s].peer /\ l.type = sess[s].type
        BY <3>1, <3>2 DEF Session, Steps
      <3> HIDE DEF l
      <3>5. Sound(s, l, tx'[s])
        BY <1>0, <3>2, <3>3, <3>4 DEF Sound
      <3> QED  BY <2>1, <3>1, <3>5, OneSession
    <2> QED  BY <2>2, <2>3
  <1>4. ASSUME NEW s \in Sessions, InsertMessage(s)
        PROVE  SessionsSound'
    <2> DEFINE l == [sess[s] EXCEPT !.step = "commit"]
    <2>1. /\ tx'[s].op = "message" /\ tx'[s].chat = sess[s].chat /\ tx'[s].user = UserOf[s]
          /\ \A x \in Sessions : x # s => tx'[x] = tx[x]
      BY <1>0, <1>4 DEF InsertMessage, NewMessageInsert, Post, TypeOK
    <2>2. sess[s].step = "insert" /\ sess[s] \in Session
      BY <1>0, <1>4 DEF InsertMessage, At
    <2>3. Sound(s, l, tx'[s])
      BY <1>0, <2>1, <2>2 DEF Sound, Session, Steps
    <2>4. sess' = [sess EXCEPT ![s] = l]
      BY <1>4 DEF InsertMessage, Continue
    <2> HIDE DEF l
    <2> QED  BY <2>1, <2>3, <2>4, OneSession
  <1>5. ASSUME NEW s \in Sessions, CommitMessage(s)
        PROVE  SessionsSound'
    <2> DEFINE l == [sess[s] EXCEPT !.step = "confirm", !.msg = tx[s].msg]
    <2>1. tx'[s] = NoTx /\ \A x \in Sessions : x # s => tx'[x] = tx[x]
      BY <1>0, <1>5 DEF CommitMessage, NewMessageCommit, CommitPost, TypeOK
    <2>2. sess[s].step = "commit" /\ sess[s] \in Session /\ tx[s].msg \in MsgIds
      BY <1>0, <1>5 DEF CommitMessage, NewMessageCommit, At, TxInv, PostersHold, Posting
    <2>3. tx'[s].op = "none"
      BY <2>1 DEF NoTx
    <2>4. /\ l \in Session /\ l.step = "confirm" /\ l.msg \in MsgIds
          /\ l.chat = sess[s].chat /\ l.type = sess[s].type
      BY <2>2 DEF Session, Steps
    <2>5. sess' = [sess EXCEPT ![s] = l]
      BY <1>5 DEF CommitMessage, Continue
    <2> HIDE DEF l
    <2>6. Sound(s, l, tx'[s])
      BY <1>0, <2>2, <2>3, <2>4 DEF Sound
    <2> QED  BY <2>1, <2>5, <2>6, OneSession
  <1>10. ASSUME NEW s \in Sessions, SelectForMessage(s)
         PROVE  SessionsSound'
    <2>1. /\ sess' = sess
          /\ \A x \in Sessions : /\ tx'[x].op = tx[x].op /\ tx'[x].chat = tx[x].chat
                                 /\ tx'[x].user = tx[x].user
      BY <1>0, <1>10 DEF SelectForMessage, SelectMembers, TypeOK, Tx
    <2> QED  BY <2>1 DEF SessionsSound, Sound
  <1>6. ASSUME NEW s \in Sessions,
               \/ ProduceNewChat(s)
               \/ ProduceConfirmed(s)
               \/ ReadMembers(s)
               \/ \E v \in Users : Fanout(s, v)
        PROVE  SessionsSound'
    <2>1. tx' = tx /\ tx[s].op = "none" /\ sess[s] \in Session
      BY <1>0, <1>6
      DEF ProduceNewChat, ProduceConfirmed, ReadMembers, Fanout, At, Sound, storeVars
    <2>2. CASE sess' = [sess EXCEPT ![s] = IdleSession]
      <3>1. Sound(s, IdleSession, tx'[s])
        BY <2>1, IdleSound DEF Sound, NoTx
      <3> QED  BY <2>1, <2>2, <3>1, OneSession
    <2>3. CASE ProduceNewChat(s)
      <3> DEFINE l == [sess[s] EXCEPT !.step = "insert"]
      <3>1. Sound(s, l, tx'[s])
        BY <1>0, <2>1, <2>3 DEF ProduceNewChat, At, Sound, Session, Steps
      <3>2. sess' = [sess EXCEPT ![s] = l]
        BY <2>3 DEF ProduceNewChat, Continue
      <3> QED  BY <2>1, <3>1, <3>2, OneSession
    <2>4. CASE ProduceConfirmed(s)
      <3> DEFINE l == [sess[s] EXCEPT !.step = "members"]
      <3>1. Sound(s, l, tx'[s])
        BY <1>0, <2>1, <2>4 DEF ProduceConfirmed, At, Sound, Session, Steps
      <3>2. sess' = [sess EXCEPT ![s] = l]
        BY <2>4 DEF ProduceConfirmed, Continue
      <3> QED  BY <2>1, <3>1, <3>2, OneSession
    <2>5. ASSUME NEW todo \in SUBSET Users, sess[s].step \in {"members", "fanout"},
                 sess' = [sess EXCEPT ![s] = [sess[s] EXCEPT !.step = "fanout", !.todo = todo]]
          PROVE  SessionsSound'
      <3> DEFINE l == [sess[s] EXCEPT !.step = "fanout", !.todo = todo]
      <3>1. Sound(s, l, tx'[s])
        BY <1>0, <2>1, <2>5 DEF Sound, Session, Steps
      <3> QED  BY <2>1, <2>5, <3>1, OneSession
    <2>6. ASSUME ReadMembers(s), sess' # [sess EXCEPT ![s] = IdleSession]
          PROVE  \E todo \in SUBSET Users :
                   sess' = [sess EXCEPT ![s] = [sess[s] EXCEPT !.step = "fanout", !.todo = todo]]
      BY <2>6 DEF ReadMembers, Continue, Done, MembersOf
    <2>7. ASSUME NEW v \in Users, Fanout(s, v), sess' # [sess EXCEPT ![s] = IdleSession]
          PROVE  \E todo \in SUBSET Users :
                   sess' = [sess EXCEPT ![s] = [sess[s] EXCEPT !.step = "fanout", !.todo = todo]]
      <3> DEFINE todo == sess[s].todo \ {v}
      <3>1. sess' = [sess EXCEPT ![s] = [sess[s] EXCEPT !.todo = todo]]
        BY <2>7 DEF Fanout, Continue, Done
      <3>2. sess[s].step = "fanout" /\ todo \in SUBSET Users
        BY <2>1, <2>7 DEF Fanout, At, Session
      <3> HIDE DEF todo
      <3>3. [sess[s] EXCEPT !.todo = todo] = [sess[s] EXCEPT !.step = "fanout", !.todo = todo]
        BY <2>1, <3>2 DEF Session
      <3> QED  BY <3>1, <3>2, <3>3
    <2> QED
      BY <1>6, <2>2, <2>3, <2>4, <2>5, <2>6, <2>7 DEF ReadMembers, Fanout, At
  <1>7. ASSUME NEW s \in Sessions, HandlerFails(s)
        PROVE  SessionsSound'
    <2>1. tx'[s].op = "none" /\ \A x \in Sessions : x # s => tx'[x] = tx[x]
      BY <1>0, <1>7 DEF HandlerFails, Rollback, InTx, NoTx, TypeOK, storeVars
    <2>2. Sound(s, IdleSession, tx'[s])
      BY <2>1, IdleSound DEF Sound, NoTx
    <2>3. sess' = [sess EXCEPT ![s] = IdleSession]
      BY <1>7 DEF HandlerFails, Done, Continue
    <2> QED  BY <2>1, <2>2, <2>3, OneSession
  <1>8. ASSUME NEW w \in Workers \ Sessions, GroupCall(w)
        PROVE  SessionsSound'
    <2>1. sess' = sess /\ \A x \in Sessions : tx'[x] = tx[x]
      BY <1>0, <1>8
      DEF GroupCall, NewGroupChat, NewGroupChatMemberInsert, DeleteGroupMemberDelete, Post,
          DeleteGroupChat, ChangeGroupChatMemberRole, SelectMembers,
          NewGroupChatMemberCommit, DeleteGroupMemberCommit, CommitPost, Rollback, TypeOK
    <2> QED  BY <2>1 DEF SessionsSound, Sound
  <1>9. CASE UNCHANGED vars
    BY <1>9 DEF vars, storeVars, SessionsSound, Sound
  <1> QED
    <2>1. ASSUME NEW s \in Sessions, Handle(s)
          PROVE  SessionsSound'
      BY <1>3, <1>4, <1>5, <1>6, <1>7, <1>10, <2>1 DEF Handle
    <2> QED  BY <1>1, <1>2, <1>8, <1>9, <2>1 DEF Next, SessionStep

\* At the start every connection is idle and no transaction is open.
LEMMA SessionsInit == Init => SessionsSound
  <1> SUFFICES ASSUME Init PROVE SessionsSound
    OBVIOUS
  <1>1. \A s \in Sessions : sess[s] = IdleSession /\ tx[s] = NoTx
    BY SessionAssumption DEF Init, StoreInit
  <1>2. IdleSession \in Session
    BY DEF IdleSession, Session, Steps, FanoutTypes
  <1>3. sess \in [Sessions -> Session]
    BY <1>2 DEF Init
  <1> QED  BY <1>1, <1>3, IdleSound DEF SessionsSound

-----------------------------------------------------------------------------
(* What a step adds to what the clients have been told *)

\* The handler of s has still to tell u of its message
Due(s, u) == Telling(sess[s]) /\ (At(s, "fanout") => u \in sess[s].todo)

\* The event e is published for v
Published(v, e) == inbox' = [inbox EXCEPT ![v] = Append(@, e)]

\* The handler of s speaks only of its own chat, and of a message only after its commit
MaySay(s, v, e) ==
  /\ e \in Event
  /\ e.chat = sess[s].chat /\ e.from = UserOf[s]
  /\ e.type = "new_message" => Due(s, v) /\ e.msg = sess[s].msg /\ ~Due(s, v)'
  /\ e.type = "message_confirmed" => Telling(sess[s]) /\ e.msg = sess[s].msg

\* At most one event is published in a step, by the handler of one connection.
LEMMA OneEvent ==
  SessionsSound /\ SessionsSound' /\ [Next]_vars =>
    \/ inbox' = inbox
    \/ \E s \in Sessions, v \in Users, e \in Event : Published(v, e) /\ MaySay(s, v, e)
  <1> SUFFICES ASSUME SessionsSound, SessionsSound', [Next]_vars, inbox' # inbox
               PROVE  \E s \in Sessions, v \in Users, e \in Event :
                        Published(v, e) /\ MaySay(s, v, e)
    OBVIOUS
  <1> USE SessionAssumption
  <1>0. \A s \in Sessions : /\ UserOf[s] \in Users
                            /\ sess[s] \in Session /\ Sound(s, sess[s], tx[s])
    BY DEF SessionsSound
  <1>1. ASSUME NEW s \in Sessions, ProduceNewChat(s)
        PROVE  \E v \in Users, e \in Event : Published(v, e) /\ MaySay(s, v, e)
    <2> DEFINE e == [type |-> "new_chat", chat |-> sess[s].chat, msg |-> 0, from |-> UserOf[s]]
    <2>1. sess[s].peer \in Users /\ sess[s].chat \in ChatIds
      BY <1>0, <1>1 DEF ProduceNewChat, At, Sound
    <2>2. e \in Event
      BY <1>0, <2>1 DEF Event
    <2>3. Published(sess[s].peer, e)
      BY <1>1 DEF ProduceNewChat, Produce, Published
    <2>4. MaySay(s, sess[s].peer, e)
      BY <2>2 DEF MaySay
    <2> QED  BY <2>1, <2>2, <2>3, <2>4
  <1>2. ASSUME NEW s \in Sessions, ProduceConfirmed(s)
        PROVE  \E v \in Users, e \in Event : Published(v, e) /\ MaySay(s, v, e)
    <2> DEFINE e == [type |-> "message_confirmed", chat |-> sess[s].chat, msg |-> sess[s].msg,
                     from |-> UserOf[s]]
    <2>1. sess[s].msg \in MsgIds /\ sess[s].chat \in ChatIds /\ sess[s].step = "confirm"
      BY <1>0, <1>2 DEF ProduceConfirmed, At, Sound
    <2>2. e \in Event
      BY <1>0, <2>1 DEF Event
    <2>3. Published(UserOf[s], e)
      BY <1>2 DEF ProduceConfirmed, Produce, Published
    <2>4. MaySay(s, UserOf[s], e)
      BY <2>1, <2>2 DEF MaySay, Telling
    <2> QED  BY <1>0, <2>2, <2>3, <2>4
  <1>3. ASSUME NEW s \in Sessions, NEW v \in Users, Fanout(s, v)
        PROVE  \E e \in Event : Published(v, e) /\ MaySay(s, v, e)
    <2> DEFINE e == [type |-> sess[s].type, chat |-> sess[s].chat, msg |-> sess[s].msg,
                     from |-> UserOf[s]]
    <2>1. /\ sess[s].msg \in MsgIds /\ sess[s].chat \in ChatIds /\ sess[s].step = "fanout"
          /\ sess[s].type \in FanoutTypes /\ v \in sess[s].todo
      BY <1>0, <1>3 DEF Fanout, At, Sound, Session
    <2>2. e \in Event
      BY <1>0, <2>1 DEF Event
    <2>3. Published(v, e)
      BY <1>3 DEF Fanout, Produce, Published
    <2>4. e.type = "new_message" => Due(s, v)
      BY <2>1 DEF Due, Telling, At
    <2>5. ~Due(s, v)'
      <3>1. CASE sess' = [sess EXCEPT ![s] = IdleSession]
        <4>1. sess'[s].step = "idle"
          BY <3>1 DEF SessionsSound, IdleSession
        <4> QED  BY <4>1 DEF Due, Telling
      <3>2. CASE sess' = [sess EXCEPT ![s] = [sess[s] EXCEPT !.todo = @ \ {v}]]
        <4>1. sess'[s] = [sess[s] EXCEPT !.todo = @ \ {v}]
          BY <3>2 DEF SessionsSound
        <4>2. sess'[s].step = "fanout" /\ v \notin sess'[s].todo
          BY <1>0, <2>1, <4>1 DEF Session
        <4> QED  BY <4>2 DEF Due, At
      <3> QED  BY <1>3, <3>1, <3>2 DEF Fanout, Done, Continue
    <2>6. MaySay(s, v, e)
      BY <2>1, <2>2, <2>4, <2>5 DEF MaySay, FanoutTypes
    <2> QED  BY <2>2, <2>3, <2>6
  <1> QED
    BY <1>1, <1>2, <1>3
    DEF Next, vars, SessionStep, Handle, ReceiveSend, ReceiveSendPrivate, ReceiveRead,
        ReceiveDelivered, Receive, CreateChat, InsertMessage, SelectForMessage,
        CommitMessage, ReadMembers, HandlerFails, GroupCall

\* Only the commit gives a handler a message to tell of; until it is done the message
\* is the same, and nobody is added to those it has still to tell.
LEMMA TellersStep ==
  ASSUME SessionsSound, SessionsSound', [Next]_vars, NEW s \in Sessions, Telling(sess'[s])
  PROVE  \/ CommitMessage(s)
         \/ /\ Telling(sess[s])
            /\ sess'[s].msg = sess[s].msg /\ sess'[s].chat = sess[s].chat
            /\ \A u \in Users : Due(s, u)' => Due(s, u)
  <1> DEFINE Goes == /\ Telling(sess[s])
                     /\ sess'[s].msg = sess[s].msg /\ sess'[s].chat = sess[s].chat
                     /\ \A u \in Users : Due(s, u)' => Due(s, u)
  <1>0. sess[s] \in Session /\ sess'[s] \in Session /\ Sound(s, sess[s], tx[s])
    BY DEF SessionsSound
  <1>1. CASE sess'[s] = sess[s]
    BY <1>1 DEF Due, At
  <1>2. CASE ProduceConfirmed(s)
    <2>1. sess[s].step = "confirm" /\ sess'[s] = [sess[s] EXCEPT !.step = "members"]
      BY <1>2 DEF ProduceConfirmed, At, Continue, SessionsSound
    <2> QED  BY <1>0, <2>1 DEF Due, Telling, At, Session
  <1>3. ASSUME NEW todo,
               sess[s].step = "members", sess'[s] = [sess[s] EXCEPT !.step = "fanout", !.todo = todo]
        PROVE  Goes
    BY <1>0, <1>3 DEF Due, Telling, At, Session
  <1>4. ASSUME NEW v, sess[s].step = "fanout", sess'[s] = [sess[s] EXCEPT !.todo = @ \ {v}]
        PROVE  Goes
    BY <1>0, <1>4 DEF Due, Telling, At, Session
  <1>5. sess'[s].step \in {"confirm", "members", "fanout"}
    BY DEF Telling
  <1>6. sess'[s].type = "new_message"
    BY <1>0 DEF Telling, SessionsSound, Sound
  <1>7. ASSUME NEW x \in Sessions, NEW l, sess' = [sess EXCEPT ![x] = l],
               l.step \in {"idle", "private", "newChat", "insert", "commit"}
        PROVE  sess'[s] = sess[s]
    BY <1>5, <1>7 DEF SessionsSound
  <1>8. ASSUME NEW x \in Sessions, x # s, NEW l, sess' = [sess EXCEPT ![x] = l]
        PROVE  sess'[s] = sess[s]
    BY <1>8
  <1>9. IdleSession.step = "idle"
    BY DEF IdleSession
  <1>10. ASSUME NEW x \in Sessions, HandlerFails(x)
         PROVE  sess'[s] = sess[s]
    BY <1>7, <1>9, <1>10 DEF HandlerFails, Done, Continue
  <1>11. ASSUME NEW x \in Sessions, NEW c \in ChatIds, ReceiveSend(x, c)
         PROVE  sess'[s] = sess[s]
    BY <1>7, <1>11 DEF ReceiveSend, Continue, IdleSession
  <1>12. ASSUME NEW x \in Sessions, NEW v \in Users, ReceiveSendPrivate(x, v)
         PROVE  sess'[s] = sess[s]
    BY <1>7, <1>12 DEF ReceiveSendPrivate, Continue, IdleSession
  <1>13. ASSUME NEW x \in Sessions, NEW c \in ChatIds, NEW m \in MsgIds, ReceiveRead(x, c, m)
         PROVE  sess'[s] = sess[s]
    <2>1. sess' = [sess EXCEPT ![x] = [IdleSession EXCEPT !.step = "members", !.chat = c, !.msg = m,
                                     !.type = "message_read"]]
      BY <1>13 DEF ReceiveRead, Continue
    <2> QED  BY <1>6, <2>1 DEF SessionsSound, IdleSession
  <1>14. ASSUME NEW x \in Sessions, NEW c \in ChatIds, NEW m \in MsgIds, ReceiveDelivered(x, c, m)
         PROVE  sess'[s] = sess[s]
    BY <1>14, DeliveredNeverPrepares DEF ReceiveDelivered
  <1>15. ASSUME NEW x \in Sessions, CreateChat(x)
         PROVE  sess'[s] = sess[s]
    <2>1. sess[x] \in Session
      BY DEF SessionsSound
    <2>2. [sess[x] EXCEPT !.step = "newChat", !.chat = nextChat].step = "newChat"
      BY <2>1 DEF Session
    <2> QED  BY <1>7, <1>9, <1>15, <2>2 DEF CreateChat, Done, Continue
  <1>16. ASSUME NEW x \in Sessions, InsertMessage(x) \/ ProduceNewChat(x)
         PROVE  sess'[s] = sess[s]
    <2>1. sess[x] \in Session
      BY DEF SessionsSound
    <2>2. /\ [sess[x] EXCEPT !.step = "commit"].step = "commit"
          /\ [sess[x] EXCEPT !.step = "insert"].step = "insert"
      BY <2>1 DEF Session
    <2> QED  BY <1>7, <1>16, <2>2 DEF InsertMessage, ProduceNewChat, Continue
  <1>17. ASSUME NEW x \in Sessions, x # s, CommitMessage(x) \/ ProduceConfirmed(x)
         PROVE  sess'[s] = sess[s]
    BY <1>8, <1>17 DEF CommitMessage, ProduceConfirmed, Continue
  <1>18. ASSUME NEW x \in Sessions, ReadMembers(x)
         PROVE  sess'[s] = sess[s] \/ Goes
    <2>1. \/ sess' = [sess EXCEPT ![x] = IdleSession]
          \/ \E todo : sess' = [sess EXCEPT ![x] = [sess[x] EXCEPT !.step = "fanout", !.todo = todo]]
      BY <1>18 DEF ReadMembers, Done, Continue
    <2>2. sess[x].step = "members"
      BY <1>18 DEF ReadMembers, At
    <2>3. CASE x = s /\ sess' # [sess EXCEPT ![x] = IdleSession]
      BY <1>3, <2>1, <2>2, <2>3 DEF SessionsSound
    <2> HIDE DEF Goes
    <2> QED  BY <1>7, <1>8, <1>9, <2>1, <2>3
  <1>19. ASSUME NEW x \in Sessions, NEW v \in Users, Fanout(x, v)
         PROVE  sess'[s] = sess[s] \/ Goes
    <2>1. \/ sess' = [sess EXCEPT ![x] = IdleSession]
          \/ sess' = [sess EXCEPT ![x] = [sess[x] EXCEPT !.todo = @ \ {v}]]
      BY <1>19 DEF Fanout, Done, Continue
    <2>2. sess[x].step = "fanout"
      BY <1>19 DEF Fanout, At
    <2>3. CASE x = s /\ sess' = [sess EXCEPT ![x] = [sess[x] EXCEPT !.todo = @ \ {v}]]
      BY <1>4, <2>2, <2>3 DEF SessionsSound
    <2> HIDE DEF Goes
    <2> QED  BY <1>7, <1>8, <1>9, <2>1, <2>3
  <1>20. CASE sess' = sess
    BY <1>1, <1>20
  <1> HIDE DEF Goes
  <1>21. CASE CommitMessage(s)
    BY <1>21
  <1>22. CASE sess'[s] = sess[s] \/ Goes \/ ProduceConfirmed(s)
    BY <1>1, <1>2, <1>22 DEF Goes
  <1> QED
    BY <1>10, <1>11, <1>12, <1>13, <1>14, <1>15, <1>16, <1>17, <1>18, <1>19, <1>20, <1>21, <1>22
    DEF Next, vars, SessionStep, Handle, SelectForMessage, GroupCall

-----------------------------------------------------------------------------
(* What the clients are told is stored *)

Said(m, c, u) == Settled(m, c, u, "new_message")

\* What lies in the inboxes, and what a handler is about to put there, is about
\* messages that have been committed
InboxSound ==
  /\ inbox \in [Users -> Seq(Event)]
  /\ \A u \in Users : \A i \in DOMAIN inbox[u] :
       inbox[u][i].type \in {"new_message", "message_confirmed"}
         => Said(inbox[u][i].msg, inbox[u][i].chat, inbox[u][i].from)

TellersSound ==
  \A s \in Sessions : Telling(sess[s]) => Said(sess[s].msg, sess[s].chat, UserOf[s])

\* What was in an inbox stays, and the event published is the last one.
LEMMA PublishedLast ==
  ASSUME inbox \in [Users -> Seq(Event)], NEW v \in Users, NEW e \in Event, Published(v, e)
  PROVE  /\ inbox' \in [Users -> Seq(Event)]
         /\ \A u \in Users \ {v} : inbox'[u] = inbox[u]
         /\ DOMAIN inbox[v] = 1..Len(inbox[v]) /\ Len(inbox[v]) \in Nat
         /\ DOMAIN inbox'[v] = 1..(Len(inbox[v]) + 1)
         /\ \A i \in DOMAIN inbox'[v] :
              inbox'[v][i] = IF i = Len(inbox[v]) + 1 THEN e ELSE inbox[v][i]
  <1>1. inbox[v] \in Seq(Event) /\ inbox'[v] = Append(inbox[v], e)
    BY DEF Published
  <1>2. DOMAIN inbox[v] = 1..Len(inbox[v]) /\ Len(inbox[v]) \in Nat
    BY <1>1, LenProperties
  <1>3. /\ inbox'[v] \in Seq(Event) /\ Len(inbox'[v]) = Len(inbox[v]) + 1
        /\ \A i \in 1..Len(inbox[v]) : inbox'[v][i] = inbox[v][i]
        /\ inbox'[v][Len(inbox[v]) + 1] = e
    BY <1>1, AppendProperties
  <1>4. DOMAIN inbox'[v] = 1..(Len(inbox[v]) + 1)
    BY <1>3, LenProperties
  <1>5. inbox' \in [Users -> Seq(Event)]
    BY <1>3 DEF Published
  <1>6. \A i \in DOMAIN inbox'[v] :
          inbox'[v][i] = IF i = Len(inbox[v]) + 1 THEN e ELSE inbox[v][i]
    BY <1>2, <1>3, <1>4
  <1> QED  BY <1>2, <1>4, <1>5, <1>6 DEF Published

\* Where an event of an inbox comes from: it was there, or it is the one published.
LEMMA InboxGrows ==
  ASSUME inbox \in [Users -> Seq(Event)], SessionsSound, SessionsSound', [Next]_vars
  PROVE  /\ inbox' \in [Users -> Seq(Event)]
         /\ \A u \in Users : \A i \in DOMAIN inbox'[u] :
              \/ i \in DOMAIN inbox[u] /\ inbox'[u][i] = inbox[u][i]
              \/ \E s \in Sessions : MaySay(s, u, inbox'[u][i])
  <1>1. CASE inbox' = inbox
    BY <1>1
  <1>2. ASSUME NEW s \in Sessions, NEW v \in Users, NEW e \in Event,
               Published(v, e), MaySay(s, v, e)
        PROVE  /\ inbox' \in [Users -> Seq(Event)]
               /\ \A u \in Users : \A i \in DOMAIN inbox'[u] :
                    \/ i \in DOMAIN inbox[u] /\ inbox'[u][i] = inbox[u][i]
                    \/ \E x \in Sessions : MaySay(x, u, inbox'[u][i])
    <2>1. /\ inbox' \in [Users -> Seq(Event)]
          /\ \A u \in Users \ {v} : inbox'[u] = inbox[u]
          /\ DOMAIN inbox[v] = 1..Len(inbox[v]) /\ Len(inbox[v]) \in Nat
          /\ DOMAIN inbox'[v] = 1..(Len(inbox[v]) + 1)
          /\ \A i \in DOMAIN inbox'[v] :
              inbox'[v][i] = IF i = Len(inbox[v]) + 1 THEN e ELSE inbox[v][i]
      BY <1>2, PublishedLast
    <2>2. ASSUME NEW u \in Users, NEW i \in DOMAIN inbox'[u]
          PROVE  \/ i \in DOMAIN inbox[u] /\ inbox'[u][i] = inbox[u][i]
                 \/ \E x \in Sessions : MaySay(x, u, inbox'[u][i])
      <3>1. CASE u # v
        BY <2>1, <2>2, <3>1
      <3>2. CASE u = v /\ i = Len(inbox[v]) + 1
        <4>1. inbox'[u][i] = e
          BY <2>1, <2>2, <3>2
        <4> QED  BY <1>2, <3>2, <4>1
      <3>3. CASE u = v /\ i # Len(inbox[v]) + 1
        BY <2>1, <2>2, <3>3
      <3> QED  BY <3>1, <3>2, <3>3
    <2> QED  BY <2>1, <2>2
  <1> QED  BY <1>1, <1>2, OneEvent

\* Every step keeps the inboxes sound.
LEMMA InboxStep ==
  ASSUME StoreInv, SessionsSound, SessionsSound', InboxSound, TellersSound, [Next]_vars
  PROVE  InboxSound'
  <1>1. [StoreNext]_storeVars
    BY NextCallsStore
  <1>2. ASSUME NEW m, NEW c, NEW u, Said(m, c, u) PROVE Said(m, c, u)'
    BY <1>1, <1>2, SettledStays DEF Said
  <1>3. inbox' \in [Users -> Seq(Event)]
    BY InboxGrows DEF InboxSound
  <1>4. ASSUME NEW u \in Users, NEW i \in DOMAIN inbox'[u],
               inbox'[u][i].type \in {"new_message", "message_confirmed"}
        PROVE  Said(inbox[u][i].msg, inbox[u][i].chat, inbox[u][i].from)'
    <2> DEFINE e == inbox'[u][i]
    <2>1. PICK m, c, a : m = e.msg /\ c = e.chat /\ a = e.from
      OBVIOUS
    <2>2. CASE i \in DOMAIN inbox[u] /\ e = inbox[u][i]
      <3>1. Said(m, c, a)
        BY <1>4, <2>1, <2>2 DEF InboxSound
      <3>2. Said(m, c, a)'
        BY <1>2, <3>1
      <3> QED  BY <2>1, <3>2 DEF Said, Settled
    <2>3. ASSUME NEW s \in Sessions, MaySay(s, u, e)
          PROVE  Said(inbox[u][i].msg, inbox[u][i].chat, inbox[u][i].from)'
      <3>1. Telling(sess[s]) /\ m = sess[s].msg /\ c = sess[s].chat /\ a = UserOf[s]
        BY <1>4, <2>1, <2>3 DEF MaySay, Due
      <3>2. Said(m, c, a)
        BY <3>1 DEF TellersSound
      <3>3. Said(m, c, a)'
        BY <1>2, <3>2
      <3> QED  BY <2>1, <3>3 DEF Said, Settled
    <2> QED  BY <2>2, <2>3, InboxGrows DEF InboxSound
  <1>5. InboxSound' <=>
          /\ inbox' \in [Users -> Seq(Event)]
          /\ \A u \in Users : \A i \in DOMAIN inbox'[u] :
               inbox'[u][i].type \in {"new_message", "message_confirmed"}
                 => Said(inbox[u][i].msg, inbox[u][i].chat, inbox[u][i].from)'
    BY DEF InboxSound
  <1> QED  BY <1>3, <1>4, <1>5

\* Every step leaves the handlers with messages that have been committed.
LEMMA TellersSoundStep ==
  ASSUME StoreInv, SessionsSound, SessionsSound', TellersSound, [Next]_vars
  PROVE  TellersSound'
  <1>1. [StoreNext]_storeVars
    BY NextCallsStore
  <1>2. ASSUME NEW s \in Sessions, Telling(sess'[s])
        PROVE  Said(sess[s].msg, sess[s].chat, UserOf[s])'
    <2>1. PICK m, c, u : m = sess'[s].msg /\ c = sess'[s].chat /\ u = UserOf[s]
      OBVIOUS
    <2>2. CASE Telling(sess[s]) /\ sess'[s].msg = sess[s].msg /\ sess'[s].chat = sess[s].chat
      <3>1. Said(m, c, u)
        BY <2>1, <2>2 DEF TellersSound
      <3>2. Said(m, c, u)'
        BY <1>1, <3>1, SettledStays DEF Said
      <3> QED  BY <2>1, <3>2 DEF Said, Settled
    <2>3. CASE CommitMessage(s)
      <3>1. s \in Workers /\ Posting(s) /\ CommitPost(s) /\ tx[s].type = "new_message"
        BY <2>3, SessionAssumption
        DEF CommitMessage, NewMessageCommit, Posting, StoreInv, TxInv, TypesAgree
      <3>2. sess[s] \in Session /\ sess'[s] = [sess[s] EXCEPT !.step = "confirm", !.msg = tx[s].msg]
        BY <2>3 DEF CommitMessage, Continue, SessionsSound
      <3>3. m = tx[s].msg /\ c = sess[s].chat
        BY <2>1, <3>2 DEF Session
      <3>4. c = tx[s].chat /\ u = tx[s].user
        BY <2>1, <2>3, <3>3 DEF CommitMessage, At, SessionsSound, Sound
      <3>5. Settled(m, c, u, "new_message")'
        BY <3>1, <3>3, <3>4, CommitSettles
      <3> QED  BY <2>1, <3>5 DEF Said, Settled
    <2> QED  BY <1>2, <2>2, <2>3, TellersStep
  <1>3. TellersSound' <=> \A s \in Sessions : Telling(sess'[s]) =>
                            Said(sess[s].msg, sess[s].chat, UserOf[s])'
    BY DEF TellersSound, Telling
  <1> QED  BY <1>2, <1>3

-----------------------------------------------------------------------------
(* Each author is heard in order *)

\* What u has been told of messages of the user of s has smaller ids than m
Ahead(s, u, m) ==
  \A i \in DOMAIN inbox[u] :
    inbox[u][i].type = "new_message" /\ inbox[u][i].from = UserOf[s] => inbox[u][i].msg < m

\* The message a handler is about to commit is newer than all its user's messages that
\* have been told of; the one it tells of is newer than those told to whom it has still to tell
OrderKept ==
  \A s \in Sessions, u \in Users :
    /\ At(s, "commit") => Ahead(s, u, tx[s].msg)
    /\ Due(s, u) => Ahead(s, u, sess[s].msg)

\* A handler that is about to commit has just taken its id from the sequence, or waits.
LEMMA WaitersStep ==
  ASSUME SessionsSound, SessionsSound', TypeOK, [Next]_vars,
         NEW s \in Sessions, sess'[s].step = "commit"
  PROVE  \/ tx'[s].msg = nextMsg /\ inbox' = inbox
         \/ sess[s].step = "commit" /\ tx'[s].msg = tx[s].msg
  <1>0. s \in Workers /\ \A x \in Sessions : sess[x] \in Session /\ Sound(x, sess[x], tx[x])
    BY SessionAssumption DEF SessionsSound
  <1>1. CASE InsertMessage(s)
    BY <1>0, <1>1 DEF InsertMessage, NewMessageInsert, Post, TypeOK
  <1>2. ASSUME NEW x \in Sessions, SessionStep(x)
        PROVE  sess' = sess \/ \E l : sess' = [sess EXCEPT ![x] = l]
    <2>1. ASSUME \/ \E c \in ChatIds : ReceiveSend(x, c)
                 \/ \E v \in Users : ReceiveSendPrivate(x, v)
                 \/ \E c \in ChatIds, m \in MsgIds : ReceiveRead(x, c, m)
          PROVE  \E l : sess' = [sess EXCEPT ![x] = l]
      BY <2>1 DEF ReceiveSend, ReceiveSendPrivate, ReceiveRead, Continue
    <2>2. ASSUME NEW c \in ChatIds, NEW m \in MsgIds, ReceiveDelivered(x, c, m)
          PROVE  sess' = sess
      BY <2>2, DeliveredNeverPrepares DEF ReceiveDelivered
    <2>3. CASE Handle(x)
      <3>1. ASSUME CreateChat(x) \/ ReadMembers(x) \/ HandlerFails(x) \/ \E v \in Users : Fanout(x, v)
            PROVE  \E l : sess' = [sess EXCEPT ![x] = l]
        BY <3>1 DEF CreateChat, ReadMembers, HandlerFails, Fanout, Continue, Done
      <3>2. ASSUME \/ ProduceNewChat(x) \/ InsertMessage(x) \/ CommitMessage(x)
                   \/ ProduceConfirmed(x)
            PROVE  \E l : sess' = [sess EXCEPT ![x] = l]
        BY <3>2 DEF ProduceNewChat, InsertMessage, CommitMessage, ProduceConfirmed, Continue
      <3>3. CASE SelectForMessage(x)
        BY <3>3 DEF SelectForMessage
      <3> QED  BY <2>3, <3>1, <3>2, <3>3 DEF Handle
    <2> QED  BY <1>2, <2>1, <2>2, <2>3 DEF SessionStep
  <1>3. ASSUME NEW x \in Sessions, x # s, SessionStep(x)
        PROVE  sess'[s] = sess[s] /\ tx'[s] = tx[s]
    <2>1. x \in Workers
      BY SessionAssumption
    <2>2. tx'[s] = tx[s]
      BY <1>0, <1>3, <2>1, DeliveredNeverPrepares
      DEF SessionStep, Handle, ReceiveSend, ReceiveSendPrivate, ReceiveRead, ReceiveDelivered,
          PrivateChatMissing, SetReadAtStatus, CreateChat, PrivateChatCreate,
          PrivateChatWithSelf, ProduceNewChat, InsertMessage, NewMessageInsert, Post,
          SelectForMessage, SelectMembers, CommitMessage, NewMessageCommit, CommitPost,
          ProduceConfirmed, ReadMembers, Fanout, HandlerFails, Rollback, TypeOK, storeVars
    <2>3. sess'[s] = sess[s]
      BY <1>2, <1>3 DEF SessionsSound
    <2> QED  BY <2>2, <2>3
  <1>7. CASE SelectForMessage(s)
    BY <1>0, <1>7 DEF SelectForMessage, SelectMembers, At, TypeOK, Tx
  <1>4. ASSUME SessionStep(s), ~InsertMessage(s), ~SelectForMessage(s)
        PROVE  FALSE
    <2>1. IdleSession.step = "idle"
      BY DEF IdleSession
    <2>2. sess[s] \in Session /\ sess' \in [Sessions -> Session]
      BY DEF SessionsSound
    <2>3. ASSUME NEW l, sess' = [sess EXCEPT ![s] = l], l.step # "commit"
          PROVE  FALSE
      BY <2>3 DEF SessionsSound
    <2>4. ASSUME NEW c \in ChatIds, ReceiveSend(s, c)
          PROVE  FALSE
      BY <2>4 DEF ReceiveSend, Continue, IdleSession, SessionsSound
    <2>11. ASSUME NEW v \in Users, ReceiveSendPrivate(s, v)
           PROVE  FALSE
      <3>1. ASSUME NEW c \in ChatIds,
                   sess' = [sess EXCEPT ![s] = [IdleSession EXCEPT !.step = "newChat", !.chat = c,
                                                                   !.peer = v]]
            PROVE  FALSE
        BY <3>1 DEF IdleSession, SessionsSound
      <3>2. CASE sess' = [sess EXCEPT ![s] = [IdleSession EXCEPT !.step = "private", !.peer = v]]
        BY <3>2 DEF IdleSession, SessionsSound
      <3> QED  BY <2>11, <3>1, <3>2 DEF ReceiveSendPrivate, Continue, PrivateChats
    <2>12. ASSUME NEW c \in ChatIds, NEW m \in MsgIds, ReceiveRead(s, c, m)
           PROVE  FALSE
      BY <2>12 DEF ReceiveRead, Continue, IdleSession, SessionsSound
    <2>5. ASSUME NEW c \in ChatIds, NEW m \in MsgIds, ReceiveDelivered(s, c, m)
          PROVE  FALSE
      BY <2>5, DeliveredNeverPrepares DEF ReceiveDelivered, Receive, At
    <2>6. CASE CreateChat(s) \/ ProduceNewChat(s)
      BY <2>1, <2>2, <2>3, <2>6, ZenonT(60) DEF CreateChat, ProduceNewChat, Continue, Done, Session
    <2>7. CASE CommitMessage(s) \/ ProduceConfirmed(s)
      BY <2>2, <2>3, <2>7, ZenonT(60) DEF CommitMessage, ProduceConfirmed, Continue, Session
    <2>8. CASE ReadMembers(s)
      BY <2>1, <2>2, <2>3, <2>8 DEF ReadMembers, Continue, Done, Session
    <2>9. ASSUME NEW v \in Users, Fanout(s, v)
          PROVE  FALSE
      BY <2>1, <2>2, <2>3, <2>9 DEF Fanout, At, Continue, Done, Session
    <2>10. CASE HandlerFails(s)
      BY <2>1, <2>3, <2>10 DEF HandlerFails, Continue, Done
    <2> QED
      BY <1>4, <2>4, <2>5, <2>6, <2>7, <2>8, <2>9, <2>10, <2>11, <2>12 DEF SessionStep, Handle
  <1>5. ASSUME NEW w \in Workers \ Sessions, GroupCall(w)
        PROVE  sess'[s] = sess[s] /\ tx'[s] = tx[s]
    BY <1>0, <1>5
    DEF GroupCall, NewGroupChat, NewGroupChatMemberInsert, DeleteGroupMemberDelete, Post,
        DeleteGroupChat, ChangeGroupChatMemberRole, SelectMembers, NewGroupChatMemberCommit,
        DeleteGroupMemberCommit, CommitPost, Rollback, TypeOK
  <1>6. CASE UNCHANGED vars
    BY <1>6 DEF vars, storeVars
  <1> QED  BY <1>1, <1>3, <1>4, <1>5, <1>6, <1>7 DEF Next

\* An event that u has been told stays behind m, if u is told nothing new of this author
\* but what is behind m as well.
LEMMA AheadKept ==
  ASSUME inbox \in [Users -> Seq(Event)], SessionsSound, SessionsSound', [Next]_vars,
         NEW s \in Sessions, NEW u \in Users, NEW m, Ahead(s, u, m),
         \A x \in Sessions, e \in Event :
           MaySay(x, u, e) /\ e.type = "new_message" /\ UserOf[x] = UserOf[s] => e.msg < m
  PROVE  Ahead(s, u, m)'
  <1>1. ASSUME NEW i \in DOMAIN inbox'[u],
               inbox'[u][i].type = "new_message", inbox'[u][i].from = UserOf[s]
        PROVE  inbox'[u][i].msg < m
    <2>1. CASE i \in DOMAIN inbox[u] /\ inbox'[u][i] = inbox[u][i]
      BY <1>1, <2>1 DEF Ahead
    <2>2. ASSUME NEW x \in Sessions, MaySay(x, u, inbox'[u][i])
          PROVE  inbox'[u][i].msg < m
      BY <1>1, <2>2 DEF MaySay
    <2> QED  BY <2>1, <2>2, InboxGrows
  <1> QED  BY <1>1 DEF Ahead

\* Every step keeps the messages not yet told newer than those told, if no two
\* connections are of one user.
LEMMA OrderStep ==
  ASSUME StoreInv, SessionsSound, SessionsSound', InboxSound, TellersSound, OrderKept,
         IsInjective(UserOf), [Next]_vars
  PROVE  OrderKept'
  <1>0. /\ inbox \in [Users -> Seq(Event)] /\ TypeOK /\ TxInv /\ nextMsg \in Nat
        /\ \A x, s \in Sessions : UserOf[x] = UserOf[s] => x = s
    BY SessionAssumption, StoreAssumption DEF InboxSound, StoreInv, TypeOK, IsInjective
  <1>1. ASSUME NEW s \in Sessions, NEW u \in Users, sess'[s].step = "commit"
        PROVE  Ahead(s, u, tx[s].msg)'
    <2>1. CASE tx'[s].msg = nextMsg /\ inbox' = inbox
      BY <1>0, <2>1 DEF Ahead, InboxSound, Said, Settled
    <2>2. CASE sess[s].step = "commit" /\ tx'[s].msg = tx[s].msg
      <3>1. PICK m : m = tx[s].msg
        OBVIOUS
      <3>2. Ahead(s, u, m)
        BY <2>2, <3>1 DEF OrderKept, At
      <3>3. \A v \in Users : ~Due(s, v)
        BY <2>2 DEF Due, Telling
      <3>4. Ahead(s, u, m)'
        BY <1>0, <3>2, <3>3, AheadKept DEF MaySay
      <3> QED  BY <2>2, <3>1, <3>4 DEF Ahead
    <2> QED  BY <1>0, <1>1, <2>1, <2>2, WaitersStep
  <1>2. ASSUME NEW s \in Sessions, NEW u \in Users, Due(s, u)'
        PROVE  Ahead(s, u, sess[s].msg)'
    <2>0. Telling(sess'[s])
      BY <1>2 DEF Due, Telling
    <2>1. PICK m : m = sess'[s].msg
      OBVIOUS
    <2>2. Ahead(s, u, m) /\ \A e \in Event : MaySay(s, u, e) => e.type # "new_message"
      <3>1. CASE CommitMessage(s)
        <4>1. sess[s] \in Session /\ sess'[s] = [sess[s] EXCEPT !.step = "confirm", !.msg = tx[s].msg]
          BY <3>1 DEF CommitMessage, Continue, SessionsSound
        <4>2. m = tx[s].msg /\ sess[s].step = "commit"
          BY <2>1, <3>1, <4>1 DEF Session, CommitMessage, At
        <4> QED  BY <4>2 DEF OrderKept, At, MaySay, Due, Telling
      <3>2. CASE sess'[s].msg = sess[s].msg /\ Due(s, u)
        BY <1>2, <2>1, <3>2 DEF OrderKept, MaySay
      <3> QED  BY <1>2, <2>0, <3>1, <3>2, TellersStep
    <2>3. Ahead(s, u, m)'
      BY <1>0, <2>2, AheadKept
    <2> QED  BY <2>1, <2>3 DEF Ahead
  <1> QED  BY <1>1, <1>2 DEF OrderKept, At

\* Every step keeps the inboxes in order.
LEMMA SenderOrderStep ==
  ASSUME InboxSound, InboxSound', SessionsSound, SessionsSound', OrderKept, SenderOrder,
         IsInjective(UserOf), [Next]_vars
  PROVE  SenderOrder'
  <1>0. /\ inbox \in [Users -> Seq(Event)]
        /\ \A x, s \in Sessions : UserOf[x] = UserOf[s] => x = s
    BY SessionAssumption DEF InboxSound, IsInjective
  <1>1. CASE inbox' = inbox
    BY <1>1 DEF SenderOrder
  <1>2. ASSUME NEW s \in Sessions, NEW v \in Users, NEW e \in Event,
               Published(v, e), MaySay(s, v, e)
        PROVE  SenderOrder'
    <2>1. /\ \A u \in Users \ {v} : inbox'[u] = inbox[u]
          /\ DOMAIN inbox[v] = 1..Len(inbox[v]) /\ Len(inbox[v]) \in Nat
          /\ DOMAIN inbox'[v] = 1..(Len(inbox[v]) + 1)
          /\ \A i \in DOMAIN inbox'[v] :
              inbox'[v][i] = IF i = Len(inbox[v]) + 1 THEN e ELSE inbox[v][i]
      BY <1>0, <1>2, PublishedLast
    <2>2. ASSUME NEW u \in Users, NEW i \in DOMAIN inbox'[u], NEW j \in DOMAIN inbox'[u], i < j,
                 inbox'[u][i].type = "new_message", inbox'[u][j].type = "new_message",
                 inbox'[u][i].from = inbox'[u][j].from
          PROVE  inbox'[u][i].msg < inbox'[u][j].msg
      <3>1. CASE u # v
        BY <2>1, <2>2, <3>1 DEF SenderOrder
      <3>2. CASE u = v /\ j # Len(inbox[v]) + 1
        <4>1. i \in DOMAIN inbox[v] /\ j \in DOMAIN inbox[v]
          BY <2>1, <2>2, <3>2
        <4>2. inbox'[v][i] = inbox[v][i] /\ inbox'[v][j] = inbox[v][j]
          BY <2>1, <2>2, <3>2
        <4> QED  BY <2>2, <3>2, <4>1, <4>2 DEF SenderOrder
      <3>3. CASE u = v /\ j = Len(inbox[v]) + 1
        <4>1. i \in DOMAIN inbox[v] /\ inbox'[v][i] = inbox[v][i] /\ inbox'[v][j] = e
          BY <2>1, <2>2, <3>3
        <4>2. Due(s, v) /\ e.msg = sess[s].msg /\ e.from = UserOf[s]
          BY <1>2, <2>2, <3>3, <4>1 DEF MaySay
        <4>3. Ahead(s, v, sess[s].msg)
          BY <4>2 DEF OrderKept
        <4> QED  BY <2>2, <3>3, <4>1, <4>2, <4>3 DEF Ahead
      <3> QED  BY <3>1, <3>2, <3>3
    <2> QED  BY <2>2 DEF SenderOrder
  <1> QED  BY <1>1, <1>2, OneEvent

-----------------------------------------------------------------------------
(* The theorems *)

\* The inductive invariant: the store is sound, the locals of the handlers agree with
\* their transactions, and what is told or about to be told has been committed.
RtInv ==
  /\ StoreInv
  /\ SessionsSound
  /\ InboxSound
  /\ TellersSound
  /\ IsInjective(UserOf) => OrderKept /\ SenderOrder

\* It holds at the start.
LEMMA RtInvInit == Init => RtInv
  <1> SUFFICES ASSUME Init PROVE RtInv
    OBVIOUS
  <1>1. StoreInv /\ SessionsSound
    BY StoreInvInit, SessionsInit DEF Init
  <1>2. \A s \in Sessions : sess[s].step = "idle"
    BY DEF Init, IdleSession
  <1>3. inbox \in [Users -> Seq(Event)] /\ \A u \in Users : inbox[u] = <<>>
    BY EmptySeq DEF Init
  <1>4. \A u \in Users : DOMAIN inbox[u] = {}
    <2> SUFFICES ASSUME NEW u \in Users PROVE DOMAIN inbox[u] = {}
      OBVIOUS
    <2>1. inbox[u] \in Seq(Event) /\ Len(inbox[u]) = 0
      BY <1>3, EmptySeq
    <2>2. DOMAIN inbox[u] = 1..0
      BY <2>1, LenProperties
    <2>3. 1..0 = {}
      OBVIOUS
    <2> QED  BY <2>2, <2>3
  <1>5. InboxSound /\ TellersSound /\ SenderOrder
    BY <1>2, <1>3, <1>4 DEF InboxSound, TellersSound, SenderOrder, Telling
  <1>6. OrderKept
    BY <1>2 DEF OrderKept, Due, Telling, At
  <1> QED  BY <1>1, <1>5, <1>6 DEF RtInv

\* Every step keeps it.
LEMMA RtInvStep == RtInv /\ [Next]_vars => RtInv'
  <1> SUFFICES ASSUME RtInv, [Next]_vars PROVE RtInv'
    OBVIOUS
  <1>1. StoreInv' /\ SessionsSound'
    BY NextCallsStore, StoreInvStep, SessionsStep DEF RtInv, StoreInv
  <1>2. InboxSound' /\ TellersSound'
    BY <1>1, InboxStep, TellersSoundStep DEF RtInv
  <1>3. IsInjective(UserOf) => OrderKept' /\ SenderOrder'
    BY <1>1, <1>2, OrderStep, SenderOrderStep DEF RtInv
  <1> QED  BY <1>1, <1>2, <1>3 DEF RtInv

\* The invariant holds in every state.
THEOREM RtInvCorrect == Spec => []RtInv
  BY RtInvInit, RtInvStep, PTL DEF Spec

\* Refinement: the handlers call the repository only as ChatStore lets any worker call
\* it, so that all its theorems hold of the messages the clients send.
THEOREM CallsStore == Spec => StoreSpec
  <1>1. Init => StoreInit
    BY DEF Init
  <1>2. RtInv /\ [Next]_vars => [StoreNext]_storeVars
    BY NextCallsStore DEF RtInv
  <1> QED  BY <1>1, <1>2, RtInvCorrect, PTL DEF Spec, StoreSpec

\* Each frame is counted, up to the bound.
LEMMA FramesCounted == Spec => [](frames \in 0..MaxFrames)
  <1>1. Init => frames \in 0..MaxFrames
    BY SessionAssumption DEF Init
  <1>2. frames \in 0..MaxFrames /\ [Next]_vars => (frames \in 0..MaxFrames)'
    <2> SUFFICES ASSUME frames \in 0..MaxFrames, [Next]_vars PROVE (frames \in 0..MaxFrames)'
      OBVIOUS
    <2>1. frames' = frames \/ \E s \in Sessions : Receive(s)
      BY DEF Next, vars, SessionStep, Handle, ReceiveSend, ReceiveSendPrivate, ReceiveRead,
             ReceiveDelivered, CreateChat, ProduceNewChat, InsertMessage, SelectForMessage,
             CommitMessage, ProduceConfirmed, ReadMembers, Fanout, HandlerFails, GroupCall
    <2> QED  BY <2>1, SessionAssumption DEF Receive
  <1> QED  BY <1>1, <1>2, PTL DEF Spec

\* The types: in particular each argument of a call and each field of an event is one.
THEOREM TypeInvCorrect == Spec => []TypeInv
  <1>1. RtInv /\ frames \in 0..MaxFrames => TypeInv
    BY DEF RtInv, StoreInv, SessionsSound, InboxSound, TypeInv
  <1> QED  BY <1>1, RtInvCorrect, FramesCounted, PTL

\* No handler leaves a transaction open, whichever of its calls fails.
THEOREM NothingLeftOpenCorrect == Spec => []NothingLeftOpen
  <1>1. RtInv => NothingLeftOpen
    BY DEF RtInv, SessionsSound, Sound, NothingLeftOpen, At
  <1> QED  BY <1>1, RtInvCorrect, PTL

\* Nobody is told of a message that is not stored.
THEOREM EventsAreStoredCorrect == Spec => []EventsAreStored
  <1>1. RtInv => EventsAreStored
    BY DEF RtInv, InboxSound, Said, Settled, EventsAreStored, Stored, Range
  <1> QED  BY <1>1, RtInvCorrect, PTL

\* At every client the messages of one author come in the order of their ids, and
\* none comes twice, as long as no user has two connections.
THEOREM SenderOrderCorrect == Spec => []SenderOrder
  <1>1. RtInv => SenderOrder
    BY DEF RtInv, SenderOrder
  <1> QED  BY <1>1, RtInvCorrect, PTL
=============================================================================
