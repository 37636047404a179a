-------------------------- MODULE MessengerProofs --------------------------
(***************************************************************************)
(* Proofs about Messenger, for any users, connections and handlers and any *)
(* bounds: each of the two services does to the store only what the other  *)
(* one expects of it, so that all that is proved of either of them alone   *)
(* holds while both of them run.                                           *)
(***************************************************************************)
EXTENDS Messenger, ChatStoreProofs

\* The services together with what is proved of them.
RtP == INSTANCE MessageServiceProofs
GrP == INSTANCE GroupServiceProofs

-----------------------------------------------------------------------------
(* Three copies of one store *)

\* The proofs are about the services Messenger is made of, and whichever of them
\* calls the repository, it is the same call.
LEMMA SameNames ==
  /\ Rt!Init <=> RtP!Init
  /\ Gr!Init <=> GrP!Init
  /\ RtP!StoreInit <=> StoreInit
  /\ [Rt!Next]_Rt!vars <=> [RtP!Next]_RtP!vars
  /\ [Gr!Next]_Gr!vars <=> [GrP!Next]_GrP!vars
  /\ [RtP!StoreNext]_RtP!storeVars <=> [StoreNext]_storeVars
  /\ \A s : Rt!SessionStep(s) <=> RtP!SessionStep(s)
  /\ \A w : Gr!HandlerStep(w) <=> GrP!HandlerStep(w)
  /\ \A w, u : RtP!NewGroupChat(w, u) <=> GrP!NewGroupChat(w, u)
  /\ \A w, c, u : /\ RtP!NewMessageInsert(w, c, u) <=> GrP!NewMessageInsert(w, c, u)
                  /\ RtP!NewGroupChatMemberInsert(w, c, u) <=> GrP!NewGroupChatMemberInsert(w, c, u)
                  /\ RtP!DeleteGroupChat(w, c, u) <=> GrP!DeleteGroupChat(w, c, u)
  /\ \A w, c, u, t : RtP!DeleteGroupMemberDelete(w, c, u, t) <=> GrP!DeleteGroupMemberDelete(w, c, u, t)
  /\ \A c, u, r : RtP!ChangeGroupChatMemberRole(c, u, r) <=> GrP!ChangeGroupChatMemberRole(c, u, r)
  /\ \A m, c, u : RtP!SetReadAtStatus(m, c, u) <=> GrP!SetReadAtStatus(m, c, u)
  /\ \A w, u, v : RtP!PrivateChatMissing(w, u, v) <=> GrP!PrivateChatMissing(w, u, v)
  /\ \A w : /\ RtP!SelectMembers(w) <=> GrP!SelectMembers(w)
            /\ RtP!NewMessageCommit(w) <=> GrP!NewMessageCommit(w)
            /\ RtP!NewGroupChatMemberCommit(w) <=> GrP!NewGroupChatMemberCommit(w)
            /\ RtP!DeleteGroupMemberCommit(w) <=> GrP!DeleteGroupMemberCommit(w)
            /\ RtP!PrivateChatCreate(w) <=> GrP!PrivateChatCreate(w)
            /\ RtP!PrivateChatWithSelf(w) <=> GrP!PrivateChatWithSelf(w)
            /\ RtP!Rollback(w) <=> GrP!Rollback(w)
            /\ RtP!InTx(w) <=> GrP!InTx(w)
  <1>1. /\ Rt!Init <=> RtP!Init
        /\ [Rt!Next]_Rt!vars <=> [RtP!Next]_RtP!vars
        /\ \A s : Rt!SessionStep(s) <=> RtP!SessionStep(s)
    BY DEF
        RtP!storeVars, RtP!ChatIds, RtP!MsgIds, RtP!Roles, RtP!LeaveTypes, RtP!NoChat,
        RtP!NoMessage, RtP!NoTx, RtP!Exists, RtP!MembersOf, RtP!PrivateChats, RtP!InTx,
        RtP!Posting, RtP!ChatLocked, RtP!ChatHeld, RtP!RowDeleting, RtP!RowInserting,
        RtP!Post, RtP!Addressees, RtP!CommitPost, RtP!SelectMembers,
        RtP!NewMessageInsert, RtP!NewMessageCommit, RtP!SetReadAtStatus, RtP!Prepares,
        RtP!SetDeliveredAtStatusPrepares, RtP!SetDeliveredAtStatus,
        RtP!PrivateChatMissing, RtP!PrivateChatCreate, RtP!PrivateChatWithSelf,
        RtP!NewGroupChat, RtP!DeleteGroupChat, RtP!NewGroupChatMemberInsert,
        RtP!NewGroupChatMemberCommit, RtP!DeleteGroupMemberDelete,
        RtP!DeleteGroupMemberCommit, RtP!ChangeGroupChatMemberRole, RtP!Rollback,
        RtP!StoreInit, RtP!StoreNext, Rt!storeVars, Rt!ChatIds, Rt!MsgIds, Rt!Roles,
        Rt!LeaveTypes, Rt!NoChat, Rt!NoMessage, Rt!NoTx, Rt!Exists, Rt!MembersOf,
        Rt!PrivateChats, Rt!InTx, Rt!Posting, Rt!ChatLocked, Rt!ChatHeld,
        Rt!RowDeleting, Rt!RowInserting, Rt!Post, Rt!Addressees, Rt!CommitPost,
        Rt!SelectMembers, Rt!NewMessageInsert, Rt!NewMessageCommit, Rt!SetReadAtStatus,
        Rt!Prepares, Rt!SetDeliveredAtStatusPrepares, Rt!SetDeliveredAtStatus,
        Rt!PrivateChatMissing, Rt!PrivateChatCreate, Rt!PrivateChatWithSelf,
        Rt!NewGroupChat, Rt!DeleteGroupChat, Rt!NewGroupChatMemberInsert,
        Rt!NewGroupChatMemberCommit, Rt!DeleteGroupMemberDelete,
        Rt!DeleteGroupMemberCommit, Rt!ChangeGroupChatMemberRole, Rt!Rollback,
        Rt!StoreInit, Rt!StoreNext, Rt!vars, Rt!IdleSession, Rt!At, Rt!Continue,
        Rt!Done, Rt!Produce, Rt!Receive, Rt!ReceiveSend, Rt!ReceiveSendPrivate,
        Rt!ReceiveRead, Rt!ReceiveDelivered, Rt!CreateChat, Rt!ProduceNewChat,
        Rt!InsertMessage, Rt!SelectForMessage, Rt!CommitMessage, Rt!ProduceConfirmed,
        Rt!ReadMembers, Rt!Fanout, Rt!HandlerFails, Rt!GroupCall, Rt!Init, Rt!Handle,
        Rt!SessionStep, Rt!Next, RtP!vars, RtP!IdleSession, RtP!At, RtP!Continue,
        RtP!Done, RtP!Produce, RtP!Receive, RtP!ReceiveSend, RtP!ReceiveSendPrivate,
        RtP!ReceiveRead, RtP!ReceiveDelivered, RtP!CreateChat, RtP!ProduceNewChat,
        RtP!InsertMessage, RtP!SelectForMessage, RtP!CommitMessage,
        RtP!ProduceConfirmed, RtP!ReadMembers, RtP!Fanout, RtP!HandlerFails,
        RtP!GroupCall, RtP!Init, RtP!Handle, RtP!SessionStep, RtP!Next
  <1>2. /\ Gr!Init <=> GrP!Init
        /\ [Gr!Next]_Gr!vars <=> [GrP!Next]_GrP!vars
        /\ \A w : Gr!HandlerStep(w) <=> GrP!HandlerStep(w)
    BY DEF
        GrP!storeVars, GrP!ChatIds, GrP!MsgIds, GrP!Roles, GrP!LeaveTypes, GrP!NoChat,
        GrP!NoMessage, GrP!NoTx, GrP!Exists, GrP!MembersOf, GrP!PrivateChats, GrP!InTx,
        GrP!Posting, GrP!ChatLocked, GrP!ChatHeld, GrP!RowDeleting, GrP!RowInserting,
        GrP!Post, GrP!Addressees, GrP!CommitPost, GrP!SelectMembers,
        GrP!NewMessageInsert, GrP!NewMessageCommit, GrP!SetReadAtStatus, GrP!Prepares,
        GrP!SetDeliveredAtStatusPrepares, GrP!SetDeliveredAtStatus,
        GrP!PrivateChatMissing, GrP!PrivateChatCreate, GrP!PrivateChatWithSelf,
        GrP!NewGroupChat, GrP!DeleteGroupChat, GrP!NewGroupChatMemberInsert,
        GrP!NewGroupChatMemberCommit, GrP!DeleteGroupMemberDelete,
        GrP!DeleteGroupMemberCommit, GrP!ChangeGroupChatMemberRole, GrP!Rollback,
        GrP!StoreInit, GrP!StoreNext, Gr!storeVars, Gr!ChatIds, Gr!MsgIds, Gr!Roles,
        Gr!LeaveTypes, Gr!NoChat, Gr!NoMessage, Gr!NoTx, Gr!Exists, Gr!MembersOf,
        Gr!PrivateChats, Gr!InTx, Gr!Posting, Gr!ChatLocked, Gr!ChatHeld,
        Gr!RowDeleting, Gr!RowInserting, Gr!Post, Gr!Addressees, Gr!CommitPost,
        Gr!SelectMembers, Gr!NewMessageInsert, Gr!NewMessageCommit, Gr!SetReadAtStatus,
        Gr!Prepares, Gr!SetDeliveredAtStatusPrepares, Gr!SetDeliveredAtStatus,
        Gr!PrivateChatMissing, Gr!PrivateChatCreate, Gr!PrivateChatWithSelf,
        Gr!NewGroupChat, Gr!DeleteGroupChat, Gr!NewGroupChatMemberInsert,
        Gr!NewGroupChatMemberCommit, Gr!DeleteGroupMemberDelete,
        Gr!DeleteGroupMemberCommit, Gr!ChangeGroupChatMemberRole, Gr!Rollback,
        Gr!StoreInit, Gr!StoreNext, Gr!vars, Gr!Idle, Gr!At, Gr!Continue, Gr!Done,
        Gr!Request, Gr!Missed, Gr!IsAdmin, Gr!HandleNewGroupChat,
        Gr!DeleteGroupChatArgs, Gr!HandleDeleteGroupChat, Gr!ReceiveChangeRole,
        Gr!ChangeRole, Gr!ReceiveNewMember, Gr!SelectForChange, Gr!JoinCommit,
        Gr!ReceiveDeleteMember, Gr!RemoveMember, Gr!LeaveCommit, Gr!ProduceInvited,
        Gr!ProduceDeleted, Gr!ReadMembers, Gr!EventFor, Gr!Tell, Gr!HandlerFails,
        Gr!SessionCall, Gr!Init, Gr!Handle, Gr!HandlerStep, Gr!Next, GrP!vars,
        GrP!Idle, GrP!At, GrP!Continue, GrP!Done, GrP!Request, GrP!Missed, GrP!IsAdmin,
        GrP!HandleNewGroupChat, GrP!DeleteGroupChatArgs, GrP!HandleDeleteGroupChat,
        GrP!ReceiveChangeRole, GrP!ChangeRole, GrP!ReceiveNewMember,
        GrP!SelectForChange, GrP!JoinCommit, GrP!ReceiveDeleteMember, GrP!RemoveMember,
        GrP!LeaveCommit, GrP!ProduceInvited, GrP!ProduceDeleted, GrP!ReadMembers,
        GrP!EventFor, GrP!Tell, GrP!HandlerFails, GrP!SessionCall, GrP!Init,
        GrP!Handle, GrP!HandlerStep, GrP!Next
  <1>3. /\ RtP!StoreInit <=> StoreInit
        /\ [RtP!StoreNext]_RtP!storeVars <=> [StoreNext]_storeVars
    BY DEF
        storeVars, ChatIds, MsgIds, Roles, LeaveTypes, NoChat, NoMessage, NoTx, Exists,
        MembersOf, PrivateChats, InTx, Posting, ChatLocked, ChatHeld, RowDeleting,
        RowInserting, Post, Addressees, CommitPost, SelectMembers, NewMessageInsert,
        NewMessageCommit, SetReadAtStatus, Prepares, SetDeliveredAtStatusPrepares,
        SetDeliveredAtStatus, PrivateChatMissing, PrivateChatCreate,
        PrivateChatWithSelf, NewGroupChat, DeleteGroupChat, NewGroupChatMemberInsert,
        NewGroupChatMemberCommit, DeleteGroupMemberDelete, DeleteGroupMemberCommit,
        ChangeGroupChatMemberRole, Rollback, StoreInit, StoreNext, RtP!storeVars,
        RtP!ChatIds, RtP!MsgIds, RtP!Roles, RtP!LeaveTypes, RtP!NoChat, RtP!NoMessage,
        RtP!NoTx, RtP!Exists, RtP!MembersOf, RtP!PrivateChats, RtP!InTx, RtP!Posting,
        RtP!ChatLocked, RtP!ChatHeld, RtP!RowDeleting, RtP!RowInserting, RtP!Post,
        RtP!Addressees, RtP!CommitPost, RtP!SelectMembers, RtP!NewMessageInsert,
        RtP!NewMessageCommit, RtP!SetReadAtStatus, RtP!Prepares,
        RtP!SetDeliveredAtStatusPrepares, RtP!SetDeliveredAtStatus,
        RtP!PrivateChatMissing, RtP!PrivateChatCreate, RtP!PrivateChatWithSelf,
        RtP!NewGroupChat, RtP!DeleteGroupChat, RtP!NewGroupChatMemberInsert,
        RtP!NewGroupChatMemberCommit, RtP!DeleteGroupMemberDelete,
        RtP!DeleteGroupMemberCommit, RtP!ChangeGroupChatMemberRole, RtP!Rollback,
        RtP!StoreInit, RtP!StoreNext
  <1>4. /\ \A w, u : RtP!NewGroupChat(w, u) <=> GrP!NewGroupChat(w, u)
        /\ \A w, c, u : /\ RtP!NewMessageInsert(w, c, u) <=> GrP!NewMessageInsert(w, c, u)
                        /\ RtP!NewGroupChatMemberInsert(w, c, u) <=> GrP!NewGroupChatMemberInsert(w, c, u)
                        /\ RtP!DeleteGroupChat(w, c, u) <=> GrP!DeleteGroupChat(w, c, u)
        /\ \A w, c, u, t : RtP!DeleteGroupMemberDelete(w, c, u, t) <=> GrP!DeleteGroupMemberDelete(w, c, u, t)
        /\ \A c, u, r : RtP!ChangeGroupChatMemberRole(c, u, r) <=> GrP!ChangeGroupChatMemberRole(c, u, r)
        /\ \A m, c, u : RtP!SetReadAtStatus(m, c, u) <=> GrP!SetReadAtStatus(m, c, u)
        /\ \A w, u, v : RtP!PrivateChatMissing(w, u, v) <=> GrP!PrivateChatMissing(w, u, v)
        /\ \A w : /\ RtP!SelectMembers(w) <=> GrP!SelectMembers(w)
                  /\ RtP!NewMessageCommit(w) <=> GrP!NewMessageCommit(w)
                  /\ RtP!NewGroupChatMemberCommit(w) <=> GrP!NewGroupChatMemberCommit(w)
                  /\ RtP!DeleteGroupMemberCommit(w) <=> GrP!DeleteGroupMemberCommit(w)
                  /\ RtP!PrivateChatCreate(w) <=> GrP!PrivateChatCreate(w)
                  /\ RtP!PrivateChatWithSelf(w) <=> GrP!PrivateChatWithSelf(w)
                  /\ RtP!Rollback(w) <=> GrP!Rollback(w)
                  /\ RtP!InTx(w) <=> GrP!InTx(w)
    BY DEF
        RtP!ChatIds, RtP!MsgIds, RtP!Roles, RtP!LeaveTypes, RtP!NoChat, RtP!NoMessage,
        RtP!NoTx, RtP!Exists, RtP!MembersOf, RtP!PrivateChats, RtP!InTx, RtP!Posting,
        RtP!ChatLocked, RtP!ChatHeld, RtP!RowDeleting, RtP!RowInserting, RtP!Post,
        RtP!Addressees, RtP!CommitPost, RtP!SelectMembers, RtP!NewMessageInsert,
        RtP!NewMessageCommit, RtP!SetReadAtStatus, RtP!Prepares,
        RtP!SetDeliveredAtStatusPrepares, RtP!SetDeliveredAtStatus,
        RtP!PrivateChatMissing, RtP!PrivateChatCreate, RtP!PrivateChatWithSelf,
        RtP!NewGroupChat, RtP!DeleteGroupChat, RtP!NewGroupChatMemberInsert,
        RtP!NewGroupChatMemberCommit, RtP!DeleteGroupMemberDelete,
        RtP!DeleteGroupMemberCommit, RtP!ChangeGroupChatMemberRole, RtP!Rollback,
        GrP!ChatIds, GrP!MsgIds, GrP!Roles, GrP!LeaveTypes, GrP!NoChat, GrP!NoMessage,
        GrP!NoTx, GrP!Exists, GrP!MembersOf, GrP!PrivateChats, GrP!InTx, GrP!Posting,
        GrP!ChatLocked, GrP!ChatHeld, GrP!RowDeleting, GrP!RowInserting, GrP!Post,
        GrP!Addressees, GrP!CommitPost, GrP!SelectMembers, GrP!NewMessageInsert,
        GrP!NewMessageCommit, GrP!SetReadAtStatus, GrP!Prepares,
        GrP!SetDeliveredAtStatusPrepares, GrP!SetDeliveredAtStatus,
        GrP!PrivateChatMissing, GrP!PrivateChatCreate, GrP!PrivateChatWithSelf,
        GrP!NewGroupChat, GrP!DeleteGroupChat, GrP!NewGroupChatMemberInsert,
        GrP!NewGroupChatMemberCommit, GrP!DeleteGroupMemberDelete,
        GrP!DeleteGroupMemberCommit, GrP!ChangeGroupChatMemberRole, GrP!Rollback
  <1> QED  BY <1>1, <1>2, <1>3, <1>4

\* The specifications are the same, too.
LEMMA SameSpecs == (Rt!Spec <=> RtP!Spec) /\ (Gr!Spec <=> GrP!Spec) /\ (RtP!StoreSpec <=> StoreSpec)
  <1>1. /\ Rt!Init <=> RtP!Init
        /\ Gr!Init <=> GrP!Init
        /\ RtP!StoreInit <=> StoreInit
    BY SameNames
  <1>2. /\ [Rt!Next]_Rt!vars <=> [RtP!Next]_RtP!vars
        /\ [Gr!Next]_Gr!vars <=> [GrP!Next]_GrP!vars
        /\ [RtP!StoreNext]_RtP!storeVars <=> [StoreNext]_storeVars
    BY SameNames
  <1> QED  BY <1>1, <1>2, PTL DEF Rt!Spec, RtP!Spec, Gr!Spec, GrP!Spec, RtP!StoreSpec, StoreSpec

\* The assumptions of both services.
LEMMA Assumptions ==
  /\ Sessions \subseteq Workers /\ Handlers \subseteq Workers
  /\ Workers \ Sessions = Handlers /\ Workers \ Handlers = Sessions
  /\ UserOf \in [Sessions -> Users] /\ Users \subseteq Nat /\ Reachable \subseteq Users
  /\ Faults \in BOOLEAN /\ MaxFrames \in Nat /\ MaxRequests \in Nat
  /\ NoUser \notin Users /\ MaxChats \in Nat /\ MaxMsgs \in Nat
  BY MessengerAssumption, StoreAssumption

-----------------------------------------------------------------------------
(* What one service expects of the other *)

\* The inductive invariant: what each service needs to know of itself so as to pass the
\* repository the right arguments.
MessengerInv == RtP!RtInv /\ GrP!GroupInv

\* The locals and the transaction of a connection.
LEMMA SessionFacts ==
  ASSUME MessengerInv, NEW s \in Sessions
  PROVE  /\ sess[s].step = "insert" => sess[s].chat \in 1..MaxChats
         /\ sess[s].step = "idle" => tx[s].op = "none"
  BY DEF MessengerInv, RtP!RtInv, RtP!SessionsSound, RtP!Sound, RtP!ChatIds

\* The locals and the transaction of a handler.
LEMMA JobFacts ==
  ASSUME MessengerInv, NEW w \in Handlers
  PROVE  /\ job[w].step \in {"role", "remove"} =>
              /\ job[w].group \in 1..MaxChats /\ job[w].object \in Users
              /\ tx[w].op = "none"
         /\ job[w].step = "role" => job[w].role \in {"MEMBER", "ADMIN"}
         /\ job[w].step = "remove" => job[w].type \in {"left_member", "kicked_member"}
  BY DEF MessengerInv, GrP!GroupInv, GrP!JobsSound, GrP!Sound, GrP!ChatIds, GrP!Roles,
         GrP!LeaveTypes

\* A connection makes only the calls GroupService expects: in particular it passes the
\* chat of its frame and its own user, and message_delivered never writes.
LEMMA ConnectionCalls ==
  ASSUME MessengerInv, NEW s \in Sessions, RtP!SessionStep(s),
         UNCHANGED <<job, listed, told, requests>>
  PROVE  GrP!SessionCall(s) \/ UNCHANGED GrP!vars
  <1>0. UserOf[s] \in Users /\ RtP!ChatIds = 1..MaxChats /\ GrP!ChatIds = 1..MaxChats
        /\ RtP!MsgIds = GrP!MsgIds
    BY Assumptions DEF RtP!ChatIds, GrP!ChatIds, RtP!MsgIds, GrP!MsgIds
  <1> DEFINE Call == \/ \E u \in Users :
                          \/ \E c \in 1..MaxChats : GrP!NewMessageInsert(s, c, u)
                          \/ \E v \in Users : GrP!PrivateChatMissing(s, u, v)
                          \/ \E c \in 1..MaxChats, m \in GrP!MsgIds :
                               ~GrP!InTx(s) /\ GrP!SetReadAtStatus(m, c, u)
                     \/ GrP!SelectMembers(s)
                     \/ GrP!NewMessageCommit(s)
                     \/ GrP!PrivateChatCreate(s)
                     \/ GrP!PrivateChatWithSelf(s)
                     \/ GrP!Rollback(s)
  <1> SUFFICES Call \/ UNCHANGED RtP!storeVars
    BY <1>0 DEF GrP!SessionCall, GrP!vars, RtP!storeVars, GrP!storeVars
  <1>d. ~RtP!SetDeliveredAtStatusPrepares
    BY RtP!DeliveredNeverPrepares, Assumptions
  <1>1. ASSUME NEW v \in Users, RtP!ReceiveSendPrivate(s, v)
        PROVE  (\E u \in Users : GrP!PrivateChatMissing(s, u, v)) \/ UNCHANGED RtP!storeVars
    BY <1>0, <1>1, SameNames DEF RtP!ReceiveSendPrivate
  <1>2. ASSUME NEW c \in RtP!ChatIds, NEW m \in RtP!MsgIds, RtP!ReceiveRead(s, c, m)
        PROVE  ~GrP!InTx(s) /\ GrP!SetReadAtStatus(m, c, UserOf[s])
    BY <1>2, SessionFacts, SameNames DEF RtP!ReceiveRead, RtP!Receive, RtP!At, GrP!InTx
  <1>3. ASSUME RtP!CreateChat(s)
        PROVE  GrP!PrivateChatCreate(s) \/ GrP!PrivateChatWithSelf(s)
    BY <1>3, SameNames DEF RtP!CreateChat
  <1>4. ASSUME RtP!InsertMessage(s)
        PROVE  \E c \in 1..MaxChats : GrP!NewMessageInsert(s, c, UserOf[s])
    BY <1>4, SessionFacts, SameNames DEF RtP!InsertMessage, RtP!At
  <1>5. ASSUME RtP!CommitMessage(s)
        PROVE  GrP!NewMessageCommit(s)
    BY <1>5, SameNames DEF RtP!CommitMessage
  <1>s. ASSUME RtP!SelectForMessage(s)
        PROVE  GrP!SelectMembers(s)
    BY <1>s, SameNames DEF RtP!SelectForMessage
  <1>6. ASSUME RtP!HandlerFails(s)
        PROVE  GrP!Rollback(s) \/ UNCHANGED RtP!storeVars
    BY <1>6, SameNames DEF RtP!HandlerFails
  <1>7. ASSUME \/ \E c \in RtP!ChatIds : RtP!ReceiveSend(s, c)
               \/ \E c \in RtP!ChatIds, m \in RtP!MsgIds : RtP!ReceiveDelivered(s, c, m)
               \/ RtP!ProduceNewChat(s)
               \/ RtP!ProduceConfirmed(s)
               \/ RtP!ReadMembers(s)
               \/ \E v \in Users : RtP!Fanout(s, v)
        PROVE  UNCHANGED RtP!storeVars
    BY <1>7, <1>d
    DEF RtP!ReceiveSend, RtP!ReceiveDelivered, RtP!ProduceNewChat, RtP!ProduceConfirmed,
        RtP!ReadMembers, RtP!Fanout
  <1>8. (\E c \in RtP!ChatIds, m \in RtP!MsgIds : RtP!ReceiveRead(s, c, m)) => Call
    BY <1>0, <1>2
  <1>9. (\E v \in Users : RtP!ReceiveSendPrivate(s, v)) => Call \/ UNCHANGED RtP!storeVars
    BY <1>1
  <1>10. RtP!InsertMessage(s) => Call
    BY <1>0, <1>4
  <1>11. (RtP!CreateChat(s) => Call) /\ (RtP!CommitMessage(s) => Call)
         /\ (RtP!SelectForMessage(s) => Call)
         /\ (RtP!HandlerFails(s) => Call \/ UNCHANGED RtP!storeVars)
    BY <1>3, <1>5, <1>6, <1>s
  <1> HIDE DEF Call
  <1> QED  BY <1>7, <1>8, <1>9, <1>10, <1>11 DEF RtP!SessionStep, RtP!Handle

\* A handler makes only the calls MessageService expects.
LEMMA HandlerCalls ==
  ASSUME MessengerInv, NEW w \in Handlers, GrP!HandlerStep(w), UNCHANGED <<sess, inbox, frames>>
  PROVE  RtP!GroupCall(w) \/ UNCHANGED RtP!vars
  <1>0. RtP!ChatIds = 1..MaxChats /\ GrP!ChatIds = 1..MaxChats
        /\ RtP!Roles = {"MEMBER", "ADMIN"} /\ RtP!LeaveTypes = {"left_member", "kicked_member"}
    BY DEF RtP!ChatIds, GrP!ChatIds, RtP!Roles, RtP!LeaveTypes
  <1> DEFINE Call == \/ \E u \in Users :
                          \/ RtP!NewGroupChat(w, u)
                          \/ \E c \in RtP!ChatIds :
                                \/ RtP!NewGroupChatMemberInsert(w, c, u)
                                \/ \E t \in RtP!LeaveTypes : RtP!DeleteGroupMemberDelete(w, c, u, t)
                                \/ RtP!DeleteGroupChat(w, c, u)
                                \/ \E r \in RtP!Roles :
                                     ~RtP!InTx(w) /\ RtP!ChangeGroupChatMemberRole(c, u, r)
                     \/ RtP!SelectMembers(w)
                     \/ RtP!NewGroupChatMemberCommit(w)
                     \/ RtP!DeleteGroupMemberCommit(w)
                     \/ RtP!Rollback(w)
  <1> SUFFICES Call \/ UNCHANGED GrP!storeVars
    BY DEF RtP!GroupCall, RtP!vars, RtP!storeVars, GrP!storeVars
  <1>1. ASSUME NEW u \in Users, GrP!HandleNewGroupChat(w, u)
        PROVE  Call
    BY <1>1, SameNames DEF GrP!HandleNewGroupChat
  <1>2. ASSUME NEW u \in Users, NEW g \in GrP!ChatIds, GrP!HandleDeleteGroupChat(w, u, g)
        PROVE  Call
    <2>1. PICK a \in Users, c \in 1..MaxChats : GrP!DeleteGroupChat(w, c, a)
      BY <1>0, <1>2 DEF GrP!HandleDeleteGroupChat
    <2> QED  BY <1>0, <2>1, SameNames
  <1>3. ASSUME NEW o \in Users, NEW g \in GrP!ChatIds, GrP!ReceiveNewMember(w, o, g)
        PROVE  Call
    BY <1>0, <1>3, SameNames DEF GrP!ReceiveNewMember
  <1>4. ASSUME GrP!ChangeRole(w)
        PROVE  Call
    <2>1. GrP!ChangeGroupChatMemberRole(job[w].group, job[w].object, job[w].role)
          /\ job[w].step = "role"
      BY <1>4 DEF GrP!ChangeRole, GrP!At
    <2>2. job[w].group \in RtP!ChatIds /\ job[w].object \in Users /\ job[w].role \in RtP!Roles
          /\ ~RtP!InTx(w)
      BY <1>0, <2>1, JobFacts DEF RtP!InTx
    <2> QED  BY <2>1, <2>2, SameNames
  <1>5. ASSUME GrP!SelectForChange(w) \/ GrP!JoinCommit(w) \/ GrP!LeaveCommit(w)
        PROVE  Call
    BY <1>5, SameNames DEF GrP!SelectForChange, GrP!JoinCommit, GrP!LeaveCommit
  <1>6. ASSUME GrP!RemoveMember(w)
        PROVE  Call
    <2>1. GrP!DeleteGroupMemberDelete(w, job[w].group, job[w].object, job[w].type)
          /\ job[w].step = "remove"
      BY <1>6 DEF GrP!RemoveMember, GrP!At
    <2>2. job[w].group \in RtP!ChatIds /\ job[w].object \in Users /\ job[w].type \in RtP!LeaveTypes
      BY <1>0, <2>1, JobFacts
    <2> QED  BY <2>1, <2>2, SameNames
  <1>7. ASSUME GrP!HandlerFails(w)
        PROVE  Call \/ UNCHANGED GrP!storeVars
    BY <1>7, SameNames DEF GrP!HandlerFails
  <1>8. ASSUME \/ \E s, o \in Users, g \in GrP!ChatIds :
                    \/ \E t \in GrP!LeaveTypes : GrP!ReceiveDeleteMember(w, s, o, g, t)
                    \/ \E r \in GrP!Roles : GrP!ReceiveChangeRole(w, s, o, g, r)
               \/ GrP!ProduceInvited(w)
               \/ GrP!ProduceDeleted(w)
               \/ GrP!ReadMembers(w)
               \/ \E v \in Users : GrP!Tell(w, v)
        PROVE  UNCHANGED GrP!storeVars
    BY <1>8
    DEF GrP!ReceiveDeleteMember, GrP!ReceiveChangeRole, GrP!ProduceInvited, GrP!ProduceDeleted,
        GrP!ReadMembers, GrP!Tell
  <1> HIDE DEF Call
  <1> QED
    BY <1>1, <1>2, <1>3, <1>4, <1>5, <1>6, <1>7, <1>8 DEF GrP!HandlerStep, GrP!Handle

-----------------------------------------------------------------------------
\* A step of the messenger is a step of each service.
LEMMA NextRefines ==
  MessengerInv /\ [Next]_vars => [RtP!Next]_RtP!vars /\ [GrP!Next]_GrP!vars
  <1> SUFFICES ASSUME MessengerInv, [Next]_vars
               PROVE  [RtP!Next]_RtP!vars /\ [GrP!Next]_GrP!vars
    OBVIOUS
  <1>1. ASSUME NEW s \in Sessions, Connection(s)
        PROVE  RtP!Next /\ (GrP!Next \/ UNCHANGED GrP!vars)
    <2>1. RtP!SessionStep(s) /\ UNCHANGED <<job, listed, told, requests>>
      BY <1>1, SameNames DEF Connection
    <2>2. GrP!SessionCall(s) \/ UNCHANGED GrP!vars
      BY <2>1, ConnectionCalls
    <2>3. s \in Workers \ Handlers
      BY Assumptions
    <2> QED  BY <2>1, <2>2, <2>3 DEF RtP!Next, GrP!Next
  <1>2. ASSUME NEW w \in Handlers, Handler(w)
        PROVE  GrP!Next /\ (RtP!Next \/ UNCHANGED RtP!vars)
    <2>1. GrP!HandlerStep(w) /\ UNCHANGED <<sess, inbox, frames>>
      BY <1>2, SameNames DEF Handler
    <2>2. RtP!GroupCall(w) \/ UNCHANGED RtP!vars
      BY <2>1, HandlerCalls
    <2>3. w \in Workers \ Sessions
      BY Assumptions
    <2> QED  BY <2>1, <2>2, <2>3 DEF RtP!Next, GrP!Next
  <1>3. CASE UNCHANGED vars
    BY <1>3 DEF vars, storeVars, RtP!vars, GrP!vars, RtP!storeVars, GrP!storeVars
  <1> QED  BY <1>1, <1>2, <1>3 DEF Next

\* Each service keeps its part of the invariant, so the messenger keeps both ...
LEMMA MessengerInvStep == MessengerInv /\ [Next]_vars => MessengerInv'
  <1>1. RtP!RtInv /\ [RtP!Next]_RtP!vars => RtP!RtInv'
    BY RtP!RtInvStep, Assumptions
  <1>2. GrP!GroupInv /\ [GrP!Next]_GrP!vars => GrP!GroupInv'
    BY GrP!GroupInvStep, Assumptions
  <1> QED  BY <1>1, <1>2, NextRefines DEF MessengerInv

\* ... from the start.
LEMMA MessengerInvInit == Init => MessengerInv
  <1>1. RtP!Init => RtP!RtInv
    BY RtP!RtInvInit, Assumptions
  <1>2. GrP!Init => GrP!GroupInv
    BY GrP!GroupInvInit, Assumptions
  <1> QED  BY <1>1, <1>2, SameNames DEF Init, MessengerInv

\* It always holds.
THEOREM MessengerInvCorrect == Spec => []MessengerInv
  BY MessengerInvInit, MessengerInvStep, PTL DEF Spec

\* The messenger is a MessageService whose other workers are the HTTP handlers.
THEOREM ImplementsMessageServiceCorrect == Spec => ImplementsMessageService
  <1>1. Init => RtP!Init
    BY SameNames DEF Init
  <1>2. MessengerInv /\ [Next]_vars => [RtP!Next]_RtP!vars
    BY NextRefines
  <1>3. Spec => RtP!Spec
    BY <1>1, <1>2, MessengerInvCorrect, PTL DEF Spec, RtP!Spec
  <1> QED  BY <1>3, SameSpecs DEF ImplementsMessageService

\* The messenger is a GroupService whose other workers are the connections.
THEOREM ImplementsGroupServiceCorrect == Spec => ImplementsGroupService
  <1>1. Init => GrP!Init
    BY SameNames DEF Init
  <1>2. MessengerInv /\ [Next]_vars => [GrP!Next]_GrP!vars
    BY NextRefines
  <1>3. Spec => GrP!Spec
    BY <1>1, <1>2, MessengerInvCorrect, PTL DEF Spec, GrP!Spec
  <1> QED  BY <1>3, SameSpecs DEF ImplementsGroupService

-----------------------------------------------------------------------------
(* What holds in the messenger *)

\* The tables: all that is proved of the store, for any callers, holds for these.
THEOREM CallsStoreCorrect == Spec => StoreSpec
  <1>1. RtP!Spec => RtP!StoreSpec
    BY RtP!CallsStore, Assumptions
  <1> QED  BY <1>1, ImplementsMessageServiceCorrect, SameSpecs DEF ImplementsMessageService

\* The clients: what is proved of each service alone holds while both of them run: nobody
\* is told of what is not stored, each author is heard in order, no
\* transaction outlives its handler and no private chat has an admin.
THEOREM BothHold ==
  Spec => [](/\ Rt!NothingLeftOpen /\ Rt!EventsAreStored /\ Rt!SenderOrder
             /\ Gr!NothingLeftOpen /\ Gr!ToldIsStored /\ Gr!NoAdminInPrivate)
  <1>1. RtP!Spec => /\ []RtP!NothingLeftOpen /\ []RtP!EventsAreStored /\ []RtP!SenderOrder
    BY RtP!NothingLeftOpenCorrect, RtP!EventsAreStoredCorrect, RtP!SenderOrderCorrect, Assumptions
  <1>2. GrP!Spec => /\ []GrP!NothingLeftOpen /\ []GrP!ToldIsStored /\ []GrP!NoAdminInPrivate
    BY GrP!NothingLeftOpenCorrect, GrP!ToldIsStoredCorrect, GrP!NoAdminInPrivateCorrect, Assumptions
  <1>3. /\ Rt!NothingLeftOpen <=> RtP!NothingLeftOpen
        /\ Rt!EventsAreStored <=> RtP!EventsAreStored
        /\ Rt!SenderOrder <=> RtP!SenderOrder
    BY DEF Rt!NothingLeftOpen, RtP!NothingLeftOpen, Rt!EventsAreStored, RtP!EventsAreStored,
           Rt!SenderOrder, RtP!SenderOrder, Rt!At, RtP!At,
           Rt!Stored, RtP!Stored, Rt!Exists, RtP!Exists, Rt!NoMessage, RtP!NoMessage,
           Rt!MsgIds, RtP!MsgIds, Rt!Range, RtP!Range, Rt!IsInjective, RtP!IsInjective
  <1>4. /\ Gr!NothingLeftOpen <=> GrP!NothingLeftOpen
        /\ Gr!ToldIsStored <=> GrP!ToldIsStored
        /\ Gr!NoAdminInPrivate <=> GrP!NoAdminInPrivate
    BY DEF Gr!NothingLeftOpen, GrP!NothingLeftOpen, Gr!ToldIsStored, GrP!ToldIsStored,
           Gr!NoAdminInPrivate, GrP!NoAdminInPrivate, Gr!PrivateIsPlain, GrP!PrivateIsPlain,
           Gr!AdminJobs, GrP!AdminJobs, Gr!At, GrP!At, Gr!InTx, GrP!InTx, Gr!ChatIds, GrP!ChatIds,
           Gr!MsgIds, GrP!MsgIds, Gr!NoMessage, GrP!NoMessage, Gr!Exists, GrP!Exists, Gr!NoChat,
           GrP!NoChat
  <1>5. Spec => RtP!Spec /\ GrP!Spec
    BY ImplementsMessageServiceCorrect, ImplementsGroupServiceCorrect, SameSpecs
    DEF ImplementsMessageService, ImplementsGroupService
  <1> QED  BY <1>1, <1>2, <1>3, <1>4, <1>5, PTL

\* One request at a time keeps the chat list of a reachable client in step with the
\* membership of its user, but for a removal by another under the type left_member,
\* whatever the connections write meanwhile.
THEOREM ChatListFollowsCorrect ==
  ASSUME \A w, x \in Handlers : w = x
  PROVE  Spec => []ChatListFollows
  <1>1. GrP!OneAtATime
    BY DEF GrP!OneAtATime
  <1>2. GrP!Spec => []GrP!ChatListFollows
    BY <1>1, GrP!ChatListFollowsCorrect, Assumptions
  <1>3. GrP!ChatListFollows <=> ChatListFollows
    BY DEF ChatListFollows, Gr!ChatListFollows, GrP!ChatListFollows, Gr!Quiet, GrP!Quiet,
           Gr!At, GrP!At, Gr!MembersOf, GrP!MembersOf, Gr!ChatIds, GrP!ChatIds,
           Gr!LastSaysLeft, GrP!LastSaysLeft, Gr!Says, GrP!Says, Gr!MsgIds, GrP!MsgIds,
           Gr!MemberTypes, GrP!MemberTypes, Gr!LeaveTypes, GrP!LeaveTypes
  <1>4. Spec => GrP!Spec
    BY ImplementsGroupServiceCorrect, SameSpecs DEF ImplementsGroupService
  <1> QED  BY <1>2, <1>3, <1>4, PTL
=============================================================================
