---------------------------- MODULE GroupService ----------------------------
(***************************************************************************)
(* Groups: what the HTTP handlers for chats and their members do           *)
(* (internal/service/groups.go, called by internal/server/handlers.go).    *)
(*                                                                         *)
(* A handler checks the role of the caller, writes the store and then      *)
(* tells the clients; each of these is a step of its own, and any number   *)
(* of requests are in progress at the same time.  A client keeps the list  *)
(* of its chats by the events INVITED_TO_CHAT and DELETED_FROM_CHAT and by *)
(* the answers to its own requests.                                        *)
(*                                                                         *)
(* The ids of users and of chats are both small integers (SERIAL), so that *)
(* one may be passed for the other.                                        *)
(*                                                                         *)
(* The operators named Bug... are mistaken versions of the operator that   *)
(* follows them, used by no action (see ChatStore).                        *)
(***************************************************************************)
EXTENDS ChatStore

CONSTANTS
  Handlers,     \* the goroutines that serve HTTP requests; each is a worker
  Reachable,    \* the users who are online and subscribed all the time
  Faults,       \* whether a call of the database or of Redis may fail
  MaxRequests   \* bound on the requests that get past their checks

ASSUME HandlerAssumption ==
  /\ Users \subseteq Nat
  /\ Handlers \subseteq Workers
  /\ Reachable \subseteq Users
  /\ Faults \in BOOLEAN
  /\ MaxRequests \in Nat

VARIABLES
  job,        \* job[w]: where handler w is in its request, with its locals
  listed,     \* listed[u]: the chats in the list of the client of u, while u listens
  told,       \* the events that a member came or went, and who got them
  requests    \* the number of requests that got past their checks

vars == <<storeVars, job, listed, told, requests>>

Steps == {"idle", "role", "join", "remove", "leave", "invited", "removed", "members", "tell"}

\* The types of the messages, and of the events, about a change of members
MemberTypes == LeaveTypes \union {"new_member"}

\* The locals of a request: SubjectID makes it, about ObjectID in chat GroupID;
\* the role to set or the type of the message that records the change; the id of
\* that message and the members still to be told
Idle == [step |-> "idle", subject |-> NoUser, object |-> NoUser, group |-> 0,
         role |-> "NONE", type |-> "NONE", msg |-> 0, todo |-> {}]

Job == [step : Steps, subject : Users \union {NoUser}, object : Users \union {NoUser},
        group : ChatIds \union {0}, role : Roles \union {"NONE"},
        type : MemberTypes \union {"NONE"}, msg : MsgIds \union {0}, todo : SUBSET Users]

\* GroupChangeMemberStatusEvent, and the user it is produced to
MemberEvent == [to : Users, type : MemberTypes, msg : MsgIds, group : ChatIds, user : Users]

At(w, step) == job[w].step = step

Continue(w, locals) == job' = [job EXCEPT ![w] = locals]
Done(w) == Continue(w, Idle)

\* A request arrives and gets past its checks
Request(w) ==
  /\ At(w, "idle")
  /\ requests < MaxRequests
  /\ requests' = requests + 1
  /\ UNCHANGED told

\* handleProduce: a user who is not online, or whose connection is gone, misses the
\* event; so does everybody if Redis fails (the error is only logged)
Missed(u) == u \notin Reachable \/ Faults

BugAnyMember(g, u) == members[g][u] # "NONE"

\* GetGroupChatMemberRole, an error when there is no row
IsAdmin(g, u) == members[g][u] = "ADMIN"

-----------------------------------------------------------------------------
(* Groups *)

\* The client adds the group to its list when it gets the answer
HandleNewGroupChat(w, u) ==
  /\ Request(w)
  /\ NewGroupChat(w, u)
  /\ listed' = [listed EXCEPT ![u] = @ \union {nextChat}]
  /\ UNCHANGED job

\* DeleteGroupChat passes the repository the user for the chat and the chat for its
\* author; no client is told
DeleteGroupChatArgs(u, g) == [chat |-> u, author |-> g]

HandleDeleteGroupChat(w, u, g) ==
  LET args == DeleteGroupChatArgs(u, g) IN
  /\ Request(w)
  /\ args.chat \in ChatIds /\ args.author \in Users
  /\ DeleteGroupChat(w, args.chat, args.author)
  /\ UNCHANGED <<job, listed>>

-----------------------------------------------------------------------------
(* ChangeGroupMemberRole *)

ReceiveChangeRole(w, s, o, g, r) ==
  /\ Request(w)
  /\ IsAdmin(g, s)
  /\ Continue(w, [Idle EXCEPT !.step = "role", !.subject = s, !.object = o,
                              !.group = g, !.role = r])
  /\ UNCHANGED <<storeVars, listed>>

ChangeRole(w) ==
  /\ At(w, "role")
  /\ ChangeGroupChatMemberRole(job[w].group, job[w].object, job[w].role)
  /\ Done(w)
  /\ UNCHANGED <<listed, told, requests>>

-----------------------------------------------------------------------------
(* NewGroupMember and DeleteGroupMember, up to the commit *)

\* Nothing is checked: not the caller, nor that the chat is a group
ReceiveNewMember(w, o, g) ==
  /\ Request(w)
  /\ NewGroupChatMemberInsert(w, g, o)
  /\ Continue(w, [Idle EXCEPT !.step = "join", !.object = o, !.group = g,
                              !.type = "new_member"])
  /\ UNCHANGED listed

\* The trigger of the INSERT gets the row of the chat, the members are read
SelectForChange(w) ==
  /\ job[w].step \in {"join", "leave"}
  /\ SelectMembers(w)
  /\ UNCHANGED <<job, listed, told, requests>>

BugNextIdTaken(w) ==
  /\ At(w, "join")
  /\ NewGroupChatMemberCommit(w)
  /\ Continue(w, [job[w] EXCEPT !.step = "invited", !.msg = nextMsg])
  /\ UNCHANGED <<listed, told, requests>>

BugJoinsSilently(w) ==
  /\ At(w, "join") /\ tx[w].held
  /\ members' = [members EXCEPT ![tx[w].chat][tx[w].user] = "MEMBER"]
  /\ tx' = [tx EXCEPT ![w] = NoTx]
  /\ Continue(w, [job[w] EXCEPT !.step = "invited", !.msg = tx[w].msg])
  /\ UNCHANGED <<chats, messages, status, nextChat, nextMsg, listed, told, requests>>

JoinCommit(w) ==
  /\ At(w, "join")
  /\ NewGroupChatMemberCommit(w)
  /\ Continue(w, [job[w] EXCEPT !.step = "invited", !.msg = tx[w].msg])
  /\ UNCHANGED <<listed, told, requests>>

\* The type is the one the client put in the body, whoever is removed: nothing ties
\* left_member to the caller himself, nor kicked_member to another
ReceiveDeleteMember(w, s, o, g, t) ==
  /\ Request(w)
  /\ IsAdmin(g, s)
  /\ Continue(w, [Idle EXCEPT !.step = "remove", !.subject = s, !.object = o, !.group = g,
                              !.type = t])
  /\ UNCHANGED <<storeVars, listed>>

RemoveMember(w) ==
  /\ At(w, "remove")
  /\ DeleteGroupMemberDelete(w, job[w].group, job[w].object, job[w].type)
  /\ Continue(w, [job[w] EXCEPT !.step = "leave"])
  /\ UNCHANGED <<listed, told, requests>>

\* With left_member no DELETED_FROM_CHAT follows: the client of a user who leaves knows
\* it from the answer to its request, that of one another has removed does not
LeaveCommit(w) ==
  LET j == job[w] IN
  /\ At(w, "leave")
  /\ DeleteGroupMemberCommit(w)
  /\ IF j.type = "kicked_member"
     THEN /\ Continue(w, [j EXCEPT !.step = "removed", !.msg = tx[w].msg])
          /\ UNCHANGED listed
     ELSE /\ Continue(w, [j EXCEPT !.step = "members", !.msg = tx[w].msg])
          /\ listed' = IF j.subject = j.object
                       THEN [listed EXCEPT ![j.object] = @ \ {j.group}] ELSE listed
  /\ UNCHANGED <<told, requests>>

-----------------------------------------------------------------------------
(* ... and after it: the clients are told *)

\* INVITED_TO_CHAT to the new member
ProduceInvited(w) ==
  LET j == job[w] IN
  /\ At(w, "invited")
  /\ \/ listed' = [listed EXCEPT ![j.object] = @ \union {j.group}]
     \/ Missed(j.object) /\ UNCHANGED listed
  /\ Continue(w, [j EXCEPT !.step = "members"])
  /\ UNCHANGED <<storeVars, told, requests>>

BugNotProduced(w) ==
  /\ At(w, "removed")
  /\ Continue(w, [job[w] EXCEPT !.step = "members"])
  /\ UNCHANGED <<storeVars, listed, told, requests>>

\* DELETED_FROM_CHAT to the removed member
ProduceDeleted(w) ==
  LET j == job[w] IN
  /\ At(w, "removed")
  /\ \/ listed' = [listed EXCEPT ![j.object] = @ \ {j.group}]
     \/ Missed(j.object) /\ UNCHANGED listed
  /\ Continue(w, [j EXCEPT !.step = "members"])
  /\ UNCHANGED <<storeVars, told, requests>>

BugObjectToldToo(w) ==
  LET todo == MembersOf(job[w].group) IN
  /\ At(w, "members")
  /\ IF todo = {} THEN Done(w)
     ELSE Continue(w, [job[w] EXCEPT !.step = "tell", !.todo = todo])
  /\ UNCHANGED <<storeVars, listed, told, requests>>

ReadMembers(w) ==
  LET todo == MembersOf(job[w].group) \ {job[w].object} IN
  /\ At(w, "members")
  /\ IF todo = {} THEN Done(w)
     ELSE Continue(w, [job[w] EXCEPT !.step = "tell", !.todo = todo])
  /\ UNCHANGED <<storeVars, listed, told, requests>>

\* What user v is told of the change that job j has made
EventFor(v, j) ==
  [to |-> v, type |-> j.type, msg |-> j.msg, group |-> j.group, user |-> j.object]

BugFirstOnly(w, v) ==
  /\ At(w, "tell")
  /\ v \in job[w].todo
  /\ \/ told' = told \union {EventFor(v, job[w])}
     \/ Missed(v) /\ UNCHANGED told
  /\ Done(w)
  /\ UNCHANGED <<storeVars, listed, requests>>

\* One turn of the loop over the members, which come in any order
Tell(w, v) ==
  LET j == job[w] IN
  /\ At(w, "tell")
  /\ v \in j.todo
  /\ \/ told' = told \union {EventFor(v, j)}
     \/ Missed(v) /\ UNCHANGED told
  /\ IF j.todo = {v} THEN Done(w)
     ELSE Continue(w, [j EXCEPT !.todo = @ \ {v}])
  /\ UNCHANGED <<storeVars, listed, requests>>

BugNoRollback(w) ==
  /\ job[w].step \in {"role", "join", "remove", "leave", "members"}
  /\ Faults \/ (At(w, "remove") /\ ~Exists(job[w].group))
  /\ Done(w)
  /\ UNCHANGED <<storeVars, listed, told, requests>>

\* A call of the database fails (the foreign key fails when the chat is gone): the
\* handler answers with an error, the transaction is rolled back
HandlerFails(w) ==
  /\ job[w].step \in {"role", "join", "remove", "leave", "members"}
  /\ Faults \/ (At(w, "remove") /\ ~Exists(job[w].group))
  /\ \/ Rollback(w)
     \/ ~InTx(w) /\ UNCHANGED storeVars
  /\ Done(w)
  /\ UNCHANGED <<listed, told, requests>>

-----------------------------------------------------------------------------
(* The WebSocket handlers, seen from here: calls of the repository *)

SessionCall(w) ==
  /\ \/ \E u \in Users :
          \/ \E c \in ChatIds : NewMessageInsert(w, c, u)
          \/ \E v \in Users : PrivateChatMissing(w, u, v)
          \/ \E c \in ChatIds, m \in MsgIds : ~InTx(w) /\ SetReadAtStatus(m, c, u)
     \/ SelectMembers(w)
     \/ NewMessageCommit(w)
     \/ PrivateChatCreate(w)
     \/ PrivateChatWithSelf(w)
     \/ Rollback(w)
  /\ UNCHANGED <<job, listed, told, requests>>

-----------------------------------------------------------------------------
Init ==
  /\ StoreInit
  /\ job = [w \in Handlers |-> Idle]
  /\ listed = [u \in Users |-> {}]
  /\ told = {}
  /\ requests = 0

\* What a handler does once its request is past the checks
Handle(w) ==
  \/ ChangeRole(w)
  \/ SelectForChange(w)
  \/ JoinCommit(w)
  \/ RemoveMember(w)
  \/ LeaveCommit(w)
  \/ ProduceInvited(w)
  \/ ProduceDeleted(w)
  \/ ReadMembers(w)
  \/ \E v \in Users : Tell(w, v)
  \/ HandlerFails(w)

HandlerStep(w) ==
  \/ \E u \in Users : HandleNewGroupChat(w, u)
  \/ \E u \in Users, g \in ChatIds : HandleDeleteGroupChat(w, u, g)
  \/ \E o \in Users, g \in ChatIds :
        \/ ReceiveNewMember(w, o, g)
        \/ \E s \in Users :
              \/ \E t \in LeaveTypes : ReceiveDeleteMember(w, s, o, g, t)
              \/ \E r \in Roles : ReceiveChangeRole(w, s, o, g, r)
  \/ Handle(w)

Next ==
  \/ \E w \in Handlers : HandlerStep(w)
  \/ \E w \in Workers \ Handlers : SessionCall(w)

Spec == Init /\ [][Next]_vars

\* A handler that has begun goes on: its goroutine is scheduled, the database and
\* Redis answer
FairSpec == Spec /\ \A w \in Handlers : WF_vars(Handle(w))
-----------------------------------------------------------------------------
(* Invariants *)

\* Every variable keeps its type.
TypeInv ==
  /\ TypeOK
  /\ job \in [Handlers -> Job]
  /\ listed \in [Users -> SUBSET ChatIds]
  /\ told \subseteq MemberEvent
  /\ requests \in 0..MaxRequests

\* A handler has a transaction open exactly while it is inside the repository, for
\* the member and the chat of its request: whichever call fails, no lock on a chat
\* outlives the handler (the deferred Rollback).
NothingLeftOpen ==
  \A w \in Handlers :
    /\ tx[w].op \in {"none", "join", "leave"}
    /\ tx[w].op = "join" <=> At(w, "join")
    /\ tx[w].op = "leave" <=> At(w, "leave")
    /\ InTx(w) => tx[w].chat = job[w].group /\ tx[w].user = job[w].object

\* A private chat has no author and no admin
PrivateIsPlain ==
  \A c \in ChatIds : chats[c].type = "PRIVATE" =>
    /\ chats[c].author = NoUser
    /\ \A u \in Users : members[c][u] # "ADMIN"

\* A request that needs an admin names a chat that exists or has existed, not a private one
AdminJobs ==
  \A w \in Handlers : job[w].step \in {"role", "remove", "leave"} =>
    /\ job[w].group \in ChatIds /\ job[w].group < nextChat
    /\ chats[job[w].group].type # "PRIVATE"

\* No private chat ever has an admin, although a request checks the role and changes
\* the store in two steps and anybody may be added to a private chat: what makes
\* PrivateChatPermanent inductive.
NoAdminInPrivate == PrivateIsPlain /\ AdminJobs

\* Member events are for the others, and only about what is stored: whoever is told
\* that a member came or went is told what a committed message of that chat says, of
\* that type and about that member, never about himself.  The message can only be gone
\* with the chat.
ToldIsStored ==
  \A e \in told :
    /\ e.user # e.to
    /\ e.msg < nextMsg
    /\ \/ messages[e.msg] = [chat |-> e.group, from |-> e.user, type |-> e.type]
       \/ messages[e.msg] = NoMessage /\ ~Exists(e.group)

Quiet == \A w \in Handlers : At(w, "idle")

\* Message m of chat c says that u came or went
Says(m, c, u) == messages[m].chat = c /\ messages[m].from = u /\ messages[m].type \in MemberTypes

\* The last that the messages of c say of u is that he left
LastSaysLeft(u, c) ==
  \E m \in MsgIds :
    /\ Says(m, c, u) /\ messages[m].type = "left_member"
    /\ \A n \in MsgIds : Says(n, c, u) => n <= m

\* When nothing is in progress, the list of a reachable client holds every group its
\* user is a member of, and no other that exists, except one he was last removed from
\* under the type left_member ("it means that client already know about changes"),
\* which the client cannot know of when another made the request.
ChatListFollows ==
  Quiet /\ ~Faults =>
    \A u \in Reachable, c \in ChatIds : chats[c].type = "GROUP" =>
      /\ u \in MembersOf(c) => c \in listed[u]
      /\ c \in listed[u] => u \in MembersOf(c) \/ LastSaysLeft(u, c)

-----------------------------------------------------------------------------
(* Action properties *)

\* A private chat is for ever: neither it nor one of its members can be removed,
\* because each way to do so asks for an author or an admin that a private chat never
\* has. Nothing in the code compares the type of the chat.
KeepsPrivate ==
  \A c \in ChatIds : chats[c].type = "PRIVATE" =>
    /\ chats'[c] = chats[c]
    /\ \A u \in Users : members[c][u] # "NONE" => members'[c][u] # "NONE"

PrivateChatPermanent == [][KeepsPrivate]_vars

-----------------------------------------------------------------------------
(* Liveness *)

\* When no call fails, every reachable user who is a member when somebody else has
\* joined, left or been removed is told of it, unless he leaves the chat, or the chat
\* is deleted, before the handler reads the members.
MemberChangeIsTold ==
  ~Faults =>
    \A w \in Handlers, c \in ChatIds, m \in MsgIds, u \in Reachable :
      /\ job[w].step \in {"invited", "removed", "members"}
      /\ job[w].group = c /\ job[w].msg = m
      /\ u \in MembersOf(c) \ {job[w].object}
      ~> (\E e \in told : e.to = u /\ e.msg = m) \/ u \notin MembersOf(c)

-----------------------------------------------------------------------------
(* Statements of the repository that the code does not keep *)

\* "Change member role can only admin": who changes a role is an admin when it changes.
RoleChangedByAdmin ==
  [][\A w \in Handlers :
        ChangeRole(w) /\ members' # members => IsAdmin(job[w].group, job[w].subject)]_vars
=============================================================================
