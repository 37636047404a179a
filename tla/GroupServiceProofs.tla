------------------------- MODULE GroupServiceProofs -------------------------
(***************************************************************************)
(* Proofs about GroupService: it calls the store as ChatStore allows, and  *)
(* private chats and their members are there for ever.                     *)
(***************************************************************************)
EXTENDS GroupService, ChatStoreProofs

\* The locals of a handler and its transaction: the arguments it will pass to the
\* repository are there, and the transaction is for them
Sound(j, t) ==
  /\ j \in Job
  /\ j.step \in {"role", "join", "remove", "leave"} => j.group \in ChatIds /\ j.object \in Users
  /\ j.step = "role" => j.role \in Roles
  /\ j.step \in {"remove", "leave"} => j.type \in LeaveTypes
  /\ t.op \in {"none", "join", "leave"}
  /\ t.op = "join" <=> j.step = "join"
  /\ t.op = "leave" <=> j.step = "leave"
  /\ t.op # "none" => t.chat = j.group /\ t.user = j.object /\ t.type = j.type

JobsSound ==
  /\ job \in [Handlers -> Job]
  /\ \A w \in Handlers : Sound(job[w], tx[w])
  /\ \A w \in Workers \ Handlers : tx[w].op \in {"none", "message", "private"}

-----------------------------------------------------------------------------
(* The calls of the store *)

\* Each step of the service is a step of the store or leaves the store alone.
LEMMA NextCallsStore == JobsSound /\ [Next]_vars => [StoreNext]_storeVars
  <1> SUFFICES ASSUME JobsSound, [Next]_vars PROVE [StoreNext]_storeVars
    OBVIOUS
  <1> USE HandlerAssumption
  <1>1. ASSUME NEW w \in Handlers, NEW u \in Users, HandleNewGroupChat(w, u)
        PROVE  StoreNext
    BY <1>1 DEF HandleNewGroupChat, StoreNext
  <1>2. ASSUME NEW w \in Handlers, NEW u \in Users, NEW g \in ChatIds,
               HandleDeleteGroupChat(w, u, g)
        PROVE  StoreNext
    BY <1>2 DEF HandleDeleteGroupChat, StoreNext
  <1>3. ASSUME NEW w \in Handlers, NEW o \in Users, NEW g \in ChatIds, ReceiveNewMember(w, o, g)
        PROVE  StoreNext
    BY <1>3 DEF ReceiveNewMember, StoreNext
  <1>4. ASSUME NEW w \in Handlers, ChangeRole(w)
        PROVE  StoreNext
    BY <1>4 DEF ChangeRole, JobsSound, Sound, At, StoreNext
  <1>5. ASSUME NEW w \in Handlers, SelectForChange(w) \/ JoinCommit(w) \/ LeaveCommit(w)
        PROVE  StoreNext
    BY <1>5 DEF SelectForChange, JoinCommit, LeaveCommit, StoreNext
  <1>6. ASSUME NEW w \in Handlers, RemoveMember(w)
        PROVE  StoreNext
    BY <1>6 DEF RemoveMember, JobsSound, Sound, At, StoreNext
  <1>7. ASSUME NEW w \in Handlers, HandlerFails(w)
        PROVE  StoreNext \/ UNCHANGED storeVars
    BY <1>7 DEF HandlerFails, StoreNext
  <1>8. ASSUME NEW w \in Workers \ Handlers, SessionCall(w)
        PROVE  StoreNext
    BY <1>8 DEF SessionCall, StoreNext
  <1>9. ASSUME NEW w \in Handlers,
               \/ \E s, o \in Users, g \in ChatIds :
                    \/ \E t \in LeaveTypes : ReceiveDeleteMember(w, s, o, g, t)
                    \/ \E r \in Roles : ReceiveChangeRole(w, s, o, g, r)
               \/ ProduceInvited(w)
               \/ ProduceDeleted(w)
               \/ ReadMembers(w)
               \/ \E v \in Users : Tell(w, v)
        PROVE  UNCHANGED storeVars
    BY <1>9 DEF ReceiveDeleteMember, ReceiveChangeRole, ProduceInvited, ProduceDeleted,
                ReadMembers, Tell
  <1>10. CASE UNCHANGED vars
    BY <1>10 DEF vars
  <1> QED
    BY <1>1, <1>2, <1>3, <1>4, <1>5, <1>6, <1>7, <1>8, <1>9, <1>10 DEF Next, HandlerStep, Handle

-----------------------------------------------------------------------------
(* The requests *)

\* A handler that is idle has no transaction open.
LEMMA IdleSound == Sound(Idle, NoTx)
  BY DEF Sound, Idle, NoTx, Job, Steps

\* A step of one handler keeps the others sound
LEMMA OneHandler ==
  ASSUME JobsSound, NEW w \in Handlers, NEW j,
         job' = [job EXCEPT ![w] = j], Sound(j, tx'[w]),
         \A x \in Workers : x # w => tx'[x] = tx[x]
  PROVE  JobsSound'
  <1>1. \A x \in Handlers : job'[x] = IF x = w THEN j ELSE job[x]
    BY DEF JobsSound
  <1>2. job' \in [Handlers -> Job]
    BY DEF JobsSound, Sound
  <1>3. \A x \in Handlers : Sound(job'[x], tx'[x])
    <2> TAKE x \in Handlers
    <2>1. CASE x = w
      BY <1>1, <2>1
    <2>2. CASE x # w
      BY <1>1, <2>2, HandlerAssumption DEF JobsSound
    <2> QED  BY <2>1, <2>2
  <1>4. \A x \in Workers \ Handlers : tx'[x].op \in {"none", "message", "private"}
    BY DEF JobsSound
  <1>5. JobsSound' <=> /\ job' \in [Handlers -> Job]
                       /\ \A x \in Handlers : Sound(job'[x], tx'[x])
                       /\ \A x \in Workers \ Handlers : tx'[x].op \in {"none", "message", "private"}
    BY DEF JobsSound, Sound
  <1> QED  BY <1>2, <1>3, <1>4, <1>5

\* Every step keeps the place of each handler and its transaction in agreement.
LEMMA JobsStep == TypeOK /\ JobsSound /\ [Next]_vars => JobsSound'
  <1> SUFFICES ASSUME TypeOK, JobsSound, [Next]_vars PROVE JobsSound'
    OBVIOUS
  <1> USE HandlerAssumption
  <1>0. \A w \in Handlers : Sound(job[w], tx[w]) /\ w \in Workers
    BY DEF JobsSound
  <1>1. ASSUME UNCHANGED <<job, tx>>
        PROVE  JobsSound'
    BY <1>1 DEF JobsSound, Sound
  <1>2. ASSUME NEW w \in Handlers,
               \/ \E u \in Users : HandleNewGroupChat(w, u)
               \/ \E u \in Users, g \in ChatIds : HandleDeleteGroupChat(w, u, g)
        PROVE  JobsSound'
    BY <1>1, <1>2 DEF HandleNewGroupChat, HandleDeleteGroupChat, NewGroupChat, DeleteGroupChat
  <1>3. ASSUME NEW w \in Handlers, NEW o \in Users, NEW g \in ChatIds, ReceiveNewMember(w, o, g)
        PROVE  JobsSound'
    <2> DEFINE j == [Idle EXCEPT !.step = "join", !.object = o, !.group = g,
                                 !.type = "new_member"]
    <2>1. /\ tx'[w].op = "join" /\ tx'[w].chat = g /\ tx'[w].user = o
          /\ tx'[w].type = "new_member"
          /\ \A x \in Workers : x # w => tx'[x] = tx[x]
      BY <1>0, <1>3 DEF ReceiveNewMember, NewGroupChatMemberInsert, Post, TypeOK
    <2>2. Sound(j, tx'[w])
      BY <2>1 DEF Sound, Idle, Job, Steps, MemberTypes
    <2>3. job' = [job EXCEPT ![w] = j]
      BY <1>3 DEF ReceiveNewMember, Continue
    <2> HIDE DEF j
    <2> QED  BY <2>1, <2>2, <2>3, OneHandler
  <1>4. ASSUME NEW w \in Handlers, NEW s \in Users, NEW o \in Users, NEW g \in ChatIds,
               \/ \E t \in LeaveTypes : ReceiveDeleteMember(w, s, o, g, t)
               \/ \E r \in Roles : ReceiveChangeRole(w, s, o, g, r)
        PROVE  JobsSound'
    <2>1. tx' = tx /\ tx[w].op = "none"
      BY <1>0, <1>4 DEF ReceiveDeleteMember, ReceiveChangeRole, Request, At, Sound, storeVars
    <2>2. \E j : job' = [job EXCEPT ![w] = j] /\ Sound(j, tx'[w])
      <3>1. ASSUME NEW t \in LeaveTypes, ReceiveDeleteMember(w, s, o, g, t)
            PROVE  \E j : job' = [job EXCEPT ![w] = j] /\ Sound(j, tx'[w])
        <4> DEFINE j == [Idle EXCEPT !.step = "remove", !.subject = s, !.object = o, !.group = g,
                                     !.type = t]
        <4>1. Sound(j, tx'[w])
          BY <2>1 DEF Sound, Idle, Job, Steps, MemberTypes
        <4>2. job' = [job EXCEPT ![w] = j]
          BY <3>1 DEF ReceiveDeleteMember, Continue
        <4> QED  BY <4>1, <4>2
      <3>2. ASSUME NEW r \in Roles, ReceiveChangeRole(w, s, o, g, r)
            PROVE  \E j : job' = [job EXCEPT ![w] = j] /\ Sound(j, tx'[w])
        <4> DEFINE j == [Idle EXCEPT !.step = "role", !.subject = s, !.object = o,
                                     !.group = g, !.role = r]
        <4>1. Sound(j, tx'[w])
          BY <2>1 DEF Sound, Idle, Job, Steps
        <4>2. job' = [job EXCEPT ![w] = j]
          BY <3>2 DEF ReceiveChangeRole, Continue
        <4> QED  BY <4>1, <4>2
      <3> QED  BY <1>4, <3>1, <3>2
    <2> QED  BY <2>1, <2>2, OneHandler
  <1>5. ASSUME NEW w \in Handlers, HandlerFails(w)
        PROVE  JobsSound'
    <2>1. /\ tx'[w].op = "none"
          /\ \A x \in Workers : x # w => tx'[x] = tx[x]
      BY <1>0, <1>5 DEF HandlerFails, Rollback, InTx, NoTx, TypeOK, storeVars
    <2>2. Sound(Idle, tx'[w])
      BY <2>1, IdleSound DEF Sound, NoTx
    <2>3. job' = [job EXCEPT ![w] = Idle]
      BY <1>5 DEF HandlerFails, Done, Continue
    <2> QED  BY <2>1, <2>2, <2>3, OneHandler
  <1>6. ASSUME NEW w \in Handlers, JoinCommit(w) \/ LeaveCommit(w)
        PROVE  JobsSound'
    <2>1. /\ tx'[w].op = "none"
          /\ \A x \in Workers : x # w => tx'[x] = tx[x]
      BY <1>0, <1>6 DEF JoinCommit, LeaveCommit, NewGroupChatMemberCommit,
                        DeleteGroupMemberCommit, CommitPost, NoTx, TypeOK
    <2>2. tx[w].msg \in MsgIds \union {0}
      BY <1>0 DEF TypeOK, Tx
    <2>3. \A step \in {"invited", "removed", "members"}, msg \in MsgIds \union {0} :
            Sound([job[w] EXCEPT !.step = step, !.msg = msg], tx'[w])
      <3> TAKE step \in {"invited", "removed", "members"}, msg \in MsgIds \union {0}
      <3> DEFINE j == [job[w] EXCEPT !.step = step, !.msg = msg]
      <3>1. job[w] \in Job
        BY <1>0 DEF Sound
      <3>2. j \in Job /\ j.step = step
        BY <3>1, ZenonT(60) DEF Job, Steps
      <3>3. \A k : k \in Job /\ k.step = step => Sound(k, tx'[w])
        BY <2>1 DEF Sound
      <3> QED  BY <3>2, <3>3
    <2>4. \E step \in {"invited", "removed", "members"} :
            job' = [job EXCEPT ![w] = [job[w] EXCEPT !.step = step, !.msg = tx[w].msg]]
      BY <1>6 DEF JoinCommit, LeaveCommit, Continue
    <2> QED  BY <2>1, <2>2, <2>3, <2>4, OneHandler
  <1>14. ASSUME NEW w \in Handlers, SelectForChange(w)
         PROVE  JobsSound'
    <2>1. /\ job' = job
          /\ \A x \in Workers : /\ tx'[x].op = tx[x].op /\ tx'[x].chat = tx[x].chat
                                /\ tx'[x].user = tx[x].user /\ tx'[x].type = tx[x].type
      BY <1>0, <1>14 DEF SelectForChange, SelectMembers, TypeOK, Tx
    <2> QED  BY <2>1 DEF JobsSound, Sound
  <1>7. ASSUME NEW w \in Handlers, RemoveMember(w)
        PROVE  JobsSound'
    <2> DEFINE j == [job[w] EXCEPT !.step = "leave"]
    <2>1. /\ job[w] \in Job /\ job[w].group \in ChatIds /\ job[w].object \in Users
          /\ job[w].type \in LeaveTypes
      BY <1>0, <1>7 DEF RemoveMember, At, Sound
    <2>2. /\ tx'[w].op = "leave" /\ tx'[w].chat = job[w].group /\ tx'[w].user = job[w].object
          /\ tx'[w].type = job[w].type
          /\ \A x \in Workers : x # w => tx'[x] = tx[x]
      BY <1>0, <1>7 DEF RemoveMember, DeleteGroupMemberDelete, Post, TypeOK
    <2>3. Sound(j, tx'[w])
      BY <2>1, <2>2 DEF Sound, Job, Steps
    <2>4. job' = [job EXCEPT ![w] = j]
      BY <1>7 DEF RemoveMember, Continue
    <2> HIDE DEF j
    <2> QED  BY <2>2, <2>3, <2>4, OneHandler
  <1>8. ASSUME NEW w \in Handlers, ChangeRole(w)
        PROVE  JobsSound'
    <2>1. tx' = tx /\ tx[w].op = "none" /\ job' = [job EXCEPT ![w] = Idle]
      BY <1>0, <1>8 DEF ChangeRole, ChangeGroupChatMemberRole, At, Sound, Done, Continue
    <2>2. Sound(Idle, tx'[w])
      BY <2>1, IdleSound DEF Sound, NoTx
    <2> QED  BY <2>1, <2>2, OneHandler
  <1>9. ASSUME NEW w \in Handlers,
               \/ ProduceInvited(w)
               \/ ProduceDeleted(w)
               \/ ReadMembers(w)
               \/ \E v \in Users : Tell(w, v)
        PROVE  JobsSound'
    <2>1. tx' = tx /\ tx[w].op = "none" /\ job[w] \in Job
      BY <1>0, <1>9 DEF ProduceInvited, ProduceDeleted, ReadMembers, Tell, At, Sound, storeVars
    <2>2. Sound(Idle, tx'[w])
      BY <2>1, IdleSound DEF Sound, NoTx
    <2>3. \A j : j \in Job /\ j.step \in {"members", "tell"} => Sound(j, tx'[w])
      BY <2>1 DEF Sound
    <2>4. ASSUME ProduceInvited(w) \/ ProduceDeleted(w)
          PROVE  \E j : job' = [job EXCEPT ![w] = j] /\ Sound(j, tx'[w])
      <3>1. job' = [job EXCEPT ![w] = [job[w] EXCEPT !.step = "members"]]
        BY <2>4 DEF ProduceInvited, ProduceDeleted, Continue
      <3>2. [job[w] EXCEPT !.step = "members"] \in Job
        BY <2>1 DEF Job, Steps
      <3>3. [job[w] EXCEPT !.step = "members"].step = "members"
        BY <2>1 DEF Job
      <3> QED  BY <2>3, <3>1, <3>2, <3>3
    <2>5. ASSUME ReadMembers(w)
          PROVE  \E j : job' = [job EXCEPT ![w] = j] /\ Sound(j, tx'[w])
      <3> DEFINE todo == MembersOf(job[w].group) \ {job[w].object}
                 j == [job[w] EXCEPT !.step = "tell", !.todo = todo]
      <3>1. job' = [job EXCEPT ![w] = Idle] \/ job' = [job EXCEPT ![w] = j]
        BY <2>5 DEF ReadMembers, Continue, Done
      <3>2. todo \in SUBSET Users
        BY DEF MembersOf
      <3> HIDE DEF todo
      <3>3. j \in Job /\ j.step = "tell"
        BY <2>1, <3>2 DEF Job, Steps
      <3> QED  BY <2>2, <2>3, <3>1, <3>3
    <2>6. ASSUME NEW v \in Users, Tell(w, v)
          PROVE  \E j : job' = [job EXCEPT ![w] = j] /\ Sound(j, tx'[w])
      <3> DEFINE todo == job[w].todo \ {v}
                 j == [job[w] EXCEPT !.todo = todo]
      <3>1. job' = [job EXCEPT ![w] = Idle] \/ job' = [job EXCEPT ![w] = j]
        BY <2>6 DEF Tell, Continue, Done
      <3>2. todo \in SUBSET Users /\ job[w].step = "tell"
        BY <2>1, <2>6 DEF Job, Tell, At
      <3> HIDE DEF todo
      <3>3. j \in Job /\ j.step = "tell"
        BY <2>1, <3>2 DEF Job
      <3> QED  BY <2>2, <2>3, <3>1, <3>3
    <2> QED  BY <1>9, <2>1, <2>4, <2>5, <2>6, OneHandler
  <1>10. ASSUME NEW w \in Workers \ Handlers, SessionCall(w)
         PROVE  JobsSound'
    <2>1. \A x \in Handlers : tx'[x] = tx[x]
      BY <1>10 DEF SessionCall, NewMessageInsert, Post, PrivateChatMissing, SetReadAtStatus,
                   SelectMembers, NewMessageCommit, CommitPost, PrivateChatCreate,
                   PrivateChatWithSelf, Rollback, TypeOK
    <2>2. tx'[w].op \in {"none", "message", "private"}
      <3>1. CASE \E u \in Users, c \in ChatIds : NewMessageInsert(w, c, u)
        BY <3>1 DEF NewMessageInsert, Post, TypeOK
      <3>2. CASE \E u, v \in Users : PrivateChatMissing(w, u, v)
        BY <3>2 DEF PrivateChatMissing, NoTx, TypeOK
      <3>3. CASE \E u \in Users, c \in ChatIds, m \in MsgIds : SetReadAtStatus(m, c, u)
        BY <3>3 DEF SetReadAtStatus, JobsSound
      <3>4. CASE \/ NewMessageCommit(w)
                 \/ PrivateChatCreate(w)
                 \/ PrivateChatWithSelf(w)
                 \/ Rollback(w)
        BY <3>4 DEF NewMessageCommit, CommitPost, PrivateChatCreate, PrivateChatWithSelf,
                    Rollback, NoTx, TypeOK
      <3>5. CASE SelectMembers(w)
        BY <1>0, <3>5 DEF SelectMembers, JobsSound, TypeOK, Tx
      <3> QED  BY <1>10, <3>1, <3>2, <3>3, <3>4, <3>5 DEF SessionCall
    <2>3. \A x \in Workers : x # w => tx'[x] = tx[x]
      BY <1>10 DEF SessionCall, NewMessageInsert, Post, PrivateChatMissing, SetReadAtStatus,
                   SelectMembers, NewMessageCommit, CommitPost, PrivateChatCreate,
                   PrivateChatWithSelf, Rollback, TypeOK
    <2>4. job' = job
      BY <1>10 DEF SessionCall
    <2> QED  BY <2>1, <2>2, <2>3, <2>4 DEF JobsSound, Sound
  <1>11. CASE UNCHANGED vars
    BY <1>11 DEF vars, storeVars, JobsSound, Sound
  <1> QED
    BY <1>2, <1>3, <1>4, <1>5, <1>6, <1>7, <1>8, <1>9, <1>10, <1>11, <1>14
    DEF Next, HandlerStep, Handle

\* They agree at the start.
LEMMA JobsInit == Init => JobsSound
  <1> SUFFICES ASSUME Init PROVE JobsSound
    OBVIOUS
  <1>1. Idle \in Job
    BY IdleSound DEF Sound
  <1>2. \A w \in Workers : tx[w] = NoTx
    BY DEF Init, StoreInit
  <1>3. \A w \in Handlers : job[w] = Idle
    BY DEF Init
  <1>4. job \in [Handlers -> Job]
    BY <1>1 DEF Init
  <1> QED
    BY <1>2, <1>3, <1>4, IdleSound, HandlerAssumption DEF JobsSound, NoTx

\* The store below and the requests above hold each other up: the requests pass the
\* store arguments of the right type, the store keeps the requests' transactions.
GroupInv == StoreInv /\ JobsSound

\* Every step keeps it ...
LEMMA GroupInvStep == GroupInv /\ [Next]_vars => GroupInv'
  <1> SUFFICES ASSUME GroupInv, [Next]_vars PROVE GroupInv'
    OBVIOUS
  <1>1. [StoreNext]_storeVars
    BY NextCallsStore DEF GroupInv
  <1>2. StoreInv'
    BY <1>1, StoreInvStep DEF GroupInv
  <1>3. JobsSound'
    BY JobsStep DEF GroupInv, StoreInv
  <1> QED  BY <1>2, <1>3 DEF GroupInv

\* ... and it holds at the start.
LEMMA GroupInvInit == Init => GroupInv
  BY StoreInvInit, JobsInit DEF Init, GroupInv

\* The inductive invariant of the service.
LEMMA GroupInvInvariant == Spec => []GroupInv
  BY GroupInvInit, GroupInvStep, PTL DEF Spec

\* The handlers of groups.go use the store as ChatStore allows: every step of theirs
\* is a step of the store or leaves it alone, so all that is proved of the store
\* holds while they run.
THEOREM ImplementsStore == Spec => StoreSpec
  <1>1. Init => StoreInit
    BY DEF Init
  <1>2. GroupInv /\ [Next]_vars => [StoreNext]_storeVars
    BY NextCallsStore DEF GroupInv
  <1> QED  BY <1>1, <1>2, GroupInvInvariant, PTL DEF Spec, StoreSpec

\* Whatever call fails, a handler's transaction does not outlive its request.
THEOREM NothingLeftOpenCorrect == Spec => []NothingLeftOpen
  <1>1. GroupInv => NothingLeftOpen
    BY HandlerAssumption DEF GroupInv, JobsSound, Sound, NothingLeftOpen, At, InTx
  <1> QED  BY <1>1, GroupInvInvariant, PTL

-----------------------------------------------------------------------------
(* Private chats *)

\* What a step may do to the chats and their members: nothing; create one, which has
\* neither an author nor an admin if it is private; change a group, or what is left
\* of one; add a member
Leaves == nextChat' \in {nextChat, nextChat + 1} /\ UNCHANGED <<chats, members>>

Opens ==
  /\ nextChat \in ChatIds /\ nextChat' = nextChat + 1
  /\ chats[nextChat].type = "NONE"
  /\ \A c \in ChatIds : c # nextChat => chats'[c] = chats[c] /\ members'[c] = members[c]
  /\ chats'[nextChat].type = "PRIVATE" =>
       chats'[nextChat].author = NoUser /\ \A u \in Users : members'[nextChat][u] # "ADMIN"

Touches(c) ==
  /\ nextChat' = nextChat
  /\ chats[c].type # "PRIVATE" /\ chats'[c].type # "PRIVATE"
  /\ \A d \in ChatIds : d # c => chats'[d] = chats[d] /\ members'[d] = members[d]

Adds(c, u) ==
  /\ UNCHANGED <<nextChat, chats>>
  /\ \A d \in ChatIds, v \in Users :
       members'[d][v] = IF d = c /\ v = u THEN "MEMBER" ELSE members[d][v]

\* What a step of the store can do to the chats and the roles of their members.
LEMMA PrivateKinds ==
  ASSUME GroupInv, NoAdminInPrivate, [Next]_vars
  PROVE  \/ Leaves
         \/ Opens
         \/ \E c \in ChatIds : Touches(c)
         \/ \E c \in ChatIds, u \in Users : Adds(c, u)
  <1> USE HandlerAssumption
  <1>0. TypeOK /\ IdsAhead /\ JobsSound /\ PostersHold
    BY DEF GroupInv, StoreInv, TxInv
  <1>1. ASSUME NEW w \in Workers, PrivateChatCreate(w) \/ \E u \in Users : NewGroupChat(w, u)
        PROVE  Opens
    <2>0. nextChat \in ChatIds
      BY <1>1 DEF PrivateChatCreate, NewGroupChat
    <2>1. nextChat \in ChatIds /\ chats[nextChat].type = "NONE"
      BY <1>0, <2>0 DEF IdsAhead, ChatIds
    <2>2. CASE PrivateChatCreate(w)
      BY <1>0, <2>1, <2>2 DEF PrivateChatCreate, Opens, TypeOK
    <2>3. CASE \E u \in Users : NewGroupChat(w, u)
      BY <1>0, <2>1, <2>3 DEF NewGroupChat, Opens, TypeOK
    <2> QED  BY <1>1, <2>2, <2>3
  <1>2. ASSUME NEW w \in Handlers, NEW u \in Users, NEW g \in ChatIds,
               HandleDeleteGroupChat(w, u, g)
        PROVE  \E c \in ChatIds : Touches(c)
    <2>1. PICK c \in ChatIds, a \in Users : DeleteGroupChat(w, c, a)
      BY <1>2 DEF HandleDeleteGroupChat
    <2>2. chats[c].type # "PRIVATE"
      BY <2>1, StoreAssumption DEF DeleteGroupChat, NoAdminInPrivate, PrivateIsPlain
    <2> QED
      BY <1>0, <2>1, <2>2 DEF DeleteGroupChat, Touches, TypeOK, NoChat
  <1>3. ASSUME NEW w \in Handlers, JoinCommit(w)
        PROVE  \E c \in ChatIds, u \in Users : Adds(c, u)
    <2>1. tx[w].chat \in ChatIds /\ tx[w].user \in Users
      BY <1>0, <1>3 DEF JoinCommit, NewGroupChatMemberCommit, PostersHold, Posting
    <2>2. Adds(tx[w].chat, tx[w].user)
      BY <1>0, <1>3 DEF JoinCommit, NewGroupChatMemberCommit, CommitPost, Adds, TypeOK
    <2> QED  BY <2>1, <2>2
  <1>4. ASSUME NEW w \in Handlers, LeaveCommit(w)
        PROVE  \E c \in ChatIds : Touches(c)
    <2>1. tx[w].chat = job[w].group
      BY <1>0, <1>4 DEF LeaveCommit, DeleteGroupMemberCommit, JobsSound, Sound
    <2>2. tx[w].chat \in ChatIds /\ chats[tx[w].chat].type # "PRIVATE"
      BY <1>4, <2>1 DEF LeaveCommit, At, NoAdminInPrivate, AdminJobs
    <2>3. UNCHANGED <<nextChat, chats>>
      BY <1>4 DEF LeaveCommit, DeleteGroupMemberCommit, CommitPost
    <2>4. \A d \in ChatIds : d # tx[w].chat => members'[d] = members[d]
      BY <1>0, <1>4, <2>2 DEF LeaveCommit, DeleteGroupMemberCommit, TypeOK
    <2>5. Touches(tx[w].chat)
      BY <2>2, <2>3, <2>4 DEF Touches
    <2> QED  BY <2>2, <2>5
  <1>5. ASSUME NEW w \in Handlers, ChangeRole(w)
        PROVE  \E c \in ChatIds : Touches(c)
    <2>1. job[w].group \in ChatIds /\ chats[job[w].group].type # "PRIVATE"
      BY <1>5 DEF ChangeRole, At, NoAdminInPrivate, AdminJobs
    <2>2. Touches(job[w].group)
      BY <1>0, <1>5, <2>1 DEF ChangeRole, ChangeGroupChatMemberRole, Touches, TypeOK
    <2> QED  BY <2>1, <2>2
  <1>6. ASSUME NEW w \in Workers,
               \/ SelectMembers(w)
               \/ NewMessageCommit(w)
               \/ PrivateChatWithSelf(w)
               \/ Rollback(w)
               \/ UNCHANGED storeVars
               \/ \E c \in ChatIds, u \in Users :
                    \/ NewMessageInsert(w, c, u)
                    \/ NewGroupChatMemberInsert(w, c, u)
                    \/ \E t : DeleteGroupMemberDelete(w, c, u, t)
                    \/ \E m \in MsgIds : SetReadAtStatus(m, c, u)
               \/ \E u, v \in Users : PrivateChatMissing(w, u, v)
        PROVE  Leaves
    BY <1>6 DEF SelectMembers, NewMessageCommit, CommitPost, PrivateChatWithSelf, Rollback,
                storeVars, NewMessageInsert, NewGroupChatMemberInsert, DeleteGroupMemberDelete, Post,
                SetReadAtStatus, PrivateChatMissing, Leaves
  <1>7. ASSUME NEW w \in Handlers, NEW o \in Users, NEW g \in ChatIds,
               ReceiveNewMember(w, o, g)
        PROVE  Leaves
    BY <1>6, <1>7 DEF ReceiveNewMember
  <1>8. ASSUME NEW w \in Handlers, RemoveMember(w) \/ SelectForChange(w)
        PROVE  Leaves
    BY <1>0, <1>6, <1>8 DEF RemoveMember, SelectForChange, At, JobsSound, Sound
  <1>9. ASSUME NEW w \in Handlers, NEW s \in Users, NEW o \in Users, NEW g \in ChatIds,
               \/ \E t \in LeaveTypes : ReceiveDeleteMember(w, s, o, g, t)
               \/ \E r \in Roles : ReceiveChangeRole(w, s, o, g, r)
        PROVE  Leaves
    BY <1>9 DEF ReceiveDeleteMember, ReceiveChangeRole, Leaves, storeVars
  <1>10. ASSUME NEW w \in Handlers,
                \/ ProduceInvited(w)
                \/ ProduceDeleted(w)
                \/ ReadMembers(w)
                \/ \E v \in Users : Tell(w, v)
                \/ HandlerFails(w)
         PROVE  Leaves
    BY <1>10 DEF ProduceInvited, ProduceDeleted, ReadMembers, Tell, HandlerFails, Rollback,
                 Leaves, storeVars
  <1>11. ASSUME NEW w \in Workers \ Handlers, SessionCall(w)
         PROVE  Leaves \/ Opens
    BY <1>1, <1>6, <1>11 DEF SessionCall
  <1>12. CASE UNCHANGED vars
    BY <1>12 DEF vars, storeVars, Leaves
  <1> QED
    BY <1>1, <1>2, <1>3, <1>4, <1>5, <1>7, <1>8, <1>9, <1>10, <1>11, <1>12
    DEF Next, HandlerStep, Handle, HandleNewGroupChat

\* A chat that exists, or has existed, and is not private never becomes private
NeverTurnsPrivate ==
  \A c \in ChatIds : c < nextChat /\ chats[c].type # "PRIVATE" =>
    c < nextChat' /\ chats'[c].type # "PRIVATE"

\* A step keeps private chats plain, and keeps them at all, if the requests that need
\* an admin name no private chat.
LEMMA PrivateStep ==
  ASSUME GroupInv, NoAdminInPrivate, [Next]_vars
  PROVE  KeepsPrivate /\ PrivateIsPlain' /\ NeverTurnsPrivate
  <1>0. TypeOK /\ nextChat \in Nat
    BY StoreAssumption DEF GroupInv, StoreInv, TypeOK
  <1>1. CASE Leaves
    <2>1. KeepsPrivate
      BY <1>1 DEF Leaves, KeepsPrivate
    <2>2. PrivateIsPlain'
      BY <1>1 DEF Leaves, NoAdminInPrivate, PrivateIsPlain
    <2>3. NeverTurnsPrivate
      <3>1. nextChat' >= nextChat /\ nextChat' \in Nat
        BY <1>0, <1>1 DEF Leaves
      <3>2. \A c \in ChatIds : c \in Nat
        BY DEF ChatIds
      <3> QED  BY <1>0, <1>1, <3>1, <3>2 DEF Leaves, NeverTurnsPrivate
    <2> QED  BY <2>1, <2>2, <2>3
  <1>2. CASE Opens
    <2>1. KeepsPrivate
      BY <1>2 DEF Opens, KeepsPrivate
    <2>2. PrivateIsPlain'
      <3> SUFFICES ASSUME NEW c \in ChatIds, chats'[c].type = "PRIVATE"
                   PROVE  chats'[c].author = NoUser /\ \A u \in Users : members'[c][u] # "ADMIN"
        BY DEF PrivateIsPlain
      <3>1. CASE c = nextChat
        BY <1>2, <3>1 DEF Opens
      <3>2. CASE c # nextChat
        BY <1>2, <3>2 DEF Opens, NoAdminInPrivate, PrivateIsPlain
      <3> QED  BY <3>1, <3>2
    <2>3. NeverTurnsPrivate
      BY <1>0, <1>2 DEF Opens, NeverTurnsPrivate
    <2> QED  BY <2>1, <2>2, <2>3
  <1>3. ASSUME NEW c \in ChatIds, Touches(c)
        PROVE  KeepsPrivate /\ PrivateIsPlain' /\ NeverTurnsPrivate
    <2>1. \A d \in ChatIds : \/ d = c
                             \/ chats'[d] = chats[d] /\ members'[d] = members[d]
      BY <1>3 DEF Touches
    <2>2. KeepsPrivate
      BY <1>3, <2>1 DEF Touches, KeepsPrivate
    <2>3. PrivateIsPlain'
      BY <1>3, <2>1 DEF Touches, NoAdminInPrivate, PrivateIsPlain
    <2>4. NeverTurnsPrivate
      BY <1>3, <2>1 DEF Touches, NeverTurnsPrivate
    <2> QED  BY <2>2, <2>3, <2>4
  <1>4. ASSUME NEW c \in ChatIds, NEW u \in Users, Adds(c, u)
        PROVE  KeepsPrivate /\ PrivateIsPlain' /\ NeverTurnsPrivate
    <2>1. KeepsPrivate
      BY <1>4 DEF Adds, KeepsPrivate
    <2>2. PrivateIsPlain'
      BY <1>4 DEF Adds, NoAdminInPrivate, PrivateIsPlain
    <2>3. NeverTurnsPrivate
      BY <1>4 DEF Adds, NeverTurnsPrivate
    <2> QED  BY <2>1, <2>2, <2>3
  <1> QED  BY <1>1, <1>2, <1>3, <1>4, PrivateKinds

\* The requests that need an admin keep naming chats that are not private: one that
\* has just got past its check names a chat with an admin
LEMMA AdminJobsStep ==
  ASSUME GroupInv, NoAdminInPrivate, [Next]_vars, NeverTurnsPrivate
  PROVE  AdminJobs'
  <1> DEFINE Needs(j) == j.step \in {"role", "remove", "leave"}
             Names(j) == /\ j.group \in ChatIds /\ j.group < nextChat
                         /\ chats[j.group].type # "PRIVATE"
  <1>0. /\ job \in [Handlers -> Job]
        /\ nextChat \in Nat
        /\ \A w \in Handlers : Needs(job[w]) => Names(job[w])
    BY StoreAssumption DEF GroupInv, StoreInv, TypeOK, JobsSound, NoAdminInPrivate, AdminJobs
  <1>1. SUFFICES ASSUME NEW w \in Handlers, Needs(job'[w])
                 PROVE  /\ job'[w].group \in ChatIds /\ job'[w].group < nextChat
                        /\ chats[job'[w].group].type # "PRIVATE"
    BY DEF NeverTurnsPrivate, AdminJobs
  <1>2. ASSUME Needs(job[w]), job'[w].group = job[w].group
        PROVE  /\ job'[w].group \in ChatIds /\ job'[w].group < nextChat
               /\ chats[job'[w].group].type # "PRIVATE"
    BY <1>0, <1>2
  <1>3. ASSUME NEW x \in Handlers, NEW s \in Users, NEW o \in Users, NEW g \in ChatIds,
               \/ \E t \in LeaveTypes : ReceiveDeleteMember(x, s, o, g, t)
               \/ \E r \in Roles : ReceiveChangeRole(x, s, o, g, r)
        PROVE  /\ job'[w].group \in ChatIds /\ job'[w].group < nextChat
               /\ chats[job'[w].group].type # "PRIVATE"
    <2>1. members[g][s] = "ADMIN"
      BY <1>3 DEF ReceiveDeleteMember, ReceiveChangeRole, IsAdmin
    <2>2. chats[g].type # "PRIVATE" /\ Exists(g)
      BY <2>1 DEF GroupInv, StoreInv, Integrity, NoAdminInPrivate, PrivateIsPlain
    <2>3. g < nextChat
      BY <1>0, <2>2 DEF GroupInv, StoreInv, TxInv, IdsAhead, Exists, ChatIds
    <2>4. CASE w = x
      <3>1. job'[w].group = g
        <4>1. CASE \E t \in LeaveTypes : ReceiveDeleteMember(x, s, o, g, t)
          BY <1>0, <2>4, <4>1 DEF ReceiveDeleteMember, Continue, Idle
        <4>2. CASE \E r \in Roles : ReceiveChangeRole(x, s, o, g, r)
          BY <1>0, <2>4, <4>2 DEF ReceiveChangeRole, Continue, Idle
        <4> QED  BY <1>3, <4>1, <4>2
      <3> QED  BY <2>2, <2>3, <3>1
    <2>5. CASE w # x
      <3>1. job'[w] = job[w]
        BY <1>0, <1>3, <2>5 DEF ReceiveDeleteMember, ReceiveChangeRole, Continue
      <3> QED  BY <1>1, <1>2, <3>1
    <2> QED  BY <2>4, <2>5
  <1>4. ASSUME NEW x \in Handlers, RemoveMember(x)
        PROVE  Needs(job[w]) /\ job'[w].group = job[w].group
    <2>1. CASE w = x
      BY <1>0, <1>4, <2>1 DEF RemoveMember, Continue, At, Job
    <2>2. CASE w # x
      <3>1. job'[w] = job[w]
        BY <1>0, <1>4, <2>2 DEF RemoveMember, Continue
      <3> QED  BY <1>1, <3>1
    <2> QED  BY <2>1, <2>2
  <1>5. ASSUME NEW x \in Handlers, NEW j, job' = [job EXCEPT ![x] = j], ~Needs(j)
        PROVE  Needs(job[w]) /\ job'[w].group = job[w].group
    BY <1>0, <1>1, <1>5
  <1>6. ~Needs(Idle)
    BY DEF Idle
  <1>7. ASSUME NEW x \in Handlers, NEW o \in Users, NEW g \in ChatIds,
               ReceiveNewMember(x, o, g)
        PROVE  Needs(job[w]) /\ job'[w].group = job[w].group
    BY <1>5, <1>7 DEF ReceiveNewMember, Continue, Idle
  <1>8. ASSUME NEW x \in Handlers, ChangeRole(x) \/ HandlerFails(x)
        PROVE  Needs(job[w]) /\ job'[w].group = job[w].group
    BY <1>5, <1>6, <1>8 DEF ChangeRole, HandlerFails, Done, Continue
  <1>9. ASSUME NEW x \in Handlers, JoinCommit(x) \/ LeaveCommit(x)
        PROVE  Needs(job[w]) /\ job'[w].group = job[w].group
    <2> DEFINE J(step) == [job[x] EXCEPT !.step = step, !.msg = tx[x].msg]
    <2>1. \A step \in {"invited", "removed", "members"} : ~Needs(J(step))
      BY <1>0 DEF Job
    <2>2. \E step \in {"invited", "removed", "members"} : job' = [job EXCEPT ![x] = J(step)]
      BY <1>9 DEF JoinCommit, LeaveCommit, Continue
    <2> QED  BY <1>5, <2>1, <2>2
  <1>10. ASSUME NEW x \in Handlers,
                \/ ProduceInvited(x)
                \/ ProduceDeleted(x)
                \/ ReadMembers(x)
                \/ \E v \in Users : Tell(x, v)
         PROVE  Needs(job[w]) /\ job'[w].group = job[w].group
    <2>1. job[x] \in Job
      BY <1>0
    <2>2. ASSUME ProduceInvited(x) \/ ProduceDeleted(x)
          PROVE  \E j : job' = [job EXCEPT ![x] = j] /\ ~Needs(j)
      <3> DEFINE j == [job[x] EXCEPT !.step = "members"]
      <3>1. job' = [job EXCEPT ![x] = j]
        BY <2>2 DEF ProduceInvited, ProduceDeleted, Continue
      <3>2. ~Needs(j)
        BY <2>1 DEF Job
      <3> QED  BY <3>1, <3>2
    <2>3. ASSUME ReadMembers(x)
          PROVE  \E j : job' = [job EXCEPT ![x] = j] /\ ~Needs(j)
      <3> DEFINE todo == MembersOf(job[x].group) \ {job[x].object}
                 j == [job[x] EXCEPT !.step = "tell", !.todo = todo]
      <3>1. job' = [job EXCEPT ![x] = Idle] \/ job' = [job EXCEPT ![x] = j]
        BY <2>3 DEF ReadMembers, Continue, Done
      <3>2. ~Needs(j)
        BY <2>1 DEF Job
      <3> QED  BY <1>6, <3>1, <3>2
    <2>4. ASSUME NEW v \in Users, Tell(x, v)
          PROVE  \E j : job' = [job EXCEPT ![x] = j] /\ ~Needs(j)
      <3> DEFINE j == [job[x] EXCEPT !.todo = job[x].todo \ {v}]
      <3>1. job' = [job EXCEPT ![x] = Idle] \/ job' = [job EXCEPT ![x] = j]
        BY <2>4 DEF Tell, Continue, Done
      <3>2. ~Needs(j)
        BY <2>1, <2>4 DEF Tell, At, Job
      <3> QED  BY <1>6, <3>1, <3>2
    <2> QED  BY <1>5, <1>10, <2>2, <2>3, <2>4
  <1>11. ASSUME job' = job
         PROVE  Needs(job[w]) /\ job'[w].group = job[w].group
    BY <1>1, <1>11
  <1>12. ASSUME NEW x \in Handlers,
                \/ \E u \in Users : HandleNewGroupChat(x, u)
                \/ \E u \in Users, g \in ChatIds : HandleDeleteGroupChat(x, u, g)
                \/ SelectForChange(x)
         PROVE  job' = job
    BY <1>12 DEF HandleNewGroupChat, HandleDeleteGroupChat, SelectForChange
  <1>13. ASSUME NEW x \in Workers \ Handlers, SessionCall(x)
         PROVE  job' = job
    BY <1>13 DEF SessionCall
  <1>14. UNCHANGED vars => job' = job
    BY DEF vars
  <1> HIDE DEF Needs, Names
  <1> QED
    BY <1>2, <1>3, <1>4, <1>7, <1>8, <1>9, <1>10, <1>11, <1>12, <1>13, <1>14 DEF Next, HandlerStep, Handle

\* The inductive invariant of the service with what is known of private chats.
LEMMA PrivateInvariant == Spec => [](GroupInv /\ NoAdminInPrivate)
  <1>1. Init => NoAdminInPrivate
    BY DEF Init, StoreInit, NoAdminInPrivate, PrivateIsPlain, AdminJobs, NoChat, Idle
  <1>2. GroupInv /\ NoAdminInPrivate /\ [Next]_vars => NoAdminInPrivate'
    BY PrivateStep, AdminJobsStep DEF NoAdminInPrivate
  <1> QED  BY <1>1, <1>2, GroupInvInvariant, PTL DEF Spec

\* No private chat ever has an admin or an author, and no request that has passed an
\* admin check names one.
THEOREM NoAdminInPrivateCorrect == Spec => []NoAdminInPrivate
  BY PrivateInvariant, PTL

\* A private chat and its members are there for ever, although no handler compares
\* the type of a chat.
THEOREM PrivateChatPermanentCorrect == Spec => PrivateChatPermanent
  <1>1. GroupInv /\ NoAdminInPrivate /\ [Next]_vars => [KeepsPrivate]_vars
    BY PrivateStep
  <1> QED  BY <1>1, PrivateInvariant, PTL DEF Spec, PrivateChatPermanent

-----------------------------------------------------------------------------
(* What the members are told is stored *)

\* The handler is past its commit
After(j) == j.step \in {"invited", "removed", "members", "tell"}

\* What is told of the change of a member is what a committed message says
Said(j) == Settled(j.msg, j.group, j.object, j.type)

\* A handler past its commit tells the others, of what it has committed
JobsTell ==
  \A w \in Handlers : After(job[w]) =>
    /\ job[w].object \in Users /\ job[w].type \in MemberTypes
    /\ Said(job[w])
    /\ job[w].step = "tell" => job[w].object \notin job[w].todo

ToldSound ==
  /\ told \subseteq MemberEvent
  /\ \A e \in told : e.user # e.to /\ Settled(e.msg, e.group, e.user, e.type)

\* What a step may make of the locals of handler x: it is not past its commit, it has
\* just committed, or it goes on with the same member and message
Turns(x, j) ==
  \/ ~After(j)
  \/ /\ JoinCommit(x) \/ LeaveCommit(x)
     /\ j.msg = tx[x].msg /\ j.group = job[x].group /\ j.object = job[x].object
     /\ j.type = job[x].type
     /\ j.step # "tell"
  \/ /\ After(job[x])
     /\ j.msg = job[x].msg /\ j.group = job[x].group /\ j.object = job[x].object
     /\ j.type = job[x].type
     /\ j.step = "tell" => j.object \notin j.todo

\* Every step leaves the locals of the handlers alone or is one of these.
LEMMA JobKinds ==
  ASSUME JobsSound, JobsTell, [Next]_vars
  PROVE  job' = job \/ \E x \in Handlers : \E j : job' = [job EXCEPT ![x] = j] /\ Turns(x, j)
  <1> DEFINE Good == \E x \in Handlers : \E j : job' = [job EXCEPT ![x] = j] /\ Turns(x, j)
  <1>0. \A x \in Handlers : job[x] \in Job
    BY DEF JobsSound
  <1>1. ASSUME NEW x \in Handlers, Done(x)
        PROVE  Good
    <2>1. ~After(Idle)
      BY DEF After, Idle
    <2> QED  BY <1>1, <2>1 DEF Done, Continue, Turns
  <1>2. ASSUME NEW x \in Handlers, NEW o \in Users, NEW g \in ChatIds,
               \/ ReceiveNewMember(x, o, g)
               \/ \E s \in Users : \/ \E t \in LeaveTypes : ReceiveDeleteMember(x, s, o, g, t)
                                   \/ \E r \in Roles : ReceiveChangeRole(x, s, o, g, r)
        PROVE  \E j : job' = [job EXCEPT ![x] = j] /\ ~After(j)
    <2>1. CASE ReceiveNewMember(x, o, g)
      <3> DEFINE j == [Idle EXCEPT !.step = "join", !.object = o, !.group = g,
                                   !.type = "new_member"]
      <3>1. job' = [job EXCEPT ![x] = j] /\ j.step = "join"
        BY <2>1 DEF ReceiveNewMember, Continue, Idle
      <3> QED  BY <3>1 DEF After
    <2>2. ASSUME NEW s \in Users, NEW t \in LeaveTypes, ReceiveDeleteMember(x, s, o, g, t)
          PROVE  \E j : job' = [job EXCEPT ![x] = j] /\ ~After(j)
      <3> DEFINE j == [Idle EXCEPT !.step = "remove", !.subject = s, !.object = o, !.group = g,
                                   !.type = t]
      <3>1. job' = [job EXCEPT ![x] = j] /\ j.step = "remove"
        BY <2>2 DEF ReceiveDeleteMember, Continue, Idle
      <3> QED  BY <3>1 DEF After
    <2>3. ASSUME NEW s \in Users, NEW r \in Roles, ReceiveChangeRole(x, s, o, g, r)
          PROVE  \E j : job' = [job EXCEPT ![x] = j] /\ ~After(j)
      <3> DEFINE j == [Idle EXCEPT !.step = "role", !.subject = s, !.object = o, !.group = g,
                                   !.role = r]
      <3>1. job' = [job EXCEPT ![x] = j] /\ j.step = "role"
        BY <2>3 DEF ReceiveChangeRole, Continue, Idle
      <3> QED  BY <3>1 DEF After
    <2> QED  BY <1>2, <2>1, <2>2, <2>3
  <1>11. ASSUME NEW x \in Handlers, RemoveMember(x)
         PROVE  \E j : job' = [job EXCEPT ![x] = j] /\ ~After(j)
    <2> DEFINE j == [job[x] EXCEPT !.step = "leave"]
    <2>1. job' = [job EXCEPT ![x] = j]
      BY <1>11 DEF RemoveMember, Continue
    <2>2. ~After(j)
      BY <1>0 DEF Job, After
    <2> QED  BY <2>1, <2>2
  <1>3. ASSUME NEW x \in Handlers, JoinCommit(x) \/ LeaveCommit(x)
        PROVE  Good
    <2>1. PICK step \in {"invited", "removed", "members"} :
            job' = [job EXCEPT ![x] = [job[x] EXCEPT !.step = step, !.msg = tx[x].msg]]
      BY <1>3 DEF JoinCommit, LeaveCommit, Continue
    <2> DEFINE j == [job[x] EXCEPT !.step = step, !.msg = tx[x].msg]
    <2>2. /\ j.msg = tx[x].msg /\ j.group = job[x].group /\ j.object = job[x].object
          /\ j.type = job[x].type /\ j.step # "tell"
      BY <1>0 DEF Job
    <2> QED  BY <1>3, <2>1, <2>2 DEF Turns
  <1>4. ASSUME NEW x \in Handlers, ProduceInvited(x) \/ ProduceDeleted(x)
        PROVE  Good
    <2> DEFINE j == [job[x] EXCEPT !.step = "members"]
    <2>1. job' = [job EXCEPT ![x] = j] /\ After(job[x])
      BY <1>4 DEF ProduceInvited, ProduceDeleted, Continue, At, After
    <2>2. /\ j.msg = job[x].msg /\ j.group = job[x].group /\ j.object = job[x].object
          /\ j.type = job[x].type /\ j.step # "tell"
      BY <1>0 DEF Job
    <2> QED  BY <2>1, <2>2 DEF Turns
  <1>5. ASSUME NEW x \in Handlers, ReadMembers(x), ~Done(x)
        PROVE  Good
    <2> DEFINE todo == MembersOf(job[x].group) \ {job[x].object}
               j == [job[x] EXCEPT !.step = "tell", !.todo = todo]
    <2>1. job' = [job EXCEPT ![x] = j] /\ After(job[x])
      BY <1>5 DEF ReadMembers, Continue, At, After
    <2>2. /\ j.msg = job[x].msg /\ j.group = job[x].group /\ j.object = job[x].object
          /\ j.type = job[x].type /\ j.object \notin j.todo
      BY <1>0 DEF Job
    <2> QED  BY <2>1, <2>2 DEF Turns
  <1>6. ASSUME NEW x \in Handlers, NEW v \in Users, Tell(x, v), ~Done(x)
        PROVE  Good
    <2> DEFINE j == [job[x] EXCEPT !.todo = job[x].todo \ {v}]
    <2>1. job' = [job EXCEPT ![x] = j] /\ job[x].step = "tell"
      BY <1>6 DEF Tell, Continue, At
    <2>2. job[x].object \notin job[x].todo
      BY <2>1 DEF JobsTell, After
    <2>3. /\ j.msg = job[x].msg /\ j.group = job[x].group /\ j.object = job[x].object
          /\ j.type = job[x].type /\ j.object \notin j.todo
      BY <1>0, <2>2 DEF Job
    <2> QED  BY <2>1, <2>3 DEF Turns, After
  <1> HIDE DEF Good
  <1>7. ASSUME NEW x \in Handlers, NEW j, job' = [job EXCEPT ![x] = j], ~After(j)
        PROVE  Good
    BY <1>7 DEF Good, Turns
  <1>8. ASSUME NEW x \in Handlers, ChangeRole(x) \/ HandlerFails(x)
        PROVE  Good
    BY <1>1, <1>8 DEF ChangeRole, HandlerFails
  <1>9. ASSUME \/ \E x \in Handlers, u \in Users : HandleNewGroupChat(x, u)
               \/ \E x \in Handlers, u \in Users, g \in ChatIds : HandleDeleteGroupChat(x, u, g)
               \/ \E x \in Handlers : SelectForChange(x)
               \/ \E w \in Workers \ Handlers : SessionCall(w)
               \/ UNCHANGED vars
        PROVE  job' = job
    BY <1>9 DEF HandleNewGroupChat, HandleDeleteGroupChat, SelectForChange, SessionCall, vars
  <1>10. job' = job \/ Good
    <2>1. ASSUME NEW x \in Handlers, Handle(x), ~SelectForChange(x)
          PROVE  Good
      BY <1>1, <1>3, <1>4, <1>5, <1>6, <1>7, <1>8, <1>11, <2>1 DEF Handle
    <2>2. ASSUME NEW x \in Handlers, NEW o \in Users, NEW g \in ChatIds,
                 ReceiveNewMember(x, o, g)
          PROVE  Good
      BY <1>2, <1>7, <2>2
    <2>3. ASSUME NEW x \in Handlers, NEW o \in Users, NEW g \in ChatIds, NEW s \in Users,
                 \/ \E t \in LeaveTypes : ReceiveDeleteMember(x, s, o, g, t)
                 \/ \E r \in Roles : ReceiveChangeRole(x, s, o, g, r)
          PROVE  Good
      BY <1>2, <1>7, <2>3
    <2>4. ASSUME NEW x \in Handlers, HandlerStep(x)
          PROVE  job' = job \/ Good
      BY <1>9, <2>1, <2>2, <2>3, <2>4 DEF HandlerStep
    <2> QED  BY <1>9, <2>4 DEF Next
  <1> QED  BY <1>10 DEF Good

\* Every step leaves the handlers with changes that have been committed.
LEMMA JobsTellStep ==
  ASSUME StoreInv, JobsSound, JobsTell, [Next]_vars
  PROVE  JobsTell'
  <1>1. [StoreNext]_storeVars /\ TypeOK
    BY NextCallsStore DEF StoreInv
  <1>2. job \in [Handlers -> Job]
    BY DEF JobsSound
  <1>3. ASSUME NEW w \in Handlers, After(job'[w])
        PROVE  /\ job'[w].object \in Users /\ job'[w].type \in MemberTypes
               /\ Said(job[w])'
               /\ job'[w].step = "tell" => job'[w].object \notin job'[w].todo
    <2>1. PICK m, g, o, t : /\ m = job'[w].msg /\ g = job'[w].group
                            /\ o = job'[w].object /\ t = job'[w].type
      OBVIOUS
    <2>2. CASE /\ After(job[w]) /\ m = job[w].msg /\ g = job[w].group /\ o = job[w].object
               /\ t = job[w].type
               /\ job'[w].step = "tell" => job'[w].object \notin job'[w].todo
      <3>1. o \in Users /\ t \in MemberTypes /\ Settled(m, g, o, t)
        BY <2>2 DEF JobsTell, Said
      <3>2. Settled(m, g, o, t)'
        BY <1>1, <3>1, SettledStays
      <3> QED  BY <2>1, <2>2, <3>1, <3>2 DEF Said, Settled
    <2>3. CASE /\ JoinCommit(w) \/ LeaveCommit(w)
               /\ m = tx[w].msg /\ g = job[w].group /\ o = job[w].object
               /\ t = job[w].type /\ job'[w].step # "tell"
      <3>1. /\ w \in Workers /\ Posting(w) /\ CommitPost(w) /\ tx[w].op # "none"
            /\ tx[w].type \in MemberTypes
        BY <2>3, HandlerAssumption
        DEF JoinCommit, LeaveCommit, NewGroupChatMemberCommit, DeleteGroupMemberCommit, Posting,
            StoreInv, TxInv, TypesAgree, MemberTypes
      <3>2. g = tx[w].chat /\ o = tx[w].user /\ t = tx[w].type
        BY <2>3, <3>1 DEF JobsSound, Sound
      <3>3. o \in Users
        BY <2>3 DEF JoinCommit, LeaveCommit, At, JobsSound, Sound
      <3>4. Settled(m, g, o, t)'
        BY <2>3, <3>1, <3>2, CommitSettles
      <3> QED  BY <2>1, <2>3, <3>1, <3>2, <3>3, <3>4 DEF Said, Settled
    <2>4. CASE job' = job
      <3>1. job[w].step = "tell" => job[w].object \notin job[w].todo
        BY <1>3, <2>4 DEF JobsTell
      <3> QED  BY <1>3, <2>1, <2>2, <2>4, <3>1
    <2>5. ASSUME NEW x \in Handlers, NEW j, job' = [job EXCEPT ![x] = j], Turns(x, j)
          PROVE  \/ job'[w] = job[w]
                 \/ x = w /\ job'[w] = j
      BY <1>2, <2>5
    <2>6. job'[w] = job[w] => (job[w].step = "tell" => job[w].object \notin job[w].todo)
      BY <1>3 DEF JobsTell
    <2> QED  BY <1>3, <2>1, <2>2, <2>3, <2>4, <2>5, <2>6, JobKinds DEF Turns
  <1> QED  BY <1>3 DEF JobsTell, After, Said

\* Every step tells only of such changes, and nobody of himself.
LEMMA ToldSoundStep ==
  ASSUME StoreInv, JobsSound, JobsTell, ToldSound, [Next]_vars
  PROVE  ToldSound'
  <1>1. [StoreNext]_storeVars
    BY NextCallsStore
  <1>2. \/ told' = told
        \/ \E w \in Handlers, v \in Users :
             Tell(w, v) /\ told' = told \union {EventFor(v, job[w])}
    <2>1. ASSUME NEW w \in Handlers, NEW v \in Users, Tell(w, v)
          PROVE  told' = told \/ told' = told \union {EventFor(v, job[w])}
      BY <2>1 DEF Tell
    <2>2. ASSUME NEW w \in Handlers, HandlerStep(w), told' # told
          PROVE  \E v \in Users : Tell(w, v)
      BY <2>2
      DEF HandlerStep, Handle, HandleNewGroupChat, HandleDeleteGroupChat, Request,
          ReceiveNewMember, ReceiveDeleteMember, ReceiveChangeRole, ChangeRole,
          SelectForChange, JoinCommit, RemoveMember, LeaveCommit, ProduceInvited,
          ProduceDeleted, ReadMembers, HandlerFails
    <2>3. (\E w \in Workers \ Handlers : SessionCall(w)) \/ UNCHANGED vars => told' = told
      BY DEF SessionCall, vars
    <2> QED  BY <2>1, <2>2, <2>3 DEF Next
  <1>3. ASSUME NEW w \in Handlers, NEW v \in Users, Tell(w, v),
               NEW e, e = EventFor(v, job[w])
        PROVE  e \in MemberEvent /\ e.user # e.to /\ Settled(e.msg, e.group, e.user, e.type)
    <2>1. job[w].step = "tell" /\ v \in job[w].todo
      BY <1>3 DEF Tell, At
    <2>2. /\ job[w].object \in Users /\ job[w].type \in MemberTypes /\ Said(job[w])
          /\ v # job[w].object
      BY <2>1 DEF JobsTell, After
    <2>3. /\ e.to = v /\ e.msg = job[w].msg /\ e.group = job[w].group
          /\ e.user = job[w].object /\ e.type = job[w].type
      BY <1>3 DEF EventFor
    <2>4. e \in MemberEvent
      BY <1>3, <2>2 DEF EventFor, MemberEvent, Said, Settled
    <2> QED  BY <2>2, <2>3, <2>4 DEF Said
  <1>4. ASSUME NEW e \in told'
        PROVE  e \in MemberEvent /\ e.user # e.to /\ Settled(e.msg, e.group, e.user, e.type)
    BY <1>2, <1>3, <1>4 DEF ToldSound
  <1>5. ASSUME NEW e \in told'
        PROVE  e \in MemberEvent /\ e.user # e.to /\ Settled(e.msg, e.group, e.user, e.type)'
    <2>1. PICK m, g, u, t : m = e.msg /\ g = e.group /\ u = e.user /\ t = e.type
      OBVIOUS
    <2>2. Settled(m, g, u, t)
      BY <1>4, <1>5, <2>1
    <2>3. Settled(m, g, u, t)'
      BY <1>1, <2>2, SettledStays
    <2> QED  BY <1>4, <1>5, <2>1, <2>3 DEF Settled
  <1> QED  BY <1>5 DEF ToldSound

\* The inductive invariant, for what the members are told and for the chat lists.
TellInv ==
  /\ GroupInv
  /\ JobsTell
  /\ ToldSound
  /\ listed \in [Users -> SUBSET ChatIds]
  /\ requests \in 0..MaxRequests

\* It holds in every state.
LEMMA TellInvInvariant == Spec => []TellInv
  <1>1. Init => JobsTell /\ ToldSound /\ listed \in [Users -> SUBSET ChatIds]
                         /\ requests \in 0..MaxRequests
    BY HandlerAssumption DEF Init, JobsTell, ToldSound, After, Idle
  <1>2. TellInv /\ [Next]_vars => (listed \in [Users -> SUBSET ChatIds])'
    <2> SUFFICES ASSUME TellInv, [Next]_vars PROVE listed' \in [Users -> SUBSET ChatIds]
      OBVIOUS
    <2>1. listed \in [Users -> SUBSET ChatIds]
      BY DEF TellInv
    <2>2. ASSUME NEW w \in Handlers, NEW u \in Users, HandleNewGroupChat(w, u)
          PROVE  listed' \in [Users -> SUBSET ChatIds]
      BY <2>1, <2>2 DEF HandleNewGroupChat, NewGroupChat
    <2>3. ASSUME NEW w \in Handlers, LeaveCommit(w)
          PROVE  listed' \in [Users -> SUBSET ChatIds]
      BY <2>1, <2>3 DEF LeaveCommit
    <2>4. ASSUME NEW w \in Handlers, ProduceInvited(w) \/ ProduceDeleted(w)
          PROVE  listed' \in [Users -> SUBSET ChatIds]
      <3>1. job[w].group \in ChatIds
        BY <2>4 DEF ProduceInvited, ProduceDeleted, At, TellInv, JobsTell, After, Said, Settled
      <3> QED  BY <2>1, <2>4, <3>1 DEF ProduceInvited, ProduceDeleted
    <2> QED
      BY <2>1, <2>2, <2>3, <2>4, ZenonT(60)
      DEF Next, vars, HandlerStep, Handle, HandleDeleteGroupChat, ReceiveNewMember,
          ReceiveDeleteMember, ReceiveChangeRole, ChangeRole, SelectForChange, JoinCommit,
          RemoveMember, ReadMembers, Tell, HandlerFails, SessionCall
  <1>3. TellInv /\ [Next]_vars => (requests \in 0..MaxRequests)'
    <2> SUFFICES ASSUME TellInv, [Next]_vars PROVE (requests \in 0..MaxRequests)'
      OBVIOUS
    <2>1. requests' = requests \/ \E w \in Handlers : Request(w)
      <3>1. ASSUME NEW w \in Handlers, HandlerStep(w)
            PROVE  requests' = requests \/ Request(w)
        BY <3>1
        DEF HandlerStep, Handle, HandleNewGroupChat, HandleDeleteGroupChat, ReceiveNewMember,
            ReceiveDeleteMember, ReceiveChangeRole, ChangeRole, SelectForChange, JoinCommit,
            RemoveMember, LeaveCommit, ProduceInvited, ProduceDeleted, ReadMembers, Tell, HandlerFails
      <3>2. (\E w \in Workers \ Handlers : SessionCall(w)) \/ UNCHANGED vars => requests' = requests
        BY DEF SessionCall, vars
      <3> QED  BY <3>1, <3>2 DEF Next
    <2> QED  BY <2>1, HandlerAssumption DEF Request, TellInv
  <1>4. TellInv /\ [Next]_vars => JobsTell' /\ ToldSound'
    BY JobsTellStep, ToldSoundStep DEF TellInv, GroupInv
  <1> QED  BY <1>1, <1>2, <1>3, <1>4, GroupInvInvariant, PTL DEF Spec, TellInv

\* The types: in particular each argument of a call and each id a client is told is one.
THEOREM TypeInvCorrect == Spec => []TypeInv
  <1>1. TellInv => TypeInv
    BY DEF TellInv, GroupInv, StoreInv, JobsSound, ToldSound, TypeInv
  <1> QED  BY <1>1, TellInvInvariant, PTL

\* Whoever is told that a member came or went is told what a committed message says, of
\* that type and about that member, and it is not himself; the message can only be gone
\* with its chat.
THEOREM ToldIsStoredCorrect == Spec => []ToldIsStored
  <1>1. TellInv => ToldIsStored
    BY DEF TellInv, ToldSound, ToldIsStored, Settled
  <1> QED  BY <1>1, TellInvInvariant, PTL

-----------------------------------------------------------------------------
(* The list of chats of a client *)

\* One request is in progress at a time
OneAtATime == \A w, x \in Handlers : w = x

IsMember(u, c) == members[c][u] # "NONE"

\* The client of u is about to be told of what has happened to his membership of c
About(w, u, c) == job[w].step \in {"invited", "removed"} /\ job[w].group = c /\ job[w].object = u

\* What a handler is about to say of the member of its request is still so, and the DELETE
\* that has found him, or has not, still does
JobsMatch ==
  \A w \in Handlers :
    /\ job[w].step = "invited" => IsMember(job[w].object, job[w].group)
    /\ job[w].step = "removed" => ~IsMember(job[w].object, job[w].group)
    /\ job[w].step = "leave" => (tx[w].hit <=> IsMember(job[w].object, job[w].group))

\* The list of u holds chat c if he is a member, and if he is not, only when the last that
\* is said of him is that he left
Follows(u, c) ==
  /\ IsMember(u, c) => c \in listed[u]
  /\ c \in listed[u] => IsMember(u, c) \/ LastSaysLeft(u, c)

\* The lists follow the groups, except for the one a client is about to be told of
ListsFollow ==
  \A u \in Reachable, c \in ChatIds : chats[c].type = "GROUP" =>
    Follows(u, c) \/ \E w \in Handlers : About(w, u, c)

ListedBelow == \A u \in Users, c \in ChatIds : c \in listed[u] => c < nextChat

\* What a handler is about to say of a member is said after all that has been said
Newest ==
  \A w \in Handlers : Posting(w) =>
    \A m \in MsgIds : messages[m].type \in MemberTypes => m < tx[w].msg

ListInv == JobsMatch /\ ListsFollow /\ ListedBelow

\* The chat of a request that changes a member exists, or has existed.
LEMMA JobNames ==
  ASSUME TellInv, NEW w \in Handlers, job[w].step \in {"join", "leave", "invited", "removed"}
  PROVE  /\ job[w].group \in ChatIds /\ job[w].group < nextChat /\ job[w].group # nextChat
         /\ job[w].object \in Users
  <1>0. TypeOK /\ PostersHold /\ IdsAhead /\ w \in Workers /\ nextChat \in Nat
    BY HandlerAssumption, StoreAssumption DEF TellInv, GroupInv, StoreInv, TxInv, TypeOK
  <1>1. CASE job[w].step \in {"invited", "removed"}
    <2>1. /\ job[w].group \in ChatIds /\ job[w].object \in Users
          /\ job[w].group < nextChat
      BY <1>1 DEF TellInv, JobsTell, After, Said, Settled
    <2> QED  BY <1>0, <2>1 DEF ChatIds
  <1>2. CASE job[w].step \in {"join", "leave"}
    <2>1. /\ Posting(w) /\ tx[w].chat = job[w].group
          /\ job[w].group \in ChatIds /\ job[w].object \in Users
      BY <1>2 DEF TellInv, GroupInv, JobsSound, Sound, Posting
    <2>2. Exists(job[w].group)
      BY <1>0, <2>1 DEF PostersHold
    <2> QED  BY <1>0, <2>1, <2>2 DEF IdsAhead, Exists, ChatIds
  <1> QED  BY <1>1, <1>2

\* The messages of c about the member u are the same after the step
Same(u, c) ==
  \A m \in MsgIds : /\ Says(m, c, u)' <=> Says(m, c, u)
                    /\ Says(m, c, u) => messages'[m].type = messages[m].type

LEMMA LastStays ==
  ASSUME NEW u, NEW c, Same(u, c), LastSaysLeft(u, c)
  PROVE  LastSaysLeft(u, c)'
  <1>1. PICK m \in MsgIds : /\ Says(m, c, u) /\ messages[m].type = "left_member"
                            /\ \A n \in MsgIds : Says(n, c, u) => n <= m
    BY DEF LastSaysLeft
  <1>2. Says(m, c, u)' /\ messages'[m].type = "left_member"
    BY <1>1 DEF Same, Says
  <1>3. ASSUME NEW n \in MsgIds, Says(n, c, u)'
        PROVE  n <= m
    <2>1. Says(n, c, u)
      BY <1>3 DEF Same, Says
    <2> QED  BY <1>1, <2>1
  <1> QED  BY <1>2, <1>3 DEF LastSaysLeft, Says

\* A step that leaves the lists and the groups alone, and begins no change of a member.
LEMMA SilentStep ==
  ASSUME TellInv, ListInv, UNCHANGED listed, nextChat' \in {nextChat, nextChat + 1},
         \A c \in ChatIds : chats'[c].type = "GROUP" =>
           /\ chats[c].type = "GROUP"
           /\ \A u \in Users : /\ members'[c][u] = "NONE" <=> members[c][u] = "NONE"
                               /\ Same(u, c),
         \A w \in Handlers :
           \/ /\ job[w].step \notin {"invited", "removed"}
              /\ job'[w].step \notin {"invited", "removed", "leave"}
           \/ /\ job'[w] = job[w] /\ tx'[w].hit = tx[w].hit
              /\ job[w].step \in {"invited", "removed", "leave"} =>
                   (members'[job[w].group][job[w].object] = "NONE"
                      <=> members[job[w].group][job[w].object] = "NONE")
  PROVE  ListInv'
  <1>1. JobsMatch'
    <2> SUFFICES ASSUME NEW w \in Handlers
                 PROVE  /\ job'[w].step = "invited" => IsMember(job[w].object, job[w].group)'
                        /\ job'[w].step = "removed" => ~IsMember(job[w].object, job[w].group)'
                        /\ job'[w].step = "leave" =>
                             (tx'[w].hit <=> IsMember(job[w].object, job[w].group)')
      BY DEF JobsMatch, IsMember
    <2> QED  BY DEF ListInv, JobsMatch, IsMember
  <1>2. ListsFollow'
    <2> SUFFICES ASSUME NEW u \in Reachable, NEW c \in ChatIds, chats'[c].type = "GROUP"
                 PROVE  Follows(u, c)' \/ \E w \in Handlers : About(w, u, c)'
      BY DEF ListsFollow
    <2>1. Follows(u, c) \/ \E w \in Handlers : About(w, u, c)
      BY DEF ListInv, ListsFollow
    <2>2. u \in Users
      BY HandlerAssumption
    <2>3. ASSUME NEW w \in Handlers, About(w, u, c)
          PROVE  About(w, u, c)'
      BY <2>3 DEF About
    <2>4. LastSaysLeft(u, c) => LastSaysLeft(u, c)'
      BY <2>2, LastStays
    <2>5. Follows(u, c) => Follows(u, c)'
      BY <2>2, <2>4 DEF Follows, IsMember
    <2> QED  BY <2>1, <2>3, <2>5
  <1>3. ListedBelow'
    <2>1. nextChat \in Nat /\ \A c \in ChatIds : c \in Nat
      BY StoreAssumption DEF TellInv, GroupInv, StoreInv, TypeOK, ChatIds
    <2> QED  BY <2>1 DEF ListInv, ListedBelow
  <1> QED  BY <1>1, <1>2, <1>3 DEF ListInv

\* A step of the request in progress: what it does to the member it is about, to the
\* list of his client and to what is said of him, it does to nobody else.
LEMMA MemberStep ==
  ASSUME TellInv, ListInv, OneAtATime,
         NEW w \in Handlers, NEW g \in ChatIds, NEW o \in Users, g < nextChat,
         job[w].group = g /\ job[w].object = o, job'[w].group = g /\ job'[w].object = o,
         UNCHANGED nextChat,
         \A c \in ChatIds : chats'[c] = chats[c],
         \A u \in Users, c \in ChatIds : u # o \/ c # g =>
           /\ members'[c][u] = "NONE" <=> members[c][u] = "NONE"
           /\ c \in listed'[u] <=> c \in listed[u]
           /\ Same(u, c),
         job'[w].step = "invited" => members'[g][o] # "NONE",
         job'[w].step = "removed" => members'[g][o] = "NONE",
         job'[w].step = "leave" => (tx'[w].hit <=> members'[g][o] # "NONE"),
         \/ job'[w].step \in {"invited", "removed"}
         \/ \A u \in Reachable, c \in ChatIds :
              u = o /\ c = g /\ chats[c].type = "GROUP" => Follows(u, c)'
  PROVE  ListInv'
  <1>1. JobsMatch'
    <2> SUFFICES ASSUME NEW x \in Handlers
                 PROVE  /\ job'[x].step = "invited" => members'[job'[x].group][job'[x].object] # "NONE"
                        /\ job'[x].step = "removed" => members'[job'[x].group][job'[x].object] = "NONE"
                        /\ job'[x].step = "leave" =>
                             (tx'[x].hit <=> members'[job'[x].group][job'[x].object] # "NONE")
      BY DEF JobsMatch, IsMember
    <2>1. x = w
      BY DEF OneAtATime
    <2> QED  BY <2>1
  <1>2. ListsFollow'
    <2> SUFFICES ASSUME NEW u \in Reachable, NEW c \in ChatIds, chats'[c].type = "GROUP"
                 PROVE  Follows(u, c)' \/ \E x \in Handlers : About(x, u, c)'
      BY DEF ListsFollow
    <2>1. u \in Users /\ chats[c].type = "GROUP"
      BY HandlerAssumption
    <2>2. CASE u = o /\ c = g
      BY <2>1, <2>2 DEF About
    <2>3. CASE u # o \/ c # g
      <3>1. ~\E x \in Handlers : About(x, u, c)
        BY <2>3 DEF About, OneAtATime
      <3>2. Follows(u, c)
        BY <2>1, <3>1 DEF ListInv, ListsFollow
      <3>3. LastSaysLeft(u, c) => LastSaysLeft(u, c)'
        BY <2>1, <2>3, LastStays
      <3> QED  BY <2>1, <2>3, <3>2, <3>3 DEF Follows, IsMember
    <2> QED  BY <2>2, <2>3
  <1>3. ListedBelow'
    BY DEF ListInv, ListedBelow
  <1> QED  BY <1>1, <1>2, <1>3 DEF ListInv

\* The messages about members that a commit may write are those of the handler.
LEMMA SessionsPostPlain ==
  ASSUME TellInv, NEW x \in Workers \ Handlers, Posting(x)
  PROVE  tx[x].type = "new_message"
  BY DEF TellInv, GroupInv, StoreInv, TxInv, TypesAgree, JobsSound, Posting

\* The calls of the connections change no list and no group.
LEMMA ListInvSession ==
  ASSUME TellInv, ListInv, NEW x \in Workers \ Handlers, SessionCall(x)
  PROVE  ListInv'
  <1>0. TypeOK /\ nextChat \in Nat
    BY StoreAssumption DEF TellInv, GroupInv, StoreInv, TypeOK
  <1>1. /\ UNCHANGED <<job, listed>>
        /\ \A w \in Handlers : tx'[w] = tx[w]
    <2>1. \A w \in Handlers : w \in Workers /\ w # x
      BY HandlerAssumption
    <2> QED
      BY <1>0, <2>1 DEF SessionCall, NewMessageInsert, Post, PrivateChatMissing, SetReadAtStatus,
                   SelectMembers, NewMessageCommit, CommitPost, PrivateChatCreate,
                   PrivateChatWithSelf, Rollback, TypeOK
  <1>2. /\ nextChat' \in {nextChat, nextChat + 1}
        /\ \A c \in ChatIds : \/ c = nextChat /\ chats'[c].type # "GROUP"
                              \/ chats'[c] = chats[c] /\ members'[c] = members[c]
    <2>1. CASE PrivateChatCreate(x)
      BY <1>0, <2>1 DEF PrivateChatCreate, TypeOK
    <2>2. CASE ~PrivateChatCreate(x)
      <3>1. nextChat' \in {nextChat, nextChat + 1} /\ UNCHANGED <<chats, members>>
        BY <2>2 DEF SessionCall, NewMessageInsert, Post, PrivateChatMissing, SetReadAtStatus,
                    SelectMembers, NewMessageCommit, CommitPost, PrivateChatWithSelf, Rollback
      <3> QED  BY <3>1
    <2> QED  BY <2>1, <2>2
  <1>3. \A w \in Handlers : job[w].step \in {"invited", "removed", "leave"} =>
          members'[job[w].group] = members[job[w].group]
    BY <1>2, JobNames
  <1>4. \A u \in Users, c \in ChatIds : Same(u, c)
    <2>1. CASE NewMessageCommit(x)
      <3>1. Posting(x) /\ CommitPost(x)
        BY <2>1 DEF NewMessageCommit, Posting
      <3>2. Shows(x) /\ tx[x].type = "new_message"
        BY <3>1, CommitEffect, SessionsPostPlain DEF TellInv, GroupInv, StoreInv
      <3>3. \A m \in MsgIds : \/ messages'[m] = messages[m]
                              \/ messages[m].type = "NONE" /\ messages'[m].type = "new_message"
        BY <3>2 DEF Shows
      <3> QED  BY <3>3 DEF Same, Says, MemberTypes, LeaveTypes
    <2>2. CASE ~NewMessageCommit(x)
      <3>1. UNCHANGED messages
        BY <2>2 DEF SessionCall, NewMessageInsert, Post, PrivateChatMissing, SetReadAtStatus,
                    SelectMembers, PrivateChatCreate, PrivateChatWithSelf, Rollback
      <3> QED  BY <3>1 DEF Same, Says
    <2> QED  BY <2>1, <2>2
  <1> QED  BY <1>1, <1>2, <1>3, <1>4, SilentStep

\* The requests that end where they begin: only a new group comes into a list.
LEMMA ListInvGroups ==
  ASSUME TellInv, ListInv, OneAtATime, NEW w \in Handlers,
         \/ \E u \in Users : HandleNewGroupChat(w, u)
         \/ \E u \in Users, g \in ChatIds : HandleDeleteGroupChat(w, u, g)
  PROVE  ListInv'
  <1>0. TypeOK /\ nextChat \in Nat /\ \A c \in ChatIds : c \in Nat
    BY StoreAssumption DEF TellInv, GroupInv, StoreInv, TypeOK, ChatIds
  <1>1. \A x \in Handlers : job[x].step = "idle" /\ job'[x] = job[x]
    BY DEF HandleNewGroupChat, HandleDeleteGroupChat, Request, At, OneAtATime
  <1>2. ASSUME NEW u \in Users, HandleNewGroupChat(w, u)
        PROVE  ListInv'
    <2>1. /\ nextChat \in ChatIds /\ nextChat' = nextChat + 1
          /\ listed' = [listed EXCEPT ![u] = @ \union {nextChat}]
          /\ \A c \in ChatIds : c # nextChat => chats'[c] = chats[c] /\ members'[c] = members[c]
          /\ \A v \in Users : members'[nextChat][v] # "NONE" <=> v = u
      BY <1>0, <1>2 DEF HandleNewGroupChat, NewGroupChat, TypeOK
    <2>2. \A v \in Users : nextChat \notin listed[v]
      BY <1>0, <2>1 DEF ListInv, ListedBelow
    <2>3. \A v \in Users : listed'[v] = IF v = u THEN listed[v] \union {nextChat} ELSE listed[v]
      BY <2>1 DEF TellInv
    <2>4. JobsMatch'
      BY <1>1 DEF JobsMatch
    <2>5. ListedBelow'
      BY <1>0, <2>1, <2>3 DEF ListInv, ListedBelow
    <2>6. ListsFollow'
      <3> SUFFICES ASSUME NEW v \in Reachable, NEW c \in ChatIds, chats'[c].type = "GROUP"
                   PROVE  Follows(v, c)'
        BY DEF ListsFollow
      <3>0. v \in Users /\ UNCHANGED messages
        BY <1>2, HandlerAssumption DEF HandleNewGroupChat, NewGroupChat
      <3>1. CASE c = nextChat
        BY <2>1, <2>2, <2>3, <3>0, <3>1 DEF Follows, IsMember
      <3>2. CASE c # nextChat
        <4>1. Follows(v, c)
          BY <1>1, <2>1, <3>2 DEF ListInv, ListsFollow, About
        <4>2. LastSaysLeft(v, c) => LastSaysLeft(v, c)'
          BY <3>0 DEF LastSaysLeft, Says
        <4> QED  BY <2>1, <2>3, <3>0, <3>2, <4>1, <4>2 DEF Follows, IsMember
      <3> QED  BY <3>1, <3>2
    <2> QED  BY <2>4, <2>5, <2>6 DEF ListInv
  <1>3. ASSUME NEW u \in Users, NEW g \in ChatIds, HandleDeleteGroupChat(w, u, g)
        PROVE  ListInv'
    <2>1. PICK c \in ChatIds : DeleteGroupChat(w, c, g)
      BY <1>3 DEF HandleDeleteGroupChat, DeleteGroupChatArgs
    <2>2. /\ UNCHANGED nextChat
          /\ chats'[c].type # "GROUP"
          /\ \A d \in ChatIds : d # c => chats'[d] = chats[d] /\ members'[d] = members[d]
      BY <1>0, <2>1 DEF DeleteGroupChat, TypeOK, NoChat
    <2>3. UNCHANGED listed
      BY <1>3 DEF HandleDeleteGroupChat
    <2>4. UNCHANGED tx
      BY <2>1 DEF DeleteGroupChat
    <2>5. \A d \in ChatIds, v \in Users : d # c => Same(v, d)
      <3>1. \A m \in MsgIds : messages'[m] = IF messages[m].chat = c THEN NoMessage ELSE messages[m]
        BY <2>1 DEF DeleteGroupChat
      <3> QED  BY <3>1 DEF Same, Says, NoMessage, MemberTypes, LeaveTypes
    <2> QED  BY <1>1, <2>2, <2>3, <2>4, <2>5, SilentStep
  <1> QED  BY <1>2, <1>3

\* The steps of a request that change no member and tell the client of none.
LEMMA ListInvSilent ==
  ASSUME TellInv, ListInv, ~Faults, OneAtATime, NEW w \in Handlers,
         \/ \E o \in Users, g \in ChatIds :
              \/ ReceiveNewMember(w, o, g)
              \/ \E s \in Users : \/ \E t \in LeaveTypes : ReceiveDeleteMember(w, s, o, g, t)
                                  \/ \E r \in Roles : ReceiveChangeRole(w, s, o, g, r)
         \/ ChangeRole(w) \/ ReadMembers(w) \/ HandlerFails(w)
         \/ \E v \in Users : Tell(w, v)
  PROVE  ListInv'
  <1>0. TypeOK /\ job \in [Handlers -> Job] /\ job[w] \in Job
        /\ \A x \in Handlers : x = w
    BY DEF TellInv, GroupInv, StoreInv, JobsSound, OneAtATime
  <1>1. UNCHANGED <<listed, nextChat, chats, messages>>
    BY DEF ReceiveNewMember, NewGroupChatMemberInsert, Post, ReceiveDeleteMember,
           ReceiveChangeRole, ChangeRole, ChangeGroupChatMemberRole, ReadMembers, HandlerFails,
           Rollback, Tell, storeVars
  <1>2. \A c \in ChatIds, u \in Users : members'[c][u] = "NONE" <=> members[c][u] = "NONE"
    <2>1. CASE ChangeRole(w)
      <3>1. /\ members' = [members EXCEPT ![job[w].group][job[w].object] =
                             IF @ = "NONE" THEN @ ELSE job[w].role]
            /\ job[w].role # "NONE"
        BY <2>1 DEF ChangeRole, ChangeGroupChatMemberRole, At, TellInv, GroupInv, JobsSound,
                    Sound, Roles
      <3> QED  BY <1>0, <3>1 DEF TypeOK
    <2>2. CASE ~ChangeRole(w)
      <3>1. UNCHANGED members
        BY <2>2 DEF ReceiveNewMember, NewGroupChatMemberInsert, Post, ReceiveDeleteMember,
               ReceiveChangeRole, ReadMembers, HandlerFails, Rollback, Tell, storeVars
      <3> QED  BY <3>1
    <2> QED  BY <2>1, <2>2
  <1>3. /\ job[w].step \notin {"invited", "removed"}
        /\ job'[w].step \notin {"invited", "removed", "leave"}
    <2>1. ASSUME job' = [job EXCEPT ![w] = Idle] PROVE job'[w].step = "idle"
      BY <1>0, <2>1 DEF Idle
    <2>2. ASSUME NEW o \in Users, NEW g \in ChatIds, ReceiveNewMember(w, o, g)
          PROVE  job[w].step = "idle" /\ job'[w].step = "join"
      BY <1>0, <2>2 DEF ReceiveNewMember, Request, At, Continue, Idle
    <2>3. ASSUME NEW o \in Users, NEW g \in ChatIds, NEW s \in Users, NEW t \in LeaveTypes,
                 ReceiveDeleteMember(w, s, o, g, t)
          PROVE  job[w].step = "idle" /\ job'[w].step = "remove"
      BY <1>0, <2>3 DEF ReceiveDeleteMember, Request, At, Continue, Idle
    <2>4. ASSUME NEW o \in Users, NEW g \in ChatIds, NEW s \in Users, NEW r \in Roles,
                 ReceiveChangeRole(w, s, o, g, r)
          PROVE  job[w].step = "idle" /\ job'[w].step = "role"
      BY <1>0, <2>4 DEF ReceiveChangeRole, Request, At, Continue, Idle
    <2>5. CASE ChangeRole(w)
      BY <2>1, <2>5 DEF ChangeRole, Done, Continue, At
    <2>6. CASE HandlerFails(w)
      BY <2>1, <2>6 DEF HandlerFails, Done, Continue
    <2>7. CASE ReadMembers(w)
      <3>1. \/ job' = [job EXCEPT ![w] = Idle]
            \/ \E t : job' = [job EXCEPT ![w] = [job[w] EXCEPT !.step = "tell", !.todo = t]]
        BY <2>7 DEF ReadMembers, Done, Continue
      <3>2. \A t : [job[w] EXCEPT !.step = "tell", !.todo = t].step = "tell"
        BY <1>0 DEF Job
      <3>3. job'[w].step \in {"idle", "tell"}
        BY <1>0, <2>1, <3>1, <3>2
      <3> QED  BY <2>7, <3>3 DEF ReadMembers, At
    <2>8. ASSUME NEW v \in Users, Tell(w, v)
          PROVE  job[w].step = "tell" /\ job'[w].step \in {"idle", "tell"}
      <3>1. /\ job[w].step = "tell"
            /\ \/ job' = [job EXCEPT ![w] = Idle]
               \/ \E t : job' = [job EXCEPT ![w] = [job[w] EXCEPT !.todo = t]]
        BY <2>8 DEF Tell, Done, Continue, At
      <3>2. \A t : [job[w] EXCEPT !.todo = t].step = job[w].step
        BY <1>0 DEF Job
      <3> QED  BY <1>0, <2>1, <3>1, <3>2
    <2> QED  BY <2>2, <2>3, <2>4, <2>5, <2>6, <2>7, <2>8
  <1>4. \A c \in ChatIds, u \in Users : Same(u, c)
    BY <1>1 DEF Same, Says
  <1> QED  BY <1>0, <1>1, <1>2, <1>3, <1>4, SilentStep

\* Reading the members is no step of the lists.
LEMMA ListInvSelect ==
  ASSUME TellInv, ListInv, NEW w \in Handlers, SelectForChange(w)
  PROVE  ListInv'
  <1>1. UNCHANGED <<job, listed, chats, members, messages, nextChat>>
    BY DEF SelectForChange, SelectMembers
  <1>2. \A x \in Handlers : tx'[x].hit = tx[x].hit
    BY HandlerAssumption
    DEF TellInv, GroupInv, StoreInv, SelectForChange, SelectMembers, TypeOK, Tx
  <1>3. \A c \in ChatIds, u \in Users : Same(u, c)
    BY <1>1 DEF Same, Says
  <1> QED  BY <1>1, <1>2, <1>3, SilentStep

\* The steps of a request that change a member or tell his client.
LEMMA ListInvMember ==
  ASSUME TellInv, ListInv, Newest, ~Faults, OneAtATime, NEW w \in Handlers,
         \/ JoinCommit(w) \/ RemoveMember(w) \/ LeaveCommit(w)
         \/ ProduceInvited(w) \/ ProduceDeleted(w)
  PROVE  ListInv'
  <1> DEFINE g == job[w].group
             o == job[w].object
  <1>0. /\ TypeOK /\ RowsPending /\ job \in [Handlers -> Job] /\ job[w] \in Job
        /\ w \in Workers /\ Sound(job[w], tx[w])
        /\ listed \in [Users -> SUBSET ChatIds]
        /\ nextChat \in Nat
    BY HandlerAssumption, StoreAssumption
    DEF TellInv, GroupInv, StoreInv, TxInv, JobsSound, TypeOK
  <1>1. /\ g \in ChatIds /\ o \in Users
        /\ job[w].step \in {"join", "leave", "remove", "invited", "removed"}
    BY <1>0, JobNames DEF Sound, JoinCommit, RemoveMember, LeaveCommit, ProduceInvited,
                          ProduceDeleted, At
  <1>2. job[w].step # "remove" => g < nextChat
    BY <1>1, JobNames
  <1>k. \A s \in Steps, m \in MsgIds \union {0} :
          LET j == [job[w] EXCEPT !.step = s, !.msg = m]
          IN  j.step = s /\ j.group = g /\ j.object = o
    BY <1>0 DEF Job
  <1>l. \A s \in Steps :
          LET j == [job[w] EXCEPT !.step = s]
          IN  j.step = s /\ j.group = g /\ j.object = o
    BY <1>0 DEF Job
  <1>m. tx[w].msg \in MsgIds \union {0}
    BY <1>0 DEF TypeOK, Tx
  <1>s. ASSUME JoinCommit(w) \/ LeaveCommit(w)
        PROVE  /\ \A u \in Users, c \in ChatIds : u # o \/ c # g => Same(u, c)
               /\ tx[w].msg \in MsgIds
               /\ messages'[tx[w].msg] = [chat |-> g, from |-> o, type |-> job[w].type]
               /\ \A n \in MsgIds : messages'[n].type \in MemberTypes => n <= tx[w].msg
    <2>1. Posting(w) /\ CommitPost(w) /\ tx[w].op # "none"
      BY <1>s DEF JoinCommit, LeaveCommit, NewGroupChatMemberCommit, DeleteGroupMemberCommit,
                  Posting
    <2>2. Shows(w)
      BY <1>0, <2>1, CommitEffect DEF TellInv, GroupInv, StoreInv
    <2>3. tx[w].chat = g /\ tx[w].user = o /\ tx[w].type = job[w].type
      BY <1>0, <2>1 DEF Sound
    <2>4. /\ tx[w].msg \in MsgIds /\ messages[tx[w].msg].type = "NONE"
          /\ messages'[tx[w].msg] = [chat |-> g, from |-> o, type |-> job[w].type]
          /\ \A m \in MsgIds : m # tx[w].msg => messages'[m] = messages[m]
      BY <2>2, <2>3 DEF Shows
    <2>5. \A u \in Users, c \in ChatIds : u # o \/ c # g => Same(u, c)
      BY <2>4 DEF Same, Says, MemberTypes, LeaveTypes
    <2>6. \A n \in MsgIds : messages'[n].type \in MemberTypes => n <= tx[w].msg
      <3>1. \A n \in MsgIds : messages[n].type \in MemberTypes => n < tx[w].msg
        BY <2>1 DEF Newest
      <3>2. \A n \in MsgIds : n \in Nat
        BY DEF MsgIds
      <3> QED  BY <2>4, <3>1, <3>2
    <2> QED  BY <2>4, <2>5, <2>6
  <1>3. CASE JoinCommit(w)
    <2>1. job'[w].step = "invited" /\ job'[w].group = g /\ job'[w].object = o
      BY <1>0, <1>k, <1>m, <1>3 DEF JoinCommit, Continue, Steps
    <2>2. /\ UNCHANGED <<listed, chats, nextChat>> /\ tx[w].chat = g /\ tx[w].user = o
          /\ members' = [members EXCEPT ![g][o] = "MEMBER"]
      BY <1>0, <1>3 DEF JoinCommit, NewGroupChatMemberCommit, CommitPost, Sound
    <2>3. /\ members'[g][o] # "NONE"
          /\ \A u \in Users, c \in ChatIds : u # o \/ c # g => members'[c][u] = members[c][u]
      BY <1>0, <1>1, <2>2 DEF TypeOK
    <2>4. g < nextChat
      BY <1>2, <1>3 DEF JoinCommit, At
    <2> QED  BY <1>1, <1>3, <1>s, <2>1, <2>2, <2>3, <2>4, MemberStep
  <1>4. CASE RemoveMember(w)
    <2>1. job'[w].step = "leave" /\ job'[w].group = g /\ job'[w].object = o
      BY <1>0, <1>l, <1>4 DEF RemoveMember, Continue, Steps
    <2>2. /\ UNCHANGED <<listed, chats, members, messages, nextChat>>
          /\ job[w].step = "remove" /\ Exists(g)
          /\ tx'[w].hit = (members[g][o] # "NONE")
      BY <1>0, <1>4 DEF RemoveMember, DeleteGroupMemberDelete, Post, At, TypeOK
    <2>3. g < nextChat
      BY <1>0, <1>1, <2>2 DEF TellInv, GroupInv, StoreInv, TxInv, IdsAhead, Exists, ChatIds
    <2>4. \A u \in Reachable, c \in ChatIds : chats[c].type = "GROUP" => Follows(u, c)
      BY <2>2 DEF ListInv, ListsFollow, About, OneAtATime
    <2>5. \A u, c : Follows(u, c) => Follows(u, c)'
      BY <2>2 DEF Follows, IsMember, LastSaysLeft, Says
    <2>6. \A u \in Users, c \in ChatIds : Same(u, c)
      BY <2>2 DEF Same, Says
    <2> QED  BY <1>1, <2>1, <2>2, <2>3, <2>4, <2>5, <2>6, MemberStep
  <1>5. CASE LeaveCommit(w)
    <2>1. /\ job[w].step = "leave" /\ UNCHANGED <<chats, nextChat>>
          /\ tx[w].chat = g /\ tx[w].user = o
          /\ members' = IF tx[w].hit THEN [members EXCEPT ![g][o] = "NONE"] ELSE members
      BY <1>0, <1>5 DEF LeaveCommit, At, DeleteGroupMemberCommit, CommitPost, Sound
    <2>2. tx[w].hit <=> members[g][o] # "NONE"
      BY <2>1 DEF ListInv, JobsMatch, IsMember
    <2>3. /\ members'[g][o] = "NONE"
          /\ \A u \in Users, c \in ChatIds : u # o \/ c # g => members'[c][u] = members[c][u]
      BY <1>0, <1>1, <2>1, <2>2 DEF TypeOK
    <2>0. /\ g < nextChat /\ UNCHANGED nextChat
          /\ job[w].group = g /\ job[w].object = o
          /\ \A c \in ChatIds : chats'[c] = chats[c]
      BY <1>2, <2>1
    <2>4. CASE job[w].type = "kicked_member"
      <3>0. job' = [job EXCEPT ![w] = [job[w] EXCEPT !.step = "removed", !.msg = tx[w].msg]]
        BY <1>5, <2>4 DEF LeaveCommit, Continue
      <3>1. job'[w].step = "removed" /\ job'[w].group = g /\ job'[w].object = o
        BY <1>0, <1>k, <1>m, <3>0 DEF Steps
      <3>2. UNCHANGED listed
        BY <1>5, <2>4 DEF LeaveCommit
      <3> QED  BY <1>1, <1>5, <1>s, <2>0, <2>3, <3>1, <3>2, MemberStep
    <2>5. CASE job[w].type # "kicked_member"
      <3>0. job' = [job EXCEPT ![w] = [job[w] EXCEPT !.step = "members", !.msg = tx[w].msg]]
        BY <1>5, <2>5 DEF LeaveCommit, Continue
      <3>1. job'[w].step = "members" /\ job'[w].group = g /\ job'[w].object = o
        BY <1>0, <1>k, <1>m, <3>0 DEF Steps
      <3>2. listed' \in {listed, [listed EXCEPT ![o] = @ \ {g}]}
        BY <1>5, <2>5 DEF LeaveCommit
      <3>3. \A u \in Users, c \in ChatIds : u # o \/ c # g => (c \in listed'[u] <=> c \in listed[u])
        BY <1>0, <1>1, <3>2
      <3>4. \A u, c : u = o /\ c = g => LastSaysLeft(u, c)'
        <4>1. job[w].type = "left_member"
          BY <1>0, <2>1, <2>5 DEF Sound, LeaveTypes
        <4>2. PICK k \in MsgIds : k = tx[w].msg
          BY <1>5, <1>s
        <4>3. /\ messages'[k] = [chat |-> g, from |-> o, type |-> "left_member"]
              /\ \A n \in MsgIds : messages'[n].type \in MemberTypes => n <= k
          BY <1>5, <1>s, <4>1, <4>2
        <4> QED  BY <4>3 DEF LastSaysLeft, Says, MemberTypes, LeaveTypes
      <3>5. \A u, c : u = o /\ c = g => Follows(u, c)'
        BY <2>3, <3>4 DEF Follows, IsMember
      <3> QED  BY <1>1, <1>5, <1>s, <2>0, <2>3, <3>1, <3>3, <3>5, MemberStep
    <2> QED  BY <2>4, <2>5
  <1>6. CASE ProduceInvited(w) \/ ProduceDeleted(w)
    <2>1. job'[w].step = "members" /\ job'[w].group = g /\ job'[w].object = o
      BY <1>0, <1>l, <1>6 DEF ProduceInvited, ProduceDeleted, Continue, Steps
    <2>2. UNCHANGED <<chats, members, messages, nextChat>>
      BY <1>6 DEF ProduceInvited, ProduceDeleted, storeVars
    <2>5. \A u \in Users, c \in ChatIds : Same(u, c)
      BY <2>2 DEF Same, Says
    <2>3. CASE ProduceInvited(w)
      <3>1. \/ listed' = [listed EXCEPT ![o] = @ \union {g}]
            \/ o \notin Reachable /\ UNCHANGED listed
        BY <2>3 DEF ProduceInvited, Missed
      <3>2. /\ o \in Reachable => g \in listed'[o]
            /\ \A u \in Users, c \in ChatIds : u # o \/ c # g => (c \in listed'[u] <=> c \in listed[u])
        BY <1>0, <1>1, <3>1
      <3>3. members[g][o] # "NONE" /\ g < nextChat
        BY <1>2, <2>3 DEF ProduceInvited, At, ListInv, JobsMatch, IsMember
      <3>4. \A u \in Reachable, c \in ChatIds : u = o /\ c = g => Follows(u, c)'
        BY <2>2, <3>2, <3>3 DEF Follows, IsMember
      <3> QED  BY <1>1, <2>1, <2>2, <2>5, <3>2, <3>3, <3>4, MemberStep
    <2>4. CASE ProduceDeleted(w)
      <3>1. \/ listed' = [listed EXCEPT ![o] = @ \ {g}]
            \/ o \notin Reachable /\ UNCHANGED listed
        BY <2>4 DEF ProduceDeleted, Missed
      <3>2. /\ o \in Reachable => g \notin listed'[o]
            /\ \A u \in Users, c \in ChatIds : u # o \/ c # g => (c \in listed'[u] <=> c \in listed[u])
        BY <1>0, <1>1, <3>1
      <3>3. members[g][o] = "NONE" /\ g < nextChat
        BY <1>2, <2>4 DEF ProduceDeleted, At, ListInv, JobsMatch, IsMember
      <3>4. \A u \in Reachable, c \in ChatIds : u = o /\ c = g => Follows(u, c)'
        BY <2>2, <3>2, <3>3 DEF Follows, IsMember
      <3> QED  BY <1>1, <2>1, <2>2, <2>5, <3>2, <3>3, <3>4, MemberStep
    <2> QED  BY <1>6, <2>3, <2>4
  <1> QED  BY <1>3, <1>4, <1>5, <1>6

\* What is in a transaction of a handler is new, or was there before the step.
LEMMA PostsNewest ==
  ASSUME TellInv, [Next]_vars, NEW w \in Handlers, Posting(w)'
  PROVE  \/ Posting(w) /\ tx'[w].msg = tx[w].msg
         \/ tx'[w].msg = nextMsg /\ UNCHANGED messages
  <1> DEFINE Good == \/ Posting(w) /\ tx'[w].msg = tx[w].msg
                     \/ tx'[w].msg = nextMsg /\ UNCHANGED messages
  <1>0. TypeOK /\ [StoreNext]_storeVars /\ w \in Workers
    BY NextCallsStore, HandlerAssumption DEF TellInv, GroupInv, StoreInv
  <1>1. ASSUME NEW x \in Workers, NEW op, NEW d, NEW v, NEW k, NEW hit, Post(x, op, d, v, k, hit)
        PROVE  Good
    <2>1. (tx'[w] = tx[w] \/ tx'[w].msg = nextMsg) /\ UNCHANGED messages
      BY <1>0, <1>1 DEF Post, TypeOK
    <2> QED  BY <2>1 DEF Posting
  <1>2. ASSUME NEW x \in Workers, SelectMembers(x)
        PROVE  Good
    <2>1. tx'[w].op = tx[w].op /\ tx'[w].msg = tx[w].msg
      BY <1>0, <1>2 DEF SelectMembers, TypeOK, Tx
    <2> QED  BY <2>1 DEF Posting
  <1>3. ASSUME NEW x \in Workers, tx' = [tx EXCEPT ![x] = NoTx]
        PROVE  Good
    <2>1. tx'[w] = tx[w] \/ tx'[w] = NoTx
      BY <1>0, <1>3 DEF TypeOK
    <2> QED  BY <2>1 DEF Posting, NoTx
  <1>4. ASSUME NEW x \in Workers,
               \/ NewMessageCommit(x) \/ NewGroupChatMemberCommit(x) \/ DeleteGroupMemberCommit(x)
               \/ PrivateChatCreate(x) \/ PrivateChatWithSelf(x) \/ Rollback(x)
        PROVE  Good
    BY <1>3, <1>4
    DEF NewMessageCommit, NewGroupChatMemberCommit, DeleteGroupMemberCommit, CommitPost,
        PrivateChatCreate, PrivateChatWithSelf, Rollback
  <1>5. ASSUME NEW x \in Workers, NEW u \in Users, NEW v \in Users, PrivateChatMissing(x, u, v)
        PROVE  Good
    <2>1. tx'[w] = tx[w] \/ tx'[w].op = "private"
      BY <1>0, <1>5 DEF PrivateChatMissing, NoTx, TypeOK
    <2> QED  BY <2>1 DEF Posting
  <1>6. CASE UNCHANGED tx
    BY <1>6 DEF Posting
  <1>7. ASSUME NEW x \in Workers, NEW c \in ChatIds, NEW u \in Users,
               \/ NewMessageInsert(x, c, u) \/ NewGroupChatMemberInsert(x, c, u)
               \/ \E t \in LeaveTypes : DeleteGroupMemberDelete(x, c, u, t)
               \/ DeleteGroupChat(x, c, u)
        PROVE  Good
    BY <1>1, <1>6, <1>7
    DEF NewMessageInsert, NewGroupChatMemberInsert, DeleteGroupMemberDelete, DeleteGroupChat
  <1>8. ASSUME \/ \E x \in Workers, u \in Users : NewGroupChat(x, u)
               \/ \E c \in ChatIds, u \in Users :
                     \/ \E r \in Roles : ChangeGroupChatMemberRole(c, u, r)
                     \/ \E n \in MsgIds : SetReadAtStatus(n, c, u)
               \/ UNCHANGED storeVars
        PROVE  Good
    BY <1>6, <1>8 DEF NewGroupChat, ChangeGroupChatMemberRole, SetReadAtStatus, storeVars
  <1> HIDE DEF Good
  <1>9. Good
    BY <1>0, <1>2, <1>4, <1>5, <1>7, <1>8 DEF StoreNext
  <1> QED  BY <1>9 DEF Good

\* With one request at a time, what it is about to say of a member stays the newest.
LEMMA NewestStep ==
  ASSUME TellInv, Newest, OneAtATime, [Next]_vars
  PROVE  Newest'
  <1>0. TypeOK /\ TxInv /\ StoreInv /\ [StoreNext]_storeVars
    BY NextCallsStore DEF TellInv, GroupInv, StoreInv
  <1> SUFFICES ASSUME NEW w \in Handlers, Posting(w)',
                      NEW m \in MsgIds, messages'[m].type \in MemberTypes
               PROVE  m < tx'[w].msg
    BY DEF Newest
  <1>1. m \in Nat /\ nextMsg \in Nat /\ "NONE" \notin MemberTypes
    BY <1>0, StoreAssumption DEF TypeOK, MsgIds, MemberTypes, LeaveTypes
  <1>2. messages[m].type \in MemberTypes => m < tx'[w].msg
    <2>1. messages[m].type \in MemberTypes => m < nextMsg
      BY <1>0, <1>1 DEF TxInv, IdsAhead
    <2> QED  BY <2>1, PostsNewest DEF Newest
  <1>3. ASSUME messages[m].type \notin MemberTypes
        PROVE  FALSE
    <2>1. ASSUME NEW x \in Workers, Posting(x), CommitPost(x)
          PROVE  FALSE
      <3>1. Shows(x) /\ tx'[x] = NoTx
        BY <1>0, <2>1, CommitEffect DEF CommitPost, TypeOK
      <3>2. m = tx[x].msg /\ tx[x].type \in MemberTypes
        BY <1>3, <3>1 DEF Shows
      <3>3. x \in Handlers
        BY <2>1, <3>2, SessionsPostPlain DEF MemberTypes, LeaveTypes
      <3>4. x = w
        BY <3>3 DEF OneAtATime
      <3> QED  BY <3>1, <3>4 DEF Posting, NoTx
    <2>2. \/ messages'[m] \in {messages[m], NoMessage}
          \/ \E x \in Workers : Posting(x) /\ CommitPost(x)
      <3>1. ASSUME NEW x \in Workers,
                   \/ NewMessageCommit(x)
                   \/ NewGroupChatMemberCommit(x)
                   \/ DeleteGroupMemberCommit(x)
            PROVE  Posting(x) /\ CommitPost(x)
        BY <3>1 DEF NewMessageCommit, NewGroupChatMemberCommit, DeleteGroupMemberCommit, Posting
      <3>2. ASSUME NEW x \in Workers, NEW c \in ChatIds, NEW u \in Users, DeleteGroupChat(x, c, u)
            PROVE  messages'[m] \in {messages[m], NoMessage}
        BY <3>2 DEF DeleteGroupChat
      <3>3. ASSUME NEW x \in Workers, NEW c \in ChatIds, NEW u \in Users,
                   \/ NewMessageInsert(x, c, u)
                   \/ NewGroupChatMemberInsert(x, c, u)
                   \/ \E t \in LeaveTypes : DeleteGroupMemberDelete(x, c, u, t)
            PROVE  messages' = messages
        BY <3>3 DEF NewMessageInsert, NewGroupChatMemberInsert, DeleteGroupMemberDelete, Post
      <3>4. ASSUME NEW x \in Workers,
                   \/ SelectMembers(x) \/ PrivateChatCreate(x) \/ PrivateChatWithSelf(x)
                   \/ Rollback(x)
                   \/ \E u \in Users : NewGroupChat(x, u)
                   \/ \E u, v \in Users : PrivateChatMissing(x, u, v)
            PROVE  messages' = messages
        BY <3>4 DEF SelectMembers, PrivateChatCreate, PrivateChatWithSelf, Rollback,
                    NewGroupChat, PrivateChatMissing
      <3>5. ASSUME NEW c \in ChatIds, NEW u \in Users,
                   \/ \E r \in Roles : ChangeGroupChatMemberRole(c, u, r)
                   \/ \E n \in MsgIds : SetReadAtStatus(n, c, u)
            PROVE  messages' = messages
        BY <3>5 DEF ChangeGroupChatMemberRole, SetReadAtStatus
      <3> QED
        BY <1>0, <3>1, <3>2, <3>3, <3>4, <3>5 DEF StoreNext, storeVars
    <2> QED  BY <1>1, <1>3, <2>1, <2>2 DEF NoMessage
  <1> QED  BY <1>2, <1>3

\* With one request at a time and no failing call, every step keeps the lists.
LEMMA ListInvStep ==
  ASSUME TellInv, ListInv, Newest, ~Faults, OneAtATime, [Next]_vars
  PROVE  ListInv'
  <1>1. ASSUME NEW w \in Handlers, HandlerStep(w)
        PROVE  ListInv'
    BY <1>1, ListInvGroups, ListInvSilent, ListInvSelect, ListInvMember DEF HandlerStep, Handle
  <1>2. CASE UNCHANGED vars
    BY <1>2
    DEF vars, storeVars, ListInv, JobsMatch, ListsFollow, Follows, LastSaysLeft, Says,
        ListedBelow, IsMember, About
  <1> QED  BY <1>1, <1>2, ListInvSession DEF Next

\* With one request at a time and no failing call, the chat list of every reachable
\* client follows the membership of its user, whatever the connections do meanwhile,
\* unless he was last removed by another under the type left_member.
THEOREM ChatListFollowsCorrect ==
  ASSUME OneAtATime
  PROVE  Spec => []ChatListFollows
  <1>1. Init => ListInv /\ Newest
    <2> SUFFICES ASSUME Init PROVE ListInv /\ Newest
      OBVIOUS
    <2>1. JobsMatch /\ ListedBelow
      BY DEF Init, Idle, JobsMatch, ListedBelow
    <2>2. ListsFollow
      BY DEF Init, StoreInit, NoChat, ListsFollow
    <2>3. Newest
      BY HandlerAssumption DEF Init, StoreInit, NoTx, Newest, Posting
    <2> QED  BY <2>1, <2>2, <2>3 DEF ListInv
  <1>2. CASE ~Faults
    <2>1. TellInv /\ ListInv /\ Newest /\ [Next]_vars => ListInv' /\ Newest'
      BY <1>2, ListInvStep, NewestStep
    <2>2. ListInv => ChatListFollows
      <3> SUFFICES ASSUME ListInv, Quiet, NEW u \in Reachable, NEW c \in ChatIds,
                          chats[c].type = "GROUP"
                   PROVE  /\ u \in MembersOf(c) => c \in listed[u]
                          /\ c \in listed[u] => u \in MembersOf(c) \/ LastSaysLeft(u, c)
        BY DEF ChatListFollows
      <3>1. ~\E w \in Handlers : About(w, u, c)
        BY DEF Quiet, At, About
      <3>2. Follows(u, c)
        BY <3>1 DEF ListInv, ListsFollow
      <3> QED  BY <3>2, HandlerAssumption DEF Follows, IsMember, MembersOf
    <2> QED  BY <1>1, <2>1, <2>2, TellInvInvariant, PTL DEF Spec
  <1>3. CASE Faults
    <2>1. ChatListFollows
      BY <1>3 DEF ChatListFollows
    <2> QED  BY <2>1, PTL
  <1> QED  BY <1>2, <1>3
=============================================================================
