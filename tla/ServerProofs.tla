---------------------------- MODULE ServerProofs ----------------------------
(***************************************************************************)
(* Proofs about Server and Connection, for any users and connections and   *)
(* any number of events: a connection leaves nothing behind, and while it  *)
(* is served it passes on the events of its user without a gap.            *)
(***************************************************************************)
EXTENDS Server, TLAPS, SequenceTheorems

Events == 1..MaxEvents

\* Before the loops are started, and after both have ended
Early == {"none", "register", "subscribe"}
Late == {"unregister", "close", "unsubscribe", "done"}

Typed ==
  /\ ConnTypeOK /\ phase \in Phases
  /\ queue \in [Sessions -> Seq(Events)]
  /\ got \in [Sessions -> Seq(Events)]

\* What the place of HandleConn says of the rest of the connection
Stages ==
  \A s \in Sessions :
    /\ main[s] \in Early => /\ reader[s] = "none" /\ writer[s] = "none"
                            /\ s \notin subscribed
                            /\ queue[s] = <<>> /\ got[s] = <<>> /\ count[s] = 0
    /\ main[s] \in Late => reader[s] = "ended" /\ writer[s] = "ended"
    /\ main[s] = "done" => s \notin subscribed

\* The hub lists a connection under its user only, and only while it is between the
\* two calls of the hub
HubAgrees ==
  \A u \in Users : clients[u] # NoSession =>
    /\ UserOf[clients[u]] = u
    /\ main[clients[u]] \in {"subscribe", "wait", "unregister"}

\* Of the events published since its subscription the client of s has the first, and the
\* others wait for it
Numbered(s) ==
  /\ Len(got[s]) + Len(queue[s]) = count[s]
  /\ \A i \in 1..Len(got[s]) : got[s][i] = i
  /\ \A i \in 1..Len(queue[s]) : queue[s][i] = Len(got[s]) + i

Gapless == \A s \in Sessions : s \in subscribed \cap here /\ writer[s] = "select" => Numbered(s)

-----------------------------------------------------------------------------
(* The types *)

\* The types hold at the start.
LEMMA TypedInit == Init => Typed
  <1> SUFFICES ASSUME Init PROVE Typed
    OBVIOUS
  <1>1. <<>> \in Seq(Events)
    BY EmptySeq
  <1> QED
    BY <1>1, ConnectionAssumption
    DEF Init, ConnInit, Typed, ConnTypeOK, Events, Phases, MainSteps, ReaderSteps,
        WriterSteps

\* Every step keeps them.
LEMMA TypedStep == Typed /\ [Next]_vars => Typed'
  <1> SUFFICES ASSUME Typed, [Next]_vars PROVE Typed'
    OBVIOUS
  <1> USE ConnectionAssumption DEF Typed, ConnTypeOK
  <1>1. CASE Main \/ Signal
    BY <1>1 DEF Main, Migrate, RunHub, Listen, Shutdown, Signal, Phase, Phases, connVars
  <1>2. CASE Exit
    <2>1. <<>> \in Seq(Events)
      BY EmptySeq
    <2> QED
      BY <1>2, <2>1 DEF Exit, AllGone, Events, Phases, MainSteps, ReaderSteps, WriterSteps
  <1>3. ASSUME NEW s \in Sessions, Accept(s) \/ Waited(s) \/ CloseConn(s), phase' = phase
        PROVE  Typed'
    BY <1>3, ZenonT(60) DEF Accept, Waited, CloseConn, Go, MainSteps
  <1>12. ASSUME NEW s \in Sessions, Register(s) \/ Unregister(s), phase' = phase
         PROVE  Typed'
    <2>1. clients' \in [Users -> Sessions \union {NoSession}]
      BY <1>12 DEF Register, Unregister
    <2>2. main' \in [Sessions -> MainSteps]
      BY <1>12, ZenonT(60) DEF Register, Unregister, Go, MainSteps
    <2>3. UNCHANGED <<reader, writer, cancelled, subscribed, queue, got, count, here, due, pinged>>
      BY <1>12 DEF Register, Unregister
    <2> QED
      BY <1>12, <2>1, <2>2, <2>3
  <1>13. ASSUME NEW s \in Sessions, Subscribe(s), phase' = phase
         PROVE  Typed'
    BY <1>13 DEF Subscribe, Go, MainSteps, ReaderSteps, WriterSteps
  <1>4. ASSUME NEW s \in Sessions, Unsubscribe(s), phase' = phase
        PROVE  Typed'
    BY <1>4 DEF Unsubscribe, Go, MainSteps
  <1>5. ASSUME NEW s \in Sessions,
               ReadSelect(s) \/ Timeout(s) \/ Frame(s) \/ Pong(s) \/ ReadFails(s),
               phase' = phase
        PROVE  Typed'
    BY <1>5, ZenonT(60) DEF ReadSelect, Timeout, Frame, Pong, ReadFails, Read, Cancel, ReaderSteps
  <1>6. ASSUME NEW s \in Sessions, queue[s] # <<>>
        PROVE  Head(queue[s]) \in Events /\ Tail(queue[s]) \in Seq(Events)
    BY <1>6, HeadTailProperties
  <1>7. ASSUME NEW s \in Sessions, Ping(s), phase' = phase
        PROVE  Typed'
    BY <1>7, ZenonT(60) DEF Ping, Write, WriterSteps
  <1>14. ASSUME NEW s \in Sessions, WriteCancelled(s) \/ WriteFails(s), phase' = phase
         PROVE  Typed'
    <2>1. EndWrite(s) /\ cancelled' \in {cancelled, cancelled \union {s}}
          /\ UNCHANGED <<main, reader, clients, subscribed, here, due, pinged>>
      BY <1>14 DEF WriteCancelled, WriteFails, Cancel
    <2>2. <<>> \in Seq(Events)
      BY EmptySeq
    <2>3. writer' \in [Sessions -> WriterSteps] /\ count' \in [Sessions -> 0..MaxEvents]
      BY <2>1 DEF EndWrite, Write, WriterSteps
    <2>4. queue' \in [Sessions -> Seq(Events)] /\ got' \in [Sessions -> Seq(Events)]
      BY <2>1, <2>2 DEF EndWrite
    <2> QED  BY <1>14, <2>1, <2>3, <2>4 DEF Events
  <1>8. ASSUME NEW s \in Sessions, Send(s), phase' = phase
        PROVE  Typed'
    <2>1. Append(got[s], Head(queue[s])) \in Seq(Events) /\ Tail(queue[s]) \in Seq(Events)
      BY <1>6, <1>8, AppendProperties DEF Send
    <2> QED
      BY <1>8, <2>1 DEF Send, Write, WriterSteps, Events
  <1>9. ASSUME NEW s \in Sessions, Leave(s), phase' = phase
        PROVE  Typed'
    <2>1. <<>> \in Seq(Events)
      BY EmptySeq
    <2> QED  BY <1>9, <2>1 DEF Leave, Events
  <1>15. ASSUME NEW s \in Sessions, Lapse(s), phase' = phase
         PROVE  Typed'
    BY <1>15 DEF Lapse
  <1>10. ASSUME NEW u \in Users, Publish(u), phase' = phase
         PROVE  Typed'
    <2>1. count' \in [Sessions -> 0..MaxEvents]
      BY <1>10 DEF Publish
    <2>2. ASSUME NEW s \in Sessions, queue'[s] # queue[s]
          PROVE  queue'[s] \in Seq(Events)
      <3>1. queue'[s] = Append(queue[s], count'[s]) /\ count'[s] = count[s] + 1
            /\ count[s] < MaxEvents
        BY <1>10, <2>2 DEF Publish
      <3>2. count'[s] \in Events
        BY <2>1, <3>1 DEF Events
      <3> QED  BY <3>1, <3>2, AppendProperties
    <2>3. queue' \in [Sessions -> Seq(Events)]
      <3>1. queue' = [s \in Sessions |-> queue'[s]]
        BY <1>10 DEF Publish
      <3> QED  BY <2>2, <3>1
    <2> QED
      BY <1>10, <2>1, <2>3 DEF Publish, Events
  <1>11. CASE UNCHANGED vars
    BY <1>11 DEF vars, connVars
  <1> QED
    BY <1>1, <1>2, <1>3, <1>4, <1>5, <1>7, <1>8, <1>9, <1>10, <1>11, <1>12, <1>13, <1>14, <1>15
    DEF Next, Upgrade, HubStep, WithHub, Live, ConnStep, HandleConn, ReadLoop, WriteLoop, Client

-----------------------------------------------------------------------------
(* The stages of a connection *)

\* The stages agree at the start.
LEMMA StagesInit == ConnInit => Stages /\ HubAgrees /\ Gapless
  BY DEF ConnInit, Stages, HubAgrees, Gapless, Early, Late

\* A process that has ended is as it was at the start.
LEMMA StagesGone == AllGone => Stages' /\ HubAgrees' /\ Gapless'
  BY DEF AllGone, Stages, HubAgrees, Gapless, Early, Late

\* What a connection does
ConnAction(s) ==
  \/ Accept(s) \/ Register(s) \/ Subscribe(s) \/ Waited(s) \/ Unregister(s)
  \/ CloseConn(s) \/ Unsubscribe(s)
  \/ ReadSelect(s) \/ Timeout(s) \/ Frame(s) \/ Pong(s) \/ ReadFails(s)
  \/ WriteCancelled(s) \/ Ping(s) \/ Send(s) \/ WriteFails(s)
  \/ Leave(s) \/ Lapse(s)

\* The steps of Next: what main does, the end of the process, a step of a connection and
\* an event published for a user.
LEMMA StepKinds ==
  ASSUME [Next]_vars
  PROVE  \/ UNCHANGED connVars
         \/ AllGone
         \/ \E s \in Sessions : ConnAction(s)
         \/ \E u \in Users : Publish(u)
  BY DEF Next, vars, Main, Migrate, RunHub, Listen, Shutdown, Signal, Exit, Upgrade, HubStep,
         WithHub, Live, ConnStep, HandleConn, ReadLoop, WriteLoop, Client, ConnAction

\* Every step keeps the stages: a loop runs only while HandleConn waits for it, and the
\* subscription and the channel are there only between the calls that make and end them.
LEMMA StagesStep == Typed /\ Stages /\ [Next]_vars => Stages'
  <1> SUFFICES ASSUME Typed, Stages, [Next]_vars PROVE Stages'
    OBVIOUS
  <1>0. /\ main \in [Sessions -> MainSteps]
        /\ reader \in [Sessions -> ReaderSteps]
        /\ writer \in [Sessions -> WriterSteps]
        /\ subscribed \subseteq Sessions
        /\ queue \in [Sessions -> Seq(Events)]
        /\ got \in [Sessions -> Seq(Events)] /\ count \in [Sessions -> 0..MaxEvents]
    BY DEF Typed, ConnTypeOK
  <1>1. CASE UNCHANGED connVars
    BY <1>1 DEF connVars, Stages
  <1>2. ASSUME NEW u \in Users, Publish(u)
        PROVE  Stages'
    <2>1. \A s \in Sessions : s \notin subscribed => queue'[s] = queue[s] /\ count'[s] = count[s]
      BY <1>2 DEF Publish
    <2>2. UNCHANGED <<main, reader, writer, subscribed, got>>
      BY <1>2 DEF Publish
    <2> QED  BY <2>1, <2>2 DEF Stages
  <1>3. ASSUME NEW s \in Sessions,
               Accept(s) \/ Register(s) \/ Waited(s) \/ Unregister(s) \/ CloseConn(s)
        PROVE  Stages'
    BY <1>0, <1>3 DEF Accept, Register, Waited, Unregister, CloseConn, Go, Stages, Early, Late
  <1>4. ASSUME NEW s \in Sessions, Subscribe(s) \/ Unsubscribe(s)
        PROVE  Stages'
    <2>1. /\ main[s] \in {"subscribe", "unsubscribe"} /\ main'[s] \in {"wait", "done"}
          /\ main[s] = "unsubscribe" => reader' = reader /\ writer' = writer /\ s \notin subscribed'
          /\ main'[s] = "wait" <=> main[s] = "subscribe"
      BY <1>0, <1>4 DEF Subscribe, Unsubscribe, Go
    <2>2. \A x \in Sessions : x # s =>
            /\ main'[x] = main[x] /\ reader'[x] = reader[x] /\ writer'[x] = writer[x]
            /\ queue'[x] = queue[x] /\ got'[x] = got[x] /\ count'[x] = count[x]
            /\ x \in subscribed' <=> x \in subscribed
      BY <1>0, <1>4 DEF Subscribe, Unsubscribe, Go
    <2> QED  BY <2>1, <2>2 DEF Stages, Early, Late
  <1>5. ASSUME NEW s \in Sessions,
               ReadSelect(s) \/ Timeout(s) \/ Frame(s) \/ Pong(s) \/ ReadFails(s)
        PROVE  Stages'
    BY <1>0, <1>5 DEF ReadSelect, Timeout, Frame, Pong, ReadFails, Read, Stages, Early, Late
  <1>6. ASSUME NEW s \in Sessions,
               WriteCancelled(s) \/ Ping(s) \/ Send(s) \/ WriteFails(s)
        PROVE  Stages'
    <2>1. /\ writer[s] = "select"
          /\ \A x \in Sessions : x # s => /\ writer'[x] = writer[x]
                                          /\ queue'[x] = queue[x] /\ got'[x] = got[x]
                                          /\ count'[x] = count[x]
          /\ UNCHANGED <<main, reader, subscribed>>
      BY <1>0, <1>6 DEF WriteCancelled, Ping, Send, WriteFails, EndWrite, Write
    <2>2. main[s] \notin Early /\ main[s] \notin Late
      BY <2>1 DEF Stages
    <2> QED  BY <2>1, <2>2 DEF Stages, Early, Late
  <1>7. ASSUME NEW s \in Sessions, Leave(s) \/ Lapse(s)
        PROVE  Stages'
    BY <1>0, <1>7 DEF Leave, Lapse, Stages
  <1> QED
    BY <1>1, <1>2, <1>3, <1>4, <1>5, <1>6, <1>7, StepKinds, StagesGone DEF ConnAction

\* Every step keeps the map of the hub in agreement with the connections.
LEMMA HubStepAgrees == Typed /\ HubAgrees /\ [Next]_vars => HubAgrees'
  <1> SUFFICES ASSUME Typed, HubAgrees, [Next]_vars PROVE HubAgrees'
    OBVIOUS
  <1>0. /\ main \in [Sessions -> MainSteps]
        /\ clients \in [Users -> Sessions \union {NoSession}]
        /\ UserOf \in [Sessions -> Users] /\ NoSession \notin Sessions
    BY ConnectionAssumption DEF Typed, ConnTypeOK
  <1>1. CASE UNCHANGED <<main, clients>>
    BY <1>1 DEF HubAgrees
  <1>2. ASSUME NEW s \in Sessions, Register(s) \/ Unregister(s)
        PROVE  HubAgrees'
    BY <1>0, <1>2 DEF Register, Unregister, Go, HubAgrees
  <1>3. ASSUME NEW s \in Sessions,
               Accept(s) \/ Subscribe(s) \/ Waited(s) \/ CloseConn(s) \/ Unsubscribe(s)
        PROVE  HubAgrees'
    BY <1>0, <1>3 DEF Accept, Subscribe, Waited, CloseConn, Unsubscribe, Go, HubAgrees
  <1>4. ASSUME NEW s \in Sessions,
               \/ ReadSelect(s) \/ Timeout(s) \/ Frame(s) \/ Pong(s) \/ ReadFails(s)
               \/ WriteCancelled(s) \/ Ping(s) \/ Send(s) \/ WriteFails(s)
               \/ Leave(s) \/ Lapse(s)
        PROVE  UNCHANGED <<main, clients>>
    BY <1>4 DEF ReadSelect, Timeout, Frame, Pong, ReadFails, WriteCancelled, Ping, Send,
                WriteFails, Leave, Lapse
  <1>5. ASSUME NEW u \in Users, Publish(u)
        PROVE  UNCHANGED <<main, clients>>
    BY <1>5 DEF Publish
  <1>6. UNCHANGED connVars => UNCHANGED <<main, clients>>
    BY DEF connVars
  <1> QED
    BY <1>1, <1>2, <1>3, <1>4, <1>5, <1>6, StepKinds, StagesGone DEF ConnAction

\* Every step keeps what is there only in some part of the life of a connection.
LEMMA RestingStep == Typed /\ Stages /\ Resting /\ [Next]_vars => Resting'
  <1> SUFFICES ASSUME Typed, Stages, Resting, [Next]_vars PROVE Resting'
    OBVIOUS
  <1>0. /\ main \in [Sessions -> MainSteps]
        /\ writer \in [Sessions -> WriterSteps]
        /\ queue \in [Sessions -> Seq(Events)]
    BY DEF Typed, ConnTypeOK
  <1>1. CASE UNCHANGED connVars
    BY <1>1 DEF connVars, Resting
  <1>2. CASE AllGone
    BY <1>2 DEF AllGone, Resting
  <1>3. ASSUME NEW u \in Users, Publish(u)
        PROVE  Resting'
    BY <1>3 DEF Publish, Resting
  <1>4. ASSUME NEW s \in Sessions,
               \/ Accept(s) \/ Register(s) \/ Waited(s) \/ Unregister(s) \/ CloseConn(s)
               \/ Leave(s) \/ Lapse(s)
        PROVE  Resting'
    <2>1. UNCHANGED <<queue, writer, subscribed>>
      BY <1>4 DEF Accept, Register, Waited, Unregister, CloseConn, Leave, Lapse
    <2>2. \A x \in Sessions : x \in here' => main'[x] \notin {"none", "unsubscribe", "done"}
      BY <1>0, <1>4
      DEF Accept, Register, Waited, Unregister, CloseConn, Leave, Lapse, Go, Resting
    <2>3. /\ \A x \in Sessions : x \in due' => main'[x] = "wait"
          /\ pinged' \subseteq due'
      BY <1>0, <1>4
      DEF Accept, Register, Waited, Unregister, CloseConn, Leave, Lapse, Go, Resting
    <2> QED  BY <2>1, <2>2, <2>3 DEF Resting
  <1>5. ASSUME NEW s \in Sessions, Subscribe(s) \/ Unsubscribe(s)
        PROVE  Resting'
    <2>1. queue[s] = <<>>
      BY <1>5 DEF Subscribe, Unsubscribe, Go, Stages, Early, Late, Resting
    <2>2. UNCHANGED <<here, due, pinged, queue>>
      BY <1>5 DEF Subscribe, Unsubscribe
    <2>3. \A x \in Sessions : x # s =>
            main'[x] = main[x] /\ writer'[x] = writer[x] /\ (x \in subscribed' <=> x \in subscribed)
      BY <1>0, <1>5 DEF Subscribe, Unsubscribe, Go
    <2>4. main[s] \in {"subscribe", "unsubscribe"} /\ (main[s] = "subscribe" => main'[s] = "wait")
      BY <1>0, <1>5 DEF Subscribe, Unsubscribe, Go
    <2> QED  BY <2>1, <2>2, <2>3, <2>4 DEF Resting
  <1>6. ASSUME NEW s \in Sessions,
               ReadSelect(s) \/ Timeout(s) \/ Frame(s) \/ Pong(s) \/ ReadFails(s)
        PROVE  Resting'
    BY <1>6 DEF ReadSelect, Timeout, Frame, Pong, ReadFails, Resting
  <1>7. ASSUME NEW s \in Sessions, WriteCancelled(s) \/ WriteFails(s)
        PROVE  Resting'
    <2>1. UNCHANGED <<main, here, due, pinged, subscribed>> /\ queue'[s] = <<>>
      BY <1>0, <1>7 DEF WriteCancelled, WriteFails, EndWrite
    <2>2. \A x \in Sessions : x # s => queue'[x] = queue[x] /\ writer'[x] = writer[x]
      BY <1>0, <1>7 DEF WriteCancelled, WriteFails, EndWrite, Write
    <2> QED  BY <2>1, <2>2 DEF Resting
  <1>8. ASSUME NEW s \in Sessions, Ping(s) \/ Send(s)
        PROVE  Resting'
    <2>1. UNCHANGED <<main, here, due, subscribed>> /\ writer' = writer
          /\ pinged' \in {pinged, pinged \union (due \cap {s})}
      BY <1>0, <1>8 DEF Ping, Send, Write
    <2>2. \A x \in Sessions : queue'[x] # <<>> => queue[x] # <<>>
      BY <1>0, <1>8 DEF Ping, Send
    <2> QED  BY <2>1, <2>2 DEF Resting
  <1> QED
    BY <1>1, <1>2, <1>3, <1>4, <1>5, <1>6, <1>7, <1>8, StepKinds DEF ConnAction

-----------------------------------------------------------------------------
(* No gap *)

\* What Send takes from the channel it puts at the end of what the client has.
LEMMA SendKeeps ==
  ASSUME Typed, NEW s \in Sessions, Send(s), s \in here, Numbered(s)
  PROVE  Numbered(s)'
  <1> DEFINE q == queue[s]
             g == got[s]
             e == Head(q)
  <1>1. /\ q \in Seq(Events) /\ g \in Seq(Events) /\ q # <<>>
        /\ queue'[s] = Tail(q) /\ got'[s] = Append(g, e) /\ count'[s] = count[s]
    BY DEF Typed, Send
  <1>2. Len(q) \in Nat /\ Len(g) \in Nat /\ Len(q) > 0
    BY <1>1, LenProperties, EmptySeq
  <1>3. /\ e \in Events /\ e = q[1]
        /\ Len(Tail(q)) = Len(q) - 1
        /\ \A i \in 1..Len(Tail(q)) : Tail(q)[i] = q[i + 1]
    BY <1>1, HeadTailProperties
  <1>4. /\ Len(Append(g, e)) = Len(g) + 1
        /\ \A i \in 1..Len(g) : Append(g, e)[i] = g[i]
        /\ Append(g, e)[Len(g) + 1] = e
    BY <1>1, <1>3, AppendProperties
  <1>5. PICK k \in Nat, l \in Nat : k = Len(g) /\ l = Len(q)
    BY <1>2
  <1>6. /\ \A i \in 1..k : got'[s][i] = g[i]
        /\ got'[s][k + 1] = q[1]
        /\ \A i \in 1..(l - 1) : queue'[s][i] = q[i + 1]
        /\ Len(got'[s]) = k + 1 /\ Len(queue'[s]) = l - 1 /\ l > 0
    BY <1>1, <1>2, <1>3, <1>4, <1>5
  <1>7. /\ k + l = count[s]
        /\ \A i \in 1..k : g[i] = i
        /\ \A i \in 1..l : q[i] = k + i
    BY <1>5 DEF Numbered
  <1> HIDE DEF q, g, e
  <1>8. ASSUME NEW i \in 1..(k + 1) PROVE got'[s][i] = i
    <2>1. CASE i \in 1..k
      BY <1>6, <1>7, <2>1
    <2>2. CASE i = k + 1
      <3>1. 1 \in 1..l /\ got'[s][i] = q[1]
        BY <1>6, <2>2
      <3>2. q[1] = k + 1
        BY <1>7, <3>1
      <3> QED  BY <2>2, <3>1, <3>2
    <2> QED  BY <2>1, <2>2
  <1>9. ASSUME NEW i \in 1..(l - 1) PROVE queue'[s][i] = k + 1 + i
    <2>1. i + 1 \in 1..l /\ queue'[s][i] = q[i + 1]
      BY <1>6
    <2>2. q[i + 1] = k + (i + 1)
      BY <1>7, <2>1
    <2> QED  BY <2>1, <2>2
  <1>10. Len(got'[s]) + Len(queue'[s]) = count'[s]
    <2>1. (k + 1) + (l - 1) = count'[s]
      BY <1>1, <1>7
    <2> QED  BY <1>6, <2>1
  <1> QED  BY <1>6, <1>8, <1>9, <1>10 DEF Numbered

\* Publish puts the next number at the end of the channel of each subscription.
LEMMA PublishKeeps ==
  ASSUME Typed, NEW u \in Users, Publish(u), NEW s \in Sessions, Numbered(s)
  PROVE  Numbered(s)'
  <1> DEFINE q == queue[s]
             g == got[s]
             n == count[s] + 1
  <1>1. CASE queue'[s] = queue[s] /\ count'[s] = count[s]
    BY <1>1 DEF Publish, Numbered
  <1>2. CASE ~(queue'[s] = queue[s] /\ count'[s] = count[s])
    <2>1. /\ q \in Seq(Events) /\ g \in Seq(Events) /\ n \in Events
          /\ count'[s] = n /\ queue'[s] = Append(q, n) /\ got' = got
      <3>1. /\ count'[s] = n /\ queue'[s] = Append(q, count'[s]) /\ got' = got
            /\ count[s] < MaxEvents
        BY <1>2 DEF Publish
      <3>2. q \in Seq(Events) /\ g \in Seq(Events) /\ count[s] \in 0..MaxEvents
        BY DEF Typed, ConnTypeOK
      <3> QED  BY <3>1, <3>2, ConnectionAssumption DEF Events
    <2>2. Len(q) \in Nat /\ Len(g) \in Nat
      BY <2>1, LenProperties
    <2>3. /\ Len(Append(q, n)) = Len(q) + 1
          /\ \A i \in 1..Len(q) : Append(q, n)[i] = q[i]
          /\ Append(q, n)[Len(q) + 1] = n
      BY <2>1, AppendProperties
    <2>4. PICK k \in Nat, l \in Nat : k = Len(g) /\ l = Len(q)
      BY <2>2
    <2>5. /\ \A i \in 1..l : queue'[s][i] = q[i]
          /\ queue'[s][l + 1] = n
          /\ Len(queue'[s]) = l + 1
      BY <2>1, <2>3, <2>4
    <2>6. /\ n = k + l + 1
          /\ \A i \in 1..l : q[i] = k + i
      BY <2>4 DEF Numbered
    <2> HIDE DEF q, g, n
    <2>7. ASSUME NEW i \in 1..(l + 1) PROVE queue'[s][i] = k + i
      BY <2>5, <2>6
    <2>8. got'[s] = got[s] /\ Len(got'[s]) = k
      BY <2>1, <2>4 DEF g
    <2>9. Len(got'[s]) + Len(queue'[s]) = count'[s]
      BY <2>1, <2>5, <2>6, <2>8
    <2>10. \A i \in 1..Len(got'[s]) : got'[s][i] = i
      BY <2>8 DEF Numbered
    <2> QED  BY <2>5, <2>7, <2>8, <2>9, <2>10 DEF Numbered
  <1> QED  BY <1>1, <1>2

\* Every step keeps the events without a gap.
LEMMA GaplessStep == Typed /\ Stages /\ Gapless /\ [Next]_vars => Gapless'
  <1> SUFFICES ASSUME Typed, Stages, Gapless, [Next]_vars PROVE Gapless'
    OBVIOUS
  <1>0. /\ main \in [Sessions -> MainSteps]
        /\ writer \in [Sessions -> WriterSteps]
        /\ queue \in [Sessions -> Seq(Events)]
        /\ got \in [Sessions -> Seq(Events)] /\ count \in [Sessions -> 0..MaxEvents]
    BY DEF Typed, ConnTypeOK
  <1>1. ASSUME NEW s \in Sessions, s \in subscribed \cap here, writer[s] = "select",
               queue'[s] = queue[s], got'[s] = got[s], count'[s] = count[s]
        PROVE  Numbered(s)'
    BY <1>1 DEF Gapless, Numbered
  <1>2. ASSUME NEW x \in Sessions, Send(x)
        PROVE  Gapless'
    <2> SUFFICES ASSUME NEW s \in Sessions, s \in subscribed \cap here, writer'[s] = "select"
                 PROVE  Numbered(s)'
      BY <1>2 DEF Gapless, Send
    <2>1. CASE s = x
      <3>1. Numbered(s)
        BY <1>2, <2>1 DEF Gapless, Send, Write
      <3> QED  BY <1>2, <2>1, <3>1, SendKeeps
    <2>2. CASE s # x
      BY <1>0, <1>1, <1>2, <2>2 DEF Send, Write
    <2> QED  BY <2>1, <2>2
  <1>3. ASSUME NEW u \in Users, Publish(u)
        PROVE  Gapless'
    <2>1. UNCHANGED <<subscribed, here, writer>>
      BY <1>3 DEF Publish
    <2> QED  BY <1>3, <2>1, PublishKeeps DEF Gapless
  <1>4. ASSUME NEW x \in Sessions, Accept(x)
        PROVE  Gapless'
    <2>1. x \notin subscribed
      BY <1>4 DEF Accept, Go, Stages, Early
    <2> QED  BY <1>1, <1>4, <2>1 DEF Accept, Gapless
  <1>5. ASSUME NEW x \in Sessions, Subscribe(x)
        PROVE  Gapless'
    <2> SUFFICES ASSUME NEW s \in Sessions, s \in subscribed \union {x}, s \in here,
                        writer'[s] = "select"
                 PROVE  Numbered(s)'
      BY <1>5 DEF Gapless, Subscribe
    <2>1. CASE s = x
      <3>1. queue'[s] = <<>> /\ got'[s] = <<>> /\ count'[s] = 0
        BY <1>5, <2>1 DEF Subscribe, Go, Stages, Early
      <3>2. Len(queue'[s]) = 0 /\ Len(got'[s]) = 0
        BY <3>1, EmptySeq
      <3>3. 1..0 = {}
        OBVIOUS
      <3> QED  BY <3>1, <3>2, <3>3 DEF Numbered
    <2>2. CASE s # x
      BY <1>0, <1>1, <1>5, <2>2 DEF Subscribe
    <2> QED  BY <2>1, <2>2
  <1>6. ASSUME NEW x \in Sessions, Unsubscribe(x)
        PROVE  Gapless'
    BY <1>0, <1>1, <1>6 DEF Unsubscribe, Gapless
  <1>7. ASSUME NEW x \in Sessions, WriteCancelled(x) \/ Ping(x) \/ WriteFails(x)
        PROVE  Gapless'
    <2>1. \A s \in Sessions : writer'[s] = "select" =>
            writer[s] = "select" /\ queue'[s] = queue[s] /\ got'[s] = got[s] /\ count'[s] = count[s]
      <3>1. CASE WriteCancelled(x) \/ WriteFails(x)
        BY <1>0, <3>1 DEF WriteCancelled, WriteFails, EndWrite, Write
      <3>2. CASE Ping(x)
        BY <1>0, <3>2 DEF Ping, Write
      <3> QED  BY <1>7, <3>1, <3>2
    <2>2. UNCHANGED <<subscribed, here>>
      BY <1>7 DEF WriteCancelled, Ping, WriteFails
    <2> QED  BY <1>1, <2>1, <2>2 DEF Gapless
  <1>11. ASSUME NEW x \in Sessions, Leave(x)
         PROVE  Gapless'
    <2>1. \A s \in Sessions : s \in here' => s \in here /\ got'[s] = got[s]
      BY <1>0, <1>11 DEF Leave
    <2>2. UNCHANGED <<subscribed, writer, queue, count>>
      BY <1>11 DEF Leave
    <2> QED  BY <1>1, <2>1, <2>2 DEF Gapless
  <1>8. ASSUME NEW x \in Sessions,
               \/ Register(x) \/ Waited(x) \/ Unregister(x) \/ CloseConn(x)
               \/ ReadSelect(x) \/ Timeout(x) \/ Frame(x) \/ Pong(x) \/ ReadFails(x)
               \/ Lapse(x)
        PROVE  /\ UNCHANGED <<subscribed, writer, queue, got, count>>
               /\ here' \subseteq here
    BY <1>8 DEF Register, Waited, Unregister, CloseConn, ReadSelect, Timeout, Frame, Pong,
                ReadFails, Lapse
  <1>9. ASSUME UNCHANGED <<subscribed, writer, queue, got, count>>, here' \subseteq here
        PROVE  Gapless'
    BY <1>1, <1>9 DEF Gapless
  <1>10. CASE UNCHANGED connVars
    BY <1>9, <1>10 DEF connVars
  <1> QED
    BY <1>2, <1>3, <1>4, <1>5, <1>6, <1>7, <1>8, <1>9, <1>10, <1>11, StepKinds, StagesGone
    DEF ConnAction

-----------------------------------------------------------------------------
(* The theorems *)

\* The inductive invariant.
ServerInv == Typed /\ Stages /\ Resting /\ HubAgrees /\ Gapless

\* It holds in every state.
THEOREM ServerInvCorrect == Spec => []ServerInv
  <1>1. Init => ServerInv
    BY TypedInit, StagesInit DEF Init, ConnInit, Resting, ServerInv
  <1>2. ServerInv /\ [Next]_vars => ServerInv'
    BY TypedStep, StagesStep, RestingStep, HubStepAgrees, GaplessStep DEF ServerInv
  <1> QED  BY <1>1, <1>2, PTL DEF Spec

\* The types, and no client, ping or event outlives its connection.
THEOREM TypeInvCorrect == Spec => []TypeInv
  BY ServerInvCorrect, PTL DEF ServerInv, Typed, TypeInv

\* However a connection ends, and whoever else is connected as the same user, no
\* goroutine, no entry of the hub and no subscription of it is left.
THEOREM NothingLeftCorrect == Spec => []NothingLeft
  <1>1. ServerInv => NothingLeft
    <2> SUFFICES ASSUME ServerInv PROVE NothingLeft
      OBVIOUS
    <2>1. ASSUME NEW s \in Sessions, main[s] \in {"none", "done"}
          PROVE  /\ reader[s] \in {"none", "ended"} /\ writer[s] \in {"none", "ended"}
                 /\ s \notin subscribed
      BY <2>1 DEF ServerInv, Stages, Early, Late
    <2>2. ASSUME NEW s \in Sessions, main[s] \in {"none", "done"}, NEW u \in Users
          PROVE  clients[u] # s
      BY <2>2, ConnectionAssumption DEF ServerInv, HubAgrees
    <2> QED  BY <2>1, <2>2 DEF NothingLeft, ServerInv, HubAgrees
  <1> QED  BY <1>1, ServerInvCorrect, PTL

\* While its client is there and its write loop runs, a connection passes on every event
\* since its subscription, once and in order.
THEOREM NoGapCorrect == Spec => []NoGap
  <1>1. ASSUME ServerInv, NEW s \in Sessions, s \in subscribed \cap here, writer[s] = "select"
        PROVE  got[s] \o queue[s] = [i \in 1..count[s] |-> i]
    <2> DEFINE q == queue[s]
               g == got[s]
               all == g \o q
    <2>1. q \in Seq(Events) /\ g \in Seq(Events) /\ Numbered(s)
      BY <1>1 DEF ServerInv, Typed, Gapless
    <2>2. Len(q) \in Nat /\ Len(g) \in Nat
      BY <2>1, LenProperties
    <2>3. /\ all \in Seq(Events)
          /\ Len(all) = Len(g) + Len(q)
          /\ \A i \in 1..Len(g) + Len(q) : all[i] = IF i <= Len(g) THEN g[i] ELSE q[i - Len(g)]
      BY <2>1, ConcatProperties
    <2>4. all \in [1..Len(all) -> Events]
      BY <2>3, LenProperties
    <2>5. PICK k \in Nat, l \in Nat : k = Len(g) /\ l = Len(q)
      BY <2>2
    <2>6. /\ k + l = count[s]
          /\ \A i \in 1..k : g[i] = i
          /\ \A i \in 1..l : q[i] = k + i
          /\ \A i \in 1..(k + l) : all[i] = IF i <= k THEN g[i] ELSE q[i - k]
      BY <2>1, <2>3, <2>5 DEF Numbered
    <2> HIDE DEF q, g, all
    <2>7. ASSUME NEW i \in 1..(k + l) PROVE all[i] = i
      <3>1. CASE i <= k
        BY <2>6, <3>1
      <3>2. CASE ~(i <= k)
        <4>1. i - k \in 1..l /\ all[i] = q[i - k]
          BY <2>6, <3>2
        <4> QED  BY <2>6, <4>1
      <3> QED  BY <3>1, <3>2
    <2>8. all = [i \in 1..count[s] |-> i]
      BY <2>3, <2>4, <2>5, <2>6, <2>7
    <2> QED  BY <2>8 DEF all, g, q
  <1>2. ServerInv => NoGap
    BY <1>1 DEF NoGap
  <1> QED  BY <1>2, ServerInvCorrect, PTL
=============================================================================
