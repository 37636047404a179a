------------------------------- MODULE Server -------------------------------
(***************************************************************************)
(* The process around the connections: start and shutdown                  *)
(* (cmd/app/main.go, internal/server/server.go).                           *)
(*                                                                         *)
(* On a signal Run drops the tables (migrateDown) while the listener still *)
(* accepts, then stops the HTTP server.  Shutdown waits for the requests   *)
(* in progress, until 10 s after the signal, but not for WebSockets, which *)
(* have been taken out of its hands: for a connection the process may end  *)
(* at any moment.  So it may before, when a handler panics: the loops are  *)
(* goroutines of their own, where net/http does not recover.               *)
(***************************************************************************)
EXTENDS Connection

VARIABLE phase      \* where main and Run are

vars == <<connVars, phase>>

Phases == {"start", "migrated", "hub", "serving", "signalled", "shutdown", "exited"}

Phase(from, to) == phase = from /\ phase' = to

Alive == phase # "exited"
BugHubStops == phase \in {"hub", "serving"}
HubRuns == phase \notin {"start", "migrated"}

\* ListenAndServe until Shutdown, also while migrateDown runs
Listening == phase \in {"serving", "signalled"}

-----------------------------------------------------------------------------
(* main and Run *)

\* Configuration, Redis, PostgreSQL and the migrations
Migrate == Phase("start", "migrated") /\ UNCHANGED connVars

RunHub == Phase("migrated", "hub") /\ UNCHANGED connVars

Listen == Phase("hub", "serving") /\ UNCHANGED connVars

Signal == Phase("serving", "signalled") /\ UNCHANGED connVars

\* migrateDown, then Shutdown closes the listener
Shutdown == Phase("signalled", "shutdown") /\ UNCHANGED connVars

\* The end of Run, an error at the start or a panic: every goroutine is gone, Redis
\* and the clients see their connections closed
Exit ==
  /\ Alive
  /\ phase' = "exited"
  /\ AllGone

-----------------------------------------------------------------------------
(* The connections *)

Upgrade(s) == Listening /\ Accept(s) /\ UNCHANGED phase
HubStep(s) == HubRuns /\ WithHub(s) /\ UNCHANGED phase
Live(A) == Alive /\ A /\ UNCHANGED phase

-----------------------------------------------------------------------------
Init == ConnInit /\ phase = "start"

Main == Migrate \/ RunHub \/ Listen \/ Shutdown

Next ==
  \/ Main
  \/ Signal
  \/ Exit
  \/ \E s \in Sessions : Upgrade(s) \/ HubStep(s) \/ Live(ConnStep(s))
  \/ \E u \in Users : Live(Publish(u))

Spec == Init /\ [][Next]_vars

\* The goroutines are scheduled, the calls they make return, time passes, a select
\* does not pass over a ready case for ever.  Nothing makes a client act or the
\* process end
FairSpec ==
  /\ Spec
  /\ WF_vars(Main)
  /\ \A s \in Sessions :
        /\ WF_vars(HubStep(s))
        /\ WF_vars(Live(HandleConn(s)))
        /\ WF_vars(Live(ReadLoop(s)))
        /\ WF_vars(Live(WriteLoop(s)))
        /\ WF_vars(Live(Lapse(s)))
-----------------------------------------------------------------------------
\* Every variable keeps its type, and no client, ping or event outlives its connection.
TypeInv == ConnTypeOK /\ Resting /\ phase \in Phases

-----------------------------------------------------------------------------
(* Liveness *)

\* Every connection that is accepted gets to its loops, unless the process exits:
\* the hub runs before the listener, and goes on while the server shuts down.
AcceptedIsServed ==
  \A s \in Sessions : main[s] = "register" ~> main[s] = "wait" \/ ~Alive

\* When one loop of a connection has ended, the other ends too, and when a client has
\* vanished without a word both do, and the connection is torn down: a read loop that
\* is blocked in ReadJSON gets no more pings answered and runs into its deadline.
LoopsEndTogether ==
  \A s \in Sessions :
    \/ reader[s] = "ended" \/ writer[s] = "ended"
    \/ main[s] = "wait" /\ s \notin here
    ~> main[s] = "done" \/ ~Alive

\* An event in the channel of a connection reaches the client, unless the client
\* leaves or the connection is torn down.
EventArrives ==
  \A s \in Sessions, n \in 1..MaxEvents :
    (\E i \in 1..Len(queue[s]) : queue[s][i] = n)
    ~> \/ \E i \in 1..Len(got[s]) : got[s][i] = n
       \/ s \notin here \/ writer[s] = "ended" \/ ~Alive
=============================================================================
