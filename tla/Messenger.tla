----------------------------- MODULE Messenger -----------------------------
(***************************************************************************)
(* The two services over one store: the WebSocket connections of           *)
(* MessageService and the HTTP handlers of GroupService are the workers of *)
(* the same ChatStore.  Each service sees the other only through the       *)
(* tables, as the calls of the repository that its own module allows the   *)
(* other workers (GroupCall, SessionCall): that these are all the calls    *)
(* the other one makes is what this module is for.                         *)
(***************************************************************************)
EXTENDS ChatStore

CONSTANTS
  Sessions,     \* the WebSocket connections
  UserOf,       \* UserOf[s]: the user of connection s
  Handlers,     \* the goroutines that serve HTTP requests
  Reachable,    \* the users who are online and subscribed all the time
  Faults,       \* whether a call of the database or of Redis may fail
  MaxFrames,    \* bound on the frames the clients send
  MaxRequests   \* bound on the requests that get past their checks

ASSUME MessengerAssumption ==
  /\ Workers = Sessions \union Handlers
  /\ Sessions \cap Handlers = {}
  /\ Users \subseteq Nat
  /\ UserOf \in [Sessions -> Users]
  /\ Reachable \subseteq Users
  /\ Faults \in BOOLEAN
  /\ MaxFrames \in Nat
  /\ MaxRequests \in Nat

VARIABLES
  sess, inbox, frames,              \* of MessageService
  job, listed, told, requests       \* of GroupService

Rt == INSTANCE MessageService
Gr == INSTANCE GroupService

vars == <<storeVars, sess, inbox, frames, job, listed, told, requests>>

-----------------------------------------------------------------------------
Init == Rt!Init /\ Gr!Init

\* A connection or a handler takes a step; they share nothing but the store
Connection(s) == Rt!SessionStep(s) /\ UNCHANGED <<job, listed, told, requests>>
Handler(w) == Gr!HandlerStep(w) /\ UNCHANGED <<sess, inbox, frames>>

Next ==
  \/ \E s \in Sessions : Connection(s)
  \/ \E w \in Handlers : Handler(w)

Spec == Init /\ [][Next]_vars
-----------------------------------------------------------------------------
\* The HTTP handlers do to the store only what MessageService expects of them, so that
\* what it shows holds in the whole messenger ...
ImplementsMessageService == Rt!Spec

\* ... and the connections only what GroupService expects.
ImplementsGroupService == Gr!Spec

\* With one request at a time the chat list of a reachable client follows the membership
\* of its user, but for a removal by another under the type left_member, whatever the
\* connections write meanwhile ("to react to a change in the chat list").
ChatListFollows == Gr!ChatListFollows
=============================================================================
