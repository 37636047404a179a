------------------------------ MODULE ChatLog ------------------------------
(***************************************************************************)
(* What the chat store promises, without its tables, roles, sequences and  *)
(* transactions: chats with members and one log.  Whatever happens to a    *)
(* chat happens in one step, together with the entry of the log that says  *)
(* so; an entry is addressed to the members of that moment and has an id   *)
(* of its own for ever.                                                    *)
(***************************************************************************)
CONSTANTS
  Users,      \* who may be a member
  Chats,      \* the ids of chats
  Ids,        \* the ids of entries
  Nobody      \* who posts what is not there

VARIABLES
  alive,      \* the chats that exist
  seen,       \* the ids of chats that are spent: alive, deleted or never used
  belongs,    \* belongs[c]: the members of chat c
  log,        \* log[m]: the entry m, or NoEntry
  spent       \* the ids of entries that are spent

logVars == <<alive, seen, belongs, log, spent>>

NoEntry == [chat |-> 0, from |-> Nobody, type |-> "NONE", to |-> {}]

Leavings == {"left_member", "kicked_member"}

-----------------------------------------------------------------------------
(* Chats: Open and WasteChat take an id that is not seen, Delete a chat alive *)

\* NewGroupChat with one member, GetOrCreatePrivateChat with two
Open(c, first) ==
  /\ seen' = seen \union {c}
  /\ alive' = alive \union {c}
  /\ belongs' = [belongs EXCEPT ![c] = first]
  /\ UNCHANGED <<log, spent>>

\* The id of a chat whose creation failed
WasteChat(c) ==
  /\ seen' = seen \union {c}
  /\ UNCHANGED <<alive, belongs, log, spent>>

Delete(c) ==
  /\ alive' = alive \ {c}
  /\ belongs' = [belongs EXCEPT ![c] = {}]
  /\ log' = [m \in Ids |-> IF log[m].chat = c THEN NoEntry ELSE log[m]]
  /\ UNCHANGED <<seen, spent>>

-----------------------------------------------------------------------------
(* Entries: m is not spent, c is alive *)

Enter(m, c, u, type) ==
  /\ spent' = spent \union {m}
  /\ log' = [log EXCEPT ![m] = [chat |-> c, from |-> u, type |-> type, to |-> belongs[c]]]
  /\ UNCHANGED <<alive, seen>>

\* NewMessage
Post(m, c, u) ==
  /\ Enter(m, c, u, "new_message")
  /\ UNCHANGED belongs

\* NewGroupChatMember: the new member is not among those told
Join(m, c, u) ==
  /\ u \notin belongs[c]
  /\ Enter(m, c, u, "new_member")
  /\ belongs' = [belongs EXCEPT ![c] = @ \union {u}]

\* DeleteGroupMember; the entry is made even if u is not a member
Leave(m, c, u, type) ==
  /\ Enter(m, c, u, type)
  /\ belongs' = [belongs EXCEPT ![c] = @ \ {u}]

\* ... or the user has joined while the transaction was open: he stays
LeaveMissed(m, c, u, type) ==
  /\ Enter(m, c, u, type)
  /\ UNCHANGED belongs

\* The id of an entry that was rolled back
Waste(m) ==
  /\ spent' = spent \union {m}
  /\ UNCHANGED <<alive, seen, belongs, log>>

-----------------------------------------------------------------------------
LogInit ==
  /\ alive = {}
  /\ seen = {}
  /\ belongs = [c \in Chats |-> {}]
  /\ log = [m \in Ids |-> NoEntry]
  /\ spent = {}

LogNext ==
  \/ \E m \in Ids \ spent :
        \/ Waste(m)
        \/ \E c \in alive, u \in Users :
              \/ Post(m, c, u)
              \/ Join(m, c, u)
              \/ \E t \in Leavings : Leave(m, c, u, t) \/ LeaveMissed(m, c, u, t)
  \/ \E c \in Chats \ seen :
        \/ WasteChat(c)
        \/ \E u, v \in Users : Open(c, {u, v})
  \/ \E c \in alive : Delete(c)

LogSpec == LogInit /\ [][LogNext]_logVars
=============================================================================
