---------------------------- MODULE ChatStoreLog ----------------------------
(***************************************************************************)
(* The chat store implements ChatLog: however the transactions of the      *)
(* repository interleave, fail and wait for each other, each takes effect  *)
(* in the step that commits it.                                            *)
(*                                                                         *)
(* The id of a message counts as spent once no transaction holds it any    *)
(* more: between the first and the last step of a transaction it is taken  *)
(* from the sequence, and neither an entry nor wasted.                     *)
(***************************************************************************)
EXTENDS ChatStore

\* The message m with those who have a status row for it
Entry(m) == [chat |-> messages[m].chat, from |-> messages[m].from, type |-> messages[m].type,
             to |-> {u \in Users : status[m][u] # "NONE"}]

Log == INSTANCE ChatLog WITH
  Chats   <- ChatIds,
  Ids     <- MsgIds,
  Nobody  <- NoUser,
  alive   <- {c \in ChatIds : Exists(c)},
  seen    <- {c \in ChatIds : c < nextChat},
  belongs <- [c \in ChatIds |-> MembersOf(c)],
  log     <- [m \in MsgIds |-> Entry(m)],
  spent   <- Spent

\* Transactions are atomic: nobody sees a message without its addressees, a change of
\* members without its message, an id twice, or a part of a deleted chat.
ImplementsLog == Log!LogSpec
=============================================================================
