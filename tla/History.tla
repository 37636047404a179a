------------------------------ MODULE History ------------------------------
(***************************************************************************)
(* The history of a chat: PaginateMessages (internal/repository/message.go,*)
(* reached through internal/service/groups.go and handlers.go), while the  *)
(* real-time service goes on.                                              *)
(*                                                                         *)
(* A client opens a chat: from then on it listens to the events of its     *)
(* user and asks for one page of the chat after the other, newest first,   *)
(* each below the cursor the last one returned.  Ids are taken before the  *)
(* commit, so that a message may appear below a cursor already passed; the *)
(* events must bring what the pages miss.                                  *)
(*                                                                         *)
(* The operators named Bug... are mistaken versions of the operator that   *)
(* follows them, used by no action (see ChatStore).                        *)
(***************************************************************************)
EXTENDS MessageService, FiniteSets

CONSTANTS
  Reader,     \* the user whose client reads a chat
  PageSize    \* 20 in the code

ASSUME ReaderAssumption ==
  /\ Reader \in Reachable
  /\ PageSize \in Nat \ {0}

VARIABLES
  book,       \* where the client is in the chat it reads
  before      \* the messages that were visible when it asked for the first page

histVars == <<vars, book, before>>

\* Where it is ("none", "opened", "paging", "finished"), the chat, the last new_cursor and
\* has_more, the messages of the pages, and how many events had come when it was opened
NotOpen == [step |-> "none", chat |-> 0, cursor |-> 0, more |-> FALSE, got |-> {}, heard |-> 0]

Visible(c) == {m \in MsgIds : messages[m].type # "NONE" /\ messages[m].chat = c}

\* The n greatest elements of S, all of them if there are not as many
Newest(n, S) == {m \in S : Cardinality({k \in S : k > m}) < n}

BugOffByOne(c, cursor) == {m \in Visible(c) : cursor = 0 \/ m < cursor - 1}

\* WHERE chat_id = $1 AND ($2 IS NULL OR id < $2)
Below(c, cursor) == {m \in Visible(c) : cursor = 0 \/ m < cursor}

BugNoExtraRow(rows) == Cardinality(rows) >= PageSize

\* LIMIT one row more than a page holds
HasMore(rows) == Cardinality(rows) > PageSize

\* content is NULL in the messages about members and cannot be scanned: the request
\* fails, also if only the extra row is one of them
Scans(rows) == \A m \in rows : messages[m].type = "new_message"

-----------------------------------------------------------------------------
OpenChat(c) ==
  /\ book.step = "none"
  /\ c < nextChat
  /\ book' = [NotOpen EXCEPT !.step = "opened", !.chat = c, !.heard = Len(inbox[Reader])]
  /\ UNCHANGED <<vars, before>>

\* One request.  The cursor stays when the page is empty
Paginate ==
  LET rows == Newest(PageSize + 1, Below(book.chat, book.cursor))
      page == Newest(PageSize, rows)
  IN  /\ \/ book.step = "opened"
         \/ book.step = "paging" /\ book.more
      /\ Scans(rows)
      /\ book' = [book EXCEPT
                    !.step = IF HasMore(rows) THEN "paging" ELSE "finished",
                    !.cursor = IF page = {} THEN 0 ELSE CHOOSE m \in page : \A k \in page : m <= k,
                    !.more = HasMore(rows),
                    !.got = @ \union page]
      /\ before' = IF book.step = "opened" THEN Visible(book.chat) ELSE before
      /\ UNCHANGED vars

-----------------------------------------------------------------------------
HistInit == Init /\ book = NotOpen /\ before = {}

HistNext ==
  \/ Next /\ UNCHANGED <<book, before>>
  \/ \E c \in ChatIds : OpenChat(c)
  \/ Paginate

HistSpec == HistInit /\ [][HistNext]_histVars
-----------------------------------------------------------------------------
(* Invariants *)

\* Who has read to the end has every message that was there when he began and still
\* is, although messages appear between two requests, above and below the cursor.
HistoryComplete ==
  book.step = "finished" => before \cap Visible(book.chat) \subseteq book.got

\* has_more is not a promise that can be broken by others: below the cursor there is
\* a message, unless the chat has been deleted.
MoreIsThere ==
  book.more => Below(book.chat, book.cursor) # {} \/ ~Exists(book.chat)

\* The reader has not left the chat, as far as its messages tell
NeverLeft ==
  \A m \in Visible(book.chat) :
    ~(messages[m].from = Reader /\ messages[m].type \in LeaveTypes)

\* When no call fails, a client that has read to the end and whose user stays in the
\* chat has every message of it that his user wrote or that is addressed to him, once
\* the handlers have come to rest: what is committed below the cursor after the page
\* was read is told by an event.
NothingMissed ==
  /\ ~Faults
  /\ book.step = "finished" /\ NeverLeft
  /\ \A s \in Sessions : At(s, "idle")
  => \A m \in Visible(book.chat) :
       /\ messages[m].type = "new_message"
       /\ messages[m].from = Reader \/ status[m][Reader] # "NONE"
       => \/ m \in book.got
          \/ \E i \in (book.heard + 1)..Len(inbox[Reader]) :
               /\ inbox[Reader][i].type \in {"new_message", "message_confirmed"}
               /\ inbox[Reader][i].msg = m
=============================================================================
