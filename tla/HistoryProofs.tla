--------------------------- MODULE HistoryProofs ---------------------------
(***************************************************************************)
(* Proofs about History, for any users, connections and chats and any      *)
(* bounds: the pages of a chat leave nothing out that was there when the   *)
(* client asked for the first one, and the events bring what was written   *)
(* since.                                                                  *)
(***************************************************************************)
EXTENDS History, MessageServiceProofs, FiniteSetTheorems, WellFoundedInduction

-----------------------------------------------------------------------------
(* Pages *)

\* A set of natural numbers that is not empty has a least element.
LEMMA LeastOf ==
  ASSUME NEW S \in SUBSET Nat, S # {}
  PROVE  \E x \in S : \A y \in S : x <= y
  <1>1. PICK x \in S : \A y \in S : ~(<<y, x>> \in OpToRel(<, Nat))
    BY NatLessThanWellFounded, WFMin
  <1>2. \A y \in S : ~(y < x)
    BY <1>1 DEF OpToRel
  <1> QED  BY <1>2

\* A set of natural numbers up to n that is not empty has a greatest element.
LEMMA GreatestOf ==
  ASSUME NEW n \in Nat, NEW S \in SUBSET (1..n), S # {}
  PROVE  \E x \in S : \A y \in S : y <= x
  <1> DEFINE T == {n - y : y \in S}
  <1>0. \A y \in S : y \in Nat /\ n - y \in Nat
    OBVIOUS
  <1>1. T \in SUBSET Nat /\ T # {}
    BY <1>0
  <1>2. PICK t \in T : \A z \in T : t <= z
    BY ONLY <1>1, LeastOf
  <1>3. PICK x \in S : t = n - x
    BY <1>2
  <1>4. ASSUME NEW y \in S
        PROVE  y <= x
    <2>1. n - y \in T
      OBVIOUS
    <2>2. n - x <= n - y
      BY <1>2, <1>3, <2>1
    <2> HIDE DEF T
    <2> QED  BY <1>0, <2>2
  <1> QED  BY <1>4

\* The newest n of a set of ids: all of it if it has no more than n elements, else at
\* least n; nothing that is left out is above one that is in; and no more than n.
LEMMA NewestIs ==
  ASSUME NEW k \in Nat, NEW S \in SUBSET (1..k), NEW n \in Nat
  PROVE  /\ Newest(n, S) \subseteq S
         /\ Cardinality(S) \in Nat /\ Cardinality(Newest(n, S)) \in Nat
         /\ Cardinality(Newest(n, S)) <= n
         /\ Cardinality(S) <= n \/ Cardinality(Newest(n, S)) < n => Newest(n, S) = S
         /\ \A x \in Newest(n, S), y \in S : x < y => y \in Newest(n, S)
  <1> DEFINE N == Newest(n, S)
             Above(x) == {y \in S : y > x}
  <1>1. S \subseteq Nat /\ N \in SUBSET S
    BY DEF Newest
  <1>2. \A x \in S : Above(x) \in SUBSET S /\ (x \in N <=> Cardinality(Above(x)) < n)
    BY DEF Newest
  <1>3. \A x \in S, y \in S : y \in Above(x) <=> y > x
    OBVIOUS
  <1>4. \A T \in SUBSET S : IsFiniteSet(T) /\ Cardinality(T) \in Nat
    <2>1. IsFiniteSet(1..k)
      BY FS_Interval
    <2>2. IsFiniteSet(S)
      BY <2>1, FS_Subset
    <2> QED  BY <2>2, FS_Subset, FS_CardinalityType
  <1> HIDE DEF N, Above
  <1>5. ASSUME NEW x \in N, NEW y \in S, x < y
        PROVE  y \in N
    <2>0. x \in S /\ x \in Nat /\ y \in Nat
      BY <1>1, <1>5
    <2>1. Above(y) \in SUBSET Above(x)
      <3> SUFFICES ASSUME NEW z \in Above(y) PROVE z \in Above(x)
        OBVIOUS
      <3>1. z \in S /\ z \in Nat
        BY <1>1, <1>2
      <3> QED  BY <1>3, <1>5, <2>0, <3>1
    <2>2. /\ IsFiniteSet(Above(x)) /\ Cardinality(Above(x)) \in Nat
          /\ Cardinality(Above(y)) \in Nat
      BY <1>2, <1>4, <2>0, <2>1
    <2>3. Cardinality(Above(y)) <= Cardinality(Above(x))
      BY <2>1, <2>2, FS_Subset
    <2> QED  BY <1>2, <1>4, <1>5, <2>0, <2>2, <2>3
  <1>6. ASSUME Cardinality(N) < n, N # S
        PROVE  FALSE
    <2>1. S \ N \in SUBSET (1..k) /\ S \ N # {}
      BY <1>1, <1>6
    <2>2. PICK x \in S \ N : \A y \in S \ N : y <= x
      BY ONLY <2>1, GreatestOf, k \in Nat
    <2>3. Above(x) \in SUBSET N
      <3> SUFFICES ASSUME NEW z \in Above(x) PROVE z \in N
        OBVIOUS
      <3>1. x \in S /\ x \in Nat /\ z \in S /\ z \in Nat
        BY <1>1, <1>2, <2>2
      <3> QED  BY <1>3, <2>2, <3>1
    <2>4. IsFiniteSet(N) /\ Cardinality(N) \in Nat /\ Cardinality(Above(x)) \in Nat
      BY <1>1, <1>2, <1>4, <2>2
    <2>5. Cardinality(Above(x)) <= Cardinality(N)
      BY <2>3, <2>4, FS_Subset
    <2> QED  BY <1>2, <1>6, <2>2, <2>4, <2>5
  <1>7. Cardinality(N) <= n
    <2>1. CASE N = {}
      BY <2>1, FS_EmptySet
    <2>2. CASE N # {}
      <3>1. N \in SUBSET Nat
        BY <1>1
      <3>2. PICK x \in N : \A y \in N : x <= y
        BY <2>2, <3>1, LeastOf
      <3>3. x \in S /\ N \in SUBSET (Above(x) \union {x})
        BY <1>1, <1>3, <3>1, <3>2
      <3>4. IsFiniteSet(Above(x)) /\ Cardinality(Above(x)) \in Nat /\ Cardinality(N) \in Nat
        BY <1>1, <1>2, <1>4, <3>3
      <3>5. /\ IsFiniteSet(Above(x) \union {x})
            /\ Cardinality(Above(x) \union {x}) <= Cardinality(Above(x)) + 1
        <4>1. PICK A : A = Above(x)
          OBVIOUS
        <4>2. IsFiniteSet(A \union {x})
          BY <3>4, <4>1, FS_AddElement
        <4>3. Cardinality(A \union {x}) = IF x \in A THEN Cardinality(A) ELSE Cardinality(A) + 1
          BY <3>4, <4>1, FS_AddElement
        <4> QED  BY <3>4, <4>1, <4>2, <4>3
      <3>6. Cardinality(N) <= Cardinality(Above(x) \union {x})
        BY <3>3, <3>5, FS_Subset
      <3>7. Cardinality(Above(x)) < n
        BY <1>2, <3>2, <3>3
      <3>8. Cardinality(Above(x) \union {x}) \in Nat
        BY <3>5, FS_CardinalityType
      <3> QED  BY <3>4, <3>5, <3>6, <3>7, <3>8
    <2> QED  BY <2>1, <2>2
  <1>8. Cardinality(S) \in Nat /\ Cardinality(N) \in Nat
    BY <1>1, <1>4
  <1>9. Cardinality(N) < n => N = S
    BY <1>6
  <1>10. ASSUME Cardinality(S) <= n
         PROVE  N = S
    <2> SUFFICES ASSUME NEW x \in S PROVE x \in N
      BY <1>1
    <2>1. Above(x) \in SUBSET S /\ x \notin Above(x) /\ x \in Nat
      BY <1>1, <1>2, <1>3
    <2>2. /\ IsFiniteSet(S) /\ Cardinality(S) \in Nat
          /\ Cardinality(Above(x)) \in Nat
      BY <1>4, <2>1
    <2>3. /\ Cardinality(Above(x)) <= Cardinality(S)
          /\ Cardinality(S) = Cardinality(Above(x)) => S = Above(x)
      BY <2>1, <2>2, FS_Subset
    <2> QED  BY <1>2, <1>10, <2>1, <2>2, <2>3
  <1> QED  BY <1>1, <1>5, <1>7, <1>8, <1>9, <1>10 DEF N

\* A page is the top of what is below the cursor: all of it if there is no more, else
\* all of it down to the new cursor, below which something is left.
LEMMA PageIs ==
  ASSUME NEW B \in SUBSET MsgIds,
         NEW rows, rows = Newest(PageSize + 1, B), NEW page, page = Newest(PageSize, rows)
  PROVE  /\ page \subseteq B
         /\ ~HasMore(rows) => page = B
         /\ HasMore(rows) =>
              \E m \in page : /\ \A k \in page : m <= k
                              /\ \A k \in B : k \in page \/ k < m
                              /\ \E k \in B : k < m
  <1>1. PageSize \in Nat /\ PageSize > 0 /\ PageSize + 1 \in Nat /\ MaxMsgs \in Nat
    BY ReaderAssumption, StoreAssumption
  <1>2. /\ B \in SUBSET (1..MaxMsgs) /\ B \subseteq Nat
    BY <1>1 DEF MsgIds
  <1>3. /\ rows \subseteq B /\ Cardinality(rows) \in Nat
        /\ Cardinality(rows) < PageSize + 1 => rows = B
        /\ \A x \in rows, y \in B : x < y => y \in rows
    BY <1>1, <1>2, NewestIs
  <1>4. rows \in SUBSET (1..MaxMsgs)
    BY <1>2, <1>3
  <1>5. /\ page \subseteq rows /\ Cardinality(page) \in Nat /\ Cardinality(page) <= PageSize
        /\ Cardinality(rows) <= PageSize => page = rows
        /\ Cardinality(page) < PageSize => page = rows
        /\ \A x \in page, y \in rows : x < y => y \in page
    <2>1. page = Newest(PageSize, rows)
      OBVIOUS
    <2> QED  BY ONLY <1>1, <1>4, <2>1, NewestIs
  <1>6. ASSUME ~HasMore(rows)
        PROVE  page = B
    BY <1>1, <1>3, <1>5, <1>6 DEF HasMore
  <1>7. ASSUME HasMore(rows)
        PROVE  \E m \in page : /\ \A k \in page : m <= k
                               /\ \A k \in B : k \in page \/ k < m
                               /\ \E k \in B : k < m
    <2>1. page # rows
      BY <1>1, <1>3, <1>5, <1>7 DEF HasMore
    <2>2. page # {}
      BY <1>1, <1>5, <2>1, FS_EmptySet
    <2>3. page \in SUBSET Nat
      BY <1>2, <1>3, <1>5
    <2>4. PICK m \in page : \A k \in page : m <= k
      BY <2>2, <2>3, LeastOf
    <2>5. ASSUME NEW k \in B, k \notin page
          PROVE  k < m
      <3>1. m \in Nat /\ k \in Nat /\ m # k /\ m \in rows
        BY <1>2, <1>5, <2>3, <2>5
      <3>2. ~(m < k)
        BY <1>3, <1>5, <2>5, <3>1
      <3> QED  BY <3>1, <3>2
    <2>6. PICK k \in rows : k \notin page
      BY <1>5, <2>1
    <2> QED  BY <1>3, <2>4, <2>5, <2>6
  <1> QED  BY <1>3, <1>5, <1>6, <1>7

-----------------------------------------------------------------------------
(* What is visible *)

\* A message that is visible is settled.
LEMMA SeenIsSettled ==
  ASSUME StoreInv, NEW c, NEW m \in Visible(c)
  PROVE  \E u, t : t # "NONE" /\ messages[m] = [chat |-> c, from |-> u, type |-> t]
                   /\ Settled(m, c, u, t)
  <1>1. m \in MsgIds /\ messages[m].type # "NONE" /\ messages[m].chat = c
    BY DEF Visible
  <1>2. messages[m] = [chat |-> c, from |-> messages[m].from, type |-> messages[m].type]
    BY <1>1 DEF StoreInv, TypeOK, MessageRow
  <1>3. c \in ChatIds /\ Exists(c) /\ m \in Nat /\ c \in Nat
    BY <1>1 DEF StoreInv, Integrity, MsgIds, ChatIds
  <1>4. m < nextMsg /\ c < nextChat
    BY <1>1, <1>3, StoreAssumption DEF StoreInv, TypeOK, TxInv, IdsAhead, Exists
  <1>5. \A w \in Workers : Posting(w) => tx[w].msg # m
    BY <1>1 DEF StoreInv, TxInv, PostersHold
  <1> QED  BY <1>1, <1>2, <1>3, <1>4, <1>5 DEF Settled

\* A message that is settled and visible after a step was visible before it.
LEMMA SettledWasSeen ==
  ASSUME StoreInv, [StoreNext]_storeVars,
         NEW m, NEW c, NEW u, NEW t, Settled(m, c, u, t), m \in Visible(c)'
  PROVE  m \in Visible(c)
  <1>1. KeepsIds /\ m \in MsgIds /\ messages'[m].type # "NONE" /\ messages'[m].chat = c
    BY StepProperties DEF Visible, Settled
  <1>2. m \in Spent
    BY DEF Settled, Spent
  <1>3. messages'[m] = messages[m]
    BY <1>1, <1>2 DEF KeepsIds, NoMessage
  <1> QED  BY <1>1, <1>3 DEF Visible

\* A message that is visible before and after a step is the same one.
LEMMA SeenIsSame ==
  ASSUME StoreInv, [StoreNext]_storeVars, NEW m \in MsgIds,
         messages[m].type # "NONE", messages'[m].type # "NONE"
  PROVE  messages'[m] = messages[m]
  <1>1. m \in Visible(messages[m].chat)
    BY DEF Visible
  <1>2. m \in Spent
    BY <1>1, SeenIsSettled DEF Settled, Spent
  <1> QED  BY <1>2, StepProperties DEF KeepsIds, NoMessage

\* A message that is visible stays as it is while its chat is there.
LEMMA SeenStays ==
  ASSUME StoreInv, [StoreNext]_storeVars, NEW c, NEW m \in Visible(c), Exists(c)'
  PROVE  m \in Visible(c)' /\ messages'[m] = messages[m]
  <1>1. PICK u, t : t # "NONE" /\ messages[m] = [chat |-> c, from |-> u, type |-> t]
                    /\ Settled(m, c, u, t)
    BY SeenIsSettled
  <1>2. Settled(m, c, u, t)'
    BY <1>1, SettledStays
  <1>3. messages'[m] = [chat |-> c, from |-> u, type |-> t] /\ m \in MsgIds
    BY <1>2 DEF Settled
  <1> QED  BY <1>1, <1>3 DEF Visible

-----------------------------------------------------------------------------
(* The client *)

Book == [step : {"none", "opened", "paging", "finished"}, chat : ChatIds \union {0},
         cursor : MsgIds \union {0}, more : BOOLEAN, got : SUBSET MsgIds, heard : Nat]

\* The types, and what goes with each step of the client
BookSound ==
  /\ book \in Book
  /\ book.step # "none" => book.chat \in ChatIds
  /\ book.step = "opened" => book.cursor = 0
  /\ book.step = "paging" => book.cursor \in MsgIds
  /\ book.more <=> book.step = "paging"

\* Message m was written in chat c
Written(m, c) == \E u, t : t # "NONE" /\ Settled(m, c, u, t)

\* Of what was there before the first page the client has all that is not below its
\* cursor, and below the cursor there is something as long as it is told so
ReadDown ==
  /\ book.step \in {"paging", "finished"} => \A m \in before : Written(m, book.chat)
  /\ book.step = "paging" =>
       /\ \A m \in before \cap Visible(book.chat) : m \in book.got \/ m < book.cursor
       /\ \E m \in MsgIds : m < book.cursor /\ Written(m, book.chat)
  /\ book.step = "finished" => before \cap Visible(book.chat) \subseteq book.got

\* A request either ends the reading, with all that is below the cursor, or moves the
\* cursor down to the last message of the page.
LEMMA PaginateIs ==
  ASSUME BookSound, Paginate
  PROVE  /\ UNCHANGED vars
         /\ book.step \in {"opened", "paging"}
         /\ before' = IF book.step = "opened" THEN Visible(book.chat) ELSE before
         /\ book' \in Book /\ book'.chat = book.chat /\ book'.heard = book.heard
         /\ \E page \in SUBSET Below(book.chat, book.cursor) :
              /\ book'.got = book.got \union page
              /\ \/ /\ book'.step = "finished" /\ book'.more = FALSE
                    /\ page = Below(book.chat, book.cursor)
                 \/ /\ book'.step = "paging" /\ book'.more = TRUE /\ book'.cursor \in MsgIds
                    /\ \A k \in Below(book.chat, book.cursor) : k \in page \/ k < book'.cursor
                    /\ \E k \in Below(book.chat, book.cursor) : k < book'.cursor
  <1>1. PICK B : B = Below(book.chat, book.cursor)
    OBVIOUS
  <1>2. PICK rows : rows = Newest(PageSize + 1, B)
    OBVIOUS
  <1>3. PICK page : page = Newest(PageSize, rows)
    OBVIOUS
  <1>4. B \in SUBSET MsgIds
    BY <1>1 DEF Below, Visible
  <1>5. /\ page \subseteq B
        /\ ~HasMore(rows) => page = B
        /\ HasMore(rows) => \E m \in page : /\ \A k \in page : m <= k
                                            /\ \A k \in B : k \in page \/ k < m
                                            /\ \E k \in B : k < m
    BY <1>2, <1>3, <1>4, PageIs
  <1> DEFINE more == HasMore(rows)
             least == CHOOSE m \in page : \A k \in page : m <= k
  <1>6. more \in BOOLEAN
    BY DEF HasMore
  <1>7. /\ UNCHANGED vars
        /\ book.step \in {"opened", "paging"}
        /\ before' = IF book.step = "opened" THEN Visible(book.chat) ELSE before
        /\ book' = [book EXCEPT !.step = IF more THEN "paging" ELSE "finished",
                                !.cursor = IF page = {} THEN 0 ELSE least,
                                !.more = more,
                                !.got = @ \union page]
    BY <1>1, <1>2, <1>3 DEF Paginate
  <1>8. page # {} => least \in page
    <2>1. page \in SUBSET Nat
      BY <1>4, <1>5 DEF MsgIds
    <2> QED  BY <2>1, LeastOf
  <1>9. more => /\ page # {}
                /\ \A k \in B : k \in page \/ k < least
                /\ \E k \in B : k < least
    <2> SUFFICES ASSUME more
                 PROVE  /\ page # {}
                        /\ \A k \in B : k \in page \/ k < least
                        /\ \E k \in B : k < least
      OBVIOUS
    <2>1. PICK m \in page : /\ \A k \in page : m <= k
                            /\ \A k \in B : k \in page \/ k < m
                            /\ \E k \in B : k < m
      BY <1>5
    <2>2. \A k \in page : least <= k
      BY <2>1
    <2>3. least \in page /\ least <= m /\ m <= least
      BY <2>1, <2>2, <1>8
    <2>4. m \in Nat /\ least \in Nat
      <3>1. page \in SUBSET Nat
        BY <1>4, <1>5 DEF MsgIds
      <3> HIDE DEF least
      <3> QED  BY <2>3, <3>1
    <2>5. m = least
      BY <2>3, <2>4
    <2> HIDE DEF least
    <2> QED  BY <2>1, <2>5
  <1>10. ~more => page = B
    BY <1>5
  <1> HIDE DEF more, least
  <1>11. book \in Book
    BY DEF BookSound
  <1>12. /\ book' \in Book
         /\ book'.chat = book.chat /\ book'.heard = book.heard
         /\ book'.step = IF more THEN "paging" ELSE "finished"
         /\ book'.cursor = IF page = {} THEN 0 ELSE least
         /\ book'.more = more
         /\ book'.got = book.got \union page
    <2>1. page \in SUBSET MsgIds /\ (page # {} => least \in MsgIds)
      BY <1>4, <1>5, <1>8
    <2>2. /\ book.step \in {"none", "opened", "paging", "finished"}
          /\ book.chat \in ChatIds \union {0} /\ book.got \in SUBSET MsgIds /\ book.heard \in Nat
          /\ book = [step |-> book.step, chat |-> book.chat, cursor |-> book.cursor,
                     more |-> book.more, got |-> book.got, heard |-> book.heard]
      BY <1>11 DEF Book
    <2>3. book' = [step |-> IF more THEN "paging" ELSE "finished", chat |-> book.chat,
                   cursor |-> IF page = {} THEN 0 ELSE least, more |-> more,
                   got |-> book.got \union page, heard |-> book.heard]
      BY <1>7, <2>2
    <2> QED  BY <1>6, <2>1, <2>2, <2>3 DEF Book
  <1>13. CASE more
    BY <1>1, <1>4, <1>5, <1>6, <1>7, <1>8, <1>9, <1>12, <1>13
  <1>14. CASE ~more
    BY <1>1, <1>5, <1>6, <1>7, <1>10, <1>12, <1>14
  <1> QED  BY <1>13, <1>14

\* Every step of the client keeps its book sound.
LEMMA BookStep == InboxSound /\ BookSound /\ [HistNext]_histVars => BookSound'
  <1> SUFFICES ASSUME InboxSound, BookSound, [HistNext]_histVars PROVE BookSound'
    OBVIOUS
  <1>1. CASE UNCHANGED book
    BY <1>1 DEF BookSound
  <1>2. ASSUME NEW c \in ChatIds, OpenChat(c)
        PROVE  BookSound'
    <2>1. PICK n : n = Len(inbox[Reader])
      OBVIOUS
    <2>2. book' = [step |-> "opened", chat |-> c, cursor |-> 0, more |-> FALSE, got |-> {}, heard |-> n]
      BY <1>2, <2>1 DEF OpenChat, NotOpen
    <2>3. n \in Nat
      <3>1. inbox[Reader] \in Seq(Event)
        BY ReaderAssumption, SessionAssumption DEF InboxSound
      <3> QED  BY <2>1, <3>1, LenProperties
    <2> QED  BY <2>2, <2>3 DEF BookSound, Book
  <1>3. CASE Paginate
    <2>1. /\ book' \in Book /\ book'.chat \in ChatIds
          /\ \/ book'.step = "finished" /\ book'.more = FALSE
             \/ book'.step = "paging" /\ book'.more = TRUE /\ book'.cursor \in MsgIds
      BY <1>3, PaginateIs DEF BookSound
    <2> QED  BY <2>1 DEF BookSound
  <1> QED  BY <1>1, <1>2, <1>3 DEF HistNext, histVars

\* What is written in a chat stays written.
LEMMA WrittenStays ==
  ASSUME StoreInv, [StoreNext]_storeVars, NEW m, NEW c, Written(m, c)
  PROVE  Written(m, c)'
  <1>1. PICK u, t : t # "NONE" /\ Settled(m, c, u, t)
    BY DEF Written
  <1>2. Settled(m, c, u, t)'
    BY <1>1, SettledStays
  <1> QED  BY <1>1, <1>2 DEF Written, Settled

\* The steps of the others leave the client with all it needs.
LEMMA ReadDownKept ==
  ASSUME StoreInv, BookSound, ReadDown, [StoreNext]_storeVars, UNCHANGED <<book, before>>
  PROVE  ReadDown'
  <1>1. PICK c, cursor : c = book.chat /\ cursor = book.cursor
    OBVIOUS
  <1>2. ASSUME NEW m \in before, book.step \in {"paging", "finished"}
        PROVE  Written(m, c)' /\ (m \in Visible(c)' => m \in Visible(c))
    <2>1. Written(m, c)
      BY <1>1, <1>2 DEF ReadDown
    <2>2. PICK u, t : Settled(m, c, u, t)
      BY <2>1 DEF Written
    <2> QED  BY <2>1, <2>2, WrittenStays, SettledWasSeen
  <1>3. ASSUME NEW m \in MsgIds, m < cursor, Written(m, c)
        PROVE  Written(m, c)'
    BY <1>3, WrittenStays
  <1>4. book' = book /\ before' = before /\ book'.chat = c /\ book'.cursor = cursor
    BY <1>1
  <1>5. ReadDown' <=>
          /\ book.step \in {"paging", "finished"} => \A m \in before : Written(m, c)'
          /\ book.step = "paging" =>
               /\ \A m \in before \cap Visible(c)' : m \in book.got \/ m < cursor
               /\ \E m \in MsgIds : m < cursor /\ Written(m, c)'
          /\ book.step = "finished" => before \cap Visible(c)' \subseteq book.got
    BY <1>4 DEF ReadDown, Written, Settled, Visible
  <1>6. ReadDown <=>
          /\ book.step \in {"paging", "finished"} => \A m \in before : Written(m, c)
          /\ book.step = "paging" =>
               /\ \A m \in before \cap Visible(c) : m \in book.got \/ m < cursor
               /\ \E m \in MsgIds : m < cursor /\ Written(m, c)
          /\ book.step = "finished" => before \cap Visible(c) \subseteq book.got
    BY <1>1 DEF ReadDown
  <1> QED  BY <1>2, <1>3, <1>5, <1>6

\* So does a request.
LEMMA ReadDownPage ==
  ASSUME StoreInv, BookSound, ReadDown, Paginate
  PROVE  ReadDown'
  <1>1. PICK c : c = book.chat
    OBVIOUS
  <1>2. /\ UNCHANGED vars
        /\ book.step \in {"opened", "paging"}
        /\ before' = IF book.step = "opened" THEN Visible(c) ELSE before
        /\ book'.chat = c
    BY <1>1, PaginateIs
  <1>3. PICK page \in SUBSET Below(c, book.cursor) :
          /\ book'.got = book.got \union page
          /\ \/ /\ book'.step = "finished" /\ book'.more = FALSE
                /\ page = Below(c, book.cursor)
             \/ /\ book'.step = "paging" /\ book'.more = TRUE /\ book'.cursor \in MsgIds
                /\ \A k \in Below(c, book.cursor) : k \in page \/ k < book'.cursor
                /\ \E k \in Below(c, book.cursor) : k < book'.cursor
    BY <1>1, PaginateIs
  <1>4. \A m \in Visible(c) : Written(m, c) /\ m \in MsgIds
    BY SeenIsSettled DEF Written, Visible
  <1>5. \A m \in before' \cap Visible(c) : m \in book.got \/ m \in Below(c, book.cursor)
    <2>1. CASE book.step = "opened"
      BY <1>2, <2>1 DEF BookSound, Below
    <2>2. CASE book.step = "paging"
      BY <1>1, <1>2, <2>2 DEF ReadDown, Below
    <2> QED  BY <1>2, <2>1, <2>2
  <1>6. \A m \in before' : Written(m, c)
    BY <1>1, <1>2, <1>4 DEF ReadDown
  <1>7. ReadDown' <=>
          /\ book'.step \in {"paging", "finished"} => \A m \in before' : Written(m, c)
          /\ book'.step = "paging" =>
               /\ \A m \in before' \cap Visible(c) : m \in book'.got \/ m < book'.cursor
               /\ \E m \in MsgIds : m < book'.cursor /\ Written(m, c)
          /\ book'.step = "finished" => before' \cap Visible(c) \subseteq book'.got
    BY <1>2 DEF ReadDown, Written, Settled, Visible, Exists, Posting, vars, storeVars
  <1>8. CASE book'.step = "finished" /\ page = Below(c, book.cursor)
    BY <1>3, <1>5, <1>6, <1>7, <1>8
  <1>9. CASE /\ book'.step = "paging"
             /\ \A k \in Below(c, book.cursor) : k \in page \/ k < book'.cursor
             /\ \E k \in Below(c, book.cursor) : k < book'.cursor
    <2>1. PICK k \in Below(c, book.cursor) : k < book'.cursor
      BY <1>9
    <2>2. k \in MsgIds /\ Written(k, c)
      BY <1>4 DEF Below
    <2>3. \A m \in before' \cap Visible(c) : m \in book'.got \/ m < book'.cursor
      BY <1>3, <1>5, <1>9
    <2> QED  BY <1>6, <1>7, <1>9, <2>1, <2>2, <2>3
  <1> QED  BY <1>3, <1>8, <1>9

-----------------------------------------------------------------------------
(* Who is addressed *)

\* User u has left chat c, as far as its messages tell
Gone(u, c) == \E k \in Visible(c) : messages[k].from = u /\ messages[k].type \in LeaveTypes

\* Who has a status row for a message is a member of its chat, or has left it
AddressedStay ==
  \A m \in MsgIds, u \in Users :
    status[m][u] # "NONE" => members[messages[m].chat][u] # "NONE" \/ Gone(u, messages[m].chat)

\* Nobody gets a status row for a message that is already visible.
LEMMA RowsKept ==
  ASSUME StoreInv, [StoreNext]_storeVars, NEW m \in MsgIds, NEW u \in Users,
         messages[m].type # "NONE", status'[m][u] # "NONE"
  PROVE  status[m][u] # "NONE"
  <1>1. CASE status' = status
    BY <1>1
  <1>2. ASSUME NEW w \in Workers, Posting(w), CommitPost(w)
        PROVE  status[m][u] # "NONE"
    <2>1. Shows(w)
      BY <1>2, CommitEffect DEF StoreInv
    <2> QED  BY <2>1 DEF Shows
  <1>3. ASSUME NEW w \in Workers, NEW c \in ChatIds, NEW a \in Users, DeleteGroupChat(w, c, a)
        PROVE  status[m][u] # "NONE"
    BY <1>3 DEF DeleteGroupChat
  <1>4. ASSUME NEW c \in ChatIds, NEW a \in Users, NEW k \in MsgIds, SetReadAtStatus(k, c, a)
        PROVE  status[m][u] # "NONE"
    BY <1>4 DEF SetReadAtStatus
  <1> QED
    BY <1>1, <1>2, <1>3, <1>4, ZenonT(60)
    DEF StoreNext, storeVars, NewMessageInsert, NewGroupChatMemberInsert,
        DeleteGroupMemberDelete, Post, SelectMembers, NewGroupChat, PrivateChatMissing,
        NewMessageCommit, NewGroupChatMemberCommit, DeleteGroupMemberCommit, PrivateChatCreate, Posting,
        PrivateChatWithSelf, Rollback, ChangeGroupChatMemberRole

\* The message of a departure stays while the chat is there.
LEMMA GoneStays ==
  ASSUME StoreInv, [StoreNext]_storeVars, NEW u, NEW c, Gone(u, c), Exists(c)'
  PROVE  Gone(u, c)'
  <1>1. PICK k \in Visible(c) : messages[k].from = u /\ messages[k].type \in LeaveTypes
    BY DEF Gone
  <1>2. k \in Visible(c)' /\ messages'[k] = messages[k]
    BY SeenStays
  <1> QED  BY <1>1, <1>2 DEF Gone

\* Who is a member before a step is one after it, or has left, if the chat is there.
LEMMA MemberStays ==
  ASSUME StoreInv, [StoreNext]_storeVars, NEW u \in Users, NEW c \in ChatIds,
         Exists(c), Exists(c)', members[c][u] # "NONE"
  PROVE  members'[c][u] # "NONE" \/ Gone(u, c)'
  <1>1. CASE members'[c][u] # "NONE"
    BY <1>1
  <1>2. CASE members'[c][u] = "NONE"
    <2>1. PostsChange
      BY StepProperties
    <2>2. PICK m \in MsgIds : /\ Committed(m)
                              /\ messages'[m].chat = c /\ messages'[m].from = u
                              /\ messages'[m].type \in LeaveTypes
      BY <1>2, <2>1 DEF PostsChange, Exists
    <2>3. m \in Visible(c)'
      BY <2>2 DEF Committed, Visible
    <2> QED  BY <2>2, <2>3 DEF Gone
  <1> QED  BY <1>1, <1>2

\* Every step of the store keeps it so.
LEMMA AddressedStayStep ==
  StoreInv /\ AddressedStay /\ [StoreNext]_storeVars => AddressedStay'
  <1> SUFFICES ASSUME StoreInv, AddressedStay, [StoreNext]_storeVars,
                      NEW m \in MsgIds, NEW u \in Users, status'[m][u] # "NONE"
               PROVE  \/ members'[messages'[m].chat][u] # "NONE"
                      \/ Gone(u, messages[m].chat)'
    BY DEF AddressedStay, Gone, Visible
  <1>1. PICK c : c = messages'[m].chat
    OBVIOUS
  <1>2. messages'[m].type # "NONE" /\ c \in ChatIds /\ Exists(c)'
    BY <1>1, StoreInvStep DEF StoreInv, Integrity
  <1>3. members'[c][u] # "NONE" \/ Gone(u, c)'
    <2>1. CASE messages[m].type # "NONE"
      <3>1. messages'[m] = messages[m]
        BY <1>2, <2>1, SeenIsSame
      <3>2. status[m][u] # "NONE" /\ messages[m].chat = c /\ Exists(c)
        BY <1>1, <2>1, <3>1, RowsKept DEF StoreInv, Integrity
      <3>3. members[c][u] # "NONE" \/ Gone(u, c)
        BY <3>2 DEF AddressedStay
      <3> QED  BY <1>2, <3>2, <3>3, MemberStays, GoneStays
    <2>2. CASE messages[m].type = "NONE"
      <3>1. Committed(m) /\ Addresses
        BY <1>2, <2>2, StepProperties DEF Committed
      <3>2. members[c][u] # "NONE"
        BY <1>1, <3>1 DEF Addresses, MembersOf
      <3>3. Exists(c)
        BY <1>2, <3>2 DEF StoreInv, Integrity
      <3> QED  BY <1>2, <3>2, <3>3, MemberStays
    <2> QED  BY <2>1, <2>2
  <1> QED  BY <1>1, <1>3 DEF Gone, Visible

-----------------------------------------------------------------------------
(* What the pages miss is told *)

\* The event about message m came after the client had opened the chat
HeardOf(m) ==
  \E i \in (book.heard + 1)..Len(inbox[Reader]) :
    /\ inbox[Reader][i].type \in {"new_message", "message_confirmed"}
    /\ inbox[Reader][i].msg = m

\* Message m is the reader's own or addressed to him
Concerns(m) ==
  messages[m].type = "new_message" /\ (messages[m].from = Reader \/ status[m][Reader] # "NONE")

\* The handler of s will tell the reader of message m
Waits(s, m) ==
  /\ Telling(sess[s]) /\ sess[s].msg = m
  /\ IF UserOf[s] = Reader THEN At(s, "confirm") ELSE Due(s, Reader)

Listens == book.heard <= Len(inbox[Reader])

NoneMissed ==
  ~Faults /\ book.step \in {"paging", "finished"} /\ NeverLeft =>
    \A m \in Visible(book.chat) : Concerns(m) =>
      m \in before \/ HeardOf(m) \/ \E s \in Sessions : Waits(s, m)

\* What has been heard of stays heard.
LEMMA HeardStays ==
  ASSUME InboxSound, SessionsSound, SessionsSound', [Next]_vars, BookSound, Listens,
         UNCHANGED book
  PROVE  Listens' /\ \A m : HeardOf(m) => HeardOf(m)'
  <1>0. Reader \in Users /\ book.heard \in Nat /\ inbox \in [Users -> Seq(Event)]
    BY ReaderAssumption, SessionAssumption DEF InboxSound, BookSound, Book
  <1>1. CASE inbox' = inbox
    BY <1>1 DEF Listens, HeardOf
  <1>2. ASSUME NEW v \in Users, NEW e \in Event, Published(v, e)
        PROVE  Listens' /\ \A m : HeardOf(m) => HeardOf(m)'
    <2>1. CASE v # Reader
      <3>1. inbox'[Reader] = inbox[Reader]
        BY <1>0, <1>2, <2>1, PublishedLast
      <3> QED  BY <3>1 DEF Listens, HeardOf
    <2>2. CASE v = Reader
      <3>1. PICK k : k = Len(inbox[Reader])
        OBVIOUS
      <3>2. /\ k \in Nat /\ DOMAIN inbox'[Reader] = 1..(k + 1)
            /\ \A i \in 1..k : inbox'[Reader][i] = inbox[Reader][i]
            /\ inbox' \in [Users -> Seq(Event)]
        <4>1. /\ k \in Nat /\ DOMAIN inbox'[Reader] = 1..(k + 1)
              /\ \A i \in DOMAIN inbox'[Reader] :
                   inbox'[Reader][i] = IF i = k + 1 THEN e ELSE inbox[Reader][i]
              /\ inbox' \in [Users -> Seq(Event)]
          BY <1>0, <1>2, <2>2, <3>1, PublishedLast
        <4> QED  BY <4>1
      <3>3. Len(inbox'[Reader]) = k + 1
        <4>1. inbox'[Reader] \in Seq(Event)
          BY <1>0, <3>2
        <4>2. /\ Len(inbox'[Reader]) \in Nat
              /\ DOMAIN inbox'[Reader] = 1..Len(inbox'[Reader])
          BY <4>1, LenProperties
        <4>3. PICK n \in Nat : n = Len(inbox'[Reader])
          BY <4>2
        <4>4. 1..n = 1..(k + 1)
          BY <3>2, <4>2, <4>3
        <4>5. n = k + 1
          BY ONLY <3>2, <4>4, n \in Nat
        <4> QED  BY <4>3, <4>5
      <3>4. ASSUME NEW m, HeardOf(m)
            PROVE  HeardOf(m)'
        <4>1. PICK i \in (book.heard + 1)..k :
                /\ inbox[Reader][i].type \in {"new_message", "message_confirmed"}
                /\ inbox[Reader][i].msg = m
          BY <3>1, <3>4 DEF HeardOf
        <4>2. i \in 1..k /\ i \in (book.heard + 1)..(k + 1)
          BY <1>0, <3>2
        <4> QED  BY <3>2, <3>3, <4>1, <4>2 DEF HeardOf
      <3>5. Listens'
        BY <1>0, <3>1, <3>2, <3>3 DEF Listens
      <3> QED  BY <3>4, <3>5
    <2> QED  BY <2>1, <2>2
  <1> QED  BY <1>1, <1>2, OneEvent

\* What is published for the reader is heard.
LEMMA PublishedIsHeard ==
  ASSUME InboxSound, BookSound, Listens, UNCHANGED book, NEW e \in Event, Published(Reader, e),
         e.type \in {"new_message", "message_confirmed"}, NEW m, e.msg = m
  PROVE  HeardOf(m)'
  <1>0. Reader \in Users /\ book.heard \in Nat /\ inbox \in [Users -> Seq(Event)]
    BY ReaderAssumption, SessionAssumption DEF InboxSound, BookSound, Book
  <1>1. PICK k : k = Len(inbox[Reader])
    OBVIOUS
  <1>2. inbox[Reader] \in Seq(Event) /\ inbox'[Reader] = Append(inbox[Reader], e)
    BY <1>0 DEF Published
  <1>3. /\ k \in Nat /\ Len(inbox'[Reader]) = k + 1 /\ inbox'[Reader][k + 1] = e
    BY <1>1, <1>2, AppendProperties, LenProperties
  <1>4. k + 1 \in (book.heard + 1)..(k + 1)
    BY <1>0, <1>1, <1>3 DEF Listens
  <1> QED  BY <1>3, <1>4 DEF HeardOf

\* The handler of a connection is moved by its own steps only.
LEMMA OwnSteps ==
  ASSUME [Next]_vars, NEW s \in Sessions, sess'[s] # sess[s]
  PROVE  SessionStep(s)
  <1>1. ASSUME NEW x \in Sessions, x # s, SessionStep(x)
        PROVE  FALSE
    <2>1. ASSUME NEW l, sess' = [sess EXCEPT ![x] = l]
          PROVE  FALSE
      BY <1>1, <2>1
    <2>2. ASSUME \/ \E c \in ChatIds : ReceiveSend(x, c)
                 \/ \E v \in Users : ReceiveSendPrivate(x, v)
                 \/ \E c \in ChatIds, m \in MsgIds : ReceiveRead(x, c, m)
          PROVE  FALSE
      BY <2>1, <2>2 DEF ReceiveSend, ReceiveSendPrivate, ReceiveRead, Continue
    <2>3. ASSUME NEW c \in ChatIds, NEW m \in MsgIds, ReceiveDelivered(x, c, m)
          PROVE  FALSE
      BY <2>3, DeliveredNeverPrepares DEF ReceiveDelivered
    <2>4. CASE Handle(x)
      BY <2>1, <2>4
      DEF Handle, CreateChat, ProduceNewChat, InsertMessage, SelectForMessage, CommitMessage,
          ProduceConfirmed, ReadMembers, Fanout, HandlerFails, Continue, Done
    <2> QED  BY <1>1, <2>2, <2>3, <2>4 DEF SessionStep
  <1> QED  BY <1>1 DEF Next, GroupCall, vars

\* A message becomes visible by the commit of the handler of its author.
LEMMA CommittedBy ==
  ASSUME StoreInv, [Next]_vars, NEW m \in MsgIds,
         Committed(m), messages'[m].type = "new_message"
  PROVE  \E s \in Sessions : CommitMessage(s) /\ tx[s].msg = m
  <1>0. TypeOK /\ TxInv
    BY DEF StoreInv
  <1>1. ASSUME NEW s \in Sessions, CommitMessage(s)
        PROVE  tx[s].msg = m
    <2>1. s \in Workers /\ Posting(s) /\ CommitPost(s)
      BY <1>1, SessionAssumption DEF CommitMessage, NewMessageCommit, Posting
    <2>2. Shows(s)
      BY <1>0, <2>1, CommitEffect
    <2> QED  BY <2>2 DEF Shows, Committed
  <1>2. ASSUME NEW w \in Workers, NewGroupChatMemberCommit(w) \/ DeleteGroupMemberCommit(w)
        PROVE  FALSE
    <2>1. Posting(w) /\ CommitPost(w) /\ tx[w].type # "new_message"
      BY <1>0, <1>2
      DEF NewGroupChatMemberCommit, DeleteGroupMemberCommit, Posting, TxInv, TypesAgree, LeaveTypes
    <2>2. Shows(w)
      BY <1>0, <2>1, CommitEffect
    <2> QED  BY <2>1, <2>2 DEF Shows, Committed
  <1>3. ASSUME NEW w \in Workers, NEW c \in ChatIds, NEW u \in Users, DeleteGroupChat(w, c, u)
        PROVE  FALSE
    BY <1>3 DEF DeleteGroupChat, Committed, NoMessage
  <1>4. CASE messages' = messages
    BY <1>4 DEF Committed
  <1>5. ASSUME NEW s \in Sessions, SessionStep(s), ~CommitMessage(s)
        PROVE  messages' = messages
    <2>1. CASE Handle(s)
      BY <1>5, <2>1
      DEF Handle, CreateChat, PrivateChatCreate, PrivateChatWithSelf, ProduceNewChat,
          InsertMessage, NewMessageInsert, Post, SelectForMessage, SelectMembers,
          ProduceConfirmed, ReadMembers, Fanout, HandlerFails, Rollback, storeVars
    <2>2. ASSUME NEW c \in ChatIds, NEW k \in MsgIds, ReceiveRead(s, c, k) \/ ReceiveDelivered(s, c, k)
          PROVE  messages' = messages
      BY <2>2, DeliveredNeverPrepares
      DEF ReceiveRead, SetReadAtStatus, ReceiveDelivered, storeVars
    <2>3. ASSUME \/ \E c \in ChatIds : ReceiveSend(s, c)
                 \/ \E v \in Users : ReceiveSendPrivate(s, v)
          PROVE  messages' = messages
      BY <2>3 DEF ReceiveSend, ReceiveSendPrivate, PrivateChatMissing, storeVars
    <2> QED  BY <1>5, <2>1, <2>2, <2>3 DEF SessionStep
  <1>6. ASSUME NEW w \in Workers, GroupCall(w),
               ~(NewGroupChatMemberCommit(w) \/ DeleteGroupMemberCommit(w)),
               ~(\E c \in ChatIds, u \in Users : DeleteGroupChat(w, c, u))
        PROVE  messages' = messages
    BY <1>6
    DEF GroupCall, NewGroupChat, NewGroupChatMemberInsert, DeleteGroupMemberDelete, Post,
        SelectMembers, ChangeGroupChatMemberRole, Rollback
  <1>7. CASE UNCHANGED vars
    BY <1>4, <1>7 DEF vars, storeVars
  <1> QED  BY <1>1, <1>2, <1>3, <1>4, <1>5, <1>6, <1>7 DEF Next

\* Until the reader has been told, the handler is going to tell him.
LEMMA WaitsStep ==
  ASSUME RtInv, SessionsSound', AddressedStay, BookSound, Listens, UNCHANGED book, ~Faults,
         [Next]_vars, NeverLeft, NEW m \in Visible(book.chat), Concerns(m),
         NEW s \in Sessions, Waits(s, m)
  PROVE  Waits(s, m)' \/ HeardOf(m)'
  <1>0. /\ Reader \in Reachable /\ Reader \in Users /\ UserOf[s] \in Users
        /\ InboxSound /\ SessionsSound /\ StoreInv
    BY ReaderAssumption, SessionAssumption DEF RtInv
  <1>1. /\ sess[s] \in Session /\ sess[s].step \in {"confirm", "members", "fanout"}
        /\ sess[s].type = "new_message" /\ sess[s].msg = m /\ m \in MsgIds
        /\ sess[s].chat \in ChatIds
    BY <1>0 DEF Waits, Telling, SessionsSound, Sound
  <1>2. sess[s].chat = book.chat /\ messages[m].from = UserOf[s]
    <2>1. Settled(m, sess[s].chat, UserOf[s], "new_message")
      BY <1>1 DEF RtInv, TellersSound, Said, Waits
    <2>2. messages[m].type # "NONE" /\ messages[m].chat = book.chat
      BY DEF Visible
    <2> QED  BY <2>1, <2>2 DEF Settled, NoMessage
  <1>3. ASSUME sess'[s] = sess[s]
        PROVE  Waits(s, m)'
    BY <1>3 DEF Waits, Telling, Due, At
  <1>4. CASE ProduceConfirmed(s)
    <2> DEFINE e == [type |-> "message_confirmed", chat |-> sess[s].chat, msg |-> sess[s].msg,
                     from |-> UserOf[s]]
    <2>1. CASE UserOf[s] = Reader
      <3>1. e \in Event /\ e.type = "message_confirmed" /\ e.msg = m
        BY <1>0, <1>1 DEF Event
      <3>2. Published(Reader, e)
        BY <1>0, <1>4, <2>1 DEF ProduceConfirmed, Produce, Published
      <3> HIDE DEF e
      <3> QED  BY <1>0, <3>1, <3>2, PublishedIsHeard
    <2>2. CASE UserOf[s] # Reader
      <3>1. sess'[s] = [sess[s] EXCEPT !.step = "members"]
        BY <1>0, <1>4 DEF ProduceConfirmed, Continue, SessionsSound
      <3>2. sess'[s].step = "members" /\ sess'[s].type = "new_message" /\ sess'[s].msg = m
        BY <1>1, <3>1 DEF Session
      <3> QED  BY <2>2, <3>2 DEF Waits, Telling, Due, At
    <2> QED  BY <2>1, <2>2
  <1>5. CASE ReadMembers(s)
    <2>1. sess[s].step = "members" /\ UserOf[s] # Reader
      BY <1>5 DEF ReadMembers, Waits, At
    <2>2. status[m][Reader] # "NONE" /\ ~Gone(Reader, book.chat)
      BY <1>2, <2>1 DEF Concerns, NeverLeft, Gone
    <2>3. Reader \in MembersOf(sess[s].chat)
      BY <1>0, <1>1, <1>2, <2>2 DEF AddressedStay, MembersOf, Visible
    <2>4. PICK todo : /\ todo = MembersOf(sess[s].chat) \ {UserOf[s]}
                      /\ Reader \in todo
      BY <2>1, <2>3
    <2>5. sess'[s] = [sess[s] EXCEPT !.step = "fanout", !.todo = todo]
      BY <1>0, <1>1, <1>5, <2>4 DEF ReadMembers, Continue, SessionsSound
    <2>6. /\ sess'[s].step = "fanout" /\ sess'[s].todo = todo
          /\ sess'[s].type = "new_message" /\ sess'[s].msg = m
      BY <1>1, <2>5 DEF Session
    <2> QED  BY <2>1, <2>4, <2>6 DEF Waits, Telling, Due, At
  <1>6. ASSUME NEW v \in Users, Fanout(s, v)
        PROVE  Waits(s, m)' \/ HeardOf(m)'
    <2>1. sess[s].step = "fanout" /\ UserOf[s] # Reader /\ Reader \in sess[s].todo
      BY <1>6 DEF Fanout, Waits, Due, At
    <2> DEFINE e == [type |-> sess[s].type, chat |-> sess[s].chat, msg |-> sess[s].msg,
                     from |-> UserOf[s]]
    <2>2. CASE v = Reader
      <3>1. e \in Event /\ e.type = "new_message" /\ e.msg = m
        BY <1>0, <1>1 DEF Event, FanoutTypes
      <3>2. Published(Reader, e)
        BY <1>0, <1>6, <2>2 DEF Fanout, Produce, Published
      <3> HIDE DEF e
      <3> QED  BY <1>0, <3>1, <3>2, PublishedIsHeard
    <2>3. CASE v # Reader
      <3>1. sess'[s] = [sess[s] EXCEPT !.todo = @ \ {v}]
        BY <1>0, <1>6, <2>1, <2>3 DEF Fanout, Continue, SessionsSound
      <3>2. /\ sess'[s].step = "fanout" /\ sess'[s].todo = sess[s].todo \ {v}
            /\ sess'[s].type = "new_message" /\ sess'[s].msg = m
        BY <1>1, <2>1, <3>1 DEF Session
      <3> QED  BY <2>1, <2>3, <3>2 DEF Waits, Telling, Due, At
    <2> QED  BY <2>2, <2>3
  <1>7. CASE HandlerFails(s)
    BY <1>1, <1>7 DEF HandlerFails, At
  <1>8. ASSUME SessionStep(s)
        PROVE  \/ ProduceConfirmed(s) \/ ReadMembers(s) \/ HandlerFails(s)
               \/ \E v \in Users : Fanout(s, v)
    BY <1>1, <1>8
    DEF SessionStep, Handle, ReceiveSend, ReceiveSendPrivate, ReceiveRead, ReceiveDelivered,
        Receive, CreateChat, ProduceNewChat, InsertMessage, SelectForMessage, CommitMessage, At
  <1> QED  BY <1>3, <1>4, <1>5, <1>6, <1>7, <1>8, OwnSteps

\* The steps of the others keep the reader told, or about to be.
LEMMA NoneMissedKept ==
  ASSUME RtInv, RtInv', AddressedStay, BookSound, Listens, NoneMissed, [Next]_vars,
         UNCHANGED <<book, before>>
  PROVE  NoneMissed'
  <1>1. PICK c : c = book.chat
    OBVIOUS
  <1>2. /\ StoreInv /\ StoreInv' /\ SessionsSound /\ SessionsSound' /\ InboxSound
        /\ [StoreNext]_storeVars /\ Reader \in Users
    BY NextCallsStore, ReaderAssumption, SessionAssumption DEF RtInv
  <1>3. ASSUME ~Faults, book.step \in {"paging", "finished"}, ~Gone(Reader, c)',
               NEW m \in Visible(c)', Concerns(m)'
        PROVE  m \in before \/ HeardOf(m)' \/ \E s \in Sessions : Waits(s, m)'
    <2>1. m \in MsgIds /\ messages'[m].type = "new_message" /\ messages'[m].chat = c /\ Exists(c)'
      BY <1>2, <1>3 DEF Visible, Concerns, StoreInv, Integrity
    <2>2. NeverLeft
      BY <1>1, <1>2, <1>3, <2>1, GoneStays DEF NeverLeft, Gone
    <2>3. CASE messages[m].type # "NONE"
      <3>1. messages'[m] = messages[m]
        BY <1>2, <2>1, <2>3, SeenIsSame
      <3>2. m \in Visible(c)
        BY <2>1, <3>1 DEF Visible
      <3>3. Concerns(m)
        BY <1>2, <1>3, <2>1, <2>3, <3>1, RowsKept DEF Concerns
      <3>4. m \in before \/ HeardOf(m) \/ \E s \in Sessions : Waits(s, m)
        BY <1>1, <1>3, <2>2, <3>2, <3>3 DEF NoneMissed
      <3>5. HeardOf(m) => HeardOf(m)'
        BY <1>2, HeardStays
      <3>6. ASSUME NEW s \in Sessions, Waits(s, m)
            PROVE  Waits(s, m)' \/ HeardOf(m)'
        BY <1>1, <1>2, <1>3, <2>2, <3>2, <3>3, <3>6, WaitsStep
      <3> QED  BY <3>4, <3>5, <3>6
    <2>4. CASE messages[m].type = "NONE"
      <3>1. PICK s \in Sessions : CommitMessage(s) /\ tx[s].msg = m
        BY <1>2, <2>1, <2>4, CommittedBy DEF Committed
      <3>2. sess'[s] = [sess[s] EXCEPT !.step = "confirm", !.msg = m] /\ sess[s] \in Session
        BY <1>2, <3>1 DEF CommitMessage, Continue, SessionsSound
      <3>3. sess'[s].step = "confirm" /\ sess'[s].msg = m
        BY <3>2 DEF Session
      <3>4. Waits(s, m)'
        BY <3>3 DEF Waits, Telling, Due, At
      <3> QED  BY <3>4
    <2> QED  BY <2>3, <2>4
  <1>4. book' = book /\ before' = before /\ book'.chat = c
    BY <1>1
  <1>5. NoneMissed' <=>
          (~Faults /\ book.step \in {"paging", "finished"} /\ ~Gone(Reader, c)' =>
             \A m \in Visible(c)' : Concerns(m)' =>
               m \in before \/ HeardOf(m)' \/ \E s \in Sessions : Waits(s, m)')
    BY <1>4 DEF NoneMissed, NeverLeft, Gone, Visible, Concerns, HeardOf
  <1> QED  BY <1>3, <1>5

\* What the client does itself never makes it miss a message: those that are visible at
\* its first request count as being there before.
LEMMA NoneMissedPage ==
  ASSUME BookSound, NoneMissed, Paginate
  PROVE  NoneMissed'
  <1>1. /\ UNCHANGED vars /\ book.step \in {"opened", "paging"}
        /\ book'.chat = book.chat /\ book'.heard = book.heard
        /\ before' = IF book.step = "opened" THEN Visible(book.chat) ELSE before
    BY PaginateIs
  <1>2. UNCHANGED <<messages, status, sess, inbox>>
    BY <1>1 DEF vars, storeVars
  <1>3. CASE book.step = "opened"
    <2>1. before' = Visible(book.chat)'
      BY <1>1, <1>2, <1>3 DEF Visible
    <2> QED  BY <2>1 DEF NoneMissed
  <1>4. CASE book.step = "paging"
    <2>1. NeverLeft' <=> NeverLeft
      BY <1>1, <1>2 DEF NeverLeft, Visible
    <2>2. before' = before /\ Visible(book.chat)' = Visible(book.chat)
      BY <1>1, <1>2, <1>4 DEF Visible
    <2>3. \A m : /\ Concerns(m)' <=> Concerns(m)
                 /\ HeardOf(m)' <=> HeardOf(m)
                 /\ \A s \in Sessions : Waits(s, m)' <=> Waits(s, m)
      BY <1>1, <1>2 DEF Concerns, HeardOf, Waits, Telling, Due, At
    <2> QED  BY <1>4, <2>1, <2>2, <2>3 DEF NoneMissed
  <1> QED  BY <1>1, <1>3, <1>4

-----------------------------------------------------------------------------
(* The theorems *)

\* The inductive invariant: that of the service, and how far the client has come
HistInv ==
  /\ RtInv
  /\ AddressedStay
  /\ BookSound
  /\ ReadDown
  /\ Listens
  /\ NoneMissed

\* It holds at the start.
LEMMA HistInvInit == HistInit => HistInv
  <1> SUFFICES ASSUME HistInit PROVE HistInv
    OBVIOUS
  <1>1. RtInv
    BY RtInvInit DEF HistInit
  <1>2. AddressedStay
    BY DEF HistInit, Init, StoreInit, AddressedStay
  <1>3. /\ book = [step |-> "none", chat |-> 0, cursor |-> 0, more |-> FALSE, got |-> {}, heard |-> 0]
    BY DEF HistInit, NotOpen
  <1>4. BookSound /\ ReadDown /\ NoneMissed
    BY <1>3 DEF BookSound, Book, ReadDown, NoneMissed
  <1>5. Listens
    <2>1. Len(inbox[Reader]) \in Nat
      BY <1>1, ReaderAssumption, SessionAssumption, LenProperties DEF RtInv, InboxSound
    <2> QED  BY <1>3, <2>1 DEF Listens
  <1> QED  BY <1>1, <1>2, <1>4, <1>5 DEF HistInv

\* Every step keeps it, of the service and of the client.
LEMMA HistInvStep == HistInv /\ [HistNext]_histVars => HistInv'
  <1> SUFFICES ASSUME HistInv, [HistNext]_histVars PROVE HistInv'
    OBVIOUS
  <1> USE DEF HistInv
  <1>1. [Next]_vars
    BY DEF HistNext, histVars, OpenChat, Paginate
  <1>2. RtInv' /\ BookSound'
    BY <1>1, RtInvStep, BookStep DEF RtInv
  <1>3. AddressedStay' /\ [StoreNext]_storeVars
    BY <1>1, NextCallsStore, AddressedStayStep DEF RtInv
  <1>4. CASE UNCHANGED <<book, before>>
    <2>1. ReadDown'
      BY <1>3, <1>4, ReadDownKept DEF RtInv
    <2>2. Listens'
      BY <1>1, <1>2, <1>4, HeardStays DEF RtInv
    <2>3. NoneMissed'
      BY <1>1, <1>2, <1>4, NoneMissedKept
    <2> QED  BY <1>2, <1>3, <2>1, <2>2, <2>3
  <1>5. ASSUME NEW c \in ChatIds, OpenChat(c)
        PROVE  HistInv'
    <2>1. PICK n : n = Len(inbox[Reader])
      OBVIOUS
    <2>2. /\ book' = [step |-> "opened", chat |-> c, cursor |-> 0, more |-> FALSE, got |-> {}, heard |-> n]
          /\ UNCHANGED vars
      BY <1>5, <2>1 DEF OpenChat, NotOpen
    <2>3. n \in Nat /\ inbox' = inbox
      <3>1. Len(inbox[Reader]) \in Nat
        BY ReaderAssumption, SessionAssumption, LenProperties DEF RtInv, InboxSound
      <3> QED  BY <2>1, <2>2, <3>1 DEF vars
    <2>4. ReadDown' /\ Listens' /\ NoneMissed'
      BY <2>1, <2>2, <2>3 DEF ReadDown, Listens, NoneMissed
    <2> QED  BY <1>2, <1>3, <2>4
  <1>6. CASE Paginate
    <2>1. ReadDown' /\ NoneMissed'
      BY <1>6, ReadDownPage, NoneMissedPage DEF RtInv
    <2>2. Listens'
      BY <1>6, PaginateIs DEF Listens, vars
    <2> QED  BY <1>2, <1>3, <2>1, <2>2
  <1> HIDE DEF HistInv
  <1> QED  BY <1>4, <1>5, <1>6 DEF HistNext, histVars

\* The invariant holds in every state.
THEOREM HistInvCorrect == HistSpec => []HistInv
  BY HistInvInit, HistInvStep, PTL DEF HistSpec

\* Who has read to the end has all that was there when he began and still is.
THEOREM HistoryCompleteCorrect == HistSpec => []HistoryComplete
  <1>1. HistInv => HistoryComplete
    BY DEF HistInv, ReadDown, HistoryComplete
  <1> QED  BY <1>1, HistInvCorrect, PTL

\* While has_more says so there is something below the cursor, if the chat is there.
THEOREM MoreIsThereCorrect == HistSpec => []MoreIsThere
  <1>1. ASSUME HistInv, book.more, Exists(book.chat)
        PROVE  Below(book.chat, book.cursor) # {}
    <2>1. PICK m \in MsgIds : m < book.cursor /\ Written(m, book.chat)
      BY <1>1 DEF HistInv, BookSound, ReadDown
    <2>2. m \in Visible(book.chat)
      BY <1>1, <2>1 DEF Written, Settled, Visible
    <2> QED  BY <2>1, <2>2 DEF Below
  <1>2. HistInv => MoreIsThere
    BY <1>1 DEF MoreIsThere
  <1> QED  BY <1>2, HistInvCorrect, PTL

\* When no call fails, the pages and the events together bring the reader every
\* message of the chat that is his own or addressed to him, as long as he stays in it.
THEOREM NothingMissedCorrect == HistSpec => []NothingMissed
  <1>1. ASSUME HistInv, ~Faults, book.step = "finished", NeverLeft,
               \A s \in Sessions : At(s, "idle"),
               NEW m \in Visible(book.chat), Concerns(m)
        PROVE  m \in book.got \/ HeardOf(m)
    <2>1. m \in before \/ HeardOf(m) \/ \E s \in Sessions : Waits(s, m)
      BY <1>1 DEF HistInv, NoneMissed
    <2>2. \A s \in Sessions : ~Waits(s, m)
      BY <1>1 DEF Waits, Telling, At
    <2>3. m \in before => m \in book.got
      BY <1>1 DEF HistInv, ReadDown
    <2> QED  BY <2>1, <2>2, <2>3
  <1>2. HistInv => NothingMissed
    BY <1>1 DEF NothingMissed, Concerns, HeardOf
  <1> QED  BY <1>2, HistInvCorrect, PTL
=============================================================================
